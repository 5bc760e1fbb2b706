\* Two callers, two ids that are used again, one fault.
SPECIFICATION Spec
CONSTANTS
  c1 = c1
  c2 = c2
  Callers <- TwoCallers
  TransIds <- TwoIds
  MaxMoves = 2
  MaxOrders = 2
  MaxFaults = 1
INVARIANTS TypeOK OwnFeedback
CHECK_DEADLOCK FALSE
PROPERTIES CallsReturn
