\* Two clients, a ring of two nodes, ids that wrap.
SPECIFICATION Spec
CONSTANTS
  NoOne = NoOne
  c1 = c1
  c2 = c2
  Clients <- TwoClients
  Total = 2
  MaxId = 3
  MaxRequests = 5
INVARIANTS TypeOK OwnAnswer FiledUnderOwnId RingIsFifo PortSurvives
PROPERTIES CommandsReturn
CHECK_DEADLOCK FALSE
