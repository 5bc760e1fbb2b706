\* Expected violation: stop_requested_ is cleared before the status is chosen.
SPECIFICATION Spec
CONSTANTS
  a = a
  c = c
  NoPose = NoPose
  Torn = Torn
  Poses = {a, c}
  CircleRing <- Ring1
  SquareRing <- Ring1
  DrawingPaths <- Drawings2
  MaxJobs = 2
  QueueDepth = 2
  MaxPublished = 2
INVARIANTS StatusTruthful
CHECK_DEADLOCK FALSE
