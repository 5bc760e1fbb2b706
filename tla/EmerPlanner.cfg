\* Three messages in any order over the three topics, a worker thread for each.
SPECIFICATION Spec
CONSTANTS
  a = a
  c = c
  NoPose = NoPose
  Torn = Torn
  Poses = {a, c}
  CircleRing <- Ring2
  SquareRing <- Ring1
  DrawingPaths <- Drawings
  MaxJobs = 3
  QueueDepth = 2
  MaxPublished = 3
INVARIANTS TypeOK OneWorker StopBoundsMotion StopAttribution OwnPlan EndsWithStatus
PROPERTIES ServiceSpec Quiesces
CHECK_DEADLOCK FALSE
