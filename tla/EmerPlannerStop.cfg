\* Motions need not end by themselves; no queue overflows.
SPECIFICATION LongMotionSpec
CONSTANTS
  a = a
  c = c
  NoPose = NoPose
  Torn = Torn
  Poses = {a, c}
  CircleRing <- Ring1
  SquareRing <- Ring1
  DrawingPaths <- Drawings2
  MaxJobs = 3
  QueueDepth = 3
  MaxPublished = 3
PROPERTIES StopEndsDrawing
CHECK_DEADLOCK FALSE
