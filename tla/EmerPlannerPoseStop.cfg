\* Expected violation: the executor is inside sub_pose_callback and takes no stop.
SPECIFICATION LongMotionSpec
CONSTANTS
  a = a
  c = c
  NoPose = NoPose
  Torn = Torn
  Poses = {a, c}
  CircleRing <- Ring1
  SquareRing <- Ring1
  DrawingPaths <- Drawings2
  MaxJobs = 2
  QueueDepth = 2
  MaxPublished = 2
PROPERTIES StopEndsMotion
CHECK_DEADLOCK FALSE
