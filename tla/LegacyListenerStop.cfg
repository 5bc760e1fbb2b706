\* A stop between two drawings.
SPECIFICATION Spec
CONSTANTS
  a = a
  b = b
  c = c
  NoPose = NoPose
  Torn = Torn
  Poses = {a, b, c}
  CirclePath <- Circle
  SquarePath <- Square
  MaxJobs = 2
  MaxCommands = 4
INVARIANT StopCancels
CHECK_DEADLOCK FALSE
