\* Two workers, four commands.
SPECIFICATION Spec
CONSTANTS
  a = a
  b = b
  c = c
  NoPose = NoPose
  Torn = Torn
  Poses = {a, b, c}
  CirclePath <- Circle
  SquarePath <- Square
  MaxJobs = 2
  MaxCommands = 4
INVARIANTS TypeOK OwnSegment OneDraws StopHeard
PROPERTY StopReleases
CHECK_DEADLOCK FALSE
