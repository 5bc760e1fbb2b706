\* A canvas of 6 by 1 pixels and a step of 2 pixels.
SPECIFICATION Spec
CONSTANTS
  Width = 6
  Height = 1
  Step = 2
  MaxPoints = 3
INVARIANTS SpacedByStep
CHECK_DEADLOCK FALSE
