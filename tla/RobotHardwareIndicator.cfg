\* Expected violation: the indicator is set although the switch request was lost,
\* or a controller is spawned afterwards.
SPECIFICATION Spec
CONSTANTS
  trajectory = trajectory
  broadcaster = broadcaster
  NArms = 1
  Controllers = {trajectory, broadcaster}
  Owner <- OneArm
  Positions = {0}
  Zero = 0
  MaxChanges = 1
INVARIANTS IndicatorMeansDisabled
CHECK_DEADLOCK FALSE
