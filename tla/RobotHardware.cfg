\* One arm that fails, or cannot be read, twice; its two controllers.
SPECIFICATION Spec
CONSTANTS
  trajectory = trajectory
  broadcaster = broadcaster
  NArms = 1
  Controllers = {trajectory, broadcaster}
  Owner <- OneArm
  Positions = {0, 1}
  Zero = 0
  MaxChanges = 2
INVARIANTS TypeOK FirstCommandHolds RequestsAlternate
PROPERTIES HeldDisables ControllersComeBack
CHECK_DEADLOCK FALSE
