CONSTANTS
    Launches <- AllLaunches
    MaxFaults = 1
SPECIFICATION Spec
INVARIANTS
    TypeOK
    LaunchStarts
    NothingTwice
    EndpointsMatch
    NoSpawnerRefused
    SpawnersFindManager
    PlanningConfigured
    GripperPlannersHaveGroups
    DescriptionsAgree
    SubstitutionsAgree
PROPERTIES
    RobotComesUp
    ClosingStops
CHECK_DEADLOCK FALSE
