------------------------- MODULE MoveItConfigsBuilder -------------------------
(***************************************************************************)
(* uf_ros_lib: the parameters the launch files give to move_group, RViz,   *)
(* the planner nodes and the controller manager.                           *)
(*                                                                         *)
(*   - the two builders of moveit_configs_builder.py, for one arm and for  *)
(*     two, as their methods run when a context is given, which every      *)
(*     launch file does;                                                   *)
(*   - the substitutions, which repeat the same loading for a launch file  *)
(*     that gives none;                                                    *)
(*   - the controller manager's parameters of uf_robot_utils.py.           *)
(*                                                                         *)
(* A loader that meets a missing file raises; Nothing stands for that.     *)
(***************************************************************************)
EXTENDS RobotConfig

Nothing == <<>>

(* The directories an arm's parameters are read from: the robot's own and, *)
(* merged into it, its gripper's.  type is the robot type the gripper's    *)
(* directory is named after.                                               *)
ArmDirsOfAnyRobot(arm, type) ==          \* mutant: a lite has a gripper, too
    {RobotName(arm)} \cup (IF arm.gripper THEN {GripperDir(type)} ELSE {})
ArmDirs(arm, type) ==
    {RobotName(arm)}
    \cup (IF HasGripper(arm) THEN {GripperDir(type)}
          ELSE IF HasBioGripper(arm) THEN {BioGripper}
          ELSE {})

MergedFiles(File(_), dirs) ==
    [n \in UNION {DOMAIN File(d) : d \in dirs} |->
        File(CHOOSE d \in dirs : n \in DOMAIN File(d))[n]]

LimitsOfUnprefixed(arm, type) ==          \* mutant
    UNION {JointLimitsFile(d) : d \in ArmDirs(arm, type)}
LimitsOf(arm, type) ==
    PrefixedAll(arm.prefix, UNION {JointLimitsFile(d) : d \in ArmDirs(arm, type)})

ControllersOf(arm, type, file) ==
    LET File(dir) == ControllersFile(dir, file)
        yaml == PrefixedKeys(arm.prefix, MergedFiles(File, ArmDirs(arm, type)))
    IN  [n \in DOMAIN yaml |->
            [yaml[n] EXCEPT !.joints = PrefixedAll(arm.prefix, @)]]

GroupsOf(arm) ==
    PrefixedAll(arm.prefix, UNION {OmplPlanningFile(d) : d \in ArmDirs(arm, arm.type)})

Pipelines(robot) == {"ompl"}        \* the <name>_planning.yaml of the robot
DefaultPipeline(pipelines) ==
    IF pipelines = {} \/ "ompl" \in pipelines THEN "ompl" ELSE CHOOSE p \in pipelines : TRUE

---------------------------------------------------------------------------
(* MoveItConfigsBuilder *)

RobotDescription(arm, plugin, params) ==
    [arms |-> <<arm>>, plugin |-> plugin, params |-> params]
RobotDescriptionSemantic(arm) == SemanticGroups(arm)
RobotDescriptionKinematics(arm) ==
    PrefixedAll(arm.prefix, KinematicsFile(RobotName(arm)))
JointLimits(arm) == LimitsOf(arm, arm.type)
TrajectoryExecution(arm, file) == ControllersOf(arm, arm.type, file)
PlanningPipelines(arm) ==
    LET pipelines == Pipelines(RobotName(arm))
    IN  [names   |-> pipelines,
         default |-> DefaultPipeline(pipelines),
         groups  |-> GroupsOf(arm)]

ToMoveItConfigs(arm, file, plugin, params) ==
    IF ~(ArmDirs(arm, arm.type) \subseteq ConfigDirs) THEN Nothing
    ELSE [description |-> RobotDescription(arm, plugin, params),
          semantic    |-> RobotDescriptionSemantic(arm),
          kinematics  |-> RobotDescriptionKinematics(arm),
          pipelines   |-> PlanningPipelines(arm),
          controllers |-> TrajectoryExecution(arm, file),
          limits      |-> JointLimits(arm)]

---------------------------------------------------------------------------
(* DualMoveItConfigsBuilder.  arms is <<the first arm, the second arm>>.   *)

DualRobotDescription(arms, plugin, params) ==
    [arms |-> arms, plugin |-> plugin, params |-> params]
DualRobotDescriptionSemantic(arms) == SemanticGroups(arms[1]) \cup SemanticGroups(arms[2])
DualRobotDescriptionKinematics(arms) ==
    UNION {PrefixedAll(a.prefix, KinematicsFile(RobotName(a))) : a \in {arms[1], arms[2]}}

(* The second arm's gripper is looked up under the first arm's type. *)
DualJointLimits(arms) ==
    LimitsOf(arms[1], arms[1].type) \cup LimitsOf(arms[2], arms[1].type)
DualTrajectoryExecution(arms, file) ==
    Updated(ControllersOf(arms[1], arms[1].type, file), ControllersOf(arms[2], arms[2].type, file))
DualPlanningPipelines(arms) ==
    LET pipelines == Pipelines(RobotName(arms[1])) \cup Pipelines(RobotName(arms[2]))
    IN  [names   |-> pipelines,
         default |-> DefaultPipeline(pipelines),
         groups  |-> GroupsOf(arms[1]) \cup GroupsOf(arms[2])]

DualToMoveItConfigs(arms, file, plugin, params) ==
    IF ~(ArmDirs(arms[1], arms[1].type) \cup ArmDirs(arms[2], arms[2].type)
         \cup ArmDirs(arms[2], arms[1].type) \subseteq ConfigDirs)
    THEN Nothing
    ELSE [description |-> DualRobotDescription(arms, plugin, params),
          semantic    |-> DualRobotDescriptionSemantic(arms),
          kinematics  |-> DualRobotDescriptionKinematics(arms),
          pipelines   |-> DualPlanningPipelines(arms),
          controllers |-> DualTrajectoryExecution(arms, file),
          limits      |-> DualJointLimits(arms)]

---------------------------------------------------------------------------
(* The substitutions. *)

KinematicsYAML(arm) == PrefixedAll(arm.prefix, KinematicsFile(RobotName(arm)))
JointLimitsYAML(arm) == LimitsOf(arm, arm.type)
ControllersYAML(arm, file) == ControllersOf(arm, arm.type, file)
PlanningPipelinesYAML(arm) == GroupsOf(arm)

DualKinematicsYAMLOfFirst(arms) ==        \* mutant: an index not changed
    KinematicsYAML(arms[1]) \cup KinematicsYAML(arms[1])
DualKinematicsYAML(arms) == KinematicsYAML(arms[1]) \cup KinematicsYAML(arms[2])
DualJointLimitsYAML(arms) ==
    LimitsOf(arms[1], arms[1].type) \cup LimitsOf(arms[2], arms[2].type)

(* Here it is the controllers of the second arm's gripper that are looked  *)
(* up under the first arm's type, and the limits that are not.             *)
DualControllersYAML(arms, file) ==
    Updated(ControllersOf(arms[1], arms[1].type, file), ControllersOf(arms[2], arms[1].type, file))
DualPlanningPipelinesYAML(arms) == GroupsOf(arms[1]) \cup GroupsOf(arms[2])

---------------------------------------------------------------------------
(* uf_robot_utils: the parameters of the controller manager. *)

MergeControllers(yaml, extra) ==
    [types |-> yaml.types \cup extra.types, joints |-> Updated(yaml.joints, extra.joints)]

NoControllers == [types |-> {}, joints |-> <<>>]

(* A flag that asks for a gripper whose file does not exist adds nothing,  *)
(* and the bio gripper is not tried then; a bio gripper is added to every  *)
(* type of robot.                                                          *)
GripperControllers(arm) ==
    IF arm.gripper
    THEN IF GripperDir(arm.type) \in FingerGrippers
         THEN GripperControllersFile(GripperDir(arm.type)) ELSE NoControllers
    ELSE IF arm.bio THEN GripperControllersFile(BioGripper) ELSE NoControllers

AddPrefixToControllersOnly(prefix, yaml) ==      \* mutant: joints keep their names
    LET own == DOMAIN yaml.joints
    IN  [types  |-> (yaml.types \ own) \cup PrefixedAll(prefix, yaml.types \cap own),
         joints |-> PrefixedKeys(prefix, yaml.joints)]

(* Every controller with a section of its own is renamed, in that section  *)
(* and among the controller manager's types, with its joints.              *)
AddPrefixToRos2ControlParams(prefix, yaml) ==
    LET own == DOMAIN yaml.joints
        joints == PrefixedKeys(prefix, yaml.joints)
    IN  [types  |-> (yaml.types \ own) \cup PrefixedAll(prefix, yaml.types \cap own),
         joints |-> [n \in DOMAIN joints |-> PrefixedAll(prefix, joints[n])]]

(* robot names the file, as the launch files do: by type and dof.  With    *)
(* nothing to change the path is returned instead of a copy of the file.   *)
(* For a robot without a file the generator raises when it opens it, to    *)
(* change it; for one arm with nothing to change it hands on the path of   *)
(* the missing file.  No launch is of such a robot (LaunchesAssumption).   *)
GenerateRos2ControlParams(robot, arm) ==
    IF robot \notin DOMAIN Axes THEN Nothing
    ELSE AddPrefixToRos2ControlParams(arm.prefix,
             MergeControllers(RobotControllersFile(robot), GripperControllers(arm)))

GenerateDualRos2ControlParams(robots, arms) ==
    LET params == [k \in 1 .. 2 |-> GenerateRos2ControlParams(robots[k], arms[k])]
    IN  IF \E k \in 1 .. 2 : params[k] = Nothing THEN Nothing
        ELSE MergeControllers(params[1], params[2])
=============================================================================
