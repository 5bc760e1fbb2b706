------------------------------ MODULE LaunchFiles ------------------------------
(***************************************************************************)
(* The launch files: what each one's launch_setup returns, given the       *)
(* launch configurations in force when it is visited.                      *)
(*                                                                         *)
(* A launch configuration is looked up by name, with the default the file  *)
(* gives; c is the dictionary of those that are set.  Only the arguments   *)
(* that decide names, files, conditions and handlers are kept: the         *)
(* geometry, the mesh and the like go unchanged into the description and   *)
(* are left out of it here, and so is what the address of a robot is; that *)
(* one is given matters, for it has no default.                            *)
(***************************************************************************)
EXTENDS MoveItConfigsBuilder, SequencesExt

Arg(c, name, default) == IF name \in DOMAIN c THEN c[name] ELSE default

Arm(c) ==
    [dof     |-> Arg(c, "dof", "7"),
     type    |-> Arg(c, "robot_type", "xarm"),
     prefix  |-> Arg(c, "prefix", ""),
     gripper |-> Arg(c, "add_gripper", FALSE),
     bio     |-> Arg(c, "add_bio_gripper", FALSE)]

(* The arguments of an arm of two default to the ones without a number.    *)
Arms(c) ==
    << [dof     |-> Arg(c, "dof_1", Arm(c).dof),
        type    |-> Arg(c, "robot_type_1", Arm(c).type),
        prefix  |-> Arg(c, "prefix_1", "L_"),
        gripper |-> Arg(c, "add_gripper_1", Arm(c).gripper),
        bio     |-> Arg(c, "add_bio_gripper_1", Arm(c).bio)],
       [dof     |-> Arg(c, "dof_2", Arm(c).dof),
        type    |-> Arg(c, "robot_type_2", Arm(c).type),
        prefix  |-> Arg(c, "prefix_2", "R_"),
        gripper |-> Arg(c, "add_gripper_2", Arm(c).gripper),
        bio     |-> Arg(c, "add_bio_gripper_2", Arm(c).bio)] >>

XArmType(arm) == <<arm.type, IF arm.type \in {"xarm", "lite"} THEN arm.dof ELSE "">>
XArmTypes(arms) == <<XArmType(arms[1]), XArmType(arms[2])>>

TrajController(arm) ==
    Prefixed(arm.prefix, Name(XArmType(arm)[1], XArmType(arm)[2], "_traj_controller"))
GripperTrajControllerOfAnyRobot(arm) ==          \* mutant: a lite has a gripper, too
    IF arm.gripper
    THEN <<Prefixed(arm.prefix, Name(arm.type, "", "_gripper_traj_controller"))>>
    ELSE IF HasBioGripper(arm)
    THEN <<Prefixed(arm.prefix, Name("bio", "", "_gripper_traj_controller"))>>
    ELSE <<>>
FingerTrajController(arm) ==                     \* mutant: the bio gripper is forgotten
    IF HasGripper(arm)
    THEN <<Prefixed(arm.prefix, Name(arm.type, "", "_gripper_traj_controller"))>>
    ELSE <<>>
GripperTrajController(arm) ==
    IF HasGripper(arm)
    THEN <<Prefixed(arm.prefix, Name(arm.type, "", "_gripper_traj_controller"))>>
    ELSE IF HasBioGripper(arm)
    THEN <<Prefixed(arm.prefix, Name("bio", "", "_gripper_traj_controller"))>>
    ELSE <<>>

---------------------------------------------------------------------------
(***************************************************************************)
(* The entities of a launch description.  A node is known by its           *)
(* executable, a name that tells it from its like, and the file that       *)
(* describes it: a handler's target is one node of one file.               *)
(***************************************************************************)
Id(exe, name, file) == [exe |-> exe, name |-> name, file |-> file]
Node(id, data) == [kind |-> "node", id |-> id, data |-> data]
Include(file, args) == [kind |-> "include", file |-> file, args |-> args]
OnStart(id, do) == [kind |-> "handler", on |-> "started", target |-> id, do |-> do]
OnExitAtStart(id, do) ==                         \* mutant: OnProcessStart
    [kind |-> "handler", on |-> "started", target |-> id, do |-> do]
OnExit(id, do) == [kind |-> "handler", on |-> "exited", target |-> id, do |-> do]
Shutdown == [kind |-> "shutdown"]
Raise == <<[kind |-> "raise"]>>     \* the function that builds the entities raises

Unnamed == Name("", "", "")
RobotStatePublisher(file) == Id("robot_state_publisher", Unnamed, file)
Rviz(file) == Id("rviz2", Unnamed, file)
Create(file) == Id("create", Unnamed, file)      \* spawn_entity.py of the classic Gazebo
Simulator(file) == Id("gazebo", Unnamed, file)   \* the include of Gazebo's own launch file

Spawners(controllers, file) ==
    [i \in 1 .. Len(controllers) |-> Node(Id("spawner", controllers[i], file), Nothing)]

Always(condition, entities) == entities          \* mutant: the condition dropped
When(condition, entities) == IF condition THEN entities ELSE <<>>

FakePlugin == "uf_robot_hardware/UFRobotFakeSystemHardware"

---------------------------------------------------------------------------
(* xarm_description/launch/_robot_description.launch.py *)
RobotDescriptionLaunch(c) ==
    LET arm == Arm(c)
        description == Arg(c, "robot_description",
                           RobotDescription(arm, Arg(c, "ros2_control_plugin", RealPlugin), Nothing))
    IN  <<Node(RobotStatePublisher("_robot_description"), description)>>

(* xarm_controller/launch/_ros2_control.launch.py.  A description of its   *)
(* own does not name the manager's parameters; the file for two arms has   *)
(* it do so.                                                               *)
Ros2Control(c) ==
    LET arm == Arm(c)
        params == Arg(c, "ros2_control_params", GenerateRos2ControlParams(XArmType(arm), arm))
        description == Arg(c, "robot_description",
                           RobotDescription(arm, Arg(c, "ros2_control_plugin", RealPlugin), Nothing))
    IN  IF params = Nothing THEN Raise
        ELSE <<Node(Id("ros2_control_node", Unnamed, "_ros2_control"),
                    [params |-> params, description |-> description])>>

(* xarm_controller/launch/_dual_ros2_control.launch.py *)
DualRos2Control(c) ==
    LET arms == Arms(c)
        params == Arg(c, "ros2_control_params", GenerateDualRos2ControlParams(XArmTypes(arms), arms))
        description == Arg(c, "robot_description",
                           DualRobotDescription(arms, Arg(c, "ros2_control_plugin", RealPlugin), params))
    IN  IF params = Nothing THEN Raise
        ELSE <<Node(Id("ros2_control_node", Unnamed, "_dual_ros2_control"),
                    [params |-> params, description |-> description])>>

(* xarm_planner/launch/_robot_planner.launch.py.  The gripper's group is   *)
(* named without the prefix.                                               *)
GripperGroupOfXarm(arm) == Name("xarm", "", "_gripper")          \* mutant
GripperGroup(arm) ==
    Name(IF arm.type = "uf850" THEN "uf850" ELSE "xarm", "", "_gripper")
RobotPlanner(c) ==
    LET arm == Arm(c)
        moveit == Arg(c, "moveit_config_dump",
                      ToMoveItConfigs(arm, "fake_controllers", RealPlugin, Nothing))
    IN  IF moveit = Nothing THEN Raise
        ELSE <<Node(Id(Arg(c, "node_executable", "xarm_planner_node"), Unnamed, "_robot_planner"), moveit)>>
             \o When(HasGripper(arm) /\ Arg(c, "use_gripper_node", arm.gripper),
                     <<Node(Id("xarm_gripper_planner_node", GripperGroup(arm), "_robot_planner"), moveit)>>)

(* xarm_planner/launch/_dual_robot_planner.launch.py.  The nodes for the   *)
(* grippers are asked for by the argument without a number.                *)
DualRobotPlanner(c) ==
    LET arms == Arms(c)
        moveit == Arg(c, "moveit_config_dump",
                      DualToMoveItConfigs(arms, "fake_controllers", RealPlugin, Nothing))
        gripperNode(arm) ==
            When(HasGripper(arm) /\ Arg(c, "use_gripper_node", Arm(c).gripper),
                 <<Node(Id("xarm_gripper_planner_node",
                           Prefixed(arm.prefix, Name(arm.type, "", "_gripper")), "_dual_robot_planner"), moveit)>>)
    IN  IF moveit = Nothing THEN Raise
        ELSE <<Node(Id(Arg(c, "node_executable", "xarm_planner_node"), Unnamed, "_dual_robot_planner"), moveit)>>
             \o gripperNode(arms[1]) \o gripperNode(arms[2])

(* xarm_planner/launch/emer_planner.launch.py; dof has no default. *)
EmerPlannerLaunch(c) ==
    IF "dof" \notin DOMAIN c THEN Raise
    ELSE <<Include("_robot_planner",
                   [prefix |-> Arg(c, "prefix", ""), add_gripper |-> FALSE, dof |-> c["dof"],
                    robot_type |-> Arg(c, "robot_type", "xarm"),
                    node_executable |-> "emer_planner"])>>

(* xarm_planner/launch/test_dual_xarm_planner_api_joint.launch.py *)
TestDualPlannerLaunch(c) ==
    IF "dof" \notin DOMAIN c THEN Raise
    ELSE <<Include("_dual_robot_planner",
                   [add_gripper |-> Arg(c, "add_gripper", FALSE), dof |-> c["dof"],
                    robot_type |-> Arg(c, "robot_type", "xarm"),
                    node_executable |-> "test_dual_xarm_planner_api_joint"])>>

---------------------------------------------------------------------------
(* Closing the RViz a file starts ends the launch. *)
ClosesAlone(file) == <<>>                        \* mutant: no handler
ClosesLaunch(file) == <<OnExit(Rviz(file), <<Shutdown>>)>>

(* xarm_moveit_config/launch/_robot_moveit_common2.launch.py *)
RobotMoveitCommon2(c) ==
    LET file == "_robot_moveit_common2"
        moveit == c["moveit_config_dump"]
        link == Prefixed(Arg(c, "prefix", ""), Name("", "", "link_base"))
    IN  ClosesLaunch(file)
        \o When(Arg(c, "show_rviz", TRUE), <<Node(Rviz(file), moveit)>>)
        \o <<Node(Id("static_transform_publisher", link, file), Nothing),
             Node(Id("move_group", Unnamed, file), moveit)>>
        \o When(Arg(c, "no_gui_ctrl", FALSE),
                <<Include("_robot_planner", [moveit_config_dump |-> moveit])>>)

(* xarm_moveit_config/launch/_dual_robot_moveit_common2.launch.py *)
DualRobotMoveitCommon2(c) ==
    LET file == "_dual_robot_moveit_common2"
        moveit == c["moveit_config_dump"]
        link(arm) == Prefixed(arm.prefix, Name("", "", "link_base"))
    IN  ClosesLaunch(file)
        \o When(Arg(c, "show_rviz", TRUE), <<Node(Rviz(file), moveit)>>)
        \o <<Node(Id("static_transform_publisher", link(Arms(c)[1]), file), Nothing),
             Node(Id("static_transform_publisher", link(Arms(c)[2]), file), Nothing),
             Node(Id("move_group", Unnamed, file), moveit)>>

Common2Args(arm, c, moveit) ==
    [prefix |-> arm.prefix, no_gui_ctrl |-> Arg(c, "no_gui_ctrl", FALSE),
     moveit_config_dump |-> moveit]
DualCommon2Args(arms, c, moveit) ==
    [prefix_1 |-> arms[1].prefix, prefix_2 |-> arms[2].prefix,
     no_gui_ctrl |-> Arg(c, "no_gui_ctrl", FALSE), moveit_config_dump |-> moveit]
ControlArgsUndescribed(moveit, params) ==        \* mutant: the description left out
    [ros2_control_params |-> params]
ControlArgs(moveit, params) ==
    [robot_description |-> moveit.description, ros2_control_params |-> params]

(* xarm_moveit_config/launch/_robot_moveit_fake.launch.py *)
RobotMoveitFake(c) ==
    LET file == "_robot_moveit_fake"
        arm == Arm(c)
        params == GenerateRos2ControlParams(XArmType(arm), arm)
        moveit == ToMoveItConfigs(arm, "fake_controllers", FakePlugin, params)
    IN  IF Nothing \in {params, moveit} THEN Raise
        ELSE <<Include("_robot_description", [robot_description |-> moveit.description]),
               Include("_robot_moveit_common2", Common2Args(arm, c, moveit))>>
             \o Spawners(<<Broadcaster>>, file)
             \o <<Include("_ros2_control", ControlArgs(moveit, params))>>
             \o Spawners(<<TrajController(arm)>> \o GripperTrajController(arm), file)

(* xarm_moveit_config/launch/_robot_moveit_realmove.launch.py; robot_ip    *)
(* has no default.                                                         *)
RobotMoveitRealmove(c) ==
    LET file == "_robot_moveit_realmove"
        arm == Arm(c)
        params == GenerateRos2ControlParams(XArmType(arm), arm)
        moveit == ToMoveItConfigs(arm, "controllers", RealPlugin, params)
    IN  IF "robot_ip" \notin DOMAIN c \/ Nothing \in {params, moveit} THEN Raise
        ELSE <<Include("_robot_description", [robot_description |-> moveit.description]),
               Include("_robot_moveit_common2", Common2Args(arm, c, moveit)),
               Node(Id("joint_state_publisher", Unnamed, file), Nothing),
               Include("_ros2_control", ControlArgs(moveit, params))>>
             \o Spawners(<<TrajController(arm)>>, file)

(* xarm_moveit_config/launch/_dual_robot_moveit_fake.launch.py: the        *)
(* arguments and the configurations, then the entities.                    *)
DualFakeConfigs(c) ==
    LET arms == Arms(c)
        params == GenerateDualRos2ControlParams(XArmTypes(arms), arms)
    IN  [params |-> params,
         moveit |-> DualToMoveItConfigs(arms, "fake_controllers", FakePlugin, params)]
DualRobotMoveitFake(c) ==
    LET file == "_dual_robot_moveit_fake"
        arms == Arms(c)
        moveit == DualFakeConfigs(c).moveit
        params == DualFakeConfigs(c).params
    IN  IF Nothing \in {params, moveit} THEN Raise
        ELSE <<Node(RobotStatePublisher(file), moveit.description),
               Include("_dual_robot_moveit_common2", DualCommon2Args(arms, c, moveit))>>
             \o Spawners(<<Broadcaster>>, file)
             \o <<Include("_dual_ros2_control", ControlArgs(moveit, params))>>
             \o Spawners(<<TrajController(arms[1]), TrajController(arms[2])>>
                         \o GripperTrajController(arms[1]) \o GripperTrajController(arms[2]), file)

(* xarm_moveit_config/launch/_dual_robot_moveit_realmove.launch.py; nor    *)
(* have robot_ip_1 and robot_ip_2.                                         *)
DualRealmoveConfigs(c) ==
    LET arms == Arms(c)
        params == GenerateDualRos2ControlParams(XArmTypes(arms), arms)
    IN  [params |-> params,
         moveit |-> DualToMoveItConfigs(arms, "controllers", RealPlugin, params)]
DualRobotMoveitRealmove(c) ==
    LET file == "_dual_robot_moveit_realmove"
        arms == Arms(c)
        moveit == DualRealmoveConfigs(c).moveit
        params == DualRealmoveConfigs(c).params
        addressed == {"robot_ip_1", "robot_ip_2"} \subseteq DOMAIN c
    IN  IF ~addressed \/ Nothing \in {params, moveit} THEN Raise
        ELSE <<Node(RobotStatePublisher(file), moveit.description),
               Include("_dual_robot_moveit_common2", DualCommon2Args(arms, c, moveit)),
               Node(Id("joint_state_publisher", Unnamed, file), Nothing),
               Include("_dual_ros2_control", ControlArgs(moveit, params))>>
             \o Spawners(<<TrajController(arms[1]), TrajController(arms[2])>>, file)

---------------------------------------------------------------------------
(* xarm_planner/launch/xarm6_planner_{fake,realmove}.launch.py: MoveIt with *)
(* the planner nodes in the place of RViz's planning panel.                *)
Xarm6PlannerFake(c) ==
    <<Include("_robot_moveit_fake", [dof |-> "6", robot_type |-> "xarm", no_gui_ctrl |-> TRUE])>>
Xarm6PlannerRealmove(c) ==
    IF "robot_ip" \notin DOMAIN c THEN Raise
    ELSE <<Include("_robot_moveit_realmove",
                   [robot_ip |-> c["robot_ip"], dof |-> "6", robot_type |-> "xarm",
                    no_gui_ctrl |-> TRUE])>>
=============================================================================
