--------------------------- MODULE GazeboLaunchFiles ---------------------------
(***************************************************************************)
(* The launch files that start a simulator, and the ones that start        *)
(* MoveIt's servo node.  The state publisher's start starts the simulator  *)
(* and the node that inserts the robot in it; that node's exit starts RViz *)
(* and the spawners of the controllers, whatever it exits with.            *)
(***************************************************************************)
EXTENDS LaunchFiles

(* The description of a MoveIt launch file that includes this one, or one  *)
(* of its own when the file is launched by itself.                         *)
GivenDescription(c, own) ==
    IF "moveit_config_dump" \in DOMAIN c THEN c["moveit_config_dump"].description ELSE own

OwnDescription(c, plugin) ==
    LET arm == Arm(c)
        params == GenerateRos2ControlParams(XArmType(arm), arm)
    IN  IF params = Nothing THEN Nothing
        ELSE RobotDescription(arm, Arg(c, "ros2_control_plugin", plugin), params)
DualOwnDescription(c, plugin) ==
    LET params == GenerateDualRos2ControlParams(XArmTypes(Arms(c)), Arms(c))
    IN  IF params = Nothing THEN Nothing
        ELSE DualRobotDescription(Arms(c), Arg(c, "ros2_control_plugin", plugin), params)

ArmControllers(c) ==
    <<Broadcaster, TrajController(Arm(c))>> \o GripperTrajController(Arm(c))
DualArmControllers(c) ==
    <<Broadcaster, TrajController(Arms(c)[1]), TrajController(Arms(c)[2])>>
    \o GripperTrajController(Arms(c)[1]) \o GripperTrajController(Arms(c)[2])

(* What all of the files below return. *)
BesideTable(c, file, description, controllers, bridges) ==
    LET rsp == RobotStatePublisher(file)
        spawners == When(Arg(c, "load_controller", FALSE), Spawners(controllers, file))
    IN  IF description = Nothing THEN Raise
        ELSE <<OnStart(rsp, <<Node(Simulator(file), Nothing)>>),
               OnStart(rsp, <<Node(Create(file), Nothing)>>)>>
             \o [i \in 1 .. Len(bridges) |-> OnStart(rsp, <<Node(Id(bridges[i], Unnamed, file), Nothing)>>)]
             \o When(Arg(c, "show_rviz", FALSE),
                     <<OnExit(Create(file), <<Node(Rviz(file), Nothing)>>)>>)
             \o When(spawners # <<>>, <<OnExit(Create(file), spawners)>>)
             \o <<Node(rsp, description)>>

---------------------------------------------------------------------------
(* xarm_gazebo/launch: the description a file uses, then its entities.     *)

TableGzDescription(c) == GivenDescription(c, OwnDescription(c, "gz_ros2_control/GazeboSimSystem"))
RobotBesideTableGz(c) ==
    BesideTable(c, "_robot_beside_table_gz", TableGzDescription(c), ArmControllers(c),
                <<"parameter_bridge">>)

TableIgnitionDescription(c) ==
    GivenDescription(c, OwnDescription(c, "ign_ros2_control/IgnitionSystem"))
RobotBesideTableIgnition(c) ==
    BesideTable(c, "_robot_beside_table_ignition", TableIgnitionDescription(c), ArmControllers(c),
                <<"parameter_bridge">>)

TableGazeboDescription(c) ==
    GivenDescription(c, OwnDescription(c, "gazebo_ros2_control/GazeboSystem"))
RobotBesideTableGazebo(c) ==
    BesideTable(c, "_robot_beside_table_gazebo", TableGazeboDescription(c), ArmControllers(c), <<>>)

DualTableGzDescription(c) ==
    GivenDescription(c, DualOwnDescription(c, "gz_ros2_control/GazeboSimSystem"))
DualRobotBesideTableGz(c) ==
    BesideTable(c, "_dual_robot_beside_table_gz", DualTableGzDescription(c), DualArmControllers(c),
                <<"parameter_bridge">>)

DualTableGazeboDescription(c) ==
    GivenDescription(c, DualOwnDescription(c, "gazebo_ros2_control/GazeboSystem"))
DualRobotBesideTableGazebo(c) ==
    BesideTable(c, "_dual_robot_beside_table_gazebo", DualTableGazeboDescription(c),
                DualArmControllers(c), <<>>)

---------------------------------------------------------------------------
(* xarm_moveit_config/launch: MoveIt with a simulated robot.  RViz is left *)
(* to the simulator's file, which starts it once the robot is inserted.    *)

SimulatedMoveit(c, plugin, table) ==
    LET arm == Arm(c)
        params == GenerateRos2ControlParams(XArmType(arm), arm)
        moveit == ToMoveItConfigs(arm, "fake_controllers", plugin, params)
    IN  IF Nothing \in {params, moveit} THEN Raise
        ELSE <<Include(table, [dof |-> arm.dof, robot_type |-> arm.type, prefix |-> arm.prefix,
                               moveit_config_dump |-> moveit, load_controller |-> TRUE,
                               show_rviz |-> TRUE, no_gui_ctrl |-> Arg(c, "no_gui_ctrl", FALSE)]),
               Include("_robot_moveit_common2",
                       Updated(Common2Args(arm, c, moveit), [show_rviz |-> FALSE]))>>

RobotMoveitGz(c) ==
    SimulatedMoveit(c, "gz_ros2_control/GazeboSimSystem", "_robot_beside_table_gz")
RobotMoveitIgnition(c) ==
    SimulatedMoveit(c, "ign_ros2_control/IgnitionSystem", "_robot_beside_table_ignition")
RobotMoveitGazebo(c) ==
    SimulatedMoveit(c, "gazebo_ros2_control/GazeboSystem", "_robot_beside_table_gazebo")

(* xarm_planner/launch/xarm6_planner_gazebo.launch.py *)
Xarm6PlannerGazebo(c) ==
    <<Include("_robot_moveit_gazebo", [dof |-> "6", robot_type |-> "xarm", no_gui_ctrl |-> TRUE])>>

DualSimulatedConfigs(c, plugin) ==
    LET params == GenerateDualRos2ControlParams(XArmTypes(Arms(c)), Arms(c))
    IN  IF params = Nothing THEN Nothing
        ELSE DualToMoveItConfigs(Arms(c), "fake_controllers", plugin, params)
DualSimulatedMoveit(c, moveit, table) ==
    LET arms == Arms(c)
    IN  IF moveit = Nothing THEN Raise
        ELSE <<Include(table, [dof_1 |-> arms[1].dof, dof_2 |-> arms[2].dof,
                               robot_type_1 |-> arms[1].type, robot_type_2 |-> arms[2].type,
                               prefix_1 |-> arms[1].prefix, prefix_2 |-> arms[2].prefix,
                               moveit_config_dump |-> moveit, load_controller |-> TRUE,
                               show_rviz |-> TRUE, no_gui_ctrl |-> Arg(c, "no_gui_ctrl", FALSE)]),
               Include("_dual_robot_moveit_common2",
                       Updated(DualCommon2Args(arms, c, moveit), [show_rviz |-> FALSE]))>>

DualGzConfigs(c) == DualSimulatedConfigs(c, "gz_ros2_control/GazeboSimSystem")
DualRobotMoveitGz(c) == DualSimulatedMoveit(c, DualGzConfigs(c), "_dual_robot_beside_table_gz")

DualGazeboConfigs(c) == DualSimulatedConfigs(c, "gazebo_ros2_control/GazeboSystem")
DualRobotMoveitGazebo(c) ==
    DualSimulatedMoveit(c, DualGazeboConfigs(c), "_dual_robot_beside_table_gazebo")

---------------------------------------------------------------------------
(* xarm_moveit_servo/launch.  The servo node's data is the controller it   *)
(* publishes trajectories to; RViz gets no handler.                        *)

ServoFile(plugin) == IF plugin = RealPlugin THEN "controllers" ELSE "fake_controllers"

(* _robot_moveit_servo_fake.launch.py: the configurations, the entities. *)
ServoFakeConfigs(c) ==
    LET arm == Arm(c)
        plugin == Arg(c, "ros2_control_plugin", FakePlugin)
        params == GenerateRos2ControlParams(XArmType(arm), arm)
    IN  [params |-> params, moveit |-> ToMoveItConfigs(arm, ServoFile(plugin), plugin, params)]
RobotMoveitServoFake(c) ==
    LET file == "_robot_moveit_servo_fake"
        arm == Arm(c)
        configs == ServoFakeConfigs(c)
    IN  IF Nothing \in {configs.params, configs.moveit} THEN Raise
        ELSE <<Node(Rviz(file), configs.moveit)>>
             \o Spawners(<<Broadcaster>>, file)
             \o <<Include("_ros2_control", ControlArgs(configs.moveit, configs.params)),
                  Node(Id("servo", Unnamed, file), [output |-> TrajController(arm)]),
                  Node(Id("xarm_joystick_input_node", Unnamed, file), Nothing)>>
             \o Spawners(<<TrajController(arm)>> \o GripperTrajController(arm), file)

(* _robot_moveit_servo_realmove.launch.py; the spawners of the other       *)
(* controllers are commented out.                                          *)
ServoRealmoveConfigs(c) ==
    LET arm == Arm(c)
        plugin == Arg(c, "ros2_control_plugin", FakePlugin)
        params == GenerateRos2ControlParams(XArmType(arm), arm)
    IN  [params |-> params, moveit |-> ToMoveItConfigs(arm, ServoFile(plugin), plugin, params)]
RobotMoveitServoRealmove(c) ==
    LET file == "_robot_moveit_servo_realmove"
        arm == Arm(c)
        configs == ServoRealmoveConfigs(c)
    IN  IF Nothing \in {configs.params, configs.moveit} THEN Raise
        ELSE <<Node(Rviz(file), configs.moveit),
               Node(Id("joint_state_publisher", Unnamed, file), Nothing),
               Include("_ros2_control", ControlArgs(configs.moveit, configs.params)),
               Node(Id("servo", Unnamed, file), [output |-> TrajController(arm)]),
               Node(Id("xarm_joystick_input_node", Unnamed, file), Nothing)>>
             \o Spawners(<<TrajController(arm)>>, file)

---------------------------------------------------------------------------
(* What the launch service gets when it visits an include. *)
Entities(file, c) ==
    CASE file = "_robot_description"           -> RobotDescriptionLaunch(c)
      [] file = "_ros2_control"                -> Ros2Control(c)
      [] file = "_dual_ros2_control"           -> DualRos2Control(c)
      [] file = "_robot_planner"               -> RobotPlanner(c)
      [] file = "_dual_robot_planner"          -> DualRobotPlanner(c)
      [] file = "emer_planner"                 -> EmerPlannerLaunch(c)
      [] file = "test_dual_planner"            -> TestDualPlannerLaunch(c)
      [] file = "_robot_moveit_common2"        -> RobotMoveitCommon2(c)
      [] file = "_dual_robot_moveit_common2"   -> DualRobotMoveitCommon2(c)
      [] file = "_robot_moveit_fake"           -> RobotMoveitFake(c)
      [] file = "_robot_moveit_realmove"       -> RobotMoveitRealmove(c)
      [] file = "_dual_robot_moveit_fake"      -> DualRobotMoveitFake(c)
      [] file = "_dual_robot_moveit_realmove"  -> DualRobotMoveitRealmove(c)
      [] file = "_robot_beside_table_gz"       -> RobotBesideTableGz(c)
      [] file = "_robot_beside_table_ignition" -> RobotBesideTableIgnition(c)
      [] file = "_robot_beside_table_gazebo"   -> RobotBesideTableGazebo(c)
      [] file = "_dual_robot_beside_table_gz"  -> DualRobotBesideTableGz(c)
      [] file = "_dual_robot_beside_table_gazebo" -> DualRobotBesideTableGazebo(c)
      [] file = "_robot_moveit_gz"             -> RobotMoveitGz(c)
      [] file = "_robot_moveit_ignition"       -> RobotMoveitIgnition(c)
      [] file = "_robot_moveit_gazebo"         -> RobotMoveitGazebo(c)
      [] file = "_dual_robot_moveit_gz"        -> DualRobotMoveitGz(c)
      [] file = "_dual_robot_moveit_gazebo"    -> DualRobotMoveitGazebo(c)
      [] file = "xarm6_planner_fake"           -> Xarm6PlannerFake(c)
      [] file = "xarm6_planner_realmove"       -> Xarm6PlannerRealmove(c)
      [] file = "xarm6_planner_gazebo"         -> Xarm6PlannerGazebo(c)
      [] file = "_robot_moveit_servo_fake"     -> RobotMoveitServoFake(c)
      [] file = "_robot_moveit_servo_realmove" -> RobotMoveitServoRealmove(c)
=============================================================================
