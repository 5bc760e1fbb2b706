----------------------------- MODULE LaunchService -----------------------------
(***************************************************************************)
(* A launch: the launch service visits the entities of the launch files    *)
(* and starts their processes, the processes run and exit, and the         *)
(* controllers come up.                                                    *)
(*                                                                         *)
(* The service visits a description to its end, depth first, before its    *)
(* loop starts the processes it met, notices the end of others and takes   *)
(* the next event.  The arguments of an include are set in the one         *)
(* dictionary of launch configurations and stay set for whatever is        *)
(* visited after it.  An event runs the handlers of its process, the last  *)
(* registered first.                                                       *)
(***************************************************************************)
EXTENDS GazeboLaunchFiles

CONSTANTS
    Launches,      \* the launches: a file and the arguments given on the command line
    MaxFaults      \* how often something outside the launch files may go wrong

(* What can be launched by hand, and with what: two of the files are only  *)
(* included by others, and so are the arguments that hold what a builder   *)
(* generated.  The executable of the planner is no other program's.        *)
Launchable ==
    {"_robot_description", "_ros2_control", "_dual_ros2_control", "_robot_planner",
     "_dual_robot_planner", "emer_planner", "test_dual_planner", "_robot_moveit_fake",
     "_robot_moveit_realmove", "_dual_robot_moveit_fake", "_dual_robot_moveit_realmove",
     "_robot_beside_table_gz", "_robot_beside_table_ignition", "_robot_beside_table_gazebo",
     "_dual_robot_beside_table_gz", "_dual_robot_beside_table_gazebo", "_robot_moveit_gz",
     "_robot_moveit_ignition", "_robot_moveit_gazebo", "_dual_robot_moveit_gz",
     "_dual_robot_moveit_gazebo", "xarm6_planner_fake", "xarm6_planner_realmove",
     "xarm6_planner_gazebo", "_robot_moveit_servo_fake", "_robot_moveit_servo_realmove"}
Generated == {"robot_description", "moveit_config_dump", "ros2_control_params"}
Programs ==
    {"move_group", "robot_state_publisher", "ros2_control_node", "gazebo", "create",
     "spawner", "xarm_gripper_planner_node"}
Others ==
    {"rviz2", "static_transform_publisher", "joint_state_publisher", "parameter_bridge",
     "servo", "xarm_joystick_input_node"}
Plain(args) ==
    /\ DOMAIN args \cap Generated = {}
    /\ "node_executable" \in DOMAIN args => args["node_executable"] \notin Programs \cup Others

(* The files for two arms, and those for one kind of robot. *)
DualPlanning ==
    {"_dual_robot_planner", "test_dual_planner", "_dual_robot_moveit_fake",
     "_dual_robot_moveit_realmove", "_dual_robot_moveit_gz", "_dual_robot_moveit_gazebo"}
DualFiles ==
    DualPlanning \cup {"_dual_ros2_control", "_dual_robot_beside_table_gz",
                       "_dual_robot_beside_table_gazebo"}
Xarm6Files == {"xarm6_planner_fake", "xarm6_planner_realmove", "xarm6_planner_gazebo"}

FirstArm(l) == Arms(l.args)[1]
SecondArm(l) == Arms(l.args)[2]

(* A robot without a configuration: a lite with seven joints, which is     *)
(* what a lite gets that is given no dof.  Launches of one are left out.   *)
UnknownRobot(l) ==
    IF l.file \in DualFiles
    THEN XArmType(FirstArm(l)) \notin DOMAIN Axes \/ XArmType(SecondArm(l)) \notin DOMAIN Axes
    ELSE l.file \notin Xarm6Files /\ XArmType(Arm(l.args)) \notin DOMAIN Axes

ASSUME LaunchesAssumption ==
    \A l \in Launches : l.file \in Launchable /\ Plain(l.args) /\ ~UnknownRobot(l)
ASSUME MaxFaultsAssumption == MaxFaults \in Nat

VARIABLES
    launch,        \* the launch that was asked for
    service,       \* "up"; "shutdown" or "raised" when it is over
    cfg,           \* the launch configurations
    todo,          \* the entities to visit, the next one first
    handlers,      \* the registered event handlers, the latest first
    events,        \* watched processes that started or exited, not yet handled
    procs,         \* the processes, in the order of their start
    active,        \* the controllers the controller manager runs
    faults         \* how often something went wrong

serviceVars == <<service, cfg, todo, handlers>>
vars == <<launch, serviceVars, events, procs, active, faults>>

Up == service = "up"
Visited == Up /\ todo = <<>>
Procs(exe) == {i \in 1 .. Len(procs) : procs[i].id.exe = exe}
Runs(i) == procs[i].state = "runs"

---------------------------------------------------------------------------
(***************************************************************************)
(* The controller manager, with its parameters and the description of the  *)
(* robot it drives: a process of its own, or a plugin of the simulator     *)
(* that comes up with the robot that was inserted from the description the *)
(* state publisher has.                                                    *)
(***************************************************************************)
ControlNode == {procs[i].data : i \in {j \in Procs("ros2_control_node") : Runs(j)}}
SimulatorPlugin ==
    {[params |-> procs[i].data.params, description |-> procs[i].data] :
        i \in {j \in Procs("robot_state_publisher") :
                  /\ \E k \in Procs("gazebo") : Runs(k)
                  /\ \E k \in Procs("create") : procs[k].state = "done"}}
Manager == ControlNode \cup SimulatorPlugin

Interfaces(description) ==
    UNION {CommandJoints(description.arms[k], description.plugin) :
               k \in 1 .. Len(description.arms)}
JointsOf(controller, manager) ==
    IF controller \in DOMAIN manager.params.joints THEN manager.params.joints[controller] ELSE {}

(* A controller loads when its type and its joints are among the manager's *)
(* parameters, and starts when its joints have interfaces no other         *)
(* controller has claimed.                                                 *)
Accepts(manager, controller) ==
    /\ controller \in manager.params.types
    /\ controller # Broadcaster => controller \in DOMAIN manager.params.joints
    /\ JointsOf(controller, manager) \subseteq Interfaces(manager.description)
    /\ \A other \in active : JointsOf(controller, manager) \cap JointsOf(other, manager) = {}

---------------------------------------------------------------------------
Init ==
    /\ launch \in Launches
    /\ service = "up"
    /\ cfg = launch.args
    /\ todo = <<Include(launch.file, launch.args)>>
    /\ handlers = <<>>
    /\ events = <<>>
    /\ procs = <<>>
    /\ active = {}
    /\ faults = 0

(* Handlers are registered for these only; other events are without effect. *)
Watched == {"robot_state_publisher", "create", "rviz2"}
Notice(on, id) == IF id.exe \in Watched THEN Append(events, [on |-> on, id |-> id]) ELSE events

NextIs(kind) == Up /\ todo # <<>> /\ Head(todo).kind = kind

VisitInclude ==
    /\ NextIs("include")
    /\ cfg' = Updated(cfg, Head(todo).args)
    /\ todo' = Entities(Head(todo).file, cfg') \o Tail(todo)
    /\ UNCHANGED <<launch, service, handlers, events, procs, active, faults>>

VisitNodeLate ==                                 \* mutant: announced, not started
    /\ NextIs("node")
    /\ events' = Notice("started", Head(todo).id)
    /\ todo' = Tail(todo)
    /\ UNCHANGED <<launch, service, cfg, handlers, procs, active, faults>>
VisitNode ==
    /\ NextIs("node")
    /\ procs' = Append(procs, [id |-> Head(todo).id, data |-> Head(todo).data, state |-> "runs"])
    /\ events' = Notice("started", Head(todo).id)
    /\ todo' = Tail(todo)
    /\ UNCHANGED <<launch, service, cfg, handlers, active, faults>>

VisitHandler ==
    /\ NextIs("handler")
    /\ handlers' = <<Head(todo)>> \o handlers
    /\ todo' = Tail(todo)
    /\ UNCHANGED <<launch, service, cfg, events, procs, active, faults>>

(* A shutdown, asked for or after an exception, interrupts every process.  *)
Stop(how) ==
    /\ service' = how
    /\ procs' = [i \in 1 .. Len(procs) |-> [procs[i] EXCEPT !.state = IF @ = "runs" THEN "done" ELSE @]]
    /\ todo' = <<>>
    /\ events' = <<>>
    /\ active' = {}
    /\ UNCHANGED <<launch, cfg, handlers, faults>>

VisitShutdown == NextIs("shutdown") /\ Stop("shutdown")
VisitRaise == NextIs("raise") /\ Stop("raised")

ProcessEvent ==
    /\ Visited /\ events # <<>>
    /\ LET e == Head(events)
           run(h) == IF h.on = e.on /\ h.target = e.id THEN h.do ELSE <<>>
       IN  todo' = FlattenSeq([i \in 1 .. Len(handlers) |-> run(handlers[i])])
    /\ events' = Tail(events)
    /\ UNCHANGED <<launch, service, cfg, handlers, procs, active, faults>>

---------------------------------------------------------------------------
(* The processes. *)

Exit(i, state) ==
    /\ procs' = [procs EXCEPT ![i].state = state]
    /\ events' = Notice("exited", procs[i].id)

Fault == faults < MaxFaults /\ faults' = faults + 1

(* A spawner waits for the controller manager, then loads and starts its   *)
(* controller.                                                             *)
Spawn(i) ==
    /\ Visited /\ Runs(i)
    /\ \E manager \in Manager :
        IF Accepts(manager, procs[i].id.name)
        THEN active' = active \cup {procs[i].id.name} /\ Exit(i, "done")
        ELSE UNCHANGED active /\ Exit(i, "refused")
    /\ UNCHANGED <<launch, serviceVars, faults>>

(* It gives up when no manager answers within its timeout. *)
SpawnerTimesOut(i) ==
    /\ Visited /\ Runs(i) /\ Manager = {}
    /\ Exit(i, "failed")
    /\ UNCHANGED <<launch, serviceVars, active, faults>>

(* The node that inserts the robot waits for the description and the       *)
(* simulator.                                                              *)
InsertRobot(i) ==
    /\ Visited /\ Runs(i)
    /\ \E j \in Procs("robot_state_publisher") : Runs(j)
    /\ \E j \in Procs("gazebo") : Runs(j)
    /\ Exit(i, "done")
    /\ UNCHANGED <<launch, serviceVars, active, faults>>

InsertFails(i) ==
    /\ Visited /\ Runs(i)
    /\ Fault
    /\ Exit(i, "failed")
    /\ UNCHANGED <<launch, serviceVars, active>>

(* The controller manager's process dies, and its controllers with it. *)
ManagerDies(i) ==
    /\ Visited /\ Runs(i)
    /\ Fault
    /\ Exit(i, "failed")
    /\ active' = {}
    /\ UNCHANGED <<launch, serviceVars>>

CloseRviz(i) ==
    /\ Visited /\ Runs(i)
    /\ Exit(i, "done")
    /\ UNCHANGED <<launch, serviceVars, active, faults>>

Visit == VisitInclude \/ VisitNode \/ VisitHandler \/ VisitShutdown \/ VisitRaise
Work == (\E i \in Procs("spawner") : Spawn(i)) \/ (\E i \in Procs("create") : InsertRobot(i))

Next ==
    \/ Visit
    \/ ProcessEvent
    \/ Work
    \/ \E i \in Procs("spawner") : SpawnerTimesOut(i)
    \/ \E i \in Procs("create") : InsertFails(i)
    \/ \E i \in Procs("ros2_control_node") \cup Procs("gazebo") : ManagerDies(i)
    \/ \E i \in Procs("rviz2") : CloseRviz(i)

(* The service's loop and the processes go on; nothing has to fail, and    *)
(* nobody has to close RViz.                                               *)
Fairness == WF_vars(Visit) /\ WF_vars(ProcessEvent) /\ WF_vars(Work)
Spec == Init /\ [][Next]_vars /\ Fairness

---------------------------------------------------------------------------
(***************************************************************************)
(* The properties.                                                         *)
(***************************************************************************)
TypeOK ==
    /\ launch \in Launches
    /\ service \in {"up", "shutdown", "raised"}
    /\ faults \in 0 .. MaxFaults
    /\ \A i \in 1 .. Len(procs) : procs[i].state \in {"runs", "done", "failed", "refused"}
    /\ \A i \in 1 .. Len(handlers) : handlers[i].on \in {"started", "exited"}
    /\ \A i \in 1 .. Len(events) : \E j \in 1 .. Len(procs) : events[i].id = procs[j].id

(***************************************************************************)
(* What can be typed and does not work: the launches that the properties   *)
(* below leave out.                                                        *)
(***************************************************************************)
(* Two of the files have no default for the degrees of freedom, and those  *)
(* for real robots none for their addresses.                               *)
NoDof(l) == l.file \in {"emer_planner", "test_dual_planner"} /\ "dof" \notin DOMAIN l.args
NoRobotIp(l) ==
    \/ /\ l.file \in {"_robot_moveit_realmove", "xarm6_planner_realmove"}
       /\ "robot_ip" \notin DOMAIN l.args
    \/ /\ l.file = "_dual_robot_moveit_realmove"
       /\ ~({"robot_ip_1", "robot_ip_2"} \subseteq DOMAIN l.args)

(* Beside a first arm of a type without a gripper the second arm's is      *)
(* looked for in vain (DualJointLimits).                                   *)
GripperOfOtherType(l) ==
    l.file \in DualPlanning /\ FirstArm(l).type = "lite" /\ HasGripper(SecondArm(l))

(* Two arms with one prefix: their links, joints and controllers have the  *)
(* same names.                                                             *)
SamePrefix(l) == l.file \in DualFiles /\ FirstArm(l).prefix = SecondArm(l).prefix

(* A file for a simulated or a pretended robot is told to use the real     *)
(* one's plugin, with which the joint of a gripper has no interface.       *)
RealPluginAsked(l) ==
    /\ l.file \in {"_robot_beside_table_gz", "_robot_beside_table_ignition",
                   "_robot_beside_table_gazebo", "_dual_robot_beside_table_gz",
                   "_dual_robot_beside_table_gazebo", "_robot_moveit_servo_fake"}
    /\ "ros2_control_plugin" \in DOMAIN l.args /\ l.args["ros2_control_plugin"] = RealPlugin

(* A robot that has a configuration is launched: no loader misses a file   *)
(* and no function an argument, so none of the nested ones raises, but for *)
(* what a file cannot do without and for one pair of arms.                 *)
LaunchStarts ==
    service = "raised" => NoDof(launch) \/ NoRobotIp(launch) \/ GripperOfOtherType(launch)

(* No process is started twice, by one file or by two: RViz above all,     *)
(* which both the MoveIt files and the simulator's would start.            *)
NothingTwice ==
    \A i, j \in 1 .. Len(procs) :
        /\ procs[i].id.exe = procs[j].id.exe /\ procs[i].id.name = procs[j].id.name
        /\ ~SamePrefix(launch)
        => i = j

(* What move_group is configured to send to a controller has a receiver:   *)
(* the manager knows a controller of that name and of the same joints, or, *)
(* for the gripper of a real arm, the driver offers the action.            *)
Received(name, controller, manager) ==
    IF controller.action = "follow_joint_trajectory"
    THEN /\ name \in manager.params.types
         /\ JointsOf(name, manager) = controller.joints
    ELSE /\ manager.description.plugin = RealPlugin
         /\ \E k \in 1 .. Len(manager.description.arms) :
                name \in DriverActions(manager.description.arms[k])
EndpointsMatch ==
    \A i \in Procs("move_group"), manager \in Manager :
        \A n \in DOMAIN procs[i].data.controllers :
            Received(n, procs[i].data.controllers[n], manager)

(* No controller a launch file asks for is refused: the file that lists    *)
(* the spawners, the file that generated the manager's parameters and the  *)
(* URDF agree on names, prefixes, grippers and joints.                     *)
NoSpawnerRefused ==
    \A i \in Procs("spawner") :
        procs[i].state = "refused" => SamePrefix(launch) \/ RealPluginAsked(launch)

(* With a simulated robot no spawner waits: the simulator's manager is     *)
(* there when the first one starts, so none can use up its timeout.        *)
SpawnersFindManager ==
    Procs("gazebo") # {} /\ faults = 0 =>
        \A i \in Procs("spawner") : Runs(i) => Manager # {}

(* What move_group plans with covers what it executes with: every joint it *)
(* commands has limits, and every group that has a solver or a planner is  *)
(* a group of the SRDF.  The bio gripper's planner file names a group      *)
(* bios_gripper, which no SRDF has.                                        *)
PlanningConfigured ==
    \A i \in Procs("move_group") :
        LET moveit == procs[i].data
            planned == {g \in moveit.pipelines.groups : Prefixed("", g) # Name("bios", "", "_gripper")}
        IN  /\ \A n \in DOMAIN moveit.controllers : moveit.controllers[n].joints \subseteq moveit.limits
            /\ moveit.kinematics \cup planned \subseteq moveit.semantic
            /\ moveit.pipelines.default \in moveit.pipelines.names

(* A gripper planner node plans for a group of the SRDF, on a single arm   *)
(* without a prefix and on any arm of two but the mirrored one: one file   *)
(* leaves the prefix out, the other names the group by the robot's type.   *)
GripperPlannersHaveGroups ==
    \A i \in Procs("xarm_gripper_planner_node") :
        \/ procs[i].id.name \in procs[i].data.semantic
        \/ procs[i].id.file = "_robot_planner" /\ Arm(cfg).prefix # ""
        \/ procs[i].id.name[2] = "xarm7_mirror"

(* The state publisher, move_group and the controller manager of one       *)
(* launch work from one description of the robot, however it reached them: *)
(* as an argument, in the dump, or as a configuration left over.           *)
DescriptionsAgree ==
    \A i \in Procs("move_group") :
        /\ \A j \in Procs("robot_state_publisher") : procs[j].data = procs[i].data.description
        /\ \A manager \in Manager :
               manager.description = procs[i].data.description
        /\ \A j \in Procs("ros2_control_node") :
               procs[j].data.params = procs[i].data.description.params

(* The substitutions load what the builder loads.  They differ in what     *)
(* they take for the gripper of the second arm, so for two arms only when  *)
(* those are of one type or the second has no gripper.                     *)
SubstitutionsAgree ==
    \A i \in Procs("move_group") :
        LET moveit == procs[i].data
            arms == moveit.description.arms
            file == ServoFile(moveit.description.plugin)
        IN  IF Len(arms) = 1
            THEN /\ KinematicsYAML(arms[1]) = moveit.kinematics
                 /\ JointLimitsYAML(arms[1]) = moveit.limits
                 /\ ControllersYAML(arms[1], file) = moveit.controllers
                 /\ PlanningPipelinesYAML(arms[1]) = moveit.pipelines.groups
            ELSE (HasGripper(arms[2]) => arms[1].type = arms[2].type)
                 => /\ DualKinematicsYAML(arms) = moveit.kinematics
                    /\ DualJointLimitsYAML(arms) = moveit.limits
                    /\ DualControllersYAML(arms, file) = moveit.controllers
                    /\ DualPlanningPipelinesYAML(arms) = moveit.pipelines.groups

(* When nothing goes wrong the robot comes up: every controller move_group *)
(* sends to runs, or is the driver's action, the servo node's controller   *)
(* runs, and so does whatever else was asked for.                          *)
Served(name, controller) ==
    \/ name \in active
    \/ \E manager \in Manager :
           controller.action # "follow_joint_trajectory" /\ Received(name, controller, manager)
Complete ==
    /\ \A i \in Procs("move_group") :
           \A n \in DOMAIN procs[i].data.controllers : Served(n, procs[i].data.controllers[n])
    /\ \A i \in Procs("servo") : procs[i].data.output \in active
    /\ \A i \in Procs("spawner") : procs[i].state = "done"
RobotComesUp == <>[](faults > 0 \/ ~Up \/ Complete)

(* Where the MoveIt files start RViz themselves, closing it ends the       *)
(* launch, whatever else the service has to do.                            *)
RvizClosed ==
    \E i \in Procs("rviz2") :
        ~Runs(i) /\ procs[i].id.file \in {"_robot_moveit_common2", "_dual_robot_moveit_common2"}
ClosingStops == RvizClosed ~> ~Up
=============================================================================
