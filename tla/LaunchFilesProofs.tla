--------------------------- MODULE LaunchFilesProofs ---------------------------
(***************************************************************************)
(* What the launch files return, for any arguments: the invariant of a     *)
(* launch, and the lemmas that every file keeps to it.  LaunchServiceProofs *)
(* proves that the service does.                                           *)
(***************************************************************************)
EXTENDS LaunchService, TLAPS

\* The configuration of one arm, or of two, that a launch file builds, and what
\* it gives the controller manager of it.
Single(M) ==
  LET arms   == M.description.arms
      plugin == M.description.plugin
      params == GenerateRos2ControlParams(XArmType(arms[1]), arms[1])
  IN  /\ M # Nothing
      /\ Len(arms) = 1 /\ arms = <<arms[1]>>
      /\ params # Nothing
      /\ ArmDirs(arms[1], arms[1].type) \subseteq ConfigDirs
      /\ M = ToMoveItConfigs(arms[1], ServoFile(plugin), plugin, params)
Dual(M) ==
  LET arms   == M.description.arms
      plugin == M.description.plugin
      params == GenerateDualRos2ControlParams(XArmTypes(arms), arms)
  IN  /\ M # Nothing
      /\ Len(arms) = 2 /\ arms = <<arms[1], arms[2]>>
      /\ params # Nothing
      /\ ArmDirs(arms[1], arms[1].type) \cup ArmDirs(arms[2], arms[2].type)
           \cup ArmDirs(arms[2], arms[1].type) \subseteq ConfigDirs
      /\ M = DualToMoveItConfigs(arms, ServoFile(plugin), plugin, params)
Driver(description) == [params |-> description.params, description |-> description]

\* A launch, once its own file was visited: the configuration its files share,
\* whether it starts a simulator, and its (first) arm.
IsMode(m) ==
  /\ m.moveit = Nothing \/ Single(m.moveit) \/ Dual(m.moveit)
  /\ Single(m.moveit) => m.moveit.description.arms = <<m.arm>>
  /\ m.sim \in BOOLEAN

\* What fits such a launch: nodes,
GripperFits(id, data, arm) ==
  \/ id.name \in data.semantic
  \/ id.file = "_robot_planner" /\ arm.prefix # ""
  \/ id.name[2] = "xarm7_mirror"
NodeFits(e, m) ==
  /\ e.id.exe = "move_group" => m.moveit # Nothing /\ e.data = m.moveit
  /\ e.id.exe = "robot_state_publisher" /\ m.moveit # Nothing => e.data = m.moveit.description
  /\ e.id.exe = "ros2_control_node" /\ m.moveit # Nothing => e.data = Driver(m.moveit.description)
  /\ e.id.exe = "gazebo" => m.sim
  /\ e.id.exe = "xarm_gripper_planner_node" => GripperFits(e.id, e.data, m.arm)

\* includes, whose arguments are the ones the files share,
Given(args, name, value) == name \in DOMAIN args => args[name] = value
ArmGiven(args, arm) ==
  /\ Given(args, "dof", arm.dof) /\ Given(args, "robot_type", arm.type)
  /\ Given(args, "prefix", arm.prefix) /\ Given(args, "add_gripper", arm.gripper)
  /\ Given(args, "add_bio_gripper", arm.bio)
Has(args, name, value) == name \in DOMAIN args /\ args[name] = value
IncludeFits(e, m) ==
  /\ ArmGiven(e.args, m.arm)
  /\ "node_executable" \notin DOMAIN e.args
  /\ \/ /\ e.file = "_robot_description"
        /\ m.moveit # Nothing /\ Has(e.args, "robot_description", m.moveit.description)
     \/ /\ e.file \in {"_ros2_control", "_dual_ros2_control"}
        /\ m.moveit # Nothing => /\ Has(e.args, "robot_description", m.moveit.description)
                                 /\ Has(e.args, "ros2_control_params", m.moveit.description.params)
     \/ /\ e.file = "_dual_robot_moveit_common2"
        /\ m.moveit # Nothing /\ Has(e.args, "moveit_config_dump", m.moveit)
     \/ /\ e.file \in {"_robot_moveit_common2", "_robot_planner"}
        /\ m.moveit # Nothing /\ Single(m.moveit) /\ Has(e.args, "moveit_config_dump", m.moveit)
     \/ /\ e.file \in {"_robot_beside_table_gz", "_robot_beside_table_ignition",
                       "_robot_beside_table_gazebo", "_dual_robot_beside_table_gz",
                       "_dual_robot_beside_table_gazebo"}
        /\ m.moveit # Nothing /\ m.sim /\ Has(e.args, "moveit_config_dump", m.moveit)

\* and handlers; with a simulator, only the end of the insertion starts spawners.
IsSpawner(e) == e.kind = "node" /\ e.id.exe = "spawner"
HandlerFits(e, m) ==
  /\ e.on \in {"started", "exited"}
  /\ e.do \in Seq({e.do[k] : k \in 1 .. Len(e.do)})
  /\ \A k \in 1 .. Len(e.do) :
       /\ e.do[k].kind = "shutdown" \/ (e.do[k].kind = "node" /\ NodeFits(e.do[k], m))
       /\ IsSpawner(e.do[k]) /\ m.sim => e.on = "exited" /\ e.target.exe = "create"
Fits(e, m) ==
  \/ e.kind = "node" /\ NodeFits(e, m)
  \/ e.kind = "include" /\ IncludeFits(e, m)
  \/ e.kind = "handler" /\ HandlerFits(e, m)
  \/ e.kind \in {"shutdown", "raise"}
AllFit(s, m) ==
  /\ s \in Seq({s[i] : i \in 1 .. Len(s)})
  /\ \A i \in 1 .. Len(s) : Fits(s[i], m)

\* Before the launch's own file was visited, and from then on.
Fresh ==
  /\ Up /\ procs = <<>> /\ handlers = <<>> /\ events = <<>> /\ active = {}
  /\ todo # <<>> /\ Head(todo).kind = "include"
  /\ todo = <<Include(Head(todo).file, Head(todo).args)>>
  /\ Head(todo).file \in Launchable /\ Plain(Head(todo).args) /\ Plain(cfg)

States == {"runs", "done", "failed", "refused"}
ProcsFit(s, m) ==
  /\ s \in Seq({s[i] : i \in 1 .. Len(s)})
  /\ \A i \in 1 .. Len(s) :
       /\ s[i] = [id |-> s[i].id, data |-> s[i].data, state |-> s[i].state]
       /\ s[i].state \in States /\ NodeFits(s[i], m)
HandlersFit(s, m) ==
  /\ s \in Seq({s[i] : i \in 1 .. Len(s)})
  /\ \A i \in 1 .. Len(s) : s[i].kind = "handler" /\ HandlerFits(s[i], m)
EventsFit(s, p) ==
  /\ s \in Seq({s[i] : i \in 1 .. Len(s)})
  /\ \A i \in 1 .. Len(s) : \E j \in 1 .. Len(p) : s[i].id = p[j].id
Spawning(t, e, p) ==
  \/ \E i \in 1 .. Len(t) : IsSpawner(t[i])
  \/ \E i \in 1 .. Len(e) : e[i].on = "exited" /\ e[i].id.exe = "create"
  \/ \E i \in 1 .. Len(p) : p[i].id.exe = "spawner" /\ p[i].state = "runs"
Simulated(p) ==
  \E i, j, k \in 1 .. Len(p) :
    /\ p[i].id.exe = "robot_state_publisher"
    /\ p[j].id.exe = "gazebo" /\ p[j].state = "runs"
    /\ p[k].id.exe = "create" /\ p[k].state = "done"
SpawningInv(m) ==
  m.sim /\ faults = 0 /\ Spawning(todo, events, procs) => Simulated(procs)

Follows(m) ==
  /\ IsMode(m)
  /\ m.arm = Arm(cfg)
  /\ "node_executable" \in DOMAIN cfg => cfg["node_executable"] \notin Programs \cup Others
  /\ AllFit(todo, m) /\ HandlersFit(handlers, m) /\ ProcsFit(procs, m)
  /\ EventsFit(events, procs) /\ SpawningInv(m)

LaunchInv ==
  /\ launch \in Launches
  /\ service \in {"up", "shutdown", "raised"}
  /\ faults \in 0 .. MaxFaults
  /\ Fresh \/ \E m : Follows(m)

\* What a file returns: entities that fit, and with a simulator no spawner.
Opens(e, m) == Fits(e, m) /\ (IsSpawner(e) => ~m.sim)
Listing(s) == s \in Seq({s[i] : i \in 1 .. Len(s)})
Good(s, m) == Listing(s) /\ \A i \in 1 .. Len(s) : Opens(s[i], m)
-----------------------------------------------------------------------------
(* Sequences. *)

\* A sequence is a list of its elements.
LEMMA ListingSeq ==
  ASSUME NEW S, NEW s \in Seq(S)
  PROVE  Listing(s) /\ Len(s) \in Nat /\ \A i \in 1 .. Len(s) : s[i] \in S
<1>1. Len(s) \in Nat /\ s \in [1 .. Len(s) -> S]
  OBVIOUS
<1>2. s \in [1 .. Len(s) -> {s[i] : i \in 1 .. Len(s)}]
  BY <1>1
<1> QED BY <1>1, <1>2 DEF Listing

\* The length of a list is a number.
LEMMA ListingLen ==
  ASSUME NEW s, Listing(s)
  PROVE  Len(s) \in Nat
BY DEF Listing

\* Two lists in a row.
LEMMA ConcatGood ==
  ASSUME NEW m, NEW s, NEW t, Good(s, m), Good(t, m)
  PROVE  Good(s \o t, m)
<1> DEFINE S == {s[i] : i \in 1 .. Len(s)} \cup {t[i] : i \in 1 .. Len(t)}
<1>1. s \in Seq(S) /\ t \in Seq(S)
  <2>1. s \in Seq({s[i] : i \in 1 .. Len(s)}) /\ t \in Seq({t[i] : i \in 1 .. Len(t)})
    BY DEF Good, Listing
  <2> QED BY <2>1
<1>2. \A e \in S : Opens(e, m)
  BY DEF Good
<1> HIDE DEF S
<1>3. s \o t \in Seq(S)
  BY <1>1
<1>4. Listing(s \o t) /\ \A i \in 1 .. Len(s \o t) : (s \o t)[i] \in S
  BY <1>3, ListingSeq
<1> QED BY <1>2, <1>4 DEF Good

\* Short lists.
LEMMA EmptyGood ==
  ASSUME NEW m
  PROVE  Good(<<>>, m)
BY DEF Good, Listing

\* One entity,
LEMMA OneGood ==
  ASSUME NEW m, NEW a, Opens(a, m)
  PROVE  Good(<<a>>, m)
<1>1. <<a>> \in Seq({a})
  OBVIOUS
<1>2. Listing(<<a>>) /\ \A i \in 1 .. Len(<<a>>) : <<a>>[i] \in {a}
  BY <1>1, ListingSeq
<1> QED BY <1>2 DEF Good

\* two,
LEMMA TwoGood ==
  ASSUME NEW m, NEW a, NEW b, Opens(a, m), Opens(b, m)
  PROVE  Good(<<a, b>>, m)
<1>1. <<a, b>> \in Seq({a, b})
  OBVIOUS
<1>2. Listing(<<a, b>>) /\ \A i \in 1 .. Len(<<a, b>>) : <<a, b>>[i] \in {a, b}
  BY <1>1, ListingSeq
<1> QED BY <1>2 DEF Good

\* three
LEMMA ThreeGood ==
  ASSUME NEW m, NEW a, NEW b, NEW c, Opens(a, m), Opens(b, m), Opens(c, m)
  PROVE  Good(<<a, b, c>>, m)
<1>1. <<a, b, c>> \in Seq({a, b, c})
  OBVIOUS
<1>2. Listing(<<a, b, c>>) /\ \A i \in 1 .. Len(<<a, b, c>>) : <<a, b, c>>[i] \in {a, b, c}
  BY <1>1, ListingSeq
<1> QED BY <1>2 DEF Good

\* and four.
LEMMA FourGood ==
  ASSUME NEW m, NEW a, NEW b, NEW c, NEW d,
         Opens(a, m), Opens(b, m), Opens(c, m), Opens(d, m)
  PROVE  Good(<<a, b, c, d>>, m)
<1>1. <<a, b, c, d>> \in Seq({a, b, c, d})
  OBVIOUS
<1>2. /\ Listing(<<a, b, c, d>>)
      /\ \A i \in 1 .. Len(<<a, b, c, d>>) : <<a, b, c, d>>[i] \in {a, b, c, d}
  BY <1>1, ListingSeq
<1> QED BY <1>2 DEF Good

\* A part that is left out.
LEMMA WhenGood ==
  ASSUME NEW m, NEW condition, NEW s, Good(s, m)
  PROVE  Good(When(condition, s), m)
BY EmptyGood DEF When

\* The spawners of a list of controllers.
LEMMA SpawnersGood ==
  ASSUME NEW m, m.sim = FALSE, NEW S, NEW controllers \in Seq(S), NEW file
  PROVE  Good(Spawners(controllers, file), m)
<1>1. Len(controllers) \in Nat
  OBVIOUS
<1> DEFINE e(i) == Node(Id("spawner", controllers[i], file), Nothing)
<1>2. \A i : Opens(e(i), m)
  BY DEF Opens, Fits, NodeFits, IsSpawner, Node, Id
<1>3. Spawners(controllers, file) = [i \in 1 .. Len(controllers) |-> e(i)]
  BY DEF Spawners
<1> HIDE DEF e
<1>4. Spawners(controllers, file) \in Seq({e(i) : i \in 1 .. Len(controllers)})
  BY <1>1, <1>3
<1> QED BY <1>2, <1>4, ListingSeq DEF Good
-----------------------------------------------------------------------------
(* Arguments. *)

\* What an include is given is found by the file; the rest stays.
LEMMA UpdatedHas ==
  ASSUME NEW c, NEW args, NEW name
  PROVE  /\ \A value : Has(args, name, value) => Has(Updated(c, args), name, value)
         /\ name \notin DOMAIN args =>
              /\ name \in DOMAIN Updated(c, args) <=> name \in DOMAIN c
              /\ name \in DOMAIN c => Updated(c, args)[name] = c[name]
BY DEF Has, Updated

\* Arguments that repeat what the configuration says change nothing.
LEMMA ArmKept ==
  ASSUME NEW c, NEW args, ArmGiven(args, Arm(c))
  PROVE  Arm(Updated(c, args)) = Arm(c)
<1>1. /\ Given(args, "dof", Arg(c, "dof", "7"))
      /\ Given(args, "robot_type", Arg(c, "robot_type", "xarm"))
      /\ Given(args, "prefix", Arg(c, "prefix", ""))
      /\ Given(args, "add_gripper", Arg(c, "add_gripper", FALSE))
      /\ Given(args, "add_bio_gripper", Arg(c, "add_bio_gripper", FALSE))
  BY DEF ArmGiven, Arm
<1>2. Arg(Updated(c, args), "dof", "7") = Arg(c, "dof", "7")
  BY <1>1 DEF Given, Arg, Updated
<1>3. Arg(Updated(c, args), "robot_type", "xarm") = Arg(c, "robot_type", "xarm")
  BY <1>1 DEF Given, Arg, Updated
<1>4. Arg(Updated(c, args), "prefix", "") = Arg(c, "prefix", "")
  BY <1>1 DEF Given, Arg, Updated
<1>5. Arg(Updated(c, args), "add_gripper", FALSE) = Arg(c, "add_gripper", FALSE)
  BY <1>1 DEF Given, Arg, Updated
<1>6. Arg(Updated(c, args), "add_bio_gripper", FALSE) = Arg(c, "add_bio_gripper", FALSE)
  BY <1>1 DEF Given, Arg, Updated
<1> QED BY <1>2, <1>3, <1>4, <1>5, <1>6 DEF Arm

-----------------------------------------------------------------------------
(* The files that others include. *)

\* A node whose data is of no concern.
Other(exe) == exe \notin Programs
\* A node of a program the invariant says nothing of.
LEMMA OtherNode ==
  ASSUME NEW m, NEW id, NEW data, Other(id.exe)
  PROVE  Opens(Node(id, data), m)
BY DEF Opens, Fits, NodeFits, IsSpawner, Node, Other, Programs

\* A file that raises.
LEMMA RaiseGood ==
  ASSUME NEW m
  PROVE  Good(Raise, m)
BY OneGood DEF Raise, Opens, Fits, IsSpawner

\* _robot_description: the state publisher.
LEMMA DescriptionGood ==
  ASSUME NEW m, NEW c,
         m.moveit # Nothing => Has(c, "robot_description", m.moveit.description)
  PROVE  Good(RobotDescriptionLaunch(c), m)
<1> DEFINE data == Arg(c, "robot_description",
                       RobotDescription(Arm(c), Arg(c, "ros2_control_plugin", RealPlugin), Nothing))
<1>1. m.moveit # Nothing => data = m.moveit.description
  BY DEF Has, Arg
<1>2. RobotDescriptionLaunch(c) = <<Node(RobotStatePublisher("_robot_description"), data)>>
  BY DEF RobotDescriptionLaunch
<1> HIDE DEF data
<1>3. Opens(Node(RobotStatePublisher("_robot_description"), data), m)
  BY <1>1 DEF Opens, Fits, NodeFits, IsSpawner, Node, RobotStatePublisher, Id
<1> QED BY <1>2, <1>3, OneGood

\* The driver of one arm or of two, from the parameters and the description
\* that were given.
LEMMA DriverNode ==
  ASSUME NEW m, NEW params, NEW description, NEW file,
         m.moveit # Nothing => /\ params = m.moveit.description.params
                               /\ description = m.moveit.description
  PROVE  Good(<<Node(Id("ros2_control_node", Unnamed, file),
                     [params |-> params, description |-> description])>>, m)
<1>1. Opens(Node(Id("ros2_control_node", Unnamed, file),
                 [params |-> params, description |-> description]), m)
  BY DEF Opens, Fits, NodeFits, IsSpawner, Node, Id, Driver
<1> QED BY <1>1, OneGood

ControlGiven(c, m) ==
  m.moveit # Nothing => /\ Has(c, "robot_description", m.moveit.description)
                        /\ Has(c, "ros2_control_params", m.moveit.description.params)
\* _ros2_control: the controller manager of one arm,
LEMMA Ros2ControlGood ==
  ASSUME NEW m, NEW c, ControlGiven(c, m)
  PROVE  Good(Ros2Control(c), m)
<1> DEFINE params == Arg(c, "ros2_control_params",
                         GenerateRos2ControlParams(XArmType(Arm(c)), Arm(c)))
           description == Arg(c, "robot_description",
                              RobotDescription(Arm(c), Arg(c, "ros2_control_plugin", RealPlugin), Nothing))
           node == <<Node(Id("ros2_control_node", Unnamed, "_ros2_control"),
                          [params |-> params, description |-> description])>>
<1>1. m.moveit # Nothing => /\ params = m.moveit.description.params
                            /\ description = m.moveit.description
  BY DEF ControlGiven, Has, Arg
<1>2. Ros2Control(c) = IF params = Nothing THEN Raise ELSE node
  BY DEF Ros2Control
<1> HIDE DEF params, description
<1>3. Good(node, m)
  BY <1>1, DriverNode
<1> HIDE DEF node
<1> QED BY <1>2, <1>3, RaiseGood

\* _dual_ros2_control: and of two.
LEMMA DualRos2ControlGood ==
  ASSUME NEW m, NEW c, ControlGiven(c, m)
  PROVE  Good(DualRos2Control(c), m)
<1> DEFINE params == Arg(c, "ros2_control_params",
                         GenerateDualRos2ControlParams(XArmTypes(Arms(c)), Arms(c)))
           description == Arg(c, "robot_description",
                              DualRobotDescription(Arms(c), Arg(c, "ros2_control_plugin", RealPlugin), params))
           node == <<Node(Id("ros2_control_node", Unnamed, "_dual_ros2_control"),
                          [params |-> params, description |-> description])>>
<1>1. m.moveit # Nothing => /\ params = m.moveit.description.params
                            /\ description = m.moveit.description
  BY DEF ControlGiven, Has, Arg
<1>2. DualRos2Control(c) = IF params = Nothing THEN Raise ELSE node
  BY DEF DualRos2Control
<1> HIDE DEF params, description
<1>3. Good(node, m)
  BY <1>1, DriverNode
<1> HIDE DEF node
<1> QED BY <1>2, <1>3, RaiseGood

\* The directories there are.
LEMMA Robots ==
  DOMAIN Axes = {<<"xarm", "5">>, <<"xarm", "6">>, <<"xarm", "7">>,
                 <<"lite", "6">>, <<"uf850", "">>, <<"xarm7_mirror", "">>}
BY DEF Axes

\* The directories of grippers,
LEMMA Grippers ==
  /\ FingerGrippers = {<<"xarm", "_gripper">>, <<"uf850", "_gripper">>, <<"xarm7_mirror", "_gripper">>}
  /\ BioGripper = <<"bio", "_gripper">>
BY DEF FingerGrippers, BioGripper, GripperDir

\* none of which is a robot's.
LEMMA GripperNotRobot ==
  ASSUME NEW type
  PROVE  GripperDir(type) \notin DOMAIN Axes
BY Robots DEF GripperDir

\* The types of arms that have a gripper of their own.
LEMMA GripperTypes ==
  ASSUME NEW arm, HasGripper(arm), ArmDirs(arm, arm.type) \subseteq ConfigDirs
  PROVE  arm.type \in {"xarm", "uf850", "xarm7_mirror"}
<1>1. GripperDir(arm.type) \in ConfigDirs /\ RobotName(arm) \in ConfigDirs
  BY DEF ArmDirs
<1>2. GripperDir(arm.type) \in FingerGrippers \/ GripperDir(arm.type) = BioGripper
  BY <1>1, GripperNotRobot DEF ConfigDirs
<1>3. arm.type \in {"xarm", "uf850", "xarm7_mirror", "bio"}
  BY <1>2, Grippers DEF GripperDir
<1>4. arm.type = "bio" => RobotName(arm) = <<"bio", "">>
  BY DEF RobotName
<1>5. <<"bio", "">> \notin ConfigDirs
  BY Robots, Grippers DEF ConfigDirs
<1> QED BY <1>1, <1>3, <1>4, <1>5

\* The group a planner of a gripper is started for, as it is named for one arm
\* and for each of two.
LEMMA GripperGroupFits ==
  ASSUME NEW arm, HasGripper(arm), arm.prefix = "", ArmDirs(arm, arm.type) \subseteq ConfigDirs
  PROVE  GripperGroup(arm) \in SemanticGroups(arm)
<1>1. OmplPlanningFile(GripperDir(arm.type)) = {GripperGroup(arm)}
  BY GripperTypes, GripperNotRobot DEF OmplPlanningFile, GripperDir, BioGripper, GripperGroup
<1>2. Prefixed(arm.prefix, GripperGroup(arm)) = GripperGroup(arm)
  BY DEF Prefixed, GripperGroup, Name
<1> QED BY <1>1, <1>2 DEF SemanticGroups, PrefixedAll

\* Of two arms, the mirrored one alone has a group of another name.
LEMMA DualGripperGroupFits ==
  ASSUME NEW arm, HasGripper(arm), arm.type # "xarm7_mirror",
         ArmDirs(arm, arm.type) \subseteq ConfigDirs
  PROVE  Prefixed(arm.prefix, Name(arm.type, "", "_gripper")) \in SemanticGroups(arm)
<1>1. OmplPlanningFile(GripperDir(arm.type)) = {Name(arm.type, "", "_gripper")}
  BY GripperTypes, GripperNotRobot DEF OmplPlanningFile, GripperDir, BioGripper
<1> QED BY <1>1 DEF SemanticGroups, PrefixedAll

\* The planner of an arm, with the configuration it is given or its own.
Known(c) == "node_executable" \in DOMAIN c => c["node_executable"] \notin Programs \cup Others
Planned(moveit, arm) ==
  moveit.semantic = SemanticGroups(arm) /\ ArmDirs(arm, arm.type) \subseteq ConfigDirs

\* The planner's executable is none of the programs,
LEMMA ExecutableOther ==
  ASSUME NEW c, Known(c)
  PROVE  Other(Arg(c, "node_executable", "xarm_planner_node"))
<1>1. "xarm_planner_node" \notin Programs
  BY DEF Programs
<1> QED BY <1>1 DEF Known, Arg, Other

\* so its node fits,
LEMMA PlannerNode ==
  ASSUME NEW m, NEW c, Known(c), NEW file, NEW data
  PROVE  Good(<<Node(Id(Arg(c, "node_executable", "xarm_planner_node"), Unnamed, file), data)>>, m)
<1> DEFINE id == Id(Arg(c, "node_executable", "xarm_planner_node"), Unnamed, file)
<1>1. id.exe = Arg(c, "node_executable", "xarm_planner_node")
  BY DEF Id
<1> HIDE DEF id
<1>2. Opens(Node(id, data), m)
  BY <1>1, ExecutableOther, OtherNode
<1> QED BY <1>2, OneGood DEF id

\* and so does a gripper planner with a group of its own.
LEMMA GripperNode ==
  ASSUME NEW m, NEW name, NEW file, NEW data,
         GripperFits(Id("xarm_gripper_planner_node", name, file), data, m.arm)
  PROVE  Good(<<Node(Id("xarm_gripper_planner_node", name, file), data)>>, m)
<1>1. Opens(Node(Id("xarm_gripper_planner_node", name, file), data), m)
  BY DEF Opens, Fits, NodeFits, IsSpawner, Node, Id
<1> QED BY <1>1, OneGood

\* _robot_planner,
LEMMA PlannerGood ==
  ASSUME NEW m, NEW c, m.arm = Arm(c), Known(c),
         "moveit_config_dump" \in DOMAIN c => Planned(c["moveit_config_dump"], Arm(c))
  PROVE  Good(RobotPlanner(c), m)
<1> DEFINE arm == Arm(c)
           moveit == Arg(c, "moveit_config_dump",
                         ToMoveItConfigs(arm, "fake_controllers", RealPlugin, Nothing))
           node == <<Node(Id(Arg(c, "node_executable", "xarm_planner_node"), Unnamed, "_robot_planner"), moveit)>>
           gripper == <<Node(Id("xarm_gripper_planner_node", GripperGroup(arm), "_robot_planner"), moveit)>>
           asked == HasGripper(arm) /\ Arg(c, "use_gripper_node", arm.gripper)
<1>1. RobotPlanner(c) = IF moveit = Nothing THEN Raise ELSE node \o When(asked, gripper)
  BY DEF RobotPlanner
<1>2. ASSUME moveit # Nothing PROVE Planned(moveit, arm)
  <2>1. CASE "moveit_config_dump" \in DOMAIN c
    BY <2>1 DEF Arg
  <2>2. CASE "moveit_config_dump" \notin DOMAIN c
    <3>1. moveit = ToMoveItConfigs(arm, "fake_controllers", RealPlugin, Nothing)
      BY <2>2 DEF Arg
    <3> QED BY <1>2, <3>1 DEF ToMoveItConfigs, Planned, RobotDescriptionSemantic
  <2> QED BY <2>1, <2>2
<1>3. ASSUME moveit # Nothing, HasGripper(arm) PROVE Good(gripper, m)
  <2> DEFINE id == Id("xarm_gripper_planner_node", GripperGroup(arm), "_robot_planner")
  <2>1. Planned(moveit, arm)
    BY <1>2, <1>3
  <2> HIDE DEF moveit
  <2>2. id.name = GripperGroup(arm) /\ id.file = "_robot_planner" /\ m.arm = arm
    BY DEF Id
  <2> HIDE DEF arm
  <2>3. GripperFits(id, moveit, m.arm)
    BY <1>3, <2>1, <2>2, GripperGroupFits DEF GripperFits, Planned
  <2> QED BY <2>3, GripperNode
<1>4. Good(node, m)
  BY PlannerNode
<1> HIDE DEF moveit, node, gripper, arm
<1>5. ASSUME moveit # Nothing PROVE Good(When(asked, gripper), m)
  <2>1. CASE HasGripper(arm)
    BY <1>3, <1>5, <2>1, WhenGood
  <2>2. CASE ~HasGripper(arm)
    BY <2>2, EmptyGood DEF When
  <2> QED BY <2>1, <2>2
<1> QED BY <1>1, <1>4, <1>5, ConcatGood, RaiseGood

\* _dual_robot_planner, which nothing includes with a configuration.
LEMMA DualPlannerGood ==
  ASSUME NEW m, NEW c, Known(c), "moveit_config_dump" \notin DOMAIN c
  PROVE  Good(DualRobotPlanner(c), m)
<1> DEFINE moveit == DualToMoveItConfigs(Arms(c), "fake_controllers", RealPlugin, Nothing)
           node == <<Node(Id(Arg(c, "node_executable", "xarm_planner_node"), Unnamed, "_dual_robot_planner"), moveit)>>
           group(arm) == Prefixed(arm.prefix, Name(arm.type, "", "_gripper"))
           gripper(arm) == <<Node(Id("xarm_gripper_planner_node", group(arm), "_dual_robot_planner"), moveit)>>
           asked(arm) == HasGripper(arm) /\ Arg(c, "use_gripper_node", Arm(c).gripper)
<1>1. DualRobotPlanner(c) = IF moveit = Nothing THEN Raise
                            ELSE node \o When(asked(Arms(c)[1]), gripper(Arms(c)[1]))
                                   \o When(asked(Arms(c)[2]), gripper(Arms(c)[2]))
  BY DEF DualRobotPlanner, Arg
<1>2. Good(node, m)
  BY PlannerNode
<1>3. ASSUME moveit # Nothing, NEW k \in {1, 2}
      PROVE  Good(When(asked(Arms(c)[k]), gripper(Arms(c)[k])), m)
  <2> DEFINE arm == Arms(c)[k]
             id  == Id("xarm_gripper_planner_node", group(arm), "_dual_robot_planner")
  <2>1. /\ ArmDirs(arm, arm.type) \subseteq ConfigDirs
        /\ SemanticGroups(arm) \subseteq moveit.semantic
    BY <1>3 DEF DualToMoveItConfigs, DualRobotDescriptionSemantic
  <2> HIDE DEF moveit
  <2>2. id.name = group(arm)
    BY DEF Id
  <2>3. CASE HasGripper(arm)
    <3>1. CASE arm.type = "xarm7_mirror"
      <4>1. group(arm)[2] = arm.type
        BY DEF Prefixed, Name
      <4>2. GripperFits(id, moveit, m.arm)
        BY <2>2, <3>1, <4>1 DEF GripperFits
      <4>3. Good(gripper(arm), m)
        BY <4>2, GripperNode
      <4> QED BY <4>3, WhenGood
    <3>2. CASE arm.type # "xarm7_mirror"
      <4>1. group(arm) \in SemanticGroups(arm)
        BY <2>1, <2>3, <3>2, DualGripperGroupFits
      <4>2. GripperFits(id, moveit, m.arm)
        BY <2>1, <2>2, <4>1 DEF GripperFits
      <4>3. Good(gripper(arm), m)
        BY <4>2, GripperNode
      <4> QED BY <4>3, WhenGood
    <3> QED BY <3>1, <3>2
  <2>4. CASE ~HasGripper(arm)
    BY <2>4, EmptyGood DEF When
  <2> QED BY <2>3, <2>4
<1> HIDE DEF moveit, node, gripper, asked
<1>4. CASE moveit # Nothing
  <2>1. Good(node \o When(asked(Arms(c)[1]), gripper(Arms(c)[1])), m)
    BY <1>2, <1>3, <1>4, ConcatGood
  <2>2. Good(node \o When(asked(Arms(c)[1]), gripper(Arms(c)[1]))
               \o When(asked(Arms(c)[2]), gripper(Arms(c)[2])), m)
    BY <1>3, <1>4, <2>1, ConcatGood
  <2> QED BY <1>1, <1>4, <2>2
<1> QED BY <1>1, <1>4, RaiseGood

\* Handlers.
LEMMA OnExitOpens ==
  ASSUME NEW m, NEW id, NEW do, Listing(do),
         \A k \in 1 .. Len(do) :
           /\ do[k].kind = "shutdown" \/ (do[k].kind = "node" /\ NodeFits(do[k], m))
           /\ IsSpawner(do[k]) /\ m.sim => id.exe = "create"
  PROVE  Opens(OnExit(id, do), m)
BY DEF OnExit, Opens, Fits, HandlerFits, IsSpawner, Listing

\* A handler that starts a node when another has started.
LEMMA OnStartOpens ==
  ASSUME NEW m, NEW id, NEW e, e.kind = "node", NodeFits(e, m), ~IsSpawner(e)
  PROVE  Opens(OnStart(id, <<e>>), m)
<1>1. <<e>> \in Seq({e})
  OBVIOUS
<1>2. Listing(<<e>>) /\ \A k \in 1 .. Len(<<e>>) : <<e>>[k] \in {e}
  BY <1>1, ListingSeq
<1> DEFINE do == <<e>>
<1> HIDE DEF do
<1>3. Opens(OnStart(id, do), m)
  <2>1. Listing(do) /\ \A k \in 1 .. Len(do) : do[k] = e
    BY <1>2 DEF do
  <2> QED BY <2>1 DEF OnStart, Opens, Fits, HandlerFits, IsSpawner, Listing
<1> QED BY <1>3 DEF do

\* The handler that ends the launch when RViz is closed.
LEMMA ClosesGood ==
  ASSUME NEW m, NEW file
  PROVE  Good(ClosesLaunch(file), m)
<1> DEFINE do == <<Shutdown>>
<1>1. do \in Seq({Shutdown})
  OBVIOUS
<1>2. Listing(do) /\ \A k \in 1 .. Len(do) : do[k] \in {Shutdown}
  BY <1>1, ListingSeq
<1>3. Shutdown.kind = "shutdown" /\ ~IsSpawner(Shutdown)
  BY DEF Shutdown, IsSpawner
<1>4. ClosesLaunch(file) = <<OnExit(Rviz(file), do)>>
  BY DEF ClosesLaunch
<1> HIDE DEF do
<1>5. Opens(OnExit(Rviz(file), do), m)
  BY <1>2, <1>3, OnExitOpens
<1> QED BY <1>4, <1>5, OneGood

\* Includes.
LEMMA IncludeOpens ==
  ASSUME NEW m, NEW file, NEW args, IncludeFits(Include(file, args), m)
  PROVE  Opens(Include(file, args), m)
BY DEF Opens, Fits, IsSpawner, Include

\* The files that start move_group, for one arm and for two.
LEMMA MoveGroupOpens ==
  ASSUME NEW m, m.moveit # Nothing, NEW file
  PROVE  Opens(Node(Id("move_group", Unnamed, file), m.moveit), m)
BY DEF Opens, Fits, NodeFits, IsSpawner, Node, Id

\* RViz,
LEMMA RvizGood ==
  ASSUME NEW m, NEW file, NEW data
  PROVE  Good(<<Node(Rviz(file), data)>>, m)
<1>1. Other(Rviz(file).exe)
  BY DEF Other, Programs, Rviz, Id
<1>2. Opens(Node(Rviz(file), data), m)
  BY <1>1, OtherNode
<1> QED BY <1>2, OneGood

\* and a static transform.
LEMMA StaticOpens ==
  ASSUME NEW m, NEW name, NEW file
  PROVE  Opens(Node(Id("static_transform_publisher", name, file), Nothing), m)
<1>1. Other(Id("static_transform_publisher", name, file).exe)
  BY DEF Other, Programs, Id
<1> QED BY <1>1, OtherNode

\* _robot_moveit_common2,
LEMMA CommonGood ==
  ASSUME NEW m, NEW c, m.moveit # Nothing, Single(m.moveit), Has(c, "moveit_config_dump", m.moveit)
  PROVE  Good(RobotMoveitCommon2(c), m)
<1> DEFINE file  == "_robot_moveit_common2"
           link  == Prefixed(Arg(c, "prefix", ""), Name("", "", "link_base"))
           rviz  == <<Node(Rviz(file), m.moveit)>>
           nodes == <<Node(Id("static_transform_publisher", link, file), Nothing),
                      Node(Id("move_group", Unnamed, file), m.moveit)>>
           planner == <<Include("_robot_planner", [moveit_config_dump |-> m.moveit])>>
           shown == Arg(c, "show_rviz", TRUE)
           asked == Arg(c, "no_gui_ctrl", FALSE)
<1>1. RobotMoveitCommon2(c) = ClosesLaunch(file) \o When(shown, rviz) \o nodes \o When(asked, planner)
  BY DEF RobotMoveitCommon2, Has
<1>2. Good(ClosesLaunch(file), m) /\ Good(When(shown, rviz), m)
  BY ClosesGood, RvizGood, WhenGood
<1>3. Good(nodes, m)
  BY StaticOpens, MoveGroupOpens, TwoGood
<1>4. Good(planner, m)
  <2>1. IncludeFits(Include("_robot_planner", [moveit_config_dump |-> m.moveit]), m)
    BY DEF IncludeFits, Include, ArmGiven, Given, Has
  <2> QED BY <2>1, IncludeOpens, OneGood
<1> HIDE DEF file, rviz, nodes, planner, shown, asked
<1>5. Good(When(asked, planner), m)
  BY <1>4, WhenGood
<1>6. Good(ClosesLaunch(file) \o When(shown, rviz), m)
  BY <1>2, ConcatGood
<1>7. Good(ClosesLaunch(file) \o When(shown, rviz) \o nodes, m)
  BY <1>3, <1>6, ConcatGood
<1> QED BY <1>1, <1>5, <1>7, ConcatGood

\* _dual_robot_moveit_common2.
LEMMA DualCommonGood ==
  ASSUME NEW m, NEW c, m.moveit # Nothing, Has(c, "moveit_config_dump", m.moveit)
  PROVE  Good(DualRobotMoveitCommon2(c), m)
<1> DEFINE file    == "_dual_robot_moveit_common2"
           link(k) == Prefixed(Arms(c)[k].prefix, Name("", "", "link_base"))
           rviz    == <<Node(Rviz(file), m.moveit)>>
           nodes   == <<Node(Id("static_transform_publisher", link(1), file), Nothing),
                        Node(Id("static_transform_publisher", link(2), file), Nothing),
                        Node(Id("move_group", Unnamed, file), m.moveit)>>
           shown == Arg(c, "show_rviz", TRUE)
<1>1. DualRobotMoveitCommon2(c) = ClosesLaunch(file) \o When(shown, rviz) \o nodes
  BY DEF DualRobotMoveitCommon2, Has
<1>2. Good(ClosesLaunch(file), m) /\ Good(When(shown, rviz), m)
  BY ClosesGood, RvizGood, WhenGood
<1>3. Good(nodes, m)
  BY StaticOpens, MoveGroupOpens, ThreeGood
<1> HIDE DEF file, rviz, nodes, shown
<1>4. Good(ClosesLaunch(file) \o When(shown, rviz), m)
  BY <1>2, ConcatGood
<1> QED BY <1>1, <1>3, <1>4, ConcatGood

-----------------------------------------------------------------------------
(* The files that start a simulator. *)

\* The spawners that the end of the insertion starts.
LEMMA SpawnersList ==
  ASSUME NEW m, NEW S, NEW controllers \in Seq(S), NEW file
  PROVE  /\ Listing(Spawners(controllers, file))
         /\ \A k \in 1 .. Len(Spawners(controllers, file)) :
              /\ Spawners(controllers, file)[k].kind = "node"
              /\ NodeFits(Spawners(controllers, file)[k], m)
<1>1. Len(controllers) \in Nat
  OBVIOUS
<1> DEFINE e(i) == Node(Id("spawner", controllers[i], file), Nothing)
<1>2. \A i : e(i).kind = "node" /\ NodeFits(e(i), m)
  BY DEF NodeFits, Node, Id
<1>3. Spawners(controllers, file) = [i \in 1 .. Len(controllers) |-> e(i)]
  BY DEF Spawners
<1> HIDE DEF e
<1>4. Spawners(controllers, file) \in Seq({e(i) : i \in 1 .. Len(controllers)})
  BY <1>1, <1>3
<1> QED BY <1>2, <1>4, ListingSeq

\* The handler of the end of the insertion starts them and nothing else.
LEMMA InsertedOpens ==
  ASSUME NEW m, NEW S, NEW controllers \in Seq(S), NEW file
  PROVE  Opens(OnExit(Create(file), Spawners(controllers, file)), m)
<1> DEFINE do == Spawners(controllers, file)
<1>1. Create(file).exe = "create"
  BY DEF Create, Id
<1>2. Listing(do) /\ \A k \in 1 .. Len(do) : do[k].kind = "node" /\ NodeFits(do[k], m)
  BY SpawnersList
<1> HIDE DEF do
<1>3. Opens(OnExit(Create(file), do), m)
  BY <1>1, <1>2, OnExitOpens
<1> QED BY <1>3 DEF do

\* The bridges between the simulator and ROS.
LEMMA BridgesGood ==
  ASSUME NEW m, NEW rsp, NEW file, NEW bridges \in Seq({"parameter_bridge"})
  PROVE  Good([i \in 1 .. Len(bridges) |->
                 OnStart(rsp, <<Node(Id(bridges[i], Unnamed, file), Nothing)>>)], m)
<1>1. Len(bridges) \in Nat /\ \A i \in 1 .. Len(bridges) : bridges[i] = "parameter_bridge"
  OBVIOUS
<1> DEFINE bridge == Node(Id("parameter_bridge", Unnamed, file), Nothing)
<1>2. [i \in 1 .. Len(bridges) |-> OnStart(rsp, <<Node(Id(bridges[i], Unnamed, file), Nothing)>>)]
        = [i \in 1 .. Len(bridges) |-> OnStart(rsp, <<bridge>>)]
  BY <1>1
<1>3. bridge.kind = "node" /\ NodeFits(bridge, m) /\ ~IsSpawner(bridge)
  BY DEF Node, Id, NodeFits, IsSpawner
<1> HIDE DEF bridge
<1> DEFINE e == OnStart(rsp, <<bridge>>)
<1>4. Opens(e, m)
  BY <1>3, OnStartOpens
<1> HIDE DEF e
<1> DEFINE s == [i \in 1 .. Len(bridges) |-> e]
<1>5. s \in Seq({e})
  BY <1>1
<1> HIDE DEF s
<1>6. Listing(s) /\ \A i \in 1 .. Len(s) : s[i] \in {e}
  BY <1>5, ListingSeq
<1>7. Good(s, m)
  BY <1>4, <1>6 DEF Good
<1> QED BY <1>2, <1>7 DEF s, e

\* The simulator, with an arm beside a table.
LEMMA BesideTableGood ==
  ASSUME NEW m, m.sim = TRUE, NEW c, NEW file, NEW description, NEW S, NEW controllers \in Seq(S),
         NEW bridges \in Seq({"parameter_bridge"}),
         m.moveit # Nothing => description = m.moveit.description
  PROVE  Good(BesideTable(c, file, description, controllers, bridges), m)
<1> DEFINE rsp      == RobotStatePublisher(file)
           loaded   == Arg(c, "load_controller", FALSE)
           shown    == Arg(c, "show_rviz", FALSE)
           spawners == When(loaded, Spawners(controllers, file))
           started  == <<OnStart(rsp, <<Node(Simulator(file), Nothing)>>),
                         OnStart(rsp, <<Node(Create(file), Nothing)>>)>>
           bridged  == [i \in 1 .. Len(bridges) |->
                          OnStart(rsp, <<Node(Id(bridges[i], Unnamed, file), Nothing)>>)]
           rviz     == <<OnExit(Create(file), <<Node(Rviz(file), Nothing)>>)>>
           spawned  == <<OnExit(Create(file), spawners)>>
           publish  == <<Node(rsp, description)>>
<1>1. BesideTable(c, file, description, controllers, bridges) =
        IF description = Nothing THEN Raise
        ELSE started \o bridged \o When(shown, rviz) \o When(spawners # <<>>, spawned) \o publish
  BY DEF BesideTable
<1>2. Good(started, m)
  <2>1. /\ Node(Simulator(file), Nothing).kind = "node" /\ NodeFits(Node(Simulator(file), Nothing), m)
        /\ ~IsSpawner(Node(Simulator(file), Nothing))
    BY DEF Simulator, Node, Id, NodeFits, IsSpawner
  <2>2. /\ Node(Create(file), Nothing).kind = "node" /\ NodeFits(Node(Create(file), Nothing), m)
        /\ ~IsSpawner(Node(Create(file), Nothing))
    BY DEF Create, Node, Id, NodeFits, IsSpawner
  <2> HIDE DEF rsp
  <2> QED BY <2>1, <2>2, OnStartOpens, TwoGood
<1>3. Good(bridged, m)
  BY BridgesGood
<1>4. Good(When(shown, rviz), m)
  <2> DEFINE e  == Node(Rviz(file), Nothing)
             do == <<e>>
  <2>1. e.kind = "node" /\ NodeFits(e, m) /\ ~IsSpawner(e)
    BY DEF Rviz, Node, Id, NodeFits, IsSpawner
  <2> HIDE DEF e
  <2>2. do \in Seq({e})
    OBVIOUS
  <2>3. Listing(do) /\ \A k \in 1 .. Len(do) : do[k] \in {e}
    BY <2>2, ListingSeq
  <2> HIDE DEF do
  <2>4. Opens(OnExit(Create(file), do), m)
    BY <2>1, <2>3, OnExitOpens
  <2>5. Good(<<OnExit(Create(file), do)>>, m)
    BY <2>4, OneGood
  <2> QED BY <2>5, WhenGood DEF do, e
<1>5. Good(When(spawners # <<>>, spawned), m)
  <2>1. CASE spawners = Spawners(controllers, file)
    <3>1. Good(<<OnExit(Create(file), Spawners(controllers, file))>>, m)
      BY InsertedOpens, OneGood
    <3> QED BY <2>1, <3>1, WhenGood
  <2>2. CASE spawners = <<>>
    BY <2>2, EmptyGood DEF When
  <2> QED BY <2>1, <2>2 DEF When
<1>6. Good(publish, m)
  <2>1. Opens(Node(rsp, description), m)
    BY DEF Opens, Fits, NodeFits, IsSpawner, Node, RobotStatePublisher, Id
  <2> HIDE DEF rsp
  <2> QED BY <2>1, OneGood
<1> HIDE DEF rsp, spawners, started, bridged, rviz, spawned, publish, loaded, shown
<1>7. Good(started \o bridged, m)
  BY <1>2, <1>3, ConcatGood
<1>8. Good(started \o bridged \o When(shown, rviz), m)
  BY <1>4, <1>7, ConcatGood
<1>9. Good(started \o bridged \o When(shown, rviz) \o When(spawners # <<>>, spawned), m)
  BY <1>5, <1>8, ConcatGood
<1> QED BY <1>1, <1>6, <1>9, ConcatGood, RaiseGood

\* The controllers a file lists.
LEMMA GripperListed ==
  ASSUME NEW arm
  PROVE  \E S : GripperTrajController(arm) \in Seq(S)
<1> DEFINE a == Prefixed(arm.prefix, Name(arm.type, "", "_gripper_traj_controller"))
           b == Prefixed(arm.prefix, Name("bio", "", "_gripper_traj_controller"))
<1>1. GripperTrajController(arm) \in {<<a>>, <<b>>, <<>>}
  BY DEF GripperTrajController
<1> HIDE DEF a, b
<1>2. <<a>> \in Seq({a, b}) /\ <<b>> \in Seq({a, b}) /\ <<>> \in Seq({a, b})
  OBVIOUS
<1> QED BY <1>1, <1>2

\* two lists of them in a row,
LEMMA ConcatListed ==
  ASSUME NEW s, NEW t, \E S : s \in Seq(S), \E S : t \in Seq(S)
  PROVE  \E S : s \o t \in Seq(S)
<1>1. PICK S : s \in Seq(S)
  OBVIOUS
<1>2. PICK T : t \in Seq(T)
  OBVIOUS
<1>3. s \in Seq(S \cup T) /\ t \in Seq(S \cup T)
  BY <1>1, <1>2
<1>4. s \o t \in Seq(S \cup T)
  BY <1>3
<1> QED BY <1>4

\* one arm's and two arms'.
LEMMA ControllersListed ==
  ASSUME NEW c
  PROVE  /\ \E S : ArmControllers(c) \in Seq(S)
         /\ \E S : DualArmControllers(c) \in Seq(S)
<1>1. \E S : <<Broadcaster, TrajController(Arm(c))>> \in Seq(S)
  <2>1. <<Broadcaster, TrajController(Arm(c))>> \in Seq({Broadcaster, TrajController(Arm(c))})
    OBVIOUS
  <2> QED BY <2>1
<1>2. \E S : <<Broadcaster, TrajController(Arms(c)[1]), TrajController(Arms(c)[2])>> \in Seq(S)
  <2> DEFINE a == TrajController(Arms(c)[1])
             b == TrajController(Arms(c)[2])
  <2> HIDE DEF a, b
  <2>1. <<Broadcaster, a, b>> \in Seq({Broadcaster, a, b})
    OBVIOUS
  <2> QED BY <2>1 DEF a, b
<1>3. \E S : <<Broadcaster, TrajController(Arms(c)[1]), TrajController(Arms(c)[2])>>
              \o GripperTrajController(Arms(c)[1]) \in Seq(S)
  BY <1>2, GripperListed, ConcatListed
<1>4. \E S : DualArmControllers(c) \in Seq(S)
  BY <1>3, GripperListed, ConcatListed DEF DualArmControllers
<1> QED BY <1>1, <1>4, GripperListed, ConcatListed DEF ArmControllers

Tables ==
  {"_robot_beside_table_gz", "_robot_beside_table_ignition", "_robot_beside_table_gazebo",
   "_dual_robot_beside_table_gz", "_dual_robot_beside_table_gazebo"}
\* The five files that start a simulator.
LEMMA TableGood ==
  ASSUME NEW m, m.sim = TRUE, NEW c, NEW file \in Tables,
         m.moveit # Nothing => Has(c, "moveit_config_dump", m.moveit)
  PROVE  Good(Entities(file, c), m)
<1>0. <<>> \in Seq({"parameter_bridge"}) /\ <<"parameter_bridge">> \in Seq({"parameter_bridge"})
  OBVIOUS
<1> DEFINE Takes(description) == m.moveit # Nothing => description = m.moveit.description
<1>1. \A own : Takes(GivenDescription(c, own))
  BY DEF GivenDescription, Has
<1>2. ASSUME NEW description, Takes(description),
             NEW bridges \in Seq({"parameter_bridge"})
      PROVE  /\ Good(BesideTable(c, file, description, ArmControllers(c), bridges), m)
             /\ Good(BesideTable(c, file, description, DualArmControllers(c), bridges), m)
  BY <1>2, ControllersListed, BesideTableGood
<1> HIDE DEF Takes
<1>3. CASE file = "_robot_beside_table_gz"
  <2>1. Entities(file, c) = RobotBesideTableGz(c)
    BY <1>3 DEF Entities
  <2>2. Takes(TableGzDescription(c))
    BY <1>1 DEF TableGzDescription
  <2> QED BY <1>0, <1>2, <1>3, <2>1, <2>2 DEF RobotBesideTableGz
<1>4. CASE file = "_robot_beside_table_ignition"
  <2>1. Entities(file, c) = RobotBesideTableIgnition(c)
    BY <1>4 DEF Entities
  <2>2. Takes(TableIgnitionDescription(c))
    BY <1>1 DEF TableIgnitionDescription
  <2> QED BY <1>0, <1>2, <1>4, <2>1, <2>2 DEF RobotBesideTableIgnition
<1>5. CASE file = "_robot_beside_table_gazebo"
  <2>1. Entities(file, c) = RobotBesideTableGazebo(c)
    BY <1>5 DEF Entities
  <2>2. Takes(TableGazeboDescription(c))
    BY <1>1 DEF TableGazeboDescription
  <2> QED BY <1>0, <1>2, <1>5, <2>1, <2>2 DEF RobotBesideTableGazebo
<1>6. CASE file = "_dual_robot_beside_table_gz"
  <2>1. Entities(file, c) = DualRobotBesideTableGz(c)
    BY <1>6 DEF Entities
  <2>2. Takes(DualTableGzDescription(c))
    BY <1>1 DEF DualTableGzDescription
  <2> QED BY <1>0, <1>2, <1>6, <2>1, <2>2 DEF DualRobotBesideTableGz
<1>7. CASE file = "_dual_robot_beside_table_gazebo"
  <2>1. Entities(file, c) = DualRobotBesideTableGazebo(c)
    BY <1>7 DEF Entities
  <2>2. Takes(DualTableGazeboDescription(c))
    BY <1>1 DEF DualTableGazeboDescription
  <2> QED BY <1>0, <1>2, <1>7, <2>1, <2>2 DEF DualRobotBesideTableGazebo
<1> QED BY <1>3, <1>4, <1>5, <1>6, <1>7 DEF Tables

\* A file that is included returns what fits the launch it is included in.
LEMMA IncludedGood ==
  ASSUME NEW m, IsMode(m), NEW c, m.arm = Arm(c), Known(c), NEW e, IncludeFits(e, m)
  PROVE  LET new == Updated(c, e.args)
         IN  m.arm = Arm(new) /\ Known(new) /\ Good(Entities(e.file, new), m)
<1> DEFINE new == Updated(c, e.args)
<1>1. m.arm = Arm(new)
  BY ArmKept DEF IncludeFits
<1>2. Known(new)
  BY UpdatedHas DEF IncludeFits, Known
<1>3. \A name, value : Has(e.args, name, value) => Has(new, name, value)
  BY UpdatedHas
<1> HIDE DEF new
<1>4. CASE e.file = "_robot_description"
  <2>1. Entities(e.file, new) = RobotDescriptionLaunch(new)
    BY <1>4 DEF Entities
  <2>2. m.moveit # Nothing => Has(new, "robot_description", m.moveit.description)
    BY <1>3, <1>4 DEF IncludeFits, Tables
  <2> QED BY <1>1, <1>2, <2>1, <2>2, DescriptionGood DEF new
<1>5. CASE e.file \in {"_ros2_control", "_dual_ros2_control"}
  <2>1. ControlGiven(new, m)
    BY <1>3, <1>5 DEF IncludeFits, ControlGiven
  <2>2. Entities(e.file, new) \in {Ros2Control(new), DualRos2Control(new)}
    BY <1>5 DEF Entities
  <2> QED BY <1>1, <1>2, <2>1, <2>2, Ros2ControlGood, DualRos2ControlGood DEF new
<1>6. CASE e.file = "_dual_robot_moveit_common2"
  <2>1. Entities(e.file, new) = DualRobotMoveitCommon2(new)
    BY <1>6 DEF Entities
  <2>2. m.moveit # Nothing /\ Has(new, "moveit_config_dump", m.moveit)
    BY <1>3, <1>6 DEF IncludeFits
  <2> QED BY <1>1, <1>2, <2>1, <2>2, DualCommonGood DEF new
<1>7. CASE e.file = "_robot_moveit_common2"
  <2>1. Entities(e.file, new) = RobotMoveitCommon2(new)
    BY <1>7 DEF Entities
  <2>2. m.moveit # Nothing /\ Single(m.moveit) /\ Has(new, "moveit_config_dump", m.moveit)
    BY <1>3, <1>7 DEF IncludeFits
  <2> QED BY <1>1, <1>2, <2>1, <2>2, CommonGood DEF new
<1>8. CASE e.file = "_robot_planner"
  <2>1. Entities(e.file, new) = RobotPlanner(new)
    BY <1>8 DEF Entities
  <2>2. m.moveit # Nothing /\ Single(m.moveit) /\ Has(new, "moveit_config_dump", m.moveit)
    BY <1>3, <1>8 DEF IncludeFits
  <2>3. Planned(m.moveit, Arm(new))
    <3> DEFINE M == m.moveit
    <3>1. M.description.arms[1] = Arm(new)
      BY <1>1, <2>2 DEF IsMode
    <3> HIDE DEF M
    <3>2. Planned(M, M.description.arms[1])
      BY <2>2 DEF Single, ToMoveItConfigs, Planned, RobotDescriptionSemantic, M
    <3> QED BY <3>1, <3>2 DEF M
  <2>4. Planned(new["moveit_config_dump"], Arm(new))
    BY <2>2, <2>3 DEF Has
  <2> QED BY <1>1, <1>2, <2>1, <2>4, PlannerGood DEF new
<1>9. CASE e.file \in Tables
  <2>1. m.sim = TRUE /\ Has(new, "moveit_config_dump", m.moveit)
    BY <1>3, <1>9 DEF IncludeFits, Tables, IsMode
  <2> QED BY <1>1, <1>2, <1>9, <2>1, TableGood DEF new
<1> QED BY <1>4, <1>5, <1>6, <1>7, <1>8, <1>9 DEF IncludeFits, Tables

-----------------------------------------------------------------------------
(* The files a launch begins with. *)

\* There is a launch that what the file returns fits.
Opened(s, c) == \E m : IsMode(m) /\ m.arm = Arm(c) /\ Good(s, m)

\* The launches without a configuration of their own, and those of one arm and
\* of two.
Mode(M, sim, c) == [moveit |-> M, sim |-> sim, arm |-> Arm(c)]

\* A launch without a configuration,
LEMMA PlainMode ==
  ASSUME NEW sim \in BOOLEAN, NEW c
  PROVE  IsMode(Mode(Nothing, sim, c))
BY DEF IsMode, Mode, Single, Dual

\* one that raises,
LEMMA RaiseOpened ==
  ASSUME NEW c
  PROVE  Opened(Raise, c)
<1>1. IsMode(Mode(Nothing, FALSE, c)) /\ Mode(Nothing, FALSE, c).arm = Arm(c)
  BY PlainMode DEF Mode
<1> QED BY <1>1, RaiseGood DEF Opened

\* one with the configuration of an arm,
LEMMA SingleMode ==
  ASSUME NEW sim \in BOOLEAN, NEW c, NEW plugin, NEW params, NEW M,
         params = GenerateRos2ControlParams(XArmType(Arm(c)), Arm(c)), params # Nothing,
         M = ToMoveItConfigs(Arm(c), ServoFile(plugin), plugin, params), M # Nothing
  PROVE  /\ IsMode(Mode(M, sim, c))
         /\ Single(M)
         /\ M.description.params = params
<1> DEFINE arm == Arm(c)
<1>1. /\ M.description = [arms |-> <<arm>>, plugin |-> plugin, params |-> params]
      /\ ArmDirs(arm, arm.type) \subseteq ConfigDirs
  BY DEF ToMoveItConfigs, RobotDescription
<1> HIDE DEF arm
<1>2. /\ M.description.arms = <<arm>> /\ M.description.plugin = plugin
      /\ M.description.params = params
  BY <1>1
<1>3. Len(M.description.arms) = 1 /\ M.description.arms[1] = arm
  BY <1>2
<1>4. Single(M)
  BY <1>1, <1>2, <1>3 DEF Single, arm
<1> QED BY <1>2, <1>4 DEF IsMode, Mode, arm

\* and one with that of two.
LEMMA DualMode ==
  ASSUME NEW sim \in BOOLEAN, NEW c, NEW plugin, NEW params, NEW M,
         params = GenerateDualRos2ControlParams(XArmTypes(Arms(c)), Arms(c)), params # Nothing,
         M = DualToMoveItConfigs(Arms(c), ServoFile(plugin), plugin, params), M # Nothing
  PROVE  /\ IsMode(Mode(M, sim, c))
         /\ M.description.params = params
<1> DEFINE arms == Arms(c)
<1>1. /\ M.description = [arms |-> arms, plugin |-> plugin, params |-> params]
      /\ ArmDirs(arms[1], arms[1].type) \cup ArmDirs(arms[2], arms[2].type)
           \cup ArmDirs(arms[2], arms[1].type) \subseteq ConfigDirs
  BY DEF DualToMoveItConfigs, DualRobotDescription
<1>2. Len(arms) = 2 /\ arms = <<arms[1], arms[2]>>
  BY DEF Arms
<1> HIDE DEF arms
<1>3. /\ M.description.arms = arms /\ M.description.plugin = plugin
      /\ M.description.params = params
  BY <1>1
<1>4. Dual(M)
  BY <1>1, <1>2, <1>3 DEF Dual, arms
<1>5. ~Single(M)
  BY <1>2, <1>3 DEF Single
<1> QED BY <1>3, <1>4, <1>5 DEF IsMode, Mode

\* Only the real arm's plugin is served by the driver's actions.
LEMMA ServoFiles ==
  ASSUME NEW plugin, plugin # RealPlugin
  PROVE  ServoFile(plugin) = "fake_controllers"
BY DEF ServoFile

\* What such a launch includes.
LEMMA DescriptionIncluded ==
  ASSUME NEW M, M # Nothing, NEW sim, NEW c
  PROVE  Opens(Include("_robot_description", [robot_description |-> M.description]), Mode(M, sim, c))
<1> DEFINE args == [robot_description |-> M.description]
<1>1. /\ DOMAIN args = {"robot_description"}
      /\ Has(args, "robot_description", M.description)
  BY DEF Has
<1> HIDE DEF args
<1>2. IncludeFits(Include("_robot_description", args), Mode(M, sim, c))
  BY <1>1 DEF IncludeFits, Include, ArmGiven, Given, Mode
<1> QED BY <1>2, IncludeOpens DEF args

\* An included controller manager gets the configuration's description and parameters,
LEMMA ControlIncluded ==
  ASSUME NEW M, NEW sim, NEW c, NEW file \in {"_ros2_control", "_dual_ros2_control"},
         NEW given, NEW params, M # Nothing => M = given /\ M.description.params = params
  PROVE  Opens(Include(file, ControlArgs(given, params)), Mode(M, sim, c))
<1> DEFINE args == ControlArgs(given, params)
<1>1. /\ DOMAIN args = {"robot_description", "ros2_control_params"}
      /\ Has(args, "robot_description", given.description)
      /\ Has(args, "ros2_control_params", params)
  BY DEF Has, ControlArgs
<1> HIDE DEF args
<1>2. IncludeFits(Include(file, args), Mode(M, sim, c))
  BY <1>1 DEF IncludeFits, Include, ArmGiven, Given, Mode
<1> QED BY <1>2, IncludeOpens DEF args

\* an included move_group the configuration, of one arm
LEMMA CommonIncluded ==
  ASSUME NEW M, M # Nothing, Single(M), NEW sim, NEW c
  PROVE  /\ Opens(Include("_robot_moveit_common2", Common2Args(Arm(c), c, M)), Mode(M, sim, c))
         /\ Opens(Include("_robot_moveit_common2",
                          Updated(Common2Args(Arm(c), c, M), [show_rviz |-> FALSE])), Mode(M, sim, c))
<1>1. ASSUME NEW args,
             DOMAIN args \subseteq {"prefix", "no_gui_ctrl", "moveit_config_dump", "show_rviz"},
             Has(args, "prefix", Arm(c).prefix), Has(args, "moveit_config_dump", M)
      PROVE  Opens(Include("_robot_moveit_common2", args), Mode(M, sim, c))
  <2>1. IncludeFits(Include("_robot_moveit_common2", args), Mode(M, sim, c))
    BY <1>1 DEF IncludeFits, Include, ArmGiven, Given, Has, Mode
  <2> QED BY <2>1, IncludeOpens
<1> DEFINE args == Common2Args(Arm(c), c, M)
           new  == Updated(args, [show_rviz |-> FALSE])
<1>2. /\ DOMAIN args = {"prefix", "no_gui_ctrl", "moveit_config_dump"}
      /\ Has(args, "prefix", Arm(c).prefix) /\ Has(args, "moveit_config_dump", M)
  BY DEF Common2Args, Has
<1> HIDE DEF args
<1>3. /\ DOMAIN new = {"prefix", "no_gui_ctrl", "moveit_config_dump", "show_rviz"}
      /\ Has(new, "prefix", Arm(c).prefix) /\ Has(new, "moveit_config_dump", M)
  BY <1>2 DEF Updated, Has
<1> HIDE DEF new
<1> QED BY <1>1, <1>2, <1>3 DEF args, new

\* or of two.
LEMMA DualCommonIncluded ==
  ASSUME NEW M, M # Nothing, NEW sim, NEW c
  PROVE  /\ Opens(Include("_dual_robot_moveit_common2", DualCommon2Args(Arms(c), c, M)), Mode(M, sim, c))
         /\ Opens(Include("_dual_robot_moveit_common2",
                          Updated(DualCommon2Args(Arms(c), c, M), [show_rviz |-> FALSE])), Mode(M, sim, c))
<1>1. ASSUME NEW args,
             DOMAIN args \subseteq {"prefix_1", "prefix_2", "no_gui_ctrl", "moveit_config_dump", "show_rviz"},
             Has(args, "moveit_config_dump", M)
      PROVE  Opens(Include("_dual_robot_moveit_common2", args), Mode(M, sim, c))
  <2>1. IncludeFits(Include("_dual_robot_moveit_common2", args), Mode(M, sim, c))
    BY <1>1 DEF IncludeFits, Include, ArmGiven, Given, Has, Mode
  <2> QED BY <2>1, IncludeOpens
<1> DEFINE args == DualCommon2Args(Arms(c), c, M)
           new  == Updated(args, [show_rviz |-> FALSE])
<1>2. /\ DOMAIN args = {"prefix_1", "prefix_2", "no_gui_ctrl", "moveit_config_dump"}
      /\ Has(args, "moveit_config_dump", M)
  BY DEF DualCommon2Args, Has
<1> HIDE DEF args
<1>3. /\ DOMAIN new = {"prefix_1", "prefix_2", "no_gui_ctrl", "moveit_config_dump", "show_rviz"}
      /\ Has(new, "moveit_config_dump", M)
  BY <1>2 DEF Updated, Has
<1> HIDE DEF new
<1> QED BY <1>1, <1>2, <1>3 DEF args, new

\* Spawners outside of a simulation, and the node the driver's joint states
\* come from.
LEMMA SpawnersOpened ==
  ASSUME NEW M, NEW c, NEW controllers, \E S : controllers \in Seq(S), NEW file
  PROVE  Good(Spawners(controllers, file), Mode(M, FALSE, c))
<1>1. Mode(M, FALSE, c).sim = FALSE
  BY DEF Mode
<1> QED BY <1>1, SpawnersGood

\* A list of one.
LEMMA OneListed ==
  ASSUME NEW a
  PROVE  \E S : <<a>> \in Seq(S)
<1>1. <<a>> \in Seq({a})
  OBVIOUS
<1> QED BY <1>1

\* A node of another program.
LEMMA OtherOpens ==
  ASSUME NEW exe, exe \notin Programs, NEW name, NEW file, NEW data, NEW m
  PROVE  Opens(Node(Id(exe, name, file), data), m)
<1>1. Other(Id(exe, name, file).exe)
  BY DEF Other, Id
<1> QED BY <1>1, OtherNode

\* A file that generates a configuration and the parameters of its controllers,
\* and raises if it cannot.
LEMMA SingleOpened ==
  ASSUME NEW sim \in BOOLEAN, NEW c, NEW plugin, NEW params, NEW M, NEW s,
         params = GenerateRos2ControlParams(XArmType(Arm(c)), Arm(c)),
         M = ToMoveItConfigs(Arm(c), ServoFile(plugin), plugin, params),
         M # Nothing /\ Single(M) /\ M.description.params = params => Good(s, Mode(M, sim, c))
  PROVE  Opened(IF Nothing \in {params, M} THEN Raise ELSE s, c)
<1>1. CASE params # Nothing /\ M # Nothing
  <2>1. IsMode(Mode(M, sim, c)) /\ Single(M) /\ M.description.params = params
    BY <1>1, SingleMode
  <2>2. Good(s, Mode(M, sim, c)) /\ Mode(M, sim, c).arm = Arm(c)
    BY <1>1, <2>1 DEF Mode
  <2> QED BY <1>1, <2>1, <2>2 DEF Opened
<1> QED BY <1>1, RaiseOpened

\* The same, for two.
LEMMA DualOpened ==
  ASSUME NEW sim \in BOOLEAN, NEW c, NEW plugin, NEW params, NEW M, NEW s,
         params = GenerateDualRos2ControlParams(XArmTypes(Arms(c)), Arms(c)),
         M = DualToMoveItConfigs(Arms(c), ServoFile(plugin), plugin, params),
         M # Nothing /\ M.description.params = params => Good(s, Mode(M, sim, c))
  PROVE  Opened(IF Nothing \in {params, M} THEN Raise ELSE s, c)
<1>1. CASE params # Nothing /\ M # Nothing
  <2>1. IsMode(Mode(M, sim, c)) /\ M.description.params = params
    BY <1>1, DualMode
  <2>2. Good(s, Mode(M, sim, c)) /\ Mode(M, sim, c).arm = Arm(c)
    BY <1>1, <2>1 DEF Mode
  <2> QED BY <1>1, <2>1, <2>2 DEF Opened
<1> QED BY <1>1, RaiseOpened

\* The controllers file that goes with each plugin.
LEMMA PluginFiles ==
  /\ ServoFile(RealPlugin) = "controllers"
  /\ ServoFile(FakePlugin) = "fake_controllers"
  /\ ServoFile("gz_ros2_control/GazeboSimSystem") = "fake_controllers"
  /\ ServoFile("ign_ros2_control/IgnitionSystem") = "fake_controllers"
  /\ ServoFile("gazebo_ros2_control/GazeboSystem") = "fake_controllers"
BY DEF ServoFile, RealPlugin, FakePlugin

\* MoveIt with a faked arm and with a real one.
LEMMA MoveitFakeOpened ==
  ASSUME NEW c
  PROVE  Opened(RobotMoveitFake(c), c)
<1> DEFINE file   == "_robot_moveit_fake"
           arm    == Arm(c)
           params == GenerateRos2ControlParams(XArmType(arm), arm)
           M      == ToMoveItConfigs(arm, "fake_controllers", FakePlugin, params)
           m      == Mode(M, FALSE, c)
           first  == <<Include("_robot_description", [robot_description |-> M.description]),
                       Include("_robot_moveit_common2", Common2Args(arm, c, M))>>
           state  == Spawners(<<Broadcaster>>, file)
           driver == <<Include("_ros2_control", ControlArgs(M, params))>>
           others == Spawners(<<TrajController(arm)>> \o GripperTrajController(arm), file)
<1>1. RobotMoveitFake(c) = IF Nothing \in {params, M} THEN Raise
                           ELSE first \o state \o driver \o others
  BY DEF RobotMoveitFake
<1>2. params = GenerateRos2ControlParams(XArmType(Arm(c)), Arm(c))
  OBVIOUS
<1>3. M = ToMoveItConfigs(Arm(c), ServoFile(FakePlugin), FakePlugin, params)
  BY PluginFiles
<1>4. Good(state, m) /\ Good(others, m)
  BY OneListed, GripperListed, ConcatListed, SpawnersOpened
<1> HIDE DEF params, M, state, others
<1>5. ASSUME M # Nothing /\ Single(M) /\ M.description.params = params
      PROVE  Good(first \o state \o driver \o others, m)
  <2>1. Good(first, m)
    BY <1>5, DescriptionIncluded, CommonIncluded, TwoGood
  <2>2. Good(driver, m)
    BY <1>5, ControlIncluded, OneGood
  <2> HIDE DEF first, driver, m
  <2>3. Good(first \o state, m)
    BY <1>4, <2>1, ConcatGood
  <2>4. Good(first \o state \o driver, m)
    BY <2>2, <2>3, ConcatGood
  <2> QED BY <1>4, <2>4, ConcatGood
<1> DEFINE all == first \o state \o driver \o others
<1>6. Opened(IF Nothing \in {params, M} THEN Raise ELSE all, c)
  <2> HIDE DEF all
  <2>1. M # Nothing /\ Single(M) /\ M.description.params = params => Good(all, Mode(M, FALSE, c))
    BY <1>5 DEF all
  <2> QED BY <1>2, <1>3, <2>1, SingleOpened
<1> QED BY <1>1, <1>6

\* _robot_moveit_realmove.
LEMMA MoveitRealmoveOpened ==
  ASSUME NEW c
  PROVE  Opened(RobotMoveitRealmove(c), c)
<1> DEFINE file   == "_robot_moveit_realmove"
           arm    == Arm(c)
           params == GenerateRos2ControlParams(XArmType(arm), arm)
           M      == ToMoveItConfigs(arm, "controllers", RealPlugin, params)
           m      == Mode(M, FALSE, c)
           desc   == Include("_robot_description", [robot_description |-> M.description])
           common == Include("_robot_moveit_common2", Common2Args(arm, c, M))
           states == Node(Id("joint_state_publisher", Unnamed, file), Nothing)
           driver == Include("_ros2_control", ControlArgs(M, params))
           first  == <<desc, common, states, driver>>
           others == Spawners(<<TrajController(arm)>>, file)
           all    == first \o others
           given  == IF Nothing \in {params, M} THEN Raise ELSE all
<1>1. RobotMoveitRealmove(c) \in {Raise, given}
  BY DEF RobotMoveitRealmove
<1>2. params = GenerateRos2ControlParams(XArmType(Arm(c)), Arm(c))
  OBVIOUS
<1>3. M = ToMoveItConfigs(Arm(c), ServoFile(RealPlugin), RealPlugin, params)
  BY PluginFiles
<1>4. Good(others, m)
  BY OneListed, SpawnersOpened
<1>5. Opens(states, m)
  BY OtherOpens DEF Programs
<1> HIDE DEF params, M, others
<1>6. ASSUME M # Nothing /\ Single(M) /\ M.description.params = params
      PROVE  Good(all, m)
  <2>1. Opens(desc, m) /\ Opens(common, m) /\ Opens(driver, m)
    BY <1>6, DescriptionIncluded, CommonIncluded, ControlIncluded
  <2> HIDE DEF desc, common, states, driver, m
  <2>2. Good(first, m)
    BY <1>5, <2>1, FourGood
  <2> QED BY <1>4, <2>2, ConcatGood
<1>7. Opened(given, c)
  <2> HIDE DEF all
  <2>1. M # Nothing /\ Single(M) /\ M.description.params = params => Good(all, Mode(M, FALSE, c))
    BY <1>6 DEF all
  <2> QED BY <1>2, <1>3, <2>1, SingleOpened
<1> HIDE DEF given
<1> QED BY <1>1, <1>7, RaiseOpened

\* MoveIt with a simulated arm, or two.
LEMMA TableIncluded ==
  ASSUME NEW M, M # Nothing, NEW c, NEW table \in Tables, NEW args,
         DOMAIN args \cap {"add_gripper", "add_bio_gripper", "node_executable"} = {},
         Given(args, "dof", Arm(c).dof), Given(args, "robot_type", Arm(c).type),
         Given(args, "prefix", Arm(c).prefix), Has(args, "moveit_config_dump", M)
  PROVE  Opens(Include(table, args), Mode(M, TRUE, c))
<1>1. IncludeFits(Include(table, args), Mode(M, TRUE, c))
  BY DEF IncludeFits, Include, ArmGiven, Given, Mode, Tables
<1> QED BY <1>1, IncludeOpens

\* _robot_moveit_gz, _ignition and _gazebo,
LEMMA SimulatedOpened ==
  ASSUME NEW c, NEW plugin, ServoFile(plugin) = "fake_controllers", NEW table \in Tables
  PROVE  Opened(SimulatedMoveit(c, plugin, table), c)
<1> DEFINE arm    == Arm(c)
           params == GenerateRos2ControlParams(XArmType(arm), arm)
           M      == ToMoveItConfigs(arm, "fake_controllers", plugin, params)
           args   == [dof |-> arm.dof, robot_type |-> arm.type, prefix |-> arm.prefix,
                      moveit_config_dump |-> M, load_controller |-> TRUE,
                      show_rviz |-> TRUE, no_gui_ctrl |-> Arg(c, "no_gui_ctrl", FALSE)]
           inner  == Include(table, args)
           common == Include("_robot_moveit_common2",
                             Updated(Common2Args(arm, c, M), [show_rviz |-> FALSE]))
           all    == <<inner, common>>
<1>1. SimulatedMoveit(c, plugin, table) = IF Nothing \in {params, M} THEN Raise ELSE all
  BY DEF SimulatedMoveit
<1>2. params = GenerateRos2ControlParams(XArmType(Arm(c)), Arm(c))
  OBVIOUS
<1>3. M = ToMoveItConfigs(Arm(c), ServoFile(plugin), plugin, params)
  OBVIOUS
<1> HIDE DEF params, M
<1>4. ASSUME M # Nothing /\ Single(M) /\ M.description.params = params
      PROVE  Good(all, Mode(M, TRUE, c))
  <2>1. Opens(common, Mode(M, TRUE, c))
    BY <1>4, CommonIncluded
  <2>2. /\ DOMAIN args = {"dof", "robot_type", "prefix", "moveit_config_dump",
                          "load_controller", "show_rviz", "no_gui_ctrl"}
        /\ args["dof"] = Arm(c).dof /\ args["robot_type"] = Arm(c).type
        /\ args["prefix"] = Arm(c).prefix /\ args["moveit_config_dump"] = M
    OBVIOUS
  <2> HIDE DEF args
  <2>3. /\ DOMAIN args \cap {"add_gripper", "add_bio_gripper", "node_executable"} = {}
        /\ Given(args, "dof", Arm(c).dof) /\ Given(args, "robot_type", Arm(c).type)
        /\ Given(args, "prefix", Arm(c).prefix) /\ Has(args, "moveit_config_dump", M)
    BY <2>2 DEF Given, Has
  <2>4. Opens(inner, Mode(M, TRUE, c))
    BY <1>4, <2>3, TableIncluded
  <2> HIDE DEF inner, common
  <2> QED BY <2>1, <2>4, TwoGood
<1>5. Opened(IF Nothing \in {params, M} THEN Raise ELSE all, c)
  <2> HIDE DEF all
  <2>1. M # Nothing /\ Single(M) /\ M.description.params = params => Good(all, Mode(M, TRUE, c))
    BY <1>4 DEF all
  <2> QED BY <1>2, <1>3, <2>1, SingleOpened
<1> QED BY <1>1, <1>5

\* and for two arms.
LEMMA DualSimulatedOpened ==
  ASSUME NEW c, NEW plugin, ServoFile(plugin) = "fake_controllers", NEW table \in Tables
  PROVE  Opened(DualSimulatedMoveit(c, DualSimulatedConfigs(c, plugin), table), c)
<1> DEFINE arms   == Arms(c)
           params == GenerateDualRos2ControlParams(XArmTypes(arms), arms)
           M      == DualToMoveItConfigs(arms, "fake_controllers", plugin, params)
           args   == [dof_1 |-> arms[1].dof, dof_2 |-> arms[2].dof,
                      robot_type_1 |-> arms[1].type, robot_type_2 |-> arms[2].type,
                      prefix_1 |-> arms[1].prefix, prefix_2 |-> arms[2].prefix,
                      moveit_config_dump |-> M, load_controller |-> TRUE,
                      show_rviz |-> TRUE, no_gui_ctrl |-> Arg(c, "no_gui_ctrl", FALSE)]
           inner  == Include(table, args)
           common == Include("_dual_robot_moveit_common2",
                             Updated(DualCommon2Args(arms, c, M), [show_rviz |-> FALSE]))
           all    == <<inner, common>>
<1>1. DualSimulatedMoveit(c, DualSimulatedConfigs(c, plugin), table)
        = IF Nothing \in {params, M} THEN Raise ELSE all
  <2>1. DualSimulatedConfigs(c, plugin) = IF params = Nothing THEN Nothing ELSE M
    BY DEF DualSimulatedConfigs
  <2> QED BY <2>1 DEF DualSimulatedMoveit
<1>2. params = GenerateDualRos2ControlParams(XArmTypes(Arms(c)), Arms(c))
  OBVIOUS
<1>3. M = DualToMoveItConfigs(Arms(c), ServoFile(plugin), plugin, params)
  OBVIOUS
<1> HIDE DEF params, M
<1>4. ASSUME M # Nothing /\ M.description.params = params
      PROVE  Good(all, Mode(M, TRUE, c))
  <2>1. Opens(common, Mode(M, TRUE, c))
    BY <1>4, DualCommonIncluded
  <2>2. /\ DOMAIN args = {"dof_1", "dof_2", "robot_type_1", "robot_type_2", "prefix_1", "prefix_2",
                          "moveit_config_dump", "load_controller", "show_rviz", "no_gui_ctrl"}
        /\ args["moveit_config_dump"] = M
    OBVIOUS
  <2> HIDE DEF args
  <2>3. /\ DOMAIN args \cap {"add_gripper", "add_bio_gripper", "node_executable"} = {}
        /\ Given(args, "dof", Arm(c).dof) /\ Given(args, "robot_type", Arm(c).type)
        /\ Given(args, "prefix", Arm(c).prefix) /\ Has(args, "moveit_config_dump", M)
    BY <2>2 DEF Given, Has
  <2>4. Opens(inner, Mode(M, TRUE, c))
    BY <1>4, <2>3, TableIncluded
  <2> HIDE DEF inner, common
  <2> QED BY <2>1, <2>4, TwoGood
<1>5. Opened(IF Nothing \in {params, M} THEN Raise ELSE all, c)
  <2> HIDE DEF all
  <2>1. M # Nothing /\ M.description.params = params => Good(all, Mode(M, TRUE, c))
    BY <1>4 DEF all
  <2> QED BY <1>2, <1>3, <2>1, DualOpened
<1> QED BY <1>1, <1>5

\* MoveIt with two arms, faked and real: the files start the state publisher
\* themselves.
LEMMA PublisherOpens ==
  ASSUME NEW M, NEW sim, NEW c, NEW file
  PROVE  Opens(Node(RobotStatePublisher(file), M.description), Mode(M, sim, c))
BY DEF Opens, Fits, NodeFits, IsSpawner, Node, RobotStatePublisher, Id, Mode

\* A list of two.
LEMMA TwoListed ==
  ASSUME NEW a, NEW b
  PROVE  \E S : <<a, b>> \in Seq(S)
<1>1. <<a, b>> \in Seq({a, b})
  OBVIOUS
<1> QED BY <1>1

\* _dual_robot_moveit_fake,
LEMMA DualMoveitFakeOpened ==
  ASSUME NEW c
  PROVE  Opened(DualRobotMoveitFake(c), c)
<1> DEFINE file   == "_dual_robot_moveit_fake"
           arms   == Arms(c)
           params == GenerateDualRos2ControlParams(XArmTypes(arms), arms)
           M      == DualToMoveItConfigs(arms, "fake_controllers", FakePlugin, params)
           m      == Mode(M, FALSE, c)
           desc   == Node(RobotStatePublisher(file), M.description)
           common == Include("_dual_robot_moveit_common2", DualCommon2Args(arms, c, M))
           first  == <<desc, common>>
           state  == Spawners(<<Broadcaster>>, file)
           driver == Include("_dual_ros2_control", ControlArgs(M, params))
           others == Spawners(<<TrajController(arms[1]), TrajController(arms[2])>>
                              \o GripperTrajController(arms[1]) \o GripperTrajController(arms[2]), file)
           all    == first \o state \o <<driver>> \o others
<1>1. DualRobotMoveitFake(c) = IF Nothing \in {params, M} THEN Raise ELSE all
  BY DEF DualRobotMoveitFake, DualFakeConfigs
<1>2. params = GenerateDualRos2ControlParams(XArmTypes(Arms(c)), Arms(c))
  OBVIOUS
<1>3. M = DualToMoveItConfigs(Arms(c), ServoFile(FakePlugin), FakePlugin, params)
  BY PluginFiles
<1>4. Good(state, m)
  BY OneListed, SpawnersOpened
<1>5. Good(others, m)
  BY TwoListed, GripperListed, ConcatListed, SpawnersOpened
<1> HIDE DEF params, M, state, others
<1>6. ASSUME M # Nothing /\ M.description.params = params
      PROVE  Good(all, m)
  <2>1. Opens(desc, m) /\ Opens(common, m) /\ Opens(driver, m)
    BY <1>6, PublisherOpens, DualCommonIncluded, ControlIncluded
  <2> HIDE DEF desc, common, driver, m
  <2>2. Good(first, m) /\ Good(<<driver>>, m)
    BY <2>1, OneGood, TwoGood
  <2> HIDE DEF first
  <2>3. Good(first \o state, m)
    BY <1>4, <2>2, ConcatGood
  <2>4. Good(first \o state \o <<driver>>, m)
    BY <2>2, <2>3, ConcatGood
  <2> QED BY <1>5, <2>4, ConcatGood
<1>7. Opened(IF Nothing \in {params, M} THEN Raise ELSE all, c)
  <2> HIDE DEF all
  <2>1. M # Nothing /\ M.description.params = params => Good(all, Mode(M, FALSE, c))
    BY <1>6 DEF all
  <2> QED BY <1>2, <1>3, <2>1, DualOpened
<1> QED BY <1>1, <1>7

\* _dual_robot_moveit_realmove.
LEMMA DualMoveitRealmoveOpened ==
  ASSUME NEW c
  PROVE  Opened(DualRobotMoveitRealmove(c), c)
<1> DEFINE file   == "_dual_robot_moveit_realmove"
           arms   == Arms(c)
           params == GenerateDualRos2ControlParams(XArmTypes(arms), arms)
           M      == DualToMoveItConfigs(arms, "controllers", RealPlugin, params)
           m      == Mode(M, FALSE, c)
           desc   == Node(RobotStatePublisher(file), M.description)
           common == Include("_dual_robot_moveit_common2", DualCommon2Args(arms, c, M))
           states == Node(Id("joint_state_publisher", Unnamed, file), Nothing)
           driver == Include("_dual_ros2_control", ControlArgs(M, params))
           first  == <<desc, common, states, driver>>
           others == Spawners(<<TrajController(arms[1]), TrajController(arms[2])>>, file)
           all    == first \o others
           given  == IF Nothing \in {params, M} THEN Raise ELSE all
<1>1. DualRobotMoveitRealmove(c) \in {Raise, given}
  BY DEF DualRobotMoveitRealmove, DualRealmoveConfigs
<1>2. params = GenerateDualRos2ControlParams(XArmTypes(Arms(c)), Arms(c))
  OBVIOUS
<1>3. M = DualToMoveItConfigs(Arms(c), ServoFile(RealPlugin), RealPlugin, params)
  BY PluginFiles
<1>4. Good(others, m)
  BY TwoListed, SpawnersOpened
<1>5. Opens(states, m)
  BY OtherOpens DEF Programs
<1> HIDE DEF params, M, others
<1>6. ASSUME M # Nothing /\ M.description.params = params
      PROVE  Good(all, m)
  <2>1. Opens(desc, m) /\ Opens(common, m) /\ Opens(driver, m)
    BY <1>6, PublisherOpens, DualCommonIncluded, ControlIncluded
  <2> HIDE DEF desc, common, states, driver, m
  <2>2. Good(first, m)
    BY <1>5, <2>1, FourGood
  <2> QED BY <1>4, <2>2, ConcatGood
<1>7. Opened(given, c)
  <2> HIDE DEF all
  <2>1. M # Nothing /\ M.description.params = params => Good(all, Mode(M, FALSE, c))
    BY <1>6 DEF all
  <2> QED BY <1>2, <1>3, <2>1, DualOpened
<1> HIDE DEF given
<1> QED BY <1>1, <1>7, RaiseOpened

\* The servo node, without move_group.
LEMMA ServoFakeOpened ==
  ASSUME NEW c
  PROVE  Opened(RobotMoveitServoFake(c), c)
<1> DEFINE file   == "_robot_moveit_servo_fake"
           arm    == Arm(c)
           m      == Mode(Nothing, FALSE, c)
           M      == ServoFakeConfigs(c).moveit
           params == ServoFakeConfigs(c).params
           rviz   == Node(Rviz(file), M)
           state  == Spawners(<<Broadcaster>>, file)
           driver == Include("_ros2_control", ControlArgs(M, params))
           servo  == Node(Id("servo", Unnamed, file), [output |-> TrajController(arm)])
           stick  == Node(Id("xarm_joystick_input_node", Unnamed, file), Nothing)
           others == Spawners(<<TrajController(arm)>> \o GripperTrajController(arm), file)
           all    == <<rviz>> \o state \o <<driver, servo, stick>> \o others
<1>1. RobotMoveitServoFake(c) = IF Nothing \in {params, M} THEN Raise ELSE all
  BY DEF RobotMoveitServoFake
<1>2. Good(<<rviz>>, m)
  BY RvizGood
<1>3. Good(state, m) /\ Good(others, m)
  BY OneListed, GripperListed, ConcatListed, SpawnersOpened
<1>4. Opens(driver, m)
  <2> HIDE DEF M, params
  <2>1. Nothing # Nothing => Nothing = M /\ Nothing.description.params = params
    OBVIOUS
  <2> QED BY <2>1, ControlIncluded
<1>5. Opens(servo, m) /\ Opens(stick, m)
  BY OtherOpens DEF Programs
<1>6. IsMode(m) /\ m.arm = Arm(c)
  BY PlainMode DEF Mode
<1> HIDE DEF params, M, rviz, state, driver, servo, stick, others, m
<1>7. Good(<<rviz>> \o state, m) /\ Good(<<driver, servo, stick>>, m)
  BY <1>2, <1>3, <1>4, <1>5, ConcatGood, ThreeGood
<1>8. Good(<<rviz>> \o state \o <<driver, servo, stick>>, m)
  BY <1>7, ConcatGood
<1>9. Good(all, m)
  BY <1>3, <1>8, ConcatGood
<1> HIDE DEF all
<1> QED BY <1>1, <1>6, <1>9, RaiseOpened DEF Opened

\* The same with a real arm.
LEMMA ServoRealmoveOpened ==
  ASSUME NEW c
  PROVE  Opened(RobotMoveitServoRealmove(c), c)
<1> DEFINE file   == "_robot_moveit_servo_realmove"
           arm    == Arm(c)
           m      == Mode(Nothing, FALSE, c)
           M      == ServoRealmoveConfigs(c).moveit
           params == ServoRealmoveConfigs(c).params
           rviz   == Node(Rviz(file), M)
           states == Node(Id("joint_state_publisher", Unnamed, file), Nothing)
           driver == Include("_ros2_control", ControlArgs(M, params))
           servo  == Node(Id("servo", Unnamed, file), [output |-> TrajController(arm)])
           stick  == Node(Id("xarm_joystick_input_node", Unnamed, file), Nothing)
           others == Spawners(<<TrajController(arm)>>, file)
           all    == <<rviz, states, driver, servo, stick>> \o others
<1>1. RobotMoveitServoRealmove(c) = IF Nothing \in {params, M} THEN Raise ELSE all
  BY DEF RobotMoveitServoRealmove
<1>2. Opens(rviz, m)
  BY OtherOpens DEF Programs, Rviz
<1>3. Good(others, m)
  BY OneListed, SpawnersOpened
<1>4. Opens(driver, m)
  <2> HIDE DEF M, params
  <2>1. Nothing # Nothing => Nothing = M /\ Nothing.description.params = params
    OBVIOUS
  <2> QED BY <2>1, ControlIncluded
<1>5. Opens(states, m) /\ Opens(servo, m) /\ Opens(stick, m)
  BY OtherOpens DEF Programs
<1>6. IsMode(m) /\ m.arm = Arm(c)
  BY PlainMode DEF Mode
<1> HIDE DEF params, M, rviz, states, driver, servo, stick, others, m
<1>7. Good(<<rviz, states, driver, servo, stick>>, m)
  <2> DEFINE five == <<rviz, states, driver, servo, stick>>
             S    == {rviz, states, driver, servo, stick}
  <2>1. five \in Seq(S)
    OBVIOUS
  <2>2. Listing(five) /\ \A i \in 1 .. Len(five) : five[i] \in S
    <3> HIDE DEF five, S
    <3> QED BY <2>1, ListingSeq
  <2> QED BY <1>2, <1>4, <1>5, <2>2 DEF Good
<1>8. Good(all, m)
  BY <1>3, <1>7, ConcatGood
<1> HIDE DEF all
<1> QED BY <1>1, <1>6, <1>8, RaiseOpened DEF Opened

\* The files that configure nothing for others, launched by themselves.
LEMMA PlainOpened ==
  ASSUME NEW c, Plain(c)
  PROVE  /\ Opened(RobotDescriptionLaunch(c), c)
         /\ Opened(Ros2Control(c), c) /\ Opened(DualRos2Control(c), c)
         /\ Opened(RobotPlanner(c), c) /\ Opened(DualRobotPlanner(c), c)
         /\ \A file \in Tables : Opened(Entities(file, c), c)
<1>1. ASSUME NEW sim \in BOOLEAN
      PROVE  /\ IsMode(Mode(Nothing, sim, c)) /\ Mode(Nothing, sim, c).arm = Arm(c)
             /\ Mode(Nothing, sim, c).moveit = Nothing /\ Mode(Nothing, sim, c).sim = sim
  BY PlainMode DEF Mode
<1>2. Known(c) /\ "moveit_config_dump" \notin DOMAIN c
  BY DEF Known, Plain, Generated
<1> DEFINE still == Mode(Nothing, FALSE, c)
           moves == Mode(Nothing, TRUE, c)
<1>3. /\ IsMode(still) /\ still.arm = Arm(c) /\ still.moveit = Nothing
      /\ IsMode(moves) /\ moves.arm = Arm(c) /\ moves.moveit = Nothing /\ moves.sim = TRUE
  BY <1>1
<1> HIDE DEF still, moves
<1>4. Good(RobotDescriptionLaunch(c), still)
  BY <1>3, DescriptionGood
<1>5. Good(Ros2Control(c), still) /\ Good(DualRos2Control(c), still)
  BY <1>3, Ros2ControlGood, DualRos2ControlGood DEF ControlGiven
<1>6. Good(RobotPlanner(c), still)
  BY <1>2, <1>3, PlannerGood
<1>7. Good(DualRobotPlanner(c), still)
  BY <1>2, DualPlannerGood
<1>8. \A file \in Tables : Good(Entities(file, c), moves)
  BY <1>3, TableGood
<1> QED BY <1>3, <1>4, <1>5, <1>6, <1>7, <1>8 DEF Opened

\* The files that only include another one.
Passes(s) ==
  \E file, args : file \in Launchable /\ Plain(args) /\ s = <<Include(file, args)>>
\* Five files hand their arguments on, or raise without a dof or an address.
LEMMA WrappersPass ==
  ASSUME NEW c
  PROVE  /\ EmerPlannerLaunch(c) = Raise \/ Passes(EmerPlannerLaunch(c))
         /\ TestDualPlannerLaunch(c) = Raise \/ Passes(TestDualPlannerLaunch(c))
         /\ Xarm6PlannerRealmove(c) = Raise \/ Passes(Xarm6PlannerRealmove(c))
         /\ Passes(Xarm6PlannerFake(c)) /\ Passes(Xarm6PlannerGazebo(c))
<1>1. EmerPlannerLaunch(c) = Raise \/ Passes(EmerPlannerLaunch(c))
  <2> DEFINE args == [prefix |-> Arg(c, "prefix", ""), add_gripper |-> FALSE, dof |-> c["dof"],
                      robot_type |-> Arg(c, "robot_type", "xarm"),
                      node_executable |-> "emer_planner"]
  <2>1. Plain(args)
    BY DEF Plain, Generated, Programs, Others
  <2> HIDE DEF args
  <2>2. "_robot_planner" \in Launchable
    BY DEF Launchable
  <2>3. Passes(<<Include("_robot_planner", args)>>)
    BY <2>1, <2>2 DEF Passes
  <2> QED BY <2>3 DEF EmerPlannerLaunch, args
<1>2. TestDualPlannerLaunch(c) = Raise \/ Passes(TestDualPlannerLaunch(c))
  <2> DEFINE args == [add_gripper |-> Arg(c, "add_gripper", FALSE), dof |-> c["dof"],
                      robot_type |-> Arg(c, "robot_type", "xarm"),
                      node_executable |-> "test_dual_xarm_planner_api_joint"]
  <2>1. Plain(args)
    BY DEF Plain, Generated, Programs, Others
  <2> HIDE DEF args
  <2>2. "_dual_robot_planner" \in Launchable
    BY DEF Launchable
  <2>3. Passes(<<Include("_dual_robot_planner", args)>>)
    BY <2>1, <2>2 DEF Passes
  <2> QED BY <2>3 DEF TestDualPlannerLaunch, args
<1>3. Passes(Xarm6PlannerFake(c)) /\ Passes(Xarm6PlannerGazebo(c))
  <2> DEFINE args == [dof |-> "6", robot_type |-> "xarm", no_gui_ctrl |-> TRUE]
  <2>1. Plain(args)
    BY DEF Plain, Generated
  <2> HIDE DEF args
  <2>2. {"_robot_moveit_fake", "_robot_moveit_gazebo"} \subseteq Launchable
    BY DEF Launchable
  <2>3. \A file \in Launchable : Passes(<<Include(file, args)>>)
    BY <2>1 DEF Passes
  <2> QED BY <2>2, <2>3 DEF Xarm6PlannerFake, Xarm6PlannerGazebo, args
<1>4. Xarm6PlannerRealmove(c) = Raise \/ Passes(Xarm6PlannerRealmove(c))
  <2> DEFINE args == [robot_ip |-> c["robot_ip"], dof |-> "6", robot_type |-> "xarm",
                      no_gui_ctrl |-> TRUE]
  <2>1. Plain(args)
    BY DEF Plain, Generated
  <2> HIDE DEF args
  <2>2. "_robot_moveit_realmove" \in Launchable
    BY DEF Launchable
  <2>3. Passes(<<Include("_robot_moveit_realmove", args)>>)
    BY <2>1, <2>2 DEF Passes
  <2> QED BY <2>3 DEF Xarm6PlannerRealmove, args
<1> QED BY <1>1, <1>2, <1>3, <1>4

\* Whatever is launched, what its file returns fits some launch, or it includes
\* a file that could have been launched itself.
LEMMA FileOpened ==
  ASSUME NEW file \in Launchable, NEW c, Plain(c)
  PROVE  Opened(Entities(file, c), c) \/ Passes(Entities(file, c))
<1>1. CASE file \in Tables
  BY <1>1, PlainOpened
<1>2. CASE file = "_robot_description"
  <2>1. Entities(file, c) = RobotDescriptionLaunch(c)
    BY <1>2 DEF Entities
  <2> QED BY <2>1, PlainOpened
<1>3. CASE file = "_ros2_control"
  <2>1. Entities(file, c) = Ros2Control(c)
    BY <1>3 DEF Entities
  <2> QED BY <2>1, PlainOpened
<1>4. CASE file = "_dual_ros2_control"
  <2>1. Entities(file, c) = DualRos2Control(c)
    BY <1>4 DEF Entities
  <2> QED BY <2>1, PlainOpened
<1>5. CASE file = "_robot_planner"
  <2>1. Entities(file, c) = RobotPlanner(c)
    BY <1>5 DEF Entities
  <2> QED BY <2>1, PlainOpened
<1>6. CASE file = "_dual_robot_planner"
  <2>1. Entities(file, c) = DualRobotPlanner(c)
    BY <1>6 DEF Entities
  <2> QED BY <2>1, PlainOpened
<1>7. CASE file = "emer_planner"
  <2>1. Entities(file, c) = EmerPlannerLaunch(c)
    BY <1>7 DEF Entities
  <2> QED BY <2>1, WrappersPass, RaiseOpened
<1>8. CASE file = "test_dual_planner"
  <2>1. Entities(file, c) = TestDualPlannerLaunch(c)
    BY <1>8 DEF Entities
  <2> QED BY <2>1, WrappersPass, RaiseOpened
<1>9. CASE file = "_robot_moveit_fake"
  <2>1. Entities(file, c) = RobotMoveitFake(c)
    BY <1>9 DEF Entities
  <2> QED BY <2>1, MoveitFakeOpened
<1>10. CASE file = "_robot_moveit_realmove"
  <2>1. Entities(file, c) = RobotMoveitRealmove(c)
    BY <1>10 DEF Entities
  <2> QED BY <2>1, MoveitRealmoveOpened
<1>11. CASE file = "_dual_robot_moveit_fake"
  <2>1. Entities(file, c) = DualRobotMoveitFake(c)
    BY <1>11 DEF Entities
  <2> QED BY <2>1, DualMoveitFakeOpened
<1>12. CASE file = "_dual_robot_moveit_realmove"
  <2>1. Entities(file, c) = DualRobotMoveitRealmove(c)
    BY <1>12 DEF Entities
  <2> QED BY <2>1, DualMoveitRealmoveOpened
<1>13. CASE file = "_robot_moveit_gz"
  <2>1. Entities(file, c) = RobotMoveitGz(c)
    BY <1>13 DEF Entities
  <2> QED BY <2>1, SimulatedOpened, PluginFiles DEF RobotMoveitGz, Tables
<1>14. CASE file = "_robot_moveit_ignition"
  <2>1. Entities(file, c) = RobotMoveitIgnition(c)
    BY <1>14 DEF Entities
  <2> QED BY <2>1, SimulatedOpened, PluginFiles DEF RobotMoveitIgnition, Tables
<1>15. CASE file = "_robot_moveit_gazebo"
  <2>1. Entities(file, c) = RobotMoveitGazebo(c)
    BY <1>15 DEF Entities
  <2> QED BY <2>1, SimulatedOpened, PluginFiles DEF RobotMoveitGazebo, Tables
<1>16. CASE file = "_dual_robot_moveit_gz"
  <2>1. Entities(file, c) = DualRobotMoveitGz(c)
    BY <1>16 DEF Entities
  <2> QED BY <2>1, DualSimulatedOpened, PluginFiles DEF DualRobotMoveitGz, DualGzConfigs, Tables
<1>17. CASE file = "_dual_robot_moveit_gazebo"
  <2>1. Entities(file, c) = DualRobotMoveitGazebo(c)
    BY <1>17 DEF Entities
  <2> QED BY <2>1, DualSimulatedOpened, PluginFiles DEF DualRobotMoveitGazebo, DualGazeboConfigs, Tables
<1>18. CASE file = "xarm6_planner_fake"
  <2>1. Entities(file, c) = Xarm6PlannerFake(c)
    BY <1>18 DEF Entities
  <2> QED BY <2>1, WrappersPass
<1>19. CASE file = "xarm6_planner_realmove"
  <2>1. Entities(file, c) = Xarm6PlannerRealmove(c)
    BY <1>19 DEF Entities
  <2> QED BY <2>1, WrappersPass, RaiseOpened
<1>20. CASE file = "xarm6_planner_gazebo"
  <2>1. Entities(file, c) = Xarm6PlannerGazebo(c)
    BY <1>20 DEF Entities
  <2> QED BY <2>1, WrappersPass
<1>21. CASE file = "_robot_moveit_servo_fake"
  <2>1. Entities(file, c) = RobotMoveitServoFake(c)
    BY <1>21 DEF Entities
  <2> QED BY <2>1, ServoFakeOpened
<1>22. CASE file = "_robot_moveit_servo_realmove"
  <2>1. Entities(file, c) = RobotMoveitServoRealmove(c)
    BY <1>22 DEF Entities
  <2> QED BY <2>1, ServoRealmoveOpened
<1> QED
  BY <1>1, <1>2, <1>3, <1>4, <1>5, <1>6, <1>7, <1>8, <1>9, <1>10, <1>11,
     <1>12, <1>13, <1>14, <1>15, <1>16, <1>17, <1>18, <1>19, <1>20, <1>21, <1>22 DEF Launchable, Tables
=============================================================================
