-------------------------- MODULE LaunchOutcomeProofs --------------------------
(***************************************************************************)
(* What becomes of a launch, for any arguments.                            *)
(***************************************************************************)
EXTENDS LaunchServiceProofs

\* What a launch is of, once its own file was visited: the description it works
\* from, whether that is of one arm, and whether the arguments put the real
\* robot's plugin in it.
Of(c, w) == w.d.arms = IF w.one THEN <<Arm(c)>> ELSE Arms(c)
Ready(w) ==
  /\ w.d.params # Nothing
  /\ w.d.params = IF w.one THEN GenerateRos2ControlParams(XArmType(w.d.arms[1]), w.d.arms[1])
                  ELSE GenerateDualRos2ControlParams(XArmTypes(w.d.arms), w.d.arms)

\* The controllers that may be started: a gripper's only without the real plugin.
GripperNames(arm) == {GripperTrajController(arm)[i] : i \in 1 .. Len(GripperTrajController(arm))}
Startable(n, w) ==
  \/ n = Broadcaster
  \/ \E k \in 1 .. Len(w.d.arms) : n = TrajController(w.d.arms[k])
  \/ /\ \E k \in 1 .. Len(w.d.arms) : n \in GripperNames(w.d.arms[k])
     /\ w.d.plugin # RealPlugin \/ w.asked

\* A manager with the parameters of a description, for its arms and its plugin.
Drives(manager, d) ==
  /\ manager.params = d.params
  /\ manager.description.arms = d.arms /\ manager.description.plugin = d.plugin

\* What is sound in such a launch: nodes,
NodeSound(e, w) ==
  /\ e.id.exe = "robot_state_publisher" => e.data = w.d
  /\ e.id.exe = "ros2_control_node" => Drives(e.data, w.d)
  /\ e.id.exe = "spawner" => Ready(w) /\ Startable(e.id.name, w)

\* includes, which are given what they need and leave the arms alone,
SingleTables ==
  {"_robot_beside_table_gz", "_robot_beside_table_ignition", "_robot_beside_table_gazebo"}
DualTables == {"_dual_robot_beside_table_gz", "_dual_robot_beside_table_gazebo"}
Dumped(args) == "moveit_config_dump" \in DOMAIN args /\ args["moveit_config_dump"] # Nothing
IncludeSound(e, w) ==
  /\ \A c : Of(c, w) => Of(Updated(c, e.args), w)
  /\ \/ /\ e.file = "_robot_description" /\ Has(e.args, "robot_description", w.d)
     \/ /\ e.file \in {"_ros2_control", "_dual_ros2_control"}
        /\ Has(e.args, "robot_description", w.d)
        /\ Has(e.args, "ros2_control_params", w.d.params) /\ w.d.params # Nothing
     \/ /\ e.file \in {"_robot_moveit_common2", "_dual_robot_moveit_common2", "_robot_planner"}
        /\ Dumped(e.args) /\ (e.file = "_dual_robot_moveit_common2" => w.one = FALSE)
     \/ /\ e.file \in IF w.one THEN SingleTables ELSE DualTables
        /\ Dumped(e.args) /\ e.args["moveit_config_dump"].description = w.d
        /\ w.d # Nothing /\ Ready(w) /\ w.d.plugin # RealPlugin

\* and handlers.  A raise is not.
HandlerSound(e, w) ==
  \A k \in 1 .. Len(e.do) :
    e.do[k].kind = "shutdown" \/ (e.do[k].kind = "node" /\ NodeSound(e.do[k], w))
Sound(e, w) ==
  \/ e.kind = "node" /\ NodeSound(e, w)
  \/ e.kind = "include" /\ IncludeSound(e, w)
  \/ e.kind = "handler" /\ HandlerSound(e, w)
  \/ e.kind = "shutdown"
Steady(s, w) == Listing(s) /\ \A i \in 1 .. Len(s) : Sound(s[i], w)

-----------------------------------------------------------------------------
(* Lists. *)

\* The elements of two lists in a row.
LEMMA Joined ==
  ASSUME NEW s, NEW t, Listing(s), Listing(t)
  PROVE  /\ Listing(s \o t)
         /\ \A i \in 1 .. Len(s \o t) : \/ \E j \in 1 .. Len(s) : (s \o t)[i] = s[j]
                                        \/ \E j \in 1 .. Len(t) : (s \o t)[i] = t[j]
<1> DEFINE S == {s[i] : i \in 1 .. Len(s)} \cup {t[i] : i \in 1 .. Len(t)}
<1>1. s \in Seq(S) /\ t \in Seq(S)
  <2>1. s \in Seq({s[i] : i \in 1 .. Len(s)}) /\ t \in Seq({t[i] : i \in 1 .. Len(t)})
    BY DEF Listing
  <2> QED BY <2>1
<1>2. \A x \in S : (\E j \in 1 .. Len(s) : x = s[j]) \/ (\E j \in 1 .. Len(t) : x = t[j])
  OBVIOUS
<1> HIDE DEF S
<1>3. s \o t \in Seq(S)
  BY <1>1
<1>4. Listing(s \o t) /\ \A i \in 1 .. Len(s \o t) : (s \o t)[i] \in S
  BY <1>3, ListingSeq
<1> QED BY <1>2, <1>4

\* Two sound lists in a row,
LEMMA SteadyConcat ==
  ASSUME NEW w, NEW s, NEW t, Steady(s, w), Steady(t, w)
  PROVE  Steady(s \o t, w)
<1>1. Listing(s) /\ Listing(t)
  BY DEF Steady
<1> QED BY <1>1, Joined DEF Steady

\* nothing,
LEMMA SteadyEmpty ==
  ASSUME NEW w
  PROVE  Steady(<<>>, w)
BY DEF Steady, Listing

\* one,
LEMMA SteadyOne ==
  ASSUME NEW w, NEW a, Sound(a, w)
  PROVE  Steady(<<a>>, w)
<1>1. <<a>> \in Seq({a})
  OBVIOUS
<1>2. Listing(<<a>>) /\ \A i \in 1 .. Len(<<a>>) : <<a>>[i] \in {a}
  BY <1>1, ListingSeq
<1> QED BY <1>2 DEF Steady

\* two
LEMMA SteadyTwo ==
  ASSUME NEW w, NEW a, NEW b, Sound(a, w), Sound(b, w)
  PROVE  Steady(<<a, b>>, w)
<1>1. <<a, b>> \in Seq({a, b})
  OBVIOUS
<1>2. Listing(<<a, b>>) /\ \A i \in 1 .. Len(<<a, b>>) : <<a, b>>[i] \in {a, b}
  BY <1>1, ListingSeq
<1> QED BY <1>2 DEF Steady

\* and more of them,
LEMMA SteadyThree ==
  ASSUME NEW w, NEW a, NEW b, NEW c, Sound(a, w), Sound(b, w), Sound(c, w)
  PROVE  Steady(<<a, b, c>>, w)
<1>1. <<a, b, c>> \in Seq({a, b, c})
  OBVIOUS
<1>2. Listing(<<a, b, c>>) /\ \A i \in 1 .. Len(<<a, b, c>>) : <<a, b, c>>[i] \in {a, b, c}
  BY <1>1, ListingSeq
<1> QED BY <1>2 DEF Steady

\* which can be left out.
LEMMA SteadyWhen ==
  ASSUME NEW w, NEW condition, NEW s, Steady(s, w)
  PROVE  Steady(When(condition, s), w)
BY SteadyEmpty DEF When

\* A node that is no state publisher, controller manager or spawner is sound.
LEMMA NodeOther ==
  ASSUME NEW w, NEW id, NEW data,
         id.exe \notin {"robot_state_publisher", "ros2_control_node", "spawner"}
  PROVE  Sound(Node(id, data), w) /\ NodeSound(Node(id, data), w)
BY DEF Sound, NodeSound, Node

\* Spawners are, of controllers that may be started.
Allowed(controllers, w) ==
  Listing(controllers) /\ \A i \in 1 .. Len(controllers) : Startable(controllers[i], w)
\* A list of spawners.
LEMMA SteadySpawners ==
  ASSUME NEW w, Ready(w), NEW controllers, Allowed(controllers, w), NEW file
  PROVE  /\ Steady(Spawners(controllers, file), w)
         /\ \A i \in 1 .. Len(Spawners(controllers, file)) :
              /\ Spawners(controllers, file)[i].kind = "node"
              /\ NodeSound(Spawners(controllers, file)[i], w)
<1> DEFINE n == Len(controllers)
           e(i) == Node(Id("spawner", controllers[i], file), Nothing)
<1>1. n \in Nat /\ \A i \in 1 .. n : Startable(controllers[i], w)
  BY ListingLen DEF Allowed
<1>2. \A i \in 1 .. n : Sound(e(i), w) /\ e(i).kind = "node" /\ NodeSound(e(i), w)
  BY <1>1 DEF Sound, NodeSound, Node, Id
<1>3. Spawners(controllers, file) = [i \in 1 .. n |-> e(i)]
  BY DEF Spawners
<1> HIDE DEF n, e
<1>4. Spawners(controllers, file) \in Seq({e(i) : i \in 1 .. n})
  BY <1>1, <1>3
<1>5. /\ Listing(Spawners(controllers, file))
      /\ \A i \in 1 .. Len(Spawners(controllers, file)) :
           Spawners(controllers, file)[i] \in {e(j) : j \in 1 .. n}
  BY <1>4, ListingSeq
<1> QED BY <1>2, <1>5 DEF Steady

\* Lists of four
LEMMA SteadyFour ==
  ASSUME NEW w, NEW a, NEW b, NEW c, NEW d, Sound(a, w), Sound(b, w), Sound(c, w), Sound(d, w)
  PROVE  Steady(<<a, b, c, d>>, w)
<1>1. <<a, b, c, d>> \in Seq({a, b, c, d})
  OBVIOUS
<1>2. Listing(<<a, b, c, d>>) /\ \A i \in 1 .. Len(<<a, b, c, d>>) : <<a, b, c, d>>[i] \in {a, b, c, d}
  BY <1>1, ListingSeq
<1> QED BY <1>2 DEF Steady

\* and five.
LEMMA SteadyFive ==
  ASSUME NEW w, NEW a, NEW b, NEW c, NEW d, NEW e,
         Sound(a, w), Sound(b, w), Sound(c, w), Sound(d, w), Sound(e, w)
  PROVE  Steady(<<a, b, c, d, e>>, w)
<1>1. <<a, b, c, d, e>> \in Seq({a, b, c, d, e})
  OBVIOUS
<1>2. /\ Listing(<<a, b, c, d, e>>)
      /\ \A i \in 1 .. Len(<<a, b, c, d, e>>) : <<a, b, c, d, e>>[i] \in {a, b, c, d, e}
  BY <1>1, ListingSeq
<1> QED BY <1>2 DEF Steady
-----------------------------------------------------------------------------
(* Robots that are known. *)

\* What a generator or a builder returns is something.
LEMMA Something ==
  /\ \A a, b : [types |-> a, joints |-> b] # Nothing
  /\ \A a, b, c : [arms |-> a, plugin |-> b, params |-> c] # Nothing
  /\ \A a, b, c, d, e, f :
       [description |-> a, semantic |-> b, kinematics |-> c,
        pipelines |-> d, controllers |-> e, limits |-> f] # Nothing
<1>1. DOMAIN Nothing = {}
  BY DEF Nothing
<1>2. ASSUME NEW a, NEW b
      PROVE  [types |-> a, joints |-> b] # Nothing
  <2>1. "types" \in DOMAIN [types |-> a, joints |-> b]
    OBVIOUS
  <2> QED BY <1>1, <2>1
<1>3. ASSUME NEW a, NEW b, NEW c
      PROVE  [arms |-> a, plugin |-> b, params |-> c] # Nothing
  <2>1. "arms" \in DOMAIN [arms |-> a, plugin |-> b, params |-> c]
    OBVIOUS
  <2> QED BY <1>1, <2>1
<1>4. ASSUME NEW a, NEW b, NEW c, NEW d, NEW e, NEW f
      PROVE  [description |-> a, semantic |-> b, kinematics |-> c,
              pipelines |-> d, controllers |-> e, limits |-> f] # Nothing
  <2>1. "limits" \in DOMAIN [description |-> a, semantic |-> b, kinematics |-> c,
                             pipelines |-> d, controllers |-> e, limits |-> f]
    OBVIOUS
  <2> QED BY <1>1, <2>1
<1> QED BY <1>2, <1>3, <1>4

\* A robot that is known has all its directories,
Supported(arm) == XArmType(arm) \in DOMAIN Axes
\* that of its gripper, too,
LEMMA SupportedConfigured ==
  ASSUME NEW arm, Supported(arm)
  PROVE  Configured(arm)
<1>1. RobotName(arm) \in DOMAIN Axes /\ arm.type \in {"xarm", "lite", "uf850", "xarm7_mirror"}
  BY RobotDir DEF Supported
<1>2. HasGripper(arm) => GripperDir(arm.type) \in FingerGrippers
  BY <1>1 DEF HasGripper, FingerGrippers
<1>3. ArmDirs(arm, arm.type) \subseteq ConfigDirs
  BY <1>1, <1>2 DEF ArmDirs, ConfigDirs
<1> QED BY <1>3 DEF Configured, Supported

\* and its parameters can be generated.
LEMMA ParamsMade ==
  ASSUME NEW arm, Supported(arm)
  PROVE  GenerateRos2ControlParams(XArmType(arm), arm) # Nothing
BY Something DEF GenerateRos2ControlParams, AddPrefixToRos2ControlParams, Supported

\* The same for two, if the first has a gripper where the second needs one.
SupportedArms(arms) ==
  /\ Supported(arms[1]) /\ Supported(arms[2])
  /\ ~(arms[1].type = "lite" /\ HasGripper(arms[2]))
\* The directories of the second arm, with the gripper of the first one's type.
LEMMA SecondConfigured ==
  ASSUME NEW arms, SupportedArms(arms)
  PROVE  ArmDirs(arms[2], arms[1].type) \subseteq ConfigDirs
<1>1. RobotName(arms[2]) \in DOMAIN Axes /\ arms[1].type \in {"xarm", "lite", "uf850", "xarm7_mirror"}
  BY RobotDir DEF Supported, SupportedArms
<1>2. HasGripper(arms[2]) => GripperDir(arms[1].type) \in FingerGrippers
  BY <1>1 DEF SupportedArms, FingerGrippers
<1> QED BY <1>1, <1>2 DEF ArmDirs, ConfigDirs

\* Two arms' parameters,
LEMMA DualParamsMade ==
  ASSUME NEW arms, Supported(arms[1]), Supported(arms[2])
  PROVE  GenerateDualRos2ControlParams(XArmTypes(arms), arms) # Nothing
<1> DEFINE two == [k \in 1 .. 2 |-> GenerateRos2ControlParams(XArmTypes(arms)[k], arms[k])]
           first == GenerateRos2ControlParams(XArmType(arms[1]), arms[1])
           second == GenerateRos2ControlParams(XArmType(arms[2]), arms[2])
<1>1. XArmTypes(arms)[1] = XArmType(arms[1]) /\ XArmTypes(arms)[2] = XArmType(arms[2])
  BY DEF XArmTypes
<1>2. two[1] = first /\ two[2] = second
  BY <1>1
<1>3. first # Nothing /\ second # Nothing
  BY ParamsMade
<1>4. GenerateDualRos2ControlParams(XArmTypes(arms), arms)
      = IF \E k \in 1 .. 2 : two[k] = Nothing THEN Nothing ELSE MergeControllers(two[1], two[2])
  BY DEF GenerateDualRos2ControlParams
<1> HIDE DEF two, first, second
<1>5. MergeControllers(two[1], two[2]) # Nothing
  BY Something DEF MergeControllers
<1> QED BY <1>2, <1>3, <1>4, <1>5

\* and the configurations of one and of two.
LEMMA SingleMade ==
  ASSUME NEW arm, Supported(arm), NEW file, NEW plugin, NEW params
  PROVE  /\ ToMoveItConfigs(arm, file, plugin, params) # Nothing
         /\ ToMoveItConfigs(arm, file, plugin, params).description
            = [arms |-> <<arm>>, plugin |-> plugin, params |-> params]
<1>1. ArmDirs(arm, arm.type) \subseteq ConfigDirs
  BY SupportedConfigured DEF Configured
<1> DEFINE M == [description |-> RobotDescription(arm, plugin, params),
                 semantic    |-> RobotDescriptionSemantic(arm),
                 kinematics  |-> RobotDescriptionKinematics(arm),
                 pipelines   |-> PlanningPipelines(arm),
                 controllers |-> TrajectoryExecution(arm, file),
                 limits      |-> JointLimits(arm)]
<1>2. ToMoveItConfigs(arm, file, plugin, params) = M
  BY <1>1 DEF ToMoveItConfigs
<1>3. M # Nothing
  BY Something
<1>4. M.description = RobotDescription(arm, plugin, params)
  OBVIOUS
<1> HIDE DEF M
<1> QED BY <1>2, <1>3, <1>4 DEF RobotDescription

\* Of two:
LEMMA DualMade ==
  ASSUME NEW arms, SupportedArms(arms), NEW file, NEW plugin, NEW params
  PROVE  /\ DualToMoveItConfigs(arms, file, plugin, params) # Nothing
         /\ DualToMoveItConfigs(arms, file, plugin, params).description
            = [arms |-> arms, plugin |-> plugin, params |-> params]
<1>1. ArmDirs(arms[1], arms[1].type) \cup ArmDirs(arms[2], arms[2].type)
      \cup ArmDirs(arms[2], arms[1].type) \subseteq ConfigDirs
  BY SupportedConfigured, SecondConfigured DEF Configured, SupportedArms
<1> DEFINE M == [description |-> DualRobotDescription(arms, plugin, params),
                 semantic    |-> DualRobotDescriptionSemantic(arms),
                 kinematics  |-> DualRobotDescriptionKinematics(arms),
                 pipelines   |-> DualPlanningPipelines(arms),
                 controllers |-> DualTrajectoryExecution(arms, file),
                 limits      |-> DualJointLimits(arms)]
<1>2. DualToMoveItConfigs(arms, file, plugin, params) = M
  BY <1>1 DEF DualToMoveItConfigs
<1>3. M # Nothing
  BY Something
<1>4. M.description = DualRobotDescription(arms, plugin, params)
  OBVIOUS
<1> HIDE DEF M
<1> QED BY <1>2, <1>3, <1>4 DEF DualRobotDescription

-----------------------------------------------------------------------------
(* Arguments that leave the arms alone. *)

\* Two arms: the arguments of each, repeated or not given.
ArmsGiven(args, arms) ==
  /\ DOMAIN args \cap {"dof", "robot_type", "prefix", "add_gripper", "add_bio_gripper",
                       "add_gripper_1", "add_gripper_2", "add_bio_gripper_1", "add_bio_gripper_2"} = {}
  /\ Given(args, "dof_1", arms[1].dof) /\ Given(args, "dof_2", arms[2].dof)
  /\ Given(args, "robot_type_1", arms[1].type) /\ Given(args, "robot_type_2", arms[2].type)
  /\ Given(args, "prefix_1", arms[1].prefix) /\ Given(args, "prefix_2", arms[2].prefix)
\* They stay the same.
LEMMA ArmsKept ==
  ASSUME NEW c, NEW args, ArmsGiven(args, Arms(c))
  PROVE  Arms(Updated(c, args)) = Arms(c)
<1> DEFINE new == Updated(c, args)
           a == Arm(c)
           x == [dof     |-> Arg(c, "dof_1", a.dof),
                 type    |-> Arg(c, "robot_type_1", a.type),
                 prefix  |-> Arg(c, "prefix_1", "L_"),
                 gripper |-> Arg(c, "add_gripper_1", a.gripper),
                 bio     |-> Arg(c, "add_bio_gripper_1", a.bio)]
           y == [dof     |-> Arg(c, "dof_2", a.dof),
                 type    |-> Arg(c, "robot_type_2", a.type),
                 prefix  |-> Arg(c, "prefix_2", "R_"),
                 gripper |-> Arg(c, "add_gripper_2", a.gripper),
                 bio     |-> Arg(c, "add_bio_gripper_2", a.bio)]
<1>1. Arms(c) = <<x, y>>
  BY DEF Arms
<1>2. /\ Given(args, "dof_1", x.dof) /\ Given(args, "dof_2", y.dof)
      /\ Given(args, "robot_type_1", x.type) /\ Given(args, "robot_type_2", y.type)
      /\ Given(args, "prefix_1", x.prefix) /\ Given(args, "prefix_2", y.prefix)
  BY <1>1 DEF ArmsGiven
<1>3. Arm(new) = a
  <2>1. ArmGiven(args, a)
    BY DEF ArmsGiven, ArmGiven, Given
  <2> QED BY <2>1, ArmKept
<1> HIDE DEF a
<1>4. /\ Given(args, "dof_1", Arg(c, "dof_1", a.dof)) /\ Given(args, "dof_2", Arg(c, "dof_2", a.dof))
      /\ Given(args, "robot_type_1", Arg(c, "robot_type_1", a.type))
      /\ Given(args, "robot_type_2", Arg(c, "robot_type_2", a.type))
      /\ Given(args, "prefix_1", Arg(c, "prefix_1", "L_")) /\ Given(args, "prefix_2", Arg(c, "prefix_2", "R_"))
  BY <1>2
<1>5. Arg(new, "dof_1", a.dof) = Arg(c, "dof_1", a.dof) /\ Arg(new, "dof_2", a.dof) = Arg(c, "dof_2", a.dof)
  BY <1>4 DEF Given, Arg, Updated
<1>6. /\ Arg(new, "robot_type_1", a.type) = Arg(c, "robot_type_1", a.type)
      /\ Arg(new, "robot_type_2", a.type) = Arg(c, "robot_type_2", a.type)
  BY <1>4 DEF Given, Arg, Updated
<1>7. /\ Arg(new, "prefix_1", "L_") = Arg(c, "prefix_1", "L_")
      /\ Arg(new, "prefix_2", "R_") = Arg(c, "prefix_2", "R_")
  BY <1>4 DEF Given, Arg, Updated
<1>8. /\ Arg(new, "add_gripper_1", a.gripper) = Arg(c, "add_gripper_1", a.gripper)
      /\ Arg(new, "add_gripper_2", a.gripper) = Arg(c, "add_gripper_2", a.gripper)
      /\ Arg(new, "add_bio_gripper_1", a.bio) = Arg(c, "add_bio_gripper_1", a.bio)
      /\ Arg(new, "add_bio_gripper_2", a.bio) = Arg(c, "add_bio_gripper_2", a.bio)
  BY DEF ArmsGiven, Arg, Updated
<1> HIDE DEF new
<1>9. Arms(new) = <<x, y>>
  BY <1>3, <1>5, <1>6, <1>7, <1>8 DEF Arms, a
<1> QED BY <1>1, <1>9 DEF new

\* Such arguments keep a launch what it is.
LEMMA OfKept ==
  ASSUME NEW w, NEW args,
         IF w.one THEN ArmGiven(args, w.d.arms[1]) ELSE ArmsGiven(args, w.d.arms)
  PROVE  \A c : Of(c, w) => Of(Updated(c, args), w)
<1> SUFFICES ASSUME NEW c, Of(c, w) PROVE Of(Updated(c, args), w)
  OBVIOUS
<1>1. CASE w.one
  <2>1. w.d.arms = <<Arm(c)>>
    BY <1>1 DEF Of
  <2>2. ArmGiven(args, Arm(c))
    BY <1>1, <2>1
  <2> QED BY <1>1, <2>1, <2>2, ArmKept DEF Of
<1>2. CASE ~w.one
  <2>1. w.d.arms = Arms(c)
    BY <1>2 DEF Of
  <2> QED BY <1>2, <2>1, ArmsKept DEF Of
<1> QED BY <1>1, <1>2
-----------------------------------------------------------------------------
(* Controllers that may be started. *)

\* The broadcaster and an arm's own controller.
LEMMA ArmStartable ==
  ASSUME NEW w, NEW k \in 1 .. Len(w.d.arms)
  PROVE  Startable(Broadcaster, w) /\ Startable(TrajController(w.d.arms[k]), w)
BY DEF Startable

\* A gripper's,
LEMMA GripperAllowed ==
  ASSUME NEW w, NEW k \in 1 .. Len(w.d.arms), w.d.plugin # RealPlugin \/ w.asked
  PROVE  Allowed(GripperTrajController(w.d.arms[k]), w)
<1> DEFINE s == GripperTrajController(w.d.arms[k])
<1>1. Listing(s)
  <2>1. \E S : s \in Seq(S)
    BY GripperListed
  <2> QED BY <2>1, ListingSeq
<1>2. \A i \in 1 .. Len(s) : Startable(s[i], w)
  BY DEF Startable, GripperNames
<1> QED BY <1>1, <1>2 DEF Allowed

\* lists of one, two or three,
LEMMA ListAllowed ==
  ASSUME NEW w, NEW a, NEW b, NEW c, Startable(a, w), Startable(b, w), Startable(c, w)
  PROVE  Allowed(<<a>>, w) /\ Allowed(<<a, b>>, w) /\ Allowed(<<a, b, c>>, w)
<1>1. Allowed(<<a>>, w)
  <2>1. <<a>> \in Seq({a})
    OBVIOUS
  <2>2. Listing(<<a>>) /\ \A i \in 1 .. Len(<<a>>) : <<a>>[i] \in {a}
    BY <2>1, ListingSeq
  <2> QED BY <2>2 DEF Allowed
<1>2. Allowed(<<a, b>>, w)
  <2>1. <<a, b>> \in Seq({a, b})
    OBVIOUS
  <2>2. Listing(<<a, b>>) /\ \A i \in 1 .. Len(<<a, b>>) : <<a, b>>[i] \in {a, b}
    BY <2>1, ListingSeq
  <2> QED BY <2>2 DEF Allowed
<1>3. Allowed(<<a, b, c>>, w)
  <2>1. <<a, b, c>> \in Seq({a, b, c})
    OBVIOUS
  <2>2. Listing(<<a, b, c>>) /\ \A i \in 1 .. Len(<<a, b, c>>) : <<a, b, c>>[i] \in {a, b, c}
    BY <2>1, ListingSeq
  <2> QED BY <2>2 DEF Allowed
<1> QED BY <1>1, <1>2, <1>3

\* and lists in a row.
LEMMA ConcatAllowed ==
  ASSUME NEW w, NEW s, NEW t, Allowed(s, w), Allowed(t, w)
  PROVE  Allowed(s \o t, w)
<1>1. Listing(s) /\ Listing(t)
  BY DEF Allowed
<1> QED BY <1>1, Joined DEF Allowed

-----------------------------------------------------------------------------
(* The files that others include. *)

\* _robot_description,
LEMMA DescriptionSteady ==
  ASSUME NEW w, NEW c, Has(c, "robot_description", w.d)
  PROVE  Steady(RobotDescriptionLaunch(c), w)
<1>1. RobotDescriptionLaunch(c) = <<Node(RobotStatePublisher("_robot_description"), w.d)>>
  BY DEF RobotDescriptionLaunch, Has, Arg
<1>2. Sound(Node(RobotStatePublisher("_robot_description"), w.d), w)
  BY DEF Sound, NodeSound, Node, RobotStatePublisher, Id
<1> QED BY <1>1, <1>2, SteadyOne

\* _ros2_control, for one arm or two,
LEMMA DriverSound ==
  ASSUME NEW w, NEW file, NEW params, NEW description, params = w.d.params,
         description.arms = w.d.arms, description.plugin = w.d.plugin
  PROVE  Steady(<<Node(Id("ros2_control_node", Unnamed, file),
                       [params |-> params, description |-> description])>>, w)
<1>1. Sound(Node(Id("ros2_control_node", Unnamed, file),
                 [params |-> params, description |-> description]), w)
  BY DEF Sound, NodeSound, Node, Id, Drives
<1> QED BY <1>1, SteadyOne

\* given both,
LEMMA ControlSteady ==
  ASSUME NEW w, NEW c, Has(c, "robot_description", w.d), Has(c, "ros2_control_params", w.d.params),
         w.d.params # Nothing
  PROVE  Steady(Ros2Control(c), w) /\ Steady(DualRos2Control(c), w)
<1>1. Ros2Control(c) = <<Node(Id("ros2_control_node", Unnamed, "_ros2_control"),
                              [params |-> w.d.params, description |-> w.d])>>
  BY DEF Ros2Control, Has, Arg
<1>2. DualRos2Control(c) = <<Node(Id("ros2_control_node", Unnamed, "_dual_ros2_control"),
                                  [params |-> w.d.params, description |-> w.d])>>
  BY DEF DualRos2Control, Has, Arg
<1> QED BY <1>1, <1>2, DriverSound

\* the planner nodes,
LEMMA PlannerNodeSteady ==
  ASSUME NEW w, NEW c, Known(c), NEW file, NEW data
  PROVE  Steady(<<Node(Id(Arg(c, "node_executable", "xarm_planner_node"), Unnamed, file), data)>>, w)
<1> DEFINE id == Id(Arg(c, "node_executable", "xarm_planner_node"), Unnamed, file)
<1>1. id.exe = Arg(c, "node_executable", "xarm_planner_node")
  BY DEF Id
<1> HIDE DEF id
<1>2. id.exe \notin Programs
  BY <1>1, ExecutableOther DEF Other
<1>3. Sound(Node(id, data), w)
  BY <1>2, NodeOther DEF Programs
<1> QED BY <1>3, SteadyOne DEF id

\* the gripper's among them,
LEMMA GripperNodeSteady ==
  ASSUME NEW w, NEW name, NEW file, NEW data
  PROVE  Steady(<<Node(Id("xarm_gripper_planner_node", name, file), data)>>, w)
<1> DEFINE id == Id("xarm_gripper_planner_node", name, file)
<1>1. id.exe = "xarm_gripper_planner_node"
  BY DEF Id
<1> HIDE DEF id
<1>2. Sound(Node(id, data), w)
  BY <1>1, NodeOther
<1> QED BY <1>2, SteadyOne DEF id

\* of one arm, unless nothing can be made of it,
LEMMA PlannerSteady ==
  ASSUME NEW w, NEW c, Known(c), "moveit_config_dump" \in DOMAIN c => Dumped(c)
  PROVE  \/ Steady(RobotPlanner(c), w)
         \/ /\ RobotPlanner(c) = Raise
            /\ "moveit_config_dump" \notin DOMAIN c /\ ~Supported(Arm(c))
<1> DEFINE arm == Arm(c)
           moveit == Arg(c, "moveit_config_dump",
                         ToMoveItConfigs(arm, "fake_controllers", RealPlugin, Nothing))
           file == "_robot_planner"
           nodes == <<Node(Id(Arg(c, "node_executable", "xarm_planner_node"), Unnamed, file), moveit)>>
           grips == <<Node(Id("xarm_gripper_planner_node", GripperGroup(arm), file), moveit)>>
           asked == HasGripper(arm) /\ Arg(c, "use_gripper_node", arm.gripper)
<1>1. CASE moveit # Nothing
  <2>1. RobotPlanner(c) = nodes \o When(asked, grips)
    BY <1>1 DEF RobotPlanner
  <2>2. Steady(nodes, w) /\ Steady(grips, w)
    BY PlannerNodeSteady, GripperNodeSteady
  <2> HIDE DEF nodes, grips, asked, moveit
  <2> QED BY <2>1, <2>2, SteadyWhen, SteadyConcat
<1>2. CASE moveit = Nothing
  <2>1. RobotPlanner(c) = Raise
    BY <1>2 DEF RobotPlanner
  <2>2. "moveit_config_dump" \notin DOMAIN c /\ ~Supported(Arm(c))
    BY <1>2, SingleMade DEF Arg, Dumped
  <2> QED BY <2>1, <2>2
<1> QED BY <1>1, <1>2

\* and of two,
LEMMA DualPlannerSteady ==
  ASSUME NEW w, NEW c, Known(c), "moveit_config_dump" \notin DOMAIN c
  PROVE  \/ Steady(DualRobotPlanner(c), w)
         \/ DualRobotPlanner(c) = Raise /\ ~SupportedArms(Arms(c))
<1> DEFINE arms == Arms(c)
           moveit == Arg(c, "moveit_config_dump",
                         DualToMoveItConfigs(arms, "fake_controllers", RealPlugin, Nothing))
           file == "_dual_robot_planner"
           nodes == <<Node(Id(Arg(c, "node_executable", "xarm_planner_node"), Unnamed, file), moveit)>>
           group(arm) == Prefixed(arm.prefix, Name(arm.type, "", "_gripper"))
           asked(arm) == HasGripper(arm) /\ Arg(c, "use_gripper_node", Arm(c).gripper)
           one(arm) == When(asked(arm), <<Node(Id("xarm_gripper_planner_node", group(arm), file), moveit)>>)
<1>1. CASE moveit # Nothing
  <2>1. DualRobotPlanner(c) = nodes \o one(arms[1]) \o one(arms[2])
    BY <1>1 DEF DualRobotPlanner
  <2>2. Steady(nodes, w)
    BY PlannerNodeSteady
  <2>3. \A arm : Steady(one(arm), w)
    BY GripperNodeSteady, SteadyWhen
  <2> HIDE DEF nodes, one
  <2>4. Steady(nodes \o one(arms[1]), w)
    BY <2>2, <2>3, SteadyConcat
  <2> QED BY <2>1, <2>3, <2>4, SteadyConcat
<1>2. CASE moveit = Nothing
  <2>1. DualRobotPlanner(c) = Raise
    BY <1>2 DEF DualRobotPlanner
  <2>2. ~SupportedArms(Arms(c))
    BY <1>2, DualMade DEF Arg
  <2> QED BY <2>1, <2>2
<1> QED BY <1>1, <1>2

\* RViz and the handler for its end,
LEMMA RvizSteady ==
  ASSUME NEW w, NEW file, NEW data
  PROVE  Steady(<<Node(Rviz(file), data)>>, w) /\ Steady(ClosesLaunch(file), w)
<1>1. Sound(Node(Rviz(file), data), w)
  BY NodeOther DEF Rviz, Id
<1> DEFINE handler == OnExit(Rviz(file), <<Shutdown>>)
<1>2. Sound(handler, w)
  <2>1. handler.kind = "handler" /\ handler.do = <<Shutdown>>
    BY DEF OnExit
  <2> HIDE DEF handler
  <2>2. 1 .. Len(handler.do) = {1} /\ handler.do[1] = Shutdown
    BY <2>1
  <2>3. Shutdown.kind = "shutdown"
    BY DEF Shutdown
  <2> QED BY <2>1, <2>2, <2>3 DEF Sound, HandlerSound
<1>3. ClosesLaunch(file) = <<handler>>
  BY DEF ClosesLaunch
<1> HIDE DEF handler
<1> QED BY <1>1, <1>2, <1>3, SteadyOne

\* _robot_moveit_common2, for one
LEMMA CommonSteady ==
  ASSUME NEW w, NEW c, Dumped(c)
  PROVE  Steady(RobotMoveitCommon2(c), w)
<1> DEFINE file == "_robot_moveit_common2"
           moveit == c["moveit_config_dump"]
           link == Prefixed(Arg(c, "prefix", ""), Name("", "", "link_base"))
           tf == Node(Id("static_transform_publisher", link, file), Nothing)
           mg == Node(Id("move_group", Unnamed, file), moveit)
           args == [moveit_config_dump |-> moveit]
           pl == Include("_robot_planner", args)
           a == ClosesLaunch(file)
           b == When(Arg(c, "show_rviz", TRUE), <<Node(Rviz(file), moveit)>>)
           d == When(Arg(c, "no_gui_ctrl", FALSE), <<pl>>)
<1>1. RobotMoveitCommon2(c) = a \o b \o <<tf, mg>> \o d
  BY DEF RobotMoveitCommon2
<1>2. Steady(a, w) /\ Steady(b, w)
  BY RvizSteady, SteadyWhen
<1>3. Sound(tf, w) /\ Sound(mg, w)
  BY NodeOther DEF Id
<1>4. Sound(pl, w)
  <2>1. ArmGiven(args, w.d.arms[1]) /\ ArmsGiven(args, w.d.arms)
    BY DEF ArmGiven, ArmsGiven, Given
  <2>2. Dumped(args)
    BY DEF Dumped
  <2>3. pl.kind = "include" /\ pl.file = "_robot_planner" /\ pl.args = args
    BY DEF Include
  <2> HIDE DEF pl, args
  <2>4. \A x : Of(x, w) => Of(Updated(x, args), w)
    BY <2>1, OfKept
  <2> QED BY <2>2, <2>3, <2>4 DEF Sound, IncludeSound
<1> HIDE DEF a, b, tf, mg, pl
<1>5. Steady(<<tf, mg>>, w) /\ Steady(d, w)
  BY <1>3, <1>4, SteadyOne, SteadyTwo, SteadyWhen
<1> HIDE DEF d
<1>6. Steady(a \o b, w)
  BY <1>2, SteadyConcat
<1>7. Steady(a \o b \o <<tf, mg>>, w)
  BY <1>5, <1>6, SteadyConcat
<1> QED BY <1>1, <1>5, <1>7, SteadyConcat

\* and for two,
LEMMA DualCommonSteady ==
  ASSUME NEW w, NEW c, Dumped(c)
  PROVE  Steady(DualRobotMoveitCommon2(c), w)
<1> DEFINE file == "_dual_robot_moveit_common2"
           moveit == c["moveit_config_dump"]
           tf(arm) == Node(Id("static_transform_publisher",
                              Prefixed(arm.prefix, Name("", "", "link_base")), file), Nothing)
           mg == Node(Id("move_group", Unnamed, file), moveit)
           a == ClosesLaunch(file)
           b == When(Arg(c, "show_rviz", TRUE), <<Node(Rviz(file), moveit)>>)
<1>1. DualRobotMoveitCommon2(c) = a \o b \o <<tf(Arms(c)[1]), tf(Arms(c)[2]), mg>>
  BY DEF DualRobotMoveitCommon2
<1>2. Steady(a, w) /\ Steady(b, w)
  BY RvizSteady, SteadyWhen
<1>3. (\A arm : Sound(tf(arm), w)) /\ Sound(mg, w)
  BY NodeOther DEF Id
<1> HIDE DEF a, b, tf, mg
<1>4. Steady(<<tf(Arms(c)[1]), tf(Arms(c)[2]), mg>>, w)
  BY <1>3, SteadyThree
<1>5. Steady(a \o b, w)
  BY <1>2, SteadyConcat
<1> QED BY <1>1, <1>4, <1>5, SteadyConcat

\* and the simulator's files: what they start at the state publisher's start
LEMMA StartSound ==
  ASSUME NEW w, NEW rsp, NEW id, NEW data,
         id.exe \notin {"robot_state_publisher", "ros2_control_node", "spawner"}
  PROVE  Sound(OnStart(rsp, <<Node(id, data)>>), w)
<1> DEFINE h == OnStart(rsp, <<Node(id, data)>>)
           e == Node(id, data)
<1>1. e.kind = "node" /\ NodeSound(e, w)
  BY NodeOther DEF Node
<1>2. h.kind = "handler" /\ h.do = <<e>>
  BY DEF OnStart
<1> HIDE DEF e
<1>3. 1 .. Len(h.do) = {1} /\ h.do[1] = e
  BY <1>2
<1> HIDE DEF h
<1>4. Sound(h, w)
  BY <1>1, <1>2, <1>3 DEF Sound, HandlerSound
<1> QED BY <1>4 DEF h, e

\* and at the end of the insertion.
LEMMA ExitSound ==
  ASSUME NEW w, NEW id, NEW do,
         \A k \in 1 .. Len(do) : do[k].kind = "node" /\ NodeSound(do[k], w)
  PROVE  Sound(OnExit(id, do), w)
<1> DEFINE h == OnExit(id, do)
<1>1. h.kind = "handler" /\ h.do = do
  BY DEF OnExit
<1> HIDE DEF h
<1>2. Sound(h, w)
  BY <1>1 DEF Sound, HandlerSound
<1> QED BY <1>2 DEF h

\* The files beside a table.
LEMMA BesideSteady ==
  ASSUME NEW w, w.d # Nothing, Ready(w), NEW c, NEW file, NEW controllers, Allowed(controllers, w),
         NEW bridges \in Seq({"parameter_bridge"})
  PROVE  Steady(BesideTable(c, file, w.d, controllers, bridges), w)
<1> DEFINE rsp == RobotStatePublisher(file)
           spawners == When(Arg(c, "load_controller", FALSE), Spawners(controllers, file))
           start1 == OnStart(rsp, <<Node(Simulator(file), Nothing)>>)
           start2 == OnStart(rsp, <<Node(Create(file), Nothing)>>)
           bridge(i) == OnStart(rsp, <<Node(Id(bridges[i], Unnamed, file), Nothing)>>)
           links == [i \in 1 .. Len(bridges) |-> bridge(i)]
           rviz == OnExit(Create(file), <<Node(Rviz(file), Nothing)>>)
           shown == When(Arg(c, "show_rviz", FALSE), <<rviz>>)
           ended == OnExit(Create(file), spawners)
           loaded == When(spawners # <<>>, <<ended>>)
           node == Node(rsp, w.d)
<1>1. BesideTable(c, file, w.d, controllers, bridges)
      = <<start1, start2>> \o links \o shown \o loaded \o <<node>>
  BY DEF BesideTable
<1>2. Sound(start1, w) /\ Sound(start2, w)
  BY StartSound DEF Simulator, Create, Id
<1>3. Steady(links, w)
  <2>1. Len(bridges) \in Nat /\ \A i \in 1 .. Len(bridges) : bridges[i] = "parameter_bridge"
    OBVIOUS
  <2>2. \A i \in 1 .. Len(bridges) : Sound(bridge(i), w)
    BY <2>1, StartSound DEF Id
  <2> HIDE DEF bridge
  <2>3. links \in Seq({bridge(i) : i \in 1 .. Len(bridges)})
    BY <2>1
  <2>4. Listing(links) /\ \A i \in 1 .. Len(links) : links[i] \in {bridge(j) : j \in 1 .. Len(bridges)}
    BY <2>3, ListingSeq
  <2> HIDE DEF links
  <2> QED BY <2>2, <2>4 DEF Steady
<1>4. Steady(shown, w)
  <2> DEFINE e == Node(Rviz(file), Nothing)
  <2>1. e.kind = "node" /\ NodeSound(e, w)
    BY NodeOther DEF Node, Rviz, Id
  <2> HIDE DEF e
  <2>2. \A k \in 1 .. Len(<<e>>) : <<e>>[k].kind = "node" /\ NodeSound(<<e>>[k], w)
    BY <2>1
  <2>3. Sound(rviz, w)
    BY <2>2, ExitSound DEF e
  <2> HIDE DEF rviz
  <2> QED BY <2>3, SteadyOne, SteadyWhen
<1>5. Steady(loaded, w)
  <2>1. \A k \in 1 .. Len(spawners) : spawners[k].kind = "node" /\ NodeSound(spawners[k], w)
    <3> DEFINE all == Spawners(controllers, file)
    <3>1. \A k \in 1 .. Len(all) : all[k].kind = "node" /\ NodeSound(all[k], w)
      BY SteadySpawners
    <3>2. spawners = all \/ spawners = <<>>
      BY DEF When
    <3>3. 1 .. Len(<<>>) = {}
      OBVIOUS
    <3> HIDE DEF spawners, all
    <3> QED BY <3>1, <3>2, <3>3
  <2> HIDE DEF spawners
  <2>2. Sound(ended, w)
    BY <2>1, ExitSound
  <2> HIDE DEF ended
  <2> QED BY <2>2, SteadyOne, SteadyWhen
<1>6. Sound(node, w)
  BY DEF Sound, NodeSound, Node, RobotStatePublisher, Id
<1> HIDE DEF start1, start2, links, shown, loaded, node
<1>7. Steady(<<start1, start2>> \o links, w)
  BY <1>2, <1>3, SteadyTwo, SteadyConcat
<1>8. Steady(<<start1, start2>> \o links \o shown, w)
  BY <1>4, <1>7, SteadyConcat
<1>9. Steady(<<start1, start2>> \o links \o shown \o loaded, w)
  BY <1>5, <1>8, SteadyConcat
<1> QED BY <1>1, <1>6, <1>9, SteadyOne, SteadyConcat
-----------------------------------------------------------------------------
(* The files that are launched. *)

\* What a launch's own file returns is sound for some launch.
Starts(s, c, one, asked) == \E w : w.one = one /\ w.asked = asked /\ Of(c, w) /\ Steady(s, w)
World(arms, plugin, params, one, asked) ==
  [d |-> [arms |-> arms, plugin |-> plugin, params |-> params], one |-> one, asked |-> asked]
SingleWorld(c, plugin, asked) ==
  World(<<Arm(c)>>, plugin, GenerateRos2ControlParams(XArmType(Arm(c)), Arm(c)), TRUE, asked)
DualWorld(c, plugin, asked) ==
  World(Arms(c), plugin, GenerateDualRos2ControlParams(XArmTypes(Arms(c)), Arms(c)), FALSE, asked)

\* One arm,
OfOne(w, c, plugin, asked) ==
  /\ w.one = TRUE /\ w.asked = asked /\ Of(c, w) /\ Ready(w) /\ w.d # Nothing
  /\ 1 .. Len(w.d.arms) = {1} /\ w.d.arms[1] = Arm(c) /\ w.d.plugin = plugin
  /\ w.d.params # Nothing
  /\ w.d.params = GenerateRos2ControlParams(XArmType(Arm(c)), Arm(c))
  /\ w.d = [arms |-> <<Arm(c)>>, plugin |-> plugin, params |-> w.d.params]
\* There is such a launch for every known robot.
LEMMA SingleWorldIs ==
  ASSUME NEW c, Supported(Arm(c)), NEW plugin, NEW asked
  PROVE  \E w : OfOne(w, c, plugin, asked)
<1> DEFINE w == SingleWorld(c, plugin, asked)
<1> DEFINE arm == Arm(c)
           params == GenerateRos2ControlParams(XArmType(Arm(c)), Arm(c))
           arms == <<arm>>
<1>1. params # Nothing
  BY ParamsMade
<1> HIDE DEF params, arm
<1>2. 1 .. Len(arms) = {1} /\ arms[1] = arm
  OBVIOUS
<1> HIDE DEF arms
<1> DEFINE d == [arms |-> arms, plugin |-> plugin, params |-> params]
<1>3. d.arms = arms /\ d.plugin = plugin /\ d.params = params
  OBVIOUS
<1>4. d # Nothing
  BY Something
<1> HIDE DEF d
<1>5. w = [d |-> d, one |-> TRUE, asked |-> asked]
  BY DEF SingleWorld, World, d, params, arms, arm
<1>6. w.d = d /\ w.one = TRUE /\ w.asked = asked
  BY <1>5
<1>7. Of(c, w)
  BY <1>3, <1>6 DEF Of, arms, arm
<1>8. Ready(w)
  BY <1>1, <1>2, <1>3, <1>6 DEF Ready, params, arm
<1>9. w.d = [arms |-> <<Arm(c)>>, plugin |-> plugin, params |-> w.d.params]
  BY <1>3, <1>6 DEF d, arms, arm
<1>10. w.d.params = GenerateRos2ControlParams(XArmType(Arm(c)), Arm(c)) /\ w.d.params # Nothing
  BY <1>1, <1>3, <1>6 DEF params
<1> HIDE DEF w
<1>11. OfOne(w, c, plugin, asked)
  BY <1>2, <1>3, <1>4, <1>6, <1>7, <1>8, <1>9, <1>10 DEF arm, OfOne
<1> QED BY <1>11

\* or two.
OfTwo(w, c, plugin, asked) ==
  /\ w.one = FALSE /\ w.asked = asked /\ Of(c, w) /\ Ready(w) /\ w.d # Nothing
  /\ 1 .. Len(w.d.arms) = {1, 2} /\ w.d.arms = Arms(c) /\ w.d.plugin = plugin
  /\ w.d.params # Nothing
  /\ w.d.params = GenerateDualRos2ControlParams(XArmTypes(Arms(c)), Arms(c))
  /\ w.d = [arms |-> Arms(c), plugin |-> plugin, params |-> w.d.params]
\* There is one for every two.
LEMMA DualWorldIs ==
  ASSUME NEW c, Supported(Arms(c)[1]), Supported(Arms(c)[2]), NEW plugin, NEW asked
  PROVE  \E w : OfTwo(w, c, plugin, asked)
<1> DEFINE w == DualWorld(c, plugin, asked)
<1> DEFINE arms == Arms(c)
           params == GenerateDualRos2ControlParams(XArmTypes(Arms(c)), Arms(c))
<1>1. params # Nothing
  BY DualParamsMade
<1>2. 1 .. Len(arms) = {1, 2}
  BY DEF Arms
<1> HIDE DEF params, arms
<1> DEFINE d == [arms |-> arms, plugin |-> plugin, params |-> params]
<1>3. d.arms = arms /\ d.plugin = plugin /\ d.params = params
  OBVIOUS
<1>4. d # Nothing
  BY Something
<1> HIDE DEF d
<1>5. w = [d |-> d, one |-> FALSE, asked |-> asked]
  BY DEF DualWorld, World, d, params, arms
<1>6. w.d = d /\ w.one = FALSE /\ w.asked = asked
  BY <1>5
<1>7. Of(c, w)
  BY <1>3, <1>6 DEF Of, arms
<1>8. Ready(w)
  BY <1>1, <1>3, <1>6 DEF Ready, params, arms
<1>9. w.d = [arms |-> Arms(c), plugin |-> plugin, params |-> w.d.params]
  BY <1>3, <1>6 DEF d, arms
<1>10. w.d.params = GenerateDualRos2ControlParams(XArmTypes(Arms(c)), Arms(c)) /\ w.d.params # Nothing
  BY <1>1, <1>3, <1>6 DEF params
<1> HIDE DEF w
<1>11. OfTwo(w, c, plugin, asked)
  BY <1>2, <1>3, <1>4, <1>6, <1>7, <1>8, <1>9, <1>10 DEF arms, OfTwo
<1> QED BY <1>11

\* What the MoveIt files include: the description,
LEMMA DescriptionInclude ==
  ASSUME NEW w
  PROVE  Sound(Include("_robot_description", [robot_description |-> w.d]), w)
<1> DEFINE args == [robot_description |-> w.d]
           e == Include("_robot_description", args)
<1>1. ArmGiven(args, w.d.arms[1]) /\ ArmsGiven(args, w.d.arms)
  BY DEF ArmGiven, ArmsGiven, Given
<1>2. Has(args, "robot_description", w.d)
  BY DEF Has
<1>3. e.kind = "include" /\ e.file = "_robot_description" /\ e.args = args
  BY DEF Include
<1> HIDE DEF args, e
<1>4. \A x : Of(x, w) => Of(Updated(x, args), w)
  BY <1>1, OfKept
<1>5. Sound(e, w)
  BY <1>2, <1>3, <1>4 DEF Sound, IncludeSound
<1> QED BY <1>5 DEF e, args

\* the controller manager,
LEMMA ControlInclude ==
  ASSUME NEW w, w.d.params # Nothing, NEW moveit, moveit.description = w.d,
         NEW params, params = w.d.params, NEW file \in {"_ros2_control", "_dual_ros2_control"}
  PROVE  Sound(Include(file, ControlArgs(moveit, params)), w)
<1> DEFINE args == [robot_description |-> moveit.description, ros2_control_params |-> params]
           e == Include(file, args)
<1>1. ArmGiven(args, w.d.arms[1]) /\ ArmsGiven(args, w.d.arms)
  BY DEF ArmGiven, ArmsGiven, Given
<1>2. Has(args, "robot_description", w.d) /\ Has(args, "ros2_control_params", w.d.params)
  BY DEF Has
<1>3. e.kind = "include" /\ e.file = file /\ e.args = args
  BY DEF Include
<1>4. args = ControlArgs(moveit, params)
  BY DEF ControlArgs
<1> HIDE DEF args, e
<1>5. \A x : Of(x, w) => Of(Updated(x, args), w)
  BY <1>1, OfKept
<1>6. Sound(e, w)
  BY <1>2, <1>3, <1>5 DEF Sound, IncludeSound
<1> QED BY <1>4, <1>6 DEF e

\* and move_group's file, with RViz or without.
LEMMA CommonInclude ==
  ASSUME NEW w, w.one = TRUE, NEW c, Of(c, w), NEW M, M # Nothing
  PROVE  /\ Sound(Include("_robot_moveit_common2", Common2Args(Arm(c), c, M)), w)
         /\ Sound(Include("_robot_moveit_common2",
                          Updated(Common2Args(Arm(c), c, M), [show_rviz |-> FALSE])), w)
<1> DEFINE args == [prefix |-> Arm(c).prefix, no_gui_ctrl |-> Arg(c, "no_gui_ctrl", FALSE),
                    moveit_config_dump |-> M]
           more == Updated(args, [show_rviz |-> FALSE])
           e == Include("_robot_moveit_common2", args)
           f == Include("_robot_moveit_common2", more)
<1>1. w.d.arms[1] = Arm(c)
  BY DEF Of
<1>2. /\ DOMAIN args = {"prefix", "no_gui_ctrl", "moveit_config_dump"}
      /\ args["prefix"] = Arm(c).prefix /\ args["moveit_config_dump"] = M
  OBVIOUS
<1>3. /\ DOMAIN more = {"prefix", "no_gui_ctrl", "moveit_config_dump", "show_rviz"}
      /\ more["prefix"] = Arm(c).prefix /\ more["moveit_config_dump"] = M
  BY DEF Updated
<1>4. args = Common2Args(Arm(c), c, M)
  BY DEF Common2Args
<1>5. /\ e.kind = "include" /\ e.file = "_robot_moveit_common2" /\ e.args = args
      /\ f.kind = "include" /\ f.file = "_robot_moveit_common2" /\ f.args = more
  BY DEF Include
<1> HIDE DEF args, more, e, f
<1>6. ArmGiven(args, w.d.arms[1]) /\ ArmGiven(more, w.d.arms[1])
  BY <1>1, <1>2, <1>3 DEF ArmGiven, Given
<1>7. /\ \A x : Of(x, w) => Of(Updated(x, args), w)
      /\ \A x : Of(x, w) => Of(Updated(x, more), w)
  BY <1>6, OfKept
<1>8. Dumped(args) /\ Dumped(more)
  BY <1>2, <1>3 DEF Dumped
<1>9. Sound(e, w) /\ Sound(f, w)
  BY <1>5, <1>7, <1>8 DEF Sound, IncludeSound
<1> QED BY <1>4, <1>9 DEF e, f, more

\* The same for two arms.
LEMMA DualCommonInclude ==
  ASSUME NEW w, w.one = FALSE, NEW c, Of(c, w), NEW M, M # Nothing
  PROVE  /\ Sound(Include("_dual_robot_moveit_common2", DualCommon2Args(Arms(c), c, M)), w)
         /\ Sound(Include("_dual_robot_moveit_common2",
                          Updated(DualCommon2Args(Arms(c), c, M), [show_rviz |-> FALSE])), w)
<1> DEFINE args == [prefix_1 |-> Arms(c)[1].prefix, prefix_2 |-> Arms(c)[2].prefix,
                    no_gui_ctrl |-> Arg(c, "no_gui_ctrl", FALSE), moveit_config_dump |-> M]
           more == Updated(args, [show_rviz |-> FALSE])
           e == Include("_dual_robot_moveit_common2", args)
           f == Include("_dual_robot_moveit_common2", more)
<1>1. w.d.arms = Arms(c)
  BY DEF Of
<1>2. /\ DOMAIN args = {"prefix_1", "prefix_2", "no_gui_ctrl", "moveit_config_dump"}
      /\ args["prefix_1"] = Arms(c)[1].prefix /\ args["prefix_2"] = Arms(c)[2].prefix
      /\ args["moveit_config_dump"] = M
  OBVIOUS
<1>3. /\ DOMAIN more = {"prefix_1", "prefix_2", "no_gui_ctrl", "moveit_config_dump", "show_rviz"}
      /\ more["prefix_1"] = Arms(c)[1].prefix /\ more["prefix_2"] = Arms(c)[2].prefix
      /\ more["moveit_config_dump"] = M
  BY DEF Updated
<1>4. args = DualCommon2Args(Arms(c), c, M)
  BY DEF DualCommon2Args
<1>5. /\ e.kind = "include" /\ e.file = "_dual_robot_moveit_common2" /\ e.args = args
      /\ f.kind = "include" /\ f.file = "_dual_robot_moveit_common2" /\ f.args = more
  BY DEF Include
<1> HIDE DEF args, more, e, f
<1>6. ArmsGiven(args, w.d.arms) /\ ArmsGiven(more, w.d.arms)
  BY <1>1, <1>2, <1>3 DEF ArmsGiven, Given
<1>7. /\ \A x : Of(x, w) => Of(Updated(x, args), w)
      /\ \A x : Of(x, w) => Of(Updated(x, more), w)
  BY <1>6, OfKept
<1>8. Dumped(args) /\ Dumped(more)
  BY <1>2, <1>3 DEF Dumped
<1>9. Sound(e, w) /\ Sound(f, w)
  BY <1>5, <1>7, <1>8 DEF Sound, IncludeSound
<1> QED BY <1>4, <1>9 DEF e, f, more

\* _robot_moveit_fake,
LEMMA FakeStarts ==
  ASSUME NEW c, Supported(Arm(c)), NEW asked
  PROVE  Starts(RobotMoveitFake(c), c, TRUE, asked)
<1> DEFINE file == "_robot_moveit_fake"
           arm == Arm(c)
           params == GenerateRos2ControlParams(XArmType(arm), arm)
           moveit == ToMoveItConfigs(arm, "fake_controllers", FakePlugin, params)
           a == Include("_robot_description", [robot_description |-> moveit.description])
           b == Include("_robot_moveit_common2", Common2Args(arm, c, moveit))
           d == Include("_ros2_control", ControlArgs(moveit, params))
           s == Spawners(<<Broadcaster>>, file)
           own == <<TrajController(arm)>> \o GripperTrajController(arm)
           t == Spawners(own, file)
<1>1. moveit # Nothing /\ moveit.description = [arms |-> <<arm>>, plugin |-> FakePlugin, params |-> params]
  BY SingleMade
<1>2. params # Nothing
  BY ParamsMade
<1>3. RobotMoveitFake(c) = <<a, b>> \o s \o <<d>> \o t
  BY <1>1, <1>2 DEF RobotMoveitFake
<1> HIDE DEF moveit
<1>w. PICK w : OfOne(w, c, FakePlugin, asked)
  BY SingleWorldIs
<1>4. /\ w.one = TRUE /\ w.asked = asked /\ Of(c, w) /\ Ready(w) /\ w.d.params # Nothing
      /\ 1 .. Len(w.d.arms) = {1} /\ w.d.arms[1] = arm /\ w.d.plugin = FakePlugin
      /\ w.d.params = params
      /\ w.d = [arms |-> <<arm>>, plugin |-> FakePlugin, params |-> w.d.params]
  BY <1>w DEF OfOne
<1>5. moveit.description = w.d
  BY <1>1, <1>4
<1> HIDE DEF params, arm
<1>6. Sound(a, w) /\ Sound(b, w) /\ Sound(d, w)
  <2>1. Sound(a, w)
    BY <1>5, DescriptionInclude
  <2>2. Sound(b, w)
    BY <1>1, <1>4, CommonInclude DEF arm
  <2>3. Sound(d, w)
    BY <1>4, <1>5, ControlInclude
  <2> QED BY <2>1, <2>2, <2>3
<1>7. FakePlugin # RealPlugin
  BY DEF FakePlugin, RealPlugin
<1>8. Startable(Broadcaster, w) /\ Startable(TrajController(arm), w) /\ Allowed(GripperTrajController(arm), w)
  BY <1>4, <1>7, ArmStartable, GripperAllowed
<1>9. Allowed(<<Broadcaster>>, w) /\ Allowed(own, w)
  BY <1>8, ListAllowed, ConcatAllowed
<1> HIDE DEF own
<1>10. Steady(s, w) /\ Steady(t, w)
  BY <1>4, <1>9, SteadySpawners
<1> HIDE DEF a, b, d, s, t
<1>11. Steady(<<a, b>> \o s, w)
  BY <1>6, <1>10, SteadyTwo, SteadyConcat
<1>12. Steady(<<a, b>> \o s \o <<d>>, w)
  BY <1>6, <1>11, SteadyOne, SteadyConcat
<1>13. Steady(RobotMoveitFake(c), w)
  BY <1>3, <1>10, <1>12, SteadyConcat
<1> QED BY <1>4, <1>13 DEF Starts

\* _robot_moveit_realmove,
LEMMA RealmoveStarts ==
  ASSUME NEW c, Supported(Arm(c)), "robot_ip" \in DOMAIN c, NEW asked
  PROVE  Starts(RobotMoveitRealmove(c), c, TRUE, asked)
<1> DEFINE file == "_robot_moveit_realmove"
           arm == Arm(c)
           params == GenerateRos2ControlParams(XArmType(arm), arm)
           moveit == ToMoveItConfigs(arm, "controllers", RealPlugin, params)
           a == Include("_robot_description", [robot_description |-> moveit.description])
           b == Include("_robot_moveit_common2", Common2Args(arm, c, moveit))
           n == Node(Id("joint_state_publisher", Unnamed, file), Nothing)
           d == Include("_ros2_control", ControlArgs(moveit, params))
           s == Spawners(<<TrajController(arm)>>, file)
<1>1. moveit # Nothing /\ moveit.description = [arms |-> <<arm>>, plugin |-> RealPlugin, params |-> params]
  BY SingleMade
<1>2. params # Nothing
  BY ParamsMade
<1>3. RobotMoveitRealmove(c) = <<a, b, n, d>> \o s
  BY <1>1, <1>2 DEF RobotMoveitRealmove
<1> HIDE DEF moveit
<1>w. PICK w : OfOne(w, c, RealPlugin, asked)
  BY SingleWorldIs
<1>4. /\ w.one = TRUE /\ w.asked = asked /\ Of(c, w) /\ Ready(w) /\ w.d.params # Nothing
      /\ 1 .. Len(w.d.arms) = {1} /\ w.d.arms[1] = arm
      /\ w.d.params = params
      /\ w.d = [arms |-> <<arm>>, plugin |-> RealPlugin, params |-> w.d.params]
  BY <1>w DEF OfOne
<1>5. moveit.description = w.d
  BY <1>1, <1>4
<1> HIDE DEF params, arm
<1>6. Sound(a, w) /\ Sound(b, w) /\ Sound(n, w) /\ Sound(d, w)
  <2>1. Sound(a, w)
    BY <1>5, DescriptionInclude
  <2>2. Sound(b, w)
    BY <1>1, <1>4, CommonInclude DEF arm
  <2>3. Sound(n, w)
    BY NodeOther DEF Id
  <2>4. Sound(d, w)
    BY <1>4, <1>5, ControlInclude
  <2> QED BY <2>1, <2>2, <2>3, <2>4
<1>7. Startable(TrajController(arm), w)
  BY <1>4, ArmStartable
<1>8. Steady(s, w)
  BY <1>4, <1>7, ListAllowed, SteadySpawners
<1> HIDE DEF a, b, n, d, s
<1>9. Steady(RobotMoveitRealmove(c), w)
  BY <1>3, <1>6, <1>8, SteadyFour, SteadyConcat
<1> QED BY <1>4, <1>9 DEF Starts

\* the simulators' files: the description they are given
LEMMA TableInclude ==
  ASSUME NEW w, NEW args, NEW file, w.d # Nothing, Ready(w), w.d.plugin # RealPlugin,
         "moveit_config_dump" \in DOMAIN args, args["moveit_config_dump"] # Nothing,
         args["moveit_config_dump"].description = w.d,
         IF w.one THEN ArmGiven(args, w.d.arms[1]) /\ file \in SingleTables
         ELSE ArmsGiven(args, w.d.arms) /\ file \in DualTables
  PROVE  Sound(Include(file, args), w)
<1> DEFINE e == Include(file, args)
<1>1. e.kind = "include" /\ e.file = file /\ e.args = args
  BY DEF Include
<1> HIDE DEF e
<1>2. \A x : Of(x, w) => Of(Updated(x, args), w)
  BY OfKept
<1>3. Sound(e, w)
  BY <1>1, <1>2 DEF Sound, IncludeSound, Dumped
<1> QED BY <1>3 DEF e

\* and those that give it to them,
LEMMA SimulatedStarts ==
  ASSUME NEW c, Supported(Arm(c)), NEW asked, NEW plugin, plugin # RealPlugin,
         NEW table \in SingleTables
  PROVE  Starts(SimulatedMoveit(c, plugin, table), c, TRUE, asked)
<1> DEFINE arm == Arm(c)
           params == GenerateRos2ControlParams(XArmType(arm), arm)
           moveit == ToMoveItConfigs(arm, "fake_controllers", plugin, params)
           args == [dof |-> arm.dof, robot_type |-> arm.type, prefix |-> arm.prefix,
                    moveit_config_dump |-> moveit, load_controller |-> TRUE,
                    show_rviz |-> TRUE, no_gui_ctrl |-> Arg(c, "no_gui_ctrl", FALSE)]
           more == Updated(Common2Args(arm, c, moveit), [show_rviz |-> FALSE])
           a == Include(table, args)
           b == Include("_robot_moveit_common2", more)
<1>1. moveit # Nothing /\ moveit.description = [arms |-> <<arm>>, plugin |-> plugin, params |-> params]
  BY SingleMade
<1>2. params # Nothing
  BY ParamsMade
<1>3. SimulatedMoveit(c, plugin, table) = <<a, b>>
  BY <1>1, <1>2 DEF SimulatedMoveit
<1> HIDE DEF moveit
<1>w. PICK w : OfOne(w, c, plugin, asked)
  BY SingleWorldIs
<1>4. /\ w.one = TRUE /\ w.asked = asked /\ Of(c, w) /\ Ready(w) /\ w.d.params # Nothing
      /\ w.d # Nothing /\ w.d.arms[1] = arm /\ w.d.plugin = plugin /\ w.d.params = params
      /\ w.d = [arms |-> <<arm>>, plugin |-> plugin, params |-> w.d.params]
  BY <1>w DEF OfOne
<1>5. moveit.description = w.d
  BY <1>1, <1>4
<1> HIDE DEF params, arm
<1>6. Sound(a, w)
  <2>1. "moveit_config_dump" \in DOMAIN args /\ args["moveit_config_dump"] = moveit
    OBVIOUS
  <2>2. ArmGiven(args, arm)
    BY DEF ArmGiven, Given
  <2> HIDE DEF args
  <2> QED BY <1>1, <1>4, <1>5, <2>1, <2>2, TableInclude
<1>7. Sound(b, w)
  BY <1>1, <1>4, CommonInclude DEF arm
<1> HIDE DEF a, b
<1>8. Steady(SimulatedMoveit(c, plugin, table), w)
  BY <1>3, <1>6, <1>7, SteadyTwo
<1> QED BY <1>4, <1>8 DEF Starts

\* the servo's, whose plugin is an argument,
ServoWorldGiven(c, asked) ==
  Arg(c, "ros2_control_plugin", FakePlugin) # RealPlugin \/ asked
\* with the gripper's controller
LEMMA ServoFakeStarts ==
  ASSUME NEW c, Supported(Arm(c)), NEW asked, ServoWorldGiven(c, asked)
  PROVE  Starts(RobotMoveitServoFake(c), c, TRUE, asked)
<1> DEFINE file == "_robot_moveit_servo_fake"
           arm == Arm(c)
           plugin == Arg(c, "ros2_control_plugin", FakePlugin)
           params == GenerateRos2ControlParams(XArmType(arm), arm)
           moveit == ToMoveItConfigs(arm, ServoFile(plugin), plugin, params)
           configs == ServoFakeConfigs(c)
           a == Node(Rviz(file), configs.moveit)
           s == Spawners(<<Broadcaster>>, file)
           b == Include("_ros2_control", ControlArgs(configs.moveit, configs.params))
           d == Node(Id("servo", Unnamed, file), [output |-> TrajController(arm)])
           e == Node(Id("xarm_joystick_input_node", Unnamed, file), Nothing)
           own == <<TrajController(arm)>> \o GripperTrajController(arm)
           t == Spawners(own, file)
<1>1. moveit # Nothing /\ moveit.description = [arms |-> <<arm>>, plugin |-> plugin, params |-> params]
  BY SingleMade
<1>2. params # Nothing
  BY ParamsMade
<1>3. configs.params = params /\ configs.moveit = moveit
  BY DEF ServoFakeConfigs
<1>4. RobotMoveitServoFake(c) = <<a>> \o s \o <<b, d, e>> \o t
  <2>1. Nothing \notin {configs.params, configs.moveit}
    BY <1>1, <1>2, <1>3
  <2> HIDE DEF configs
  <2> QED BY <2>1 DEF RobotMoveitServoFake, configs
<1> HIDE DEF configs, moveit
<1>w. PICK w : OfOne(w, c, plugin, asked)
  BY SingleWorldIs
<1>5. /\ w.one = TRUE /\ w.asked = asked /\ Of(c, w) /\ Ready(w) /\ w.d.params # Nothing
      /\ 1 .. Len(w.d.arms) = {1} /\ w.d.arms[1] = arm /\ w.d.plugin = plugin
      /\ w.d.params = params
      /\ w.d = [arms |-> <<arm>>, plugin |-> plugin, params |-> w.d.params]
  BY <1>w DEF OfOne
<1>6. configs.moveit.description = w.d /\ configs.params = w.d.params
  BY <1>1, <1>3, <1>5
<1>7. w.d.plugin # RealPlugin \/ w.asked
  BY <1>5 DEF ServoWorldGiven
<1> HIDE DEF params, arm, plugin
<1>8. Sound(a, w) /\ Sound(d, w) /\ Sound(e, w)
  BY NodeOther DEF Rviz, Id
<1>9. Sound(b, w)
  BY <1>5, <1>6, ControlInclude
<1>10. Startable(Broadcaster, w) /\ Startable(TrajController(arm), w) /\ Allowed(GripperTrajController(arm), w)
  BY <1>5, <1>7, ArmStartable, GripperAllowed
<1>11. Allowed(<<Broadcaster>>, w) /\ Allowed(own, w)
  BY <1>10, ListAllowed, ConcatAllowed
<1> HIDE DEF own
<1>12. Steady(s, w) /\ Steady(t, w)
  BY <1>5, <1>11, SteadySpawners
<1> HIDE DEF a, b, d, e, s, t
<1>13. Steady(<<a>> \o s, w)
  BY <1>8, <1>12, SteadyOne, SteadyConcat
<1>14. Steady(<<a>> \o s \o <<b, d, e>>, w)
  BY <1>8, <1>9, <1>13, SteadyThree, SteadyConcat
<1>15. Steady(RobotMoveitServoFake(c), w)
  BY <1>4, <1>12, <1>14, SteadyConcat
<1> QED BY <1>5, <1>15 DEF Starts

\* and without,
LEMMA ServoRealmoveStarts ==
  ASSUME NEW c, Supported(Arm(c)), NEW asked
  PROVE  Starts(RobotMoveitServoRealmove(c), c, TRUE, asked)
<1> DEFINE file == "_robot_moveit_servo_realmove"
           arm == Arm(c)
           plugin == Arg(c, "ros2_control_plugin", FakePlugin)
           params == GenerateRos2ControlParams(XArmType(arm), arm)
           moveit == ToMoveItConfigs(arm, ServoFile(plugin), plugin, params)
           configs == ServoRealmoveConfigs(c)
           a == Node(Rviz(file), configs.moveit)
           n == Node(Id("joint_state_publisher", Unnamed, file), Nothing)
           b == Include("_ros2_control", ControlArgs(configs.moveit, configs.params))
           d == Node(Id("servo", Unnamed, file), [output |-> TrajController(arm)])
           e == Node(Id("xarm_joystick_input_node", Unnamed, file), Nothing)
           s == Spawners(<<TrajController(arm)>>, file)
<1>1. moveit # Nothing /\ moveit.description = [arms |-> <<arm>>, plugin |-> plugin, params |-> params]
  BY SingleMade
<1>2. params # Nothing
  BY ParamsMade
<1>3. configs.params = params /\ configs.moveit = moveit
  BY DEF ServoRealmoveConfigs
<1>4. RobotMoveitServoRealmove(c) = <<a, n, b, d, e>> \o s
  <2>1. Nothing \notin {configs.params, configs.moveit}
    BY <1>1, <1>2, <1>3
  <2> HIDE DEF configs
  <2> QED BY <2>1 DEF RobotMoveitServoRealmove, configs
<1> HIDE DEF configs, moveit
<1>w. PICK w : OfOne(w, c, plugin, asked)
  BY SingleWorldIs
<1>5. /\ w.one = TRUE /\ w.asked = asked /\ Of(c, w) /\ Ready(w) /\ w.d.params # Nothing
      /\ 1 .. Len(w.d.arms) = {1} /\ w.d.arms[1] = arm
      /\ w.d.params = params
      /\ w.d = [arms |-> <<arm>>, plugin |-> plugin, params |-> w.d.params]
  BY <1>w DEF OfOne
<1>6. configs.moveit.description = w.d /\ configs.params = w.d.params
  BY <1>1, <1>3, <1>5
<1> HIDE DEF params, arm, plugin
<1>7. Sound(a, w) /\ Sound(n, w) /\ Sound(d, w) /\ Sound(e, w)
  BY NodeOther DEF Rviz, Id
<1>8. Sound(b, w)
  BY <1>5, <1>6, ControlInclude
<1>9. Startable(TrajController(arm), w)
  BY <1>5, ArmStartable
<1>10. Steady(s, w)
  BY <1>5, <1>9, ListAllowed, SteadySpawners
<1> HIDE DEF a, n, b, d, e, s
<1>11. Steady(<<a, n, b, d, e>>, w)
  BY <1>7, <1>8, SteadyFive
<1>12. Steady(RobotMoveitServoRealmove(c), w)
  BY <1>4, <1>10, <1>11, SteadyConcat
<1> QED BY <1>5, <1>12 DEF Starts

\* those that start little: the state publisher,
LEMMA DescriptionStarts ==
  ASSUME NEW c, "robot_description" \notin DOMAIN c, NEW asked
  PROVE  Starts(RobotDescriptionLaunch(c), c, TRUE, asked)
<1> DEFINE plugin == Arg(c, "ros2_control_plugin", RealPlugin)
           d == [arms |-> <<Arm(c)>>, plugin |-> plugin, params |-> Nothing]
           e == Node(RobotStatePublisher("_robot_description"), d)
           w == [d |-> d, one |-> TRUE, asked |-> asked]
<1>1. RobotDescriptionLaunch(c) = <<e>>
  BY DEF RobotDescriptionLaunch, Arg, RobotDescription
<1>2. d.arms = <<Arm(c)>>
  OBVIOUS
<1> HIDE DEF d
<1>3. w.one = TRUE /\ w.asked = asked /\ w.d = d
  OBVIOUS
<1> HIDE DEF w
<1>4. Of(c, w)
  BY <1>2, <1>3 DEF Of
<1>5. Sound(e, w)
  BY <1>3 DEF Sound, NodeSound, Node, RobotStatePublisher, Id
<1>6. Steady(RobotDescriptionLaunch(c), w)
  BY <1>1, <1>5, SteadyOne
<1> QED BY <1>3, <1>4, <1>6 DEF Starts

\* the controller manager
LEMMA ControlStarts ==
  ASSUME NEW c, Supported(Arm(c)), NEW asked,
         "robot_description" \notin DOMAIN c, "ros2_control_params" \notin DOMAIN c
  PROVE  Starts(Ros2Control(c), c, TRUE, asked)
<1> DEFINE arm == Arm(c)
           plugin == Arg(c, "ros2_control_plugin", RealPlugin)
           params == GenerateRos2ControlParams(XArmType(arm), arm)
           d == [arms |-> <<arm>>, plugin |-> plugin, params |-> Nothing]
<1>w. PICK w : OfOne(w, c, plugin, asked)
  BY SingleWorldIs
<1>1. /\ w.one = TRUE /\ w.asked = asked /\ Of(c, w) /\ w.d.params = params
      /\ w.d = [arms |-> <<arm>>, plugin |-> plugin, params |-> w.d.params]
  BY <1>w DEF OfOne
<1>2. params # Nothing
  BY ParamsMade
<1>3. Ros2Control(c) = <<Node(Id("ros2_control_node", Unnamed, "_ros2_control"),
                              [params |-> params, description |-> d])>>
  BY <1>2 DEF Ros2Control, Arg, RobotDescription
<1>4. d.arms = w.d.arms /\ d.plugin = w.d.plugin /\ params = w.d.params
  BY <1>1
<1> HIDE DEF d, params
<1>5. Steady(Ros2Control(c), w)
  BY <1>3, <1>4, DriverSound
<1> QED BY <1>1, <1>5 DEF Starts

\* and the planner node.
LEMMA PlannerStarts ==
  ASSUME NEW c, NEW asked, Known(c), "moveit_config_dump" \notin DOMAIN c
  PROVE  \/ Starts(RobotPlanner(c), c, TRUE, asked)
         \/ RobotPlanner(c) = Raise /\ ~Supported(Arm(c))
<1> DEFINE d == [arms |-> <<Arm(c)>>, plugin |-> RealPlugin, params |-> Nothing]
           w == [d |-> d, one |-> TRUE, asked |-> asked]
<1>1. d.arms = <<Arm(c)>>
  OBVIOUS
<1> HIDE DEF d
<1>2. w.one = TRUE /\ w.asked = asked /\ w.d = d
  OBVIOUS
<1> HIDE DEF w
<1>3. Of(c, w)
  BY <1>1, <1>2 DEF Of
<1> QED BY <1>2, <1>3, PlannerSteady DEF Starts

\* The simulators' files, which differ in their plugin and in the bridge,
LEMMA TableShape ==
  ASSUME NEW c
  PROVE  /\ \A file \in SingleTables : \E plugin, bridges :
              /\ plugin # RealPlugin /\ bridges \in {<<>>, <<"parameter_bridge">>}
              /\ Entities(file, c)
                 = BesideTable(c, file, GivenDescription(c, OwnDescription(c, plugin)),
                               ArmControllers(c), bridges)
         /\ \A file \in DualTables : \E plugin, bridges :
              /\ plugin # RealPlugin /\ bridges \in {<<>>, <<"parameter_bridge">>}
              /\ Entities(file, c)
                 = BesideTable(c, file, GivenDescription(c, DualOwnDescription(c, plugin)),
                               DualArmControllers(c), bridges)
<1>1. ASSUME NEW file \in SingleTables
      PROVE  \E plugin, bridges :
              /\ plugin # RealPlugin /\ bridges \in {<<>>, <<"parameter_bridge">>}
              /\ Entities(file, c)
                 = BesideTable(c, file, GivenDescription(c, OwnDescription(c, plugin)),
                               ArmControllers(c), bridges)
  <2>1. CASE file = "_robot_beside_table_gz"
    <3>1. Entities(file, c) = RobotBesideTableGz(c)
      BY <2>1 DEF Entities
    <3>2. "gz_ros2_control/GazeboSimSystem" # RealPlugin
      BY DEF RealPlugin
    <3> QED BY <2>1, <3>1, <3>2 DEF RobotBesideTableGz, TableGzDescription
  <2>2. CASE file = "_robot_beside_table_ignition"
    <3>1. Entities(file, c) = RobotBesideTableIgnition(c)
      BY <2>2 DEF Entities
    <3>2. "ign_ros2_control/IgnitionSystem" # RealPlugin
      BY DEF RealPlugin
    <3> QED BY <2>2, <3>1, <3>2 DEF RobotBesideTableIgnition, TableIgnitionDescription
  <2>3. CASE file = "_robot_beside_table_gazebo"
    <3>1. Entities(file, c) = RobotBesideTableGazebo(c)
      BY <2>3 DEF Entities
    <3>2. "gazebo_ros2_control/GazeboSystem" # RealPlugin
      BY DEF RealPlugin
    <3> QED BY <2>3, <3>1, <3>2 DEF RobotBesideTableGazebo, TableGazeboDescription
  <2> QED BY <2>1, <2>2, <2>3 DEF SingleTables
<1>2. ASSUME NEW file \in DualTables
      PROVE  \E plugin, bridges :
              /\ plugin # RealPlugin /\ bridges \in {<<>>, <<"parameter_bridge">>}
              /\ Entities(file, c)
                 = BesideTable(c, file, GivenDescription(c, DualOwnDescription(c, plugin)),
                               DualArmControllers(c), bridges)
  <2>1. CASE file = "_dual_robot_beside_table_gz"
    <3>1. Entities(file, c) = DualRobotBesideTableGz(c)
      BY <2>1 DEF Entities
    <3>2. "gz_ros2_control/GazeboSimSystem" # RealPlugin
      BY DEF RealPlugin
    <3> QED BY <2>1, <3>1, <3>2 DEF DualRobotBesideTableGz, DualTableGzDescription
  <2>2. CASE file = "_dual_robot_beside_table_gazebo"
    <3>1. Entities(file, c) = DualRobotBesideTableGazebo(c)
      BY <2>2 DEF Entities
    <3>2. "gazebo_ros2_control/GazeboSystem" # RealPlugin
      BY DEF RealPlugin
    <3> QED BY <2>2, <3>1, <3>2 DEF DualRobotBesideTableGazebo, DualTableGazeboDescription
  <2> QED BY <2>1, <2>2 DEF DualTables
<1> QED BY <1>1, <1>2

\* their controllers,
LEMMA TableControllersAllowed ==
  ASSUME NEW w, NEW c, Of(c, w), w.d.plugin # RealPlugin \/ w.asked
  PROVE  IF w.one THEN Allowed(ArmControllers(c), w) ELSE Allowed(DualArmControllers(c), w)
<1>1. ASSUME w.one
      PROVE  Allowed(ArmControllers(c), w)
  <2> DEFINE arm == Arm(c)
  <2>1. 1 \in 1 .. Len(w.d.arms) /\ w.d.arms[1] = arm
    BY <1>1 DEF Of
  <2> HIDE DEF arm
  <2>2. Startable(Broadcaster, w) /\ Startable(TrajController(arm), w) /\ Allowed(GripperTrajController(arm), w)
    BY <2>1, ArmStartable, GripperAllowed
  <2>3. Allowed(<<Broadcaster, TrajController(arm)>> \o GripperTrajController(arm), w)
    BY <2>2, ListAllowed, ConcatAllowed
  <2> QED BY <2>3 DEF ArmControllers, arm
<1>2. ASSUME ~w.one
      PROVE  Allowed(DualArmControllers(c), w)
  <2> DEFINE a == Arms(c)[1]
             b == Arms(c)[2]
             s == <<Broadcaster, TrajController(a), TrajController(b)>>
  <2>1. w.d.arms[1] = a /\ w.d.arms[2] = b /\ 1 \in 1 .. Len(w.d.arms) /\ 2 \in 1 .. Len(w.d.arms)
    BY <1>2 DEF Of, Arms
  <2> HIDE DEF a, b
  <2>2. /\ Startable(Broadcaster, w)
        /\ Startable(TrajController(a), w) /\ Allowed(GripperTrajController(a), w)
        /\ Startable(TrajController(b), w) /\ Allowed(GripperTrajController(b), w)
    BY <2>1, ArmStartable, GripperAllowed
  <2>3. Allowed(s, w)
    BY <2>2, ListAllowed
  <2> HIDE DEF s
  <2>4. Allowed(s \o GripperTrajController(a), w)
    BY <2>2, <2>3, ConcatAllowed
  <2>5. Allowed(s \o GripperTrajController(a) \o GripperTrajController(b), w)
    BY <2>2, <2>4, ConcatAllowed
  <2> QED BY <2>5 DEF DualArmControllers, a, b, s
<1> QED BY <1>1, <1>2

\* and what they return, given a description
LEMMA TableSteady ==
  ASSUME NEW w, NEW c, Of(c, w), w.d # Nothing, Ready(w), w.d.plugin # RealPlugin,
         Has(c, "moveit_config_dump", c["moveit_config_dump"]),
         c["moveit_config_dump"].description = w.d,
         NEW file \in IF w.one THEN SingleTables ELSE DualTables
  PROVE  Steady(Entities(file, c), w)
<1>1. <<>> \in Seq({"parameter_bridge"}) /\ <<"parameter_bridge">> \in Seq({"parameter_bridge"})
  OBVIOUS
<1>2. \A own : GivenDescription(c, own) = w.d
  BY DEF GivenDescription, Has
<1>3. CASE w.one
  <2>1. PICK plugin, bridges :
          /\ bridges \in {<<>>, <<"parameter_bridge">>}
          /\ Entities(file, c)
             = BesideTable(c, file, GivenDescription(c, OwnDescription(c, plugin)),
                           ArmControllers(c), bridges)
    BY <1>3, TableShape
  <2>2. Entities(file, c) = BesideTable(c, file, w.d, ArmControllers(c), bridges)
    BY <1>2, <2>1
  <2>3. Allowed(ArmControllers(c), w)
    BY <1>3, TableControllersAllowed
  <2>4. bridges \in Seq({"parameter_bridge"})
    BY <1>1, <2>1
  <2> QED BY <2>2, <2>3, <2>4, BesideSteady
<1>4. CASE ~w.one
  <2>1. PICK plugin, bridges :
          /\ bridges \in {<<>>, <<"parameter_bridge">>}
          /\ Entities(file, c)
             = BesideTable(c, file, GivenDescription(c, DualOwnDescription(c, plugin)),
                           DualArmControllers(c), bridges)
    BY <1>4, TableShape
  <2>2. Entities(file, c) = BesideTable(c, file, w.d, DualArmControllers(c), bridges)
    BY <1>2, <2>1
  <2>3. Allowed(DualArmControllers(c), w)
    BY <1>4, TableControllersAllowed
  <2>4. bridges \in Seq({"parameter_bridge"})
    BY <1>1, <2>1
  <2> QED BY <2>2, <2>3, <2>4, BesideSteady
<1> QED BY <1>3, <1>4

\* or by themselves.
RealAsked(c) == "ros2_control_plugin" \in DOMAIN c /\ c["ros2_control_plugin"] = RealPlugin
\* Their own description has the real plugin only when it was asked for.
LEMMA TableStarts ==
  ASSUME NEW c, Supported(Arm(c)), NEW asked, RealAsked(c) => asked,
         "moveit_config_dump" \notin DOMAIN c, NEW file \in SingleTables
  PROVE  Starts(Entities(file, c), c, TRUE, asked)
<1>1. PICK plugin, bridges :
        /\ plugin # RealPlugin /\ bridges \in {<<>>, <<"parameter_bridge">>}
        /\ Entities(file, c)
           = BesideTable(c, file, GivenDescription(c, OwnDescription(c, plugin)),
                         ArmControllers(c), bridges)
  BY TableShape
<1> DEFINE own == Arg(c, "ros2_control_plugin", plugin)
<1>w. PICK w : OfOne(w, c, own, asked)
  BY SingleWorldIs
<1>2. /\ w.one = TRUE /\ w.asked = asked /\ Of(c, w) /\ Ready(w) /\ w.d # Nothing
      /\ w.d.plugin = own /\ w.d.params # Nothing
      /\ w.d.params = GenerateRos2ControlParams(XArmType(Arm(c)), Arm(c))
      /\ w.d = [arms |-> <<Arm(c)>>, plugin |-> own, params |-> w.d.params]
  BY <1>w DEF OfOne
<1>3. GivenDescription(c, OwnDescription(c, plugin)) = w.d
  <2>1. GivenDescription(c, OwnDescription(c, plugin)) = OwnDescription(c, plugin)
    BY DEF GivenDescription
  <2>2. GenerateRos2ControlParams(XArmType(Arm(c)), Arm(c)) # Nothing
    BY <1>2
  <2>3. OwnDescription(c, plugin)
        = RobotDescription(Arm(c), own, GenerateRos2ControlParams(XArmType(Arm(c)), Arm(c)))
    BY <2>2 DEF OwnDescription
  <2> QED BY <1>2, <2>1, <2>3 DEF RobotDescription
<1>4. w.d.plugin # RealPlugin \/ w.asked
  BY <1>1, <1>2 DEF RealAsked, Arg
<1>5. Allowed(ArmControllers(c), w)
  BY <1>2, <1>4, TableControllersAllowed
<1>6. bridges \in Seq({"parameter_bridge"})
  <2>1. <<>> \in Seq({"parameter_bridge"}) /\ <<"parameter_bridge">> \in Seq({"parameter_bridge"})
    OBVIOUS
  <2> QED BY <1>1, <2>1
<1>7. Steady(Entities(file, c), w)
  BY <1>1, <1>2, <1>3, <1>5, <1>6, BesideSteady
<1> QED BY <1>2, <1>7 DEF Starts

\* The same with two arms,
LEMMA DualTableStarts ==
  ASSUME NEW c, Supported(Arms(c)[1]), Supported(Arms(c)[2]), NEW asked, RealAsked(c) => asked,
         "moveit_config_dump" \notin DOMAIN c, NEW file \in DualTables
  PROVE  Starts(Entities(file, c), c, FALSE, asked)
<1>1. PICK plugin, bridges :
        /\ plugin # RealPlugin /\ bridges \in {<<>>, <<"parameter_bridge">>}
        /\ Entities(file, c)
           = BesideTable(c, file, GivenDescription(c, DualOwnDescription(c, plugin)),
                         DualArmControllers(c), bridges)
  BY TableShape
<1> DEFINE own == Arg(c, "ros2_control_plugin", plugin)
           params == GenerateDualRos2ControlParams(XArmTypes(Arms(c)), Arms(c))
<1>w. PICK w : OfTwo(w, c, own, asked)
  BY DualWorldIs
<1>2. /\ w.one = FALSE /\ w.asked = asked /\ Of(c, w) /\ Ready(w) /\ w.d # Nothing
      /\ w.d.plugin = own /\ w.d.params # Nothing /\ w.d.params = params
      /\ w.d = [arms |-> Arms(c), plugin |-> own, params |-> w.d.params]
  BY <1>w DEF OfTwo
<1>3. GivenDescription(c, DualOwnDescription(c, plugin)) = w.d
  <2>1. GivenDescription(c, DualOwnDescription(c, plugin)) = DualOwnDescription(c, plugin)
    BY DEF GivenDescription
  <2>2. params # Nothing
    BY <1>2
  <2>3. DualOwnDescription(c, plugin) = DualRobotDescription(Arms(c), own, params)
    BY <2>2 DEF DualOwnDescription
  <2> QED BY <1>2, <2>1, <2>3 DEF DualRobotDescription
<1>4. w.d.plugin # RealPlugin \/ w.asked
  BY <1>1, <1>2 DEF RealAsked, Arg
<1>5. Allowed(DualArmControllers(c), w)
  BY <1>2, <1>4, TableControllersAllowed
<1>6. bridges \in Seq({"parameter_bridge"})
  <2>1. <<>> \in Seq({"parameter_bridge"}) /\ <<"parameter_bridge">> \in Seq({"parameter_bridge"})
    OBVIOUS
  <2> QED BY <1>1, <2>1
<1>7. Steady(Entities(file, c), w)
  BY <1>1, <1>2, <1>3, <1>5, <1>6, BesideSteady
<1> QED BY <1>2, <1>7 DEF Starts

\* _dual_robot_moveit_fake,
LEMMA DualFakeStarts ==
  ASSUME NEW c, SupportedArms(Arms(c)), NEW asked
  PROVE  Starts(DualRobotMoveitFake(c), c, FALSE, asked)
<1> DEFINE file == "_dual_robot_moveit_fake"
           arms == Arms(c)
           params == GenerateDualRos2ControlParams(XArmTypes(arms), arms)
           moveit == DualToMoveItConfigs(arms, "fake_controllers", FakePlugin, params)
           a == Node(RobotStatePublisher(file), moveit.description)
           b == Include("_dual_robot_moveit_common2", DualCommon2Args(arms, c, moveit))
           d == Include("_dual_ros2_control", ControlArgs(moveit, params))
           s == Spawners(<<Broadcaster>>, file)
           both == <<TrajController(arms[1]), TrajController(arms[2])>>
           own == both \o GripperTrajController(arms[1]) \o GripperTrajController(arms[2])
           t == Spawners(own, file)
<1>0. Supported(arms[1]) /\ Supported(arms[2])
  BY DEF SupportedArms
<1>1. moveit # Nothing /\ moveit.description = [arms |-> arms, plugin |-> FakePlugin, params |-> params]
  BY DualMade
<1>2. params # Nothing
  BY <1>0, DualParamsMade
<1>3. DualRobotMoveitFake(c) = <<a, b>> \o s \o <<d>> \o t
  <2>1. DualFakeConfigs(c).moveit = moveit /\ DualFakeConfigs(c).params = params
    BY DEF DualFakeConfigs
  <2> HIDE DEF moveit, params
  <2> QED BY <1>1, <1>2, <2>1 DEF DualRobotMoveitFake
<1> HIDE DEF moveit
<1>w. PICK w : OfTwo(w, c, FakePlugin, asked)
  BY <1>0, DualWorldIs
<1>4. /\ w.one = FALSE /\ w.asked = asked /\ Of(c, w) /\ Ready(w) /\ w.d.params # Nothing
      /\ 1 .. Len(w.d.arms) = {1, 2} /\ w.d.arms = arms /\ w.d.plugin = FakePlugin
      /\ w.d.params = params
      /\ w.d = [arms |-> arms, plugin |-> FakePlugin, params |-> w.d.params]
  BY <1>w DEF OfTwo
<1>5. moveit.description = w.d
  BY <1>1, <1>4
<1> HIDE DEF params, arms
<1>6. Sound(a, w) /\ Sound(b, w) /\ Sound(d, w)
  <2>1. Sound(a, w)
    BY <1>5 DEF Sound, NodeSound, Node, RobotStatePublisher, Id
  <2>2. Sound(b, w)
    BY <1>1, <1>4, DualCommonInclude DEF arms
  <2>3. Sound(d, w)
    BY <1>4, <1>5, ControlInclude
  <2> QED BY <2>1, <2>2, <2>3
<1>7. FakePlugin # RealPlugin
  BY DEF FakePlugin, RealPlugin
<1>8. /\ Startable(Broadcaster, w) /\ Startable(TrajController(arms[1]), w)
      /\ Startable(TrajController(arms[2]), w)
      /\ Allowed(GripperTrajController(arms[1]), w) /\ Allowed(GripperTrajController(arms[2]), w)
  BY <1>4, <1>7, ArmStartable, GripperAllowed
<1>9. Allowed(<<Broadcaster>>, w) /\ Allowed(both, w)
  BY <1>8, ListAllowed
<1> HIDE DEF both
<1>10. Allowed(both \o GripperTrajController(arms[1]), w)
  BY <1>8, <1>9, ConcatAllowed
<1>11. Allowed(own, w)
  BY <1>8, <1>10, ConcatAllowed
<1> HIDE DEF own
<1>12. Steady(s, w) /\ Steady(t, w)
  BY <1>4, <1>9, <1>11, SteadySpawners
<1> HIDE DEF a, b, d, s, t
<1>13. Steady(<<a, b>> \o s, w)
  BY <1>6, <1>12, SteadyTwo, SteadyConcat
<1>14. Steady(<<a, b>> \o s \o <<d>>, w)
  BY <1>6, <1>13, SteadyOne, SteadyConcat
<1>15. Steady(DualRobotMoveitFake(c), w)
  BY <1>3, <1>12, <1>14, SteadyConcat
<1> QED BY <1>4, <1>15 DEF Starts

\* _dual_robot_moveit_realmove,
LEMMA DualRealmoveStarts ==
  ASSUME NEW c, SupportedArms(Arms(c)), {"robot_ip_1", "robot_ip_2"} \subseteq DOMAIN c, NEW asked
  PROVE  Starts(DualRobotMoveitRealmove(c), c, FALSE, asked)
<1> DEFINE file == "_dual_robot_moveit_realmove"
           arms == Arms(c)
           params == GenerateDualRos2ControlParams(XArmTypes(arms), arms)
           moveit == DualToMoveItConfigs(arms, "controllers", RealPlugin, params)
           a == Node(RobotStatePublisher(file), moveit.description)
           b == Include("_dual_robot_moveit_common2", DualCommon2Args(arms, c, moveit))
           n == Node(Id("joint_state_publisher", Unnamed, file), Nothing)
           d == Include("_dual_ros2_control", ControlArgs(moveit, params))
           both == <<TrajController(arms[1]), TrajController(arms[2])>>
           s == Spawners(both, file)
<1>0. Supported(arms[1]) /\ Supported(arms[2])
  BY DEF SupportedArms
<1>1. moveit # Nothing /\ moveit.description = [arms |-> arms, plugin |-> RealPlugin, params |-> params]
  BY DualMade
<1>2. params # Nothing
  BY <1>0, DualParamsMade
<1>3. DualRobotMoveitRealmove(c) = <<a, b, n, d>> \o s
  <2>1. DualRealmoveConfigs(c).moveit = moveit /\ DualRealmoveConfigs(c).params = params
    BY DEF DualRealmoveConfigs
  <2> HIDE DEF moveit, params
  <2> QED BY <1>1, <1>2, <2>1 DEF DualRobotMoveitRealmove
<1> HIDE DEF moveit
<1>w. PICK w : OfTwo(w, c, RealPlugin, asked)
  BY <1>0, DualWorldIs
<1>4. /\ w.one = FALSE /\ w.asked = asked /\ Of(c, w) /\ Ready(w) /\ w.d.params # Nothing
      /\ 1 .. Len(w.d.arms) = {1, 2} /\ w.d.arms = arms
      /\ w.d.params = params
      /\ w.d = [arms |-> arms, plugin |-> RealPlugin, params |-> w.d.params]
  BY <1>w DEF OfTwo
<1>5. moveit.description = w.d
  BY <1>1, <1>4
<1> HIDE DEF params, arms
<1>6. Sound(a, w) /\ Sound(b, w) /\ Sound(n, w) /\ Sound(d, w)
  <2>1. Sound(a, w)
    BY <1>5 DEF Sound, NodeSound, Node, RobotStatePublisher, Id
  <2>2. Sound(b, w)
    BY <1>1, <1>4, DualCommonInclude DEF arms
  <2>3. Sound(n, w)
    BY NodeOther DEF Id
  <2>4. Sound(d, w)
    BY <1>4, <1>5, ControlInclude
  <2> QED BY <2>1, <2>2, <2>3, <2>4
<1>7. Startable(TrajController(arms[1]), w) /\ Startable(TrajController(arms[2]), w)
  BY <1>4, ArmStartable
<1>8. Allowed(both, w)
  BY <1>7, ListAllowed
<1> HIDE DEF both
<1>9. Steady(s, w)
  BY <1>4, <1>8, SteadySpawners
<1> HIDE DEF a, b, n, d, s
<1>10. Steady(DualRobotMoveitRealmove(c), w)
  BY <1>3, <1>6, <1>9, SteadyFour, SteadyConcat
<1> QED BY <1>4, <1>10 DEF Starts

\* the simulators',
LEMMA DualSimulatedStarts ==
  ASSUME NEW c, SupportedArms(Arms(c)), NEW asked, NEW plugin, plugin # RealPlugin,
         NEW table \in DualTables
  PROVE  Starts(DualSimulatedMoveit(c, DualSimulatedConfigs(c, plugin), table), c, FALSE, asked)
<1> DEFINE arms == Arms(c)
           params == GenerateDualRos2ControlParams(XArmTypes(arms), arms)
           moveit == DualToMoveItConfigs(arms, "fake_controllers", plugin, params)
           args == [dof_1 |-> arms[1].dof, dof_2 |-> arms[2].dof,
                    robot_type_1 |-> arms[1].type, robot_type_2 |-> arms[2].type,
                    prefix_1 |-> arms[1].prefix, prefix_2 |-> arms[2].prefix,
                    moveit_config_dump |-> moveit, load_controller |-> TRUE,
                    show_rviz |-> TRUE, no_gui_ctrl |-> Arg(c, "no_gui_ctrl", FALSE)]
           more == Updated(DualCommon2Args(arms, c, moveit), [show_rviz |-> FALSE])
           a == Include(table, args)
           b == Include("_dual_robot_moveit_common2", more)
<1>0. Supported(arms[1]) /\ Supported(arms[2])
  BY DEF SupportedArms
<1>1. moveit # Nothing /\ moveit.description = [arms |-> arms, plugin |-> plugin, params |-> params]
  BY DualMade
<1>2. params # Nothing
  BY <1>0, DualParamsMade
<1>3. DualSimulatedMoveit(c, DualSimulatedConfigs(c, plugin), table) = <<a, b>>
  <2>1. DualSimulatedConfigs(c, plugin) = moveit
    BY <1>2 DEF DualSimulatedConfigs
  <2> HIDE DEF moveit, params
  <2> QED BY <1>1, <2>1 DEF DualSimulatedMoveit
<1> HIDE DEF moveit
<1>w. PICK w : OfTwo(w, c, plugin, asked)
  BY <1>0, DualWorldIs
<1>4. /\ w.one = FALSE /\ w.asked = asked /\ Of(c, w) /\ Ready(w) /\ w.d.params # Nothing
      /\ w.d # Nothing /\ w.d.arms = arms /\ w.d.plugin = plugin /\ w.d.params = params
      /\ w.d = [arms |-> arms, plugin |-> plugin, params |-> w.d.params]
  BY <1>w DEF OfTwo
<1>5. moveit.description = w.d
  BY <1>1, <1>4
<1> HIDE DEF params, arms
<1>6. Sound(a, w)
  <2>1. "moveit_config_dump" \in DOMAIN args /\ args["moveit_config_dump"] = moveit
    OBVIOUS
  <2>2. ArmsGiven(args, arms)
    BY DEF ArmsGiven, Given
  <2> HIDE DEF args
  <2> QED BY <1>1, <1>4, <1>5, <2>1, <2>2, TableInclude
<1>7. Sound(b, w)
  BY <1>1, <1>4, DualCommonInclude DEF arms
<1> HIDE DEF a, b
<1>8. Steady(DualSimulatedMoveit(c, DualSimulatedConfigs(c, plugin), table), w)
  BY <1>3, <1>6, <1>7, SteadyTwo
<1> QED BY <1>4, <1>8 DEF Starts

\* the controller manager
LEMMA DualControlStarts ==
  ASSUME NEW c, Supported(Arms(c)[1]), Supported(Arms(c)[2]), NEW asked,
         "robot_description" \notin DOMAIN c, "ros2_control_params" \notin DOMAIN c
  PROVE  Starts(DualRos2Control(c), c, FALSE, asked)
<1> DEFINE arms == Arms(c)
           plugin == Arg(c, "ros2_control_plugin", RealPlugin)
           params == GenerateDualRos2ControlParams(XArmTypes(arms), arms)
           d == [arms |-> arms, plugin |-> plugin, params |-> params]
<1>w. PICK w : OfTwo(w, c, plugin, asked)
  BY DualWorldIs
<1>1. /\ w.one = FALSE /\ w.asked = asked /\ Of(c, w) /\ w.d.params = params
      /\ w.d = [arms |-> arms, plugin |-> plugin, params |-> w.d.params]
  BY <1>w DEF OfTwo
<1>2. params # Nothing
  BY DualParamsMade
<1>3. DualRos2Control(c) = <<Node(Id("ros2_control_node", Unnamed, "_dual_ros2_control"),
                                  [params |-> params, description |-> d])>>
  BY <1>2 DEF DualRos2Control, Arg, DualRobotDescription
<1>4. d.arms = w.d.arms /\ d.plugin = w.d.plugin /\ params = w.d.params
  BY <1>1
<1> HIDE DEF d, params
<1>5. Steady(DualRos2Control(c), w)
  BY <1>3, <1>4, DriverSound
<1> QED BY <1>1, <1>5 DEF Starts

\* and the planner node.
LEMMA DualPlannerStarts ==
  ASSUME NEW c, NEW asked, Known(c), "moveit_config_dump" \notin DOMAIN c
  PROVE  \/ Starts(DualRobotPlanner(c), c, FALSE, asked)
         \/ DualRobotPlanner(c) = Raise /\ ~SupportedArms(Arms(c))
<1> DEFINE d == [arms |-> Arms(c), plugin |-> RealPlugin, params |-> Nothing]
           w == [d |-> d, one |-> FALSE, asked |-> asked]
<1>1. d.arms = Arms(c)
  OBVIOUS
<1> HIDE DEF d
<1>2. w.one = FALSE /\ w.asked = asked /\ w.d = d
  OBVIOUS
<1> HIDE DEF w
<1>3. Of(c, w)
  BY <1>1, <1>2 DEF Of
<1> QED BY <1>2, <1>3, DualPlannerSteady DEF Starts

-----------------------------------------------------------------------------
(* Files that raise. *)

\* The parameters of an arm that is not known are not made, so neither are those
\* of two.
LEMMA ParamsNotMade ==
  ASSUME NEW arm, ~Supported(arm)
  PROVE  GenerateRos2ControlParams(XArmType(arm), arm) = Nothing
BY DEF GenerateRos2ControlParams, Supported

\* One of two is enough for that.
LEMMA DualParamsNotMade ==
  ASSUME NEW arms, ~Supported(arms[1]) \/ ~Supported(arms[2])
  PROVE  GenerateDualRos2ControlParams(XArmTypes(arms), arms) = Nothing
<1> DEFINE two == [k \in 1 .. 2 |-> GenerateRos2ControlParams(XArmTypes(arms)[k], arms[k])]
           first == GenerateRos2ControlParams(XArmType(arms[1]), arms[1])
           second == GenerateRos2ControlParams(XArmType(arms[2]), arms[2])
<1>1. XArmTypes(arms)[1] = XArmType(arms[1]) /\ XArmTypes(arms)[2] = XArmType(arms[2])
  BY DEF XArmTypes
<1>2. two[1] = first /\ two[2] = second
  BY <1>1
<1>3. first = Nothing \/ second = Nothing
  BY ParamsNotMade
<1>4. GenerateDualRos2ControlParams(XArmTypes(arms), arms)
      = IF \E k \in 1 .. 2 : two[k] = Nothing THEN Nothing ELSE MergeControllers(two[1], two[2])
  BY DEF GenerateDualRos2ControlParams
<1> HIDE DEF two, first, second
<1> QED BY <1>2, <1>3, <1>4

\* No gripper is found for the second arm under the name of a lite.
LEMMA DualNotMade ==
  ASSUME NEW arms, arms[1].type = "lite", HasGripper(arms[2]), NEW file, NEW plugin, NEW params
  PROVE  DualToMoveItConfigs(arms, file, plugin, params) = Nothing
<1>1. GripperDir("lite") \in ArmDirs(arms[2], arms[1].type)
  BY DEF ArmDirs
<1>2. GripperDir("lite") \notin ConfigDirs
  BY DEF GripperDir, ConfigDirs, Axes, FingerGrippers, BioGripper
<1> QED BY <1>1, <1>2 DEF DualToMoveItConfigs

\* The files for one arm raise without one that is known,
LEMMA SingleRaises ==
  ASSUME NEW c, ~Supported(Arm(c))
  PROVE  /\ RobotMoveitFake(c) = Raise /\ RobotMoveitRealmove(c) = Raise
         /\ RobotMoveitServoFake(c) = Raise /\ RobotMoveitServoRealmove(c) = Raise
         /\ \A plugin, table : SimulatedMoveit(c, plugin, table) = Raise
         /\ \A plugin : OwnDescription(c, plugin) = Nothing
         /\ "ros2_control_params" \notin DOMAIN c => Ros2Control(c) = Raise
<1>1. GenerateRos2ControlParams(XArmType(Arm(c)), Arm(c)) = Nothing
  BY ParamsNotMade
<1>2. RobotMoveitFake(c) = Raise /\ RobotMoveitRealmove(c) = Raise
  BY <1>1 DEF RobotMoveitFake, RobotMoveitRealmove
<1>3. RobotMoveitServoFake(c) = Raise /\ RobotMoveitServoRealmove(c) = Raise
  <2>1. ServoFakeConfigs(c).params = Nothing /\ ServoRealmoveConfigs(c).params = Nothing
    BY <1>1 DEF ServoFakeConfigs, ServoRealmoveConfigs
  <2> QED BY <2>1 DEF RobotMoveitServoFake, RobotMoveitServoRealmove
<1>4. \A plugin, table : SimulatedMoveit(c, plugin, table) = Raise
  BY <1>1 DEF SimulatedMoveit
<1>5. \A plugin : OwnDescription(c, plugin) = Nothing
  BY <1>1 DEF OwnDescription
<1>6. "ros2_control_params" \notin DOMAIN c => Ros2Control(c) = Raise
  BY <1>1 DEF Ros2Control, Arg
<1> QED BY <1>2, <1>3, <1>4, <1>5, <1>6

\* and those for two without two.
LEMMA DualRaises ==
  ASSUME NEW c, ~Supported(Arms(c)[1]) \/ ~Supported(Arms(c)[2])
  PROVE  /\ DualRobotMoveitFake(c) = Raise /\ DualRobotMoveitRealmove(c) = Raise
         /\ \A plugin, table : DualSimulatedMoveit(c, DualSimulatedConfigs(c, plugin), table) = Raise
         /\ \A plugin : DualOwnDescription(c, plugin) = Nothing
         /\ "ros2_control_params" \notin DOMAIN c => DualRos2Control(c) = Raise
<1> DEFINE arms == Arms(c)
<1>1. GenerateDualRos2ControlParams(XArmTypes(arms), arms) = Nothing
  BY DualParamsNotMade
<1>2. DualRobotMoveitFake(c) = Raise /\ DualRobotMoveitRealmove(c) = Raise
  <2>1. DualFakeConfigs(c).params = Nothing /\ DualRealmoveConfigs(c).params = Nothing
    BY <1>1 DEF DualFakeConfigs, DualRealmoveConfigs
  <2> QED BY <2>1 DEF DualRobotMoveitFake, DualRobotMoveitRealmove
<1>3. \A plugin, table : DualSimulatedMoveit(c, DualSimulatedConfigs(c, plugin), table) = Raise
  BY <1>1 DEF DualSimulatedMoveit, DualSimulatedConfigs
<1>4. \A plugin : DualOwnDescription(c, plugin) = Nothing
  BY <1>1 DEF DualOwnDescription
<1>5. "ros2_control_params" \notin DOMAIN c => DualRos2Control(c) = Raise
  BY <1>1 DEF DualRos2Control, Arg
<1> QED BY <1>2, <1>3, <1>4, <1>5

\* So do those that look for a gripper in vain.
LEMMA DualGripperRaises ==
  ASSUME NEW c, Arms(c)[1].type = "lite", HasGripper(Arms(c)[2])
  PROVE  /\ DualRobotMoveitFake(c) = Raise /\ DualRobotMoveitRealmove(c) = Raise
         /\ \A plugin, table : DualSimulatedMoveit(c, DualSimulatedConfigs(c, plugin), table) = Raise
<1> DEFINE arms == Arms(c)
<1>1. \A file, plugin, params : DualToMoveItConfigs(arms, file, plugin, params) = Nothing
  BY DualNotMade
<1>2. DualRobotMoveitFake(c) = Raise /\ DualRobotMoveitRealmove(c) = Raise
  <2>1. DualFakeConfigs(c).moveit = Nothing /\ DualRealmoveConfigs(c).moveit = Nothing
    BY <1>1 DEF DualFakeConfigs, DualRealmoveConfigs
  <2> QED BY <2>1 DEF DualRobotMoveitFake, DualRobotMoveitRealmove
<1>3. \A plugin, table : DualSimulatedMoveit(c, DualSimulatedConfigs(c, plugin), table) = Raise
  BY <1>1 DEF DualSimulatedMoveit, DualSimulatedConfigs
<1> QED BY <1>2, <1>3

-----------------------------------------------------------------------------
(* Whatever is launched starts, or raises for want of a robot or of its address. *)

Wrappers == {"emer_planner", "test_dual_planner"} \cup Xarm6Files
Asking ==
  {"_robot_beside_table_gz", "_robot_beside_table_ignition", "_robot_beside_table_gazebo",
   "_dual_robot_beside_table_gz", "_dual_robot_beside_table_gazebo", "_robot_moveit_servo_fake"}
Addressed(file, c) ==
  /\ file \in {"_robot_moveit_realmove", "xarm6_planner_realmove"} => "robot_ip" \in DOMAIN c
  /\ file = "_dual_robot_moveit_realmove" => {"robot_ip_1", "robot_ip_2"} \subseteq DOMAIN c
Able(file, c) ==
  /\ Addressed(file, c)
  /\ IF file \in DualPlanning THEN SupportedArms(Arms(c))
     ELSE IF file \in DualFiles THEN Supported(Arms(c)[1]) /\ Supported(Arms(c)[2])
     ELSE file \in Xarm6Files \/ Supported(Arm(c))
Begins(file, c, asked) ==
  IF file \in DualFiles THEN Starts(Entities(file, c), c, FALSE, asked)
  ELSE Starts(Entities(file, c), c, TRUE, asked)

\* A simulator's file without a description raises.
LEMMA TableRaises ==
  ASSUME NEW c, "moveit_config_dump" \notin DOMAIN c
  PROVE  /\ ~Supported(Arm(c)) => \A file \in SingleTables : Entities(file, c) = Raise
         /\ ~Supported(Arms(c)[1]) \/ ~Supported(Arms(c)[2])
              => \A file \in DualTables : Entities(file, c) = Raise
<1>1. \A own : GivenDescription(c, own) = own
  BY DEF GivenDescription
<1>2. \A file, controllers, bridges : BesideTable(c, file, Nothing, controllers, bridges) = Raise
  BY DEF BesideTable
<1>3. ASSUME ~Supported(Arm(c)), NEW file \in SingleTables
      PROVE  Entities(file, c) = Raise
  <2>1. PICK plugin, bridges :
          Entities(file, c) = BesideTable(c, file, GivenDescription(c, OwnDescription(c, plugin)),
                                          ArmControllers(c), bridges)
    BY TableShape
  <2>2. OwnDescription(c, plugin) = Nothing
    BY <1>3, SingleRaises
  <2> QED BY <1>1, <1>2, <2>1, <2>2
<1>4. ASSUME ~Supported(Arms(c)[1]) \/ ~Supported(Arms(c)[2]), NEW file \in DualTables
      PROVE  Entities(file, c) = Raise
  <2>1. PICK plugin, bridges :
          Entities(file, c) = BesideTable(c, file, GivenDescription(c, DualOwnDescription(c, plugin)),
                                          DualArmControllers(c), bridges)
    BY TableShape
  <2>2. DualOwnDescription(c, plugin) = Nothing
    BY <1>4, DualRaises
  <2> QED BY <1>1, <1>2, <2>1, <2>2
<1> QED BY <1>3, <1>4

\* Every file but the wrappers.
LEMMA FileOutcome ==
  ASSUME NEW file \in Launchable \ Wrappers, NEW c, Plain(c), NEW asked,
         file \in Asking /\ RealAsked(c) => asked
  PROVE  Begins(file, c, asked) \/ (Entities(file, c) = Raise /\ ~Able(file, c))
<1>1. /\ "moveit_config_dump" \notin DOMAIN c /\ "robot_description" \notin DOMAIN c
      /\ "ros2_control_params" \notin DOMAIN c /\ Known(c)
  BY DEF Plain, Generated, Known
<1>2. CASE file \in SingleTables
  <2>1. file \notin DualFiles /\ file \notin DualPlanning /\ file \notin Xarm6Files /\ file \in Asking
    BY <1>2 DEF SingleTables, DualFiles, DualPlanning, Xarm6Files, Asking
  <2> QED BY <1>1, <1>2, <2>1, TableStarts, TableRaises DEF Begins, Able
<1>3. CASE file \in DualTables
  <2>1. file \in DualFiles /\ file \notin DualPlanning /\ file \in Asking
    BY <1>3 DEF DualTables, DualFiles, DualPlanning, Asking
  <2> QED BY <1>1, <1>3, <2>1, DualTableStarts, TableRaises DEF Begins, Able
<1>4. CASE file = "_robot_description"
  <2>1. file \notin DualFiles /\ file \notin DualPlanning /\ file \notin Xarm6Files
    BY <1>4 DEF DualFiles, DualPlanning, Xarm6Files
  <2>2. Entities(file, c) = RobotDescriptionLaunch(c)
    BY <1>4 DEF Entities
  <2> QED BY <1>1, <2>1, <2>2, DescriptionStarts DEF Begins, Able
<1>5. CASE file = "_ros2_control"
  <2>1. file \notin DualFiles /\ file \notin DualPlanning /\ file \notin Xarm6Files
    BY <1>5 DEF DualFiles, DualPlanning, Xarm6Files
  <2>2. Entities(file, c) = Ros2Control(c)
    BY <1>5 DEF Entities
  <2> QED BY <1>1, <2>1, <2>2, ControlStarts, SingleRaises DEF Begins, Able
<1>6. CASE file = "_robot_planner"
  <2>1. file \notin DualFiles /\ file \notin DualPlanning /\ file \notin Xarm6Files
    BY <1>6 DEF DualFiles, DualPlanning, Xarm6Files
  <2>2. Entities(file, c) = RobotPlanner(c)
    BY <1>6 DEF Entities
  <2> QED BY <1>1, <2>1, <2>2, PlannerStarts DEF Begins, Able
<1>7. CASE file = "_robot_moveit_fake"
  <2>1. file \notin DualFiles /\ file \notin DualPlanning /\ file \notin Xarm6Files
    BY <1>7 DEF DualFiles, DualPlanning, Xarm6Files
  <2>2. Entities(file, c) = RobotMoveitFake(c)
    BY <1>7 DEF Entities
  <2> QED BY <1>1, <2>1, <2>2, FakeStarts, SingleRaises DEF Begins, Able
<1>8. CASE file = "_robot_moveit_realmove"
  <2>1. file \notin DualFiles /\ file \notin DualPlanning /\ file \notin Xarm6Files
    BY <1>8 DEF DualFiles, DualPlanning, Xarm6Files
  <2>2. Entities(file, c) = RobotMoveitRealmove(c)
    BY <1>8 DEF Entities
  <2>3. CASE "robot_ip" \in DOMAIN c
    BY <1>1, <2>1, <2>2, <2>3, RealmoveStarts, SingleRaises DEF Begins, Able
  <2>4. CASE "robot_ip" \notin DOMAIN c
    <3>1. ~Able(file, c)
      BY <1>8, <2>4 DEF Able, Addressed
    <3> QED BY <2>2, <2>4, <3>1 DEF RobotMoveitRealmove
  <2> QED BY <2>3, <2>4
<1>9. CASE file = "_robot_moveit_gz"
  <2>1. file \notin DualFiles /\ file \notin DualPlanning /\ file \notin Xarm6Files
    BY <1>9 DEF DualFiles, DualPlanning, Xarm6Files
  <2>2. Entities(file, c) = RobotMoveitGz(c)
    BY <1>9 DEF Entities
  <2> DEFINE plugin == "gz_ros2_control/GazeboSimSystem"
             table == "_robot_beside_table_gz"
  <2>3. plugin # RealPlugin /\ table \in SingleTables
    BY DEF RealPlugin, SingleTables
  <2>4. RobotMoveitGz(c) = SimulatedMoveit(c, plugin, table)
    BY DEF RobotMoveitGz
  <2> HIDE DEF plugin, table
  <2> QED BY <2>1, <2>2, <2>3, <2>4, SimulatedStarts, SingleRaises DEF Begins, Able
<1>10. CASE file = "_robot_moveit_ignition"
  <2>1. file \notin DualFiles /\ file \notin DualPlanning /\ file \notin Xarm6Files
    BY <1>10 DEF DualFiles, DualPlanning, Xarm6Files
  <2>2. Entities(file, c) = RobotMoveitIgnition(c)
    BY <1>10 DEF Entities
  <2> DEFINE plugin == "ign_ros2_control/IgnitionSystem"
             table == "_robot_beside_table_ignition"
  <2>3. plugin # RealPlugin /\ table \in SingleTables
    BY DEF RealPlugin, SingleTables
  <2>4. RobotMoveitIgnition(c) = SimulatedMoveit(c, plugin, table)
    BY DEF RobotMoveitIgnition
  <2> HIDE DEF plugin, table
  <2> QED BY <2>1, <2>2, <2>3, <2>4, SimulatedStarts, SingleRaises DEF Begins, Able
<1>11. CASE file = "_robot_moveit_gazebo"
  <2>1. file \notin DualFiles /\ file \notin DualPlanning /\ file \notin Xarm6Files
    BY <1>11 DEF DualFiles, DualPlanning, Xarm6Files
  <2>2. Entities(file, c) = RobotMoveitGazebo(c)
    BY <1>11 DEF Entities
  <2> DEFINE plugin == "gazebo_ros2_control/GazeboSystem"
             table == "_robot_beside_table_gazebo"
  <2>3. plugin # RealPlugin /\ table \in SingleTables
    BY DEF RealPlugin, SingleTables
  <2>4. RobotMoveitGazebo(c) = SimulatedMoveit(c, plugin, table)
    BY DEF RobotMoveitGazebo
  <2> HIDE DEF plugin, table
  <2> QED BY <2>1, <2>2, <2>3, <2>4, SimulatedStarts, SingleRaises DEF Begins, Able
<1>12. CASE file = "_robot_moveit_servo_fake"
  <2>1. file \notin DualFiles /\ file \notin DualPlanning /\ file \notin Xarm6Files
    BY <1>12 DEF DualFiles, DualPlanning, Xarm6Files
  <2>2. Entities(file, c) = RobotMoveitServoFake(c)
    BY <1>12 DEF Entities
  <2>3. ServoWorldGiven(c, asked)
    BY <1>12 DEF ServoWorldGiven, Asking, RealAsked, Arg, FakePlugin, RealPlugin
  <2> QED BY <2>1, <2>2, <2>3, ServoFakeStarts, SingleRaises DEF Begins, Able
<1>13. CASE file = "_robot_moveit_servo_realmove"
  <2>1. file \notin DualFiles /\ file \notin DualPlanning /\ file \notin Xarm6Files
    BY <1>13 DEF DualFiles, DualPlanning, Xarm6Files
  <2>2. Entities(file, c) = RobotMoveitServoRealmove(c)
    BY <1>13 DEF Entities
  <2> QED BY <1>1, <2>1, <2>2, ServoRealmoveStarts, SingleRaises DEF Begins, Able
<1>14. CASE file = "_dual_ros2_control"
  <2>1. file \in DualFiles /\ file \notin DualPlanning
    BY <1>14 DEF DualFiles, DualPlanning
  <2>2. Entities(file, c) = DualRos2Control(c)
    BY <1>14 DEF Entities
  <2> QED BY <1>1, <2>1, <2>2, DualControlStarts, DualRaises DEF Begins, Able
<1>15. CASE file = "_dual_robot_planner"
  <2>1. file \in DualFiles /\ file \in DualPlanning
    BY <1>15 DEF DualFiles, DualPlanning
  <2>2. Entities(file, c) = DualRobotPlanner(c)
    BY <1>15 DEF Entities
  <2> QED BY <1>1, <2>1, <2>2, DualPlannerStarts DEF Begins, Able
<1>16. CASE file = "_dual_robot_moveit_fake"
  <2>1. file \in DualFiles /\ file \in DualPlanning
    BY <1>16 DEF DualFiles, DualPlanning
  <2>2. Entities(file, c) = DualRobotMoveitFake(c)
    BY <1>16 DEF Entities
  <2>3. CASE SupportedArms(Arms(c))
    BY <2>1, <2>2, <2>3, DualFakeStarts DEF Begins
  <2>4. CASE ~SupportedArms(Arms(c))
    BY <2>1, <2>2, <2>4, DualRaises, DualGripperRaises DEF Able, SupportedArms
  <2> QED BY <2>3, <2>4
<1>17. CASE file = "_dual_robot_moveit_realmove"
  <2>1. file \in DualFiles /\ file \in DualPlanning
    BY <1>17 DEF DualFiles, DualPlanning
  <2>2. Entities(file, c) = DualRobotMoveitRealmove(c)
    BY <1>17 DEF Entities
  <2>3. CASE SupportedArms(Arms(c)) /\ {"robot_ip_1", "robot_ip_2"} \subseteq DOMAIN c
    BY <2>1, <2>2, <2>3, DualRealmoveStarts DEF Begins
  <2>4. CASE ~SupportedArms(Arms(c))
    BY <2>1, <2>2, <2>4, DualRaises, DualGripperRaises DEF Able, SupportedArms
  <2>5. CASE ~({"robot_ip_1", "robot_ip_2"} \subseteq DOMAIN c)
    <3>1. ~Able(file, c)
      BY <1>17, <2>5 DEF Able, Addressed
    <3> QED BY <2>2, <2>5, <3>1 DEF DualRobotMoveitRealmove
  <2> QED BY <2>3, <2>4, <2>5
<1>18. CASE file = "_dual_robot_moveit_gz"
  <2>1. file \in DualFiles /\ file \in DualPlanning
    BY <1>18 DEF DualFiles, DualPlanning
  <2>2. Entities(file, c) = DualRobotMoveitGz(c)
    BY <1>18 DEF Entities
  <2> DEFINE plugin == "gz_ros2_control/GazeboSimSystem"
             table == "_dual_robot_beside_table_gz"
  <2>3. plugin # RealPlugin /\ table \in DualTables
    BY DEF RealPlugin, DualTables
  <2>4. DualRobotMoveitGz(c) = DualSimulatedMoveit(c, DualSimulatedConfigs(c, plugin), table)
    BY DEF DualRobotMoveitGz, DualGzConfigs
  <2> HIDE DEF plugin, table
  <2>5. CASE SupportedArms(Arms(c))
    BY <2>1, <2>2, <2>3, <2>4, <2>5, DualSimulatedStarts DEF Begins
  <2>6. CASE ~SupportedArms(Arms(c))
    BY <2>1, <2>2, <2>4, <2>6, DualRaises, DualGripperRaises DEF Able, SupportedArms
  <2> QED BY <2>5, <2>6
<1>19. CASE file = "_dual_robot_moveit_gazebo"
  <2>1. file \in DualFiles /\ file \in DualPlanning
    BY <1>19 DEF DualFiles, DualPlanning
  <2>2. Entities(file, c) = DualRobotMoveitGazebo(c)
    BY <1>19 DEF Entities
  <2> DEFINE plugin == "gazebo_ros2_control/GazeboSystem"
             table == "_dual_robot_beside_table_gazebo"
  <2>3. plugin # RealPlugin /\ table \in DualTables
    BY DEF RealPlugin, DualTables
  <2>4. DualRobotMoveitGazebo(c) = DualSimulatedMoveit(c, DualSimulatedConfigs(c, plugin), table)
    BY DEF DualRobotMoveitGazebo, DualGazeboConfigs
  <2> HIDE DEF plugin, table
  <2>5. CASE SupportedArms(Arms(c))
    BY <2>1, <2>2, <2>3, <2>4, <2>5, DualSimulatedStarts DEF Begins
  <2>6. CASE ~SupportedArms(Arms(c))
    BY <2>1, <2>2, <2>4, <2>6, DualRaises, DualGripperRaises DEF Able, SupportedArms
  <2> QED BY <2>5, <2>6
<1> QED
  BY <1>2, <1>3, <1>4, <1>5, <1>6, <1>7, <1>8, <1>9, <1>10,
     <1>11, <1>12, <1>13, <1>14, <1>15, <1>16, <1>17, <1>18, <1>19
  DEF Launchable, Wrappers, Xarm6Files, SingleTables, DualTables

\* A file that is included returns what is sound.
LEMMA IncludedSteady ==
  ASSUME NEW w, NEW c, Of(c, w), NEW e, IncludeSound(e, w), Known(Updated(c, e.args))
  PROVE  Of(Updated(c, e.args), w) /\ Steady(Entities(e.file, Updated(c, e.args)), w)
<1> DEFINE new == Updated(c, e.args)
<1>1. Of(new, w) /\ Known(new)
  BY DEF IncludeSound
<1>2. \A name, value : Has(e.args, name, value) => Has(new, name, value)
  BY UpdatedHas
<1>3. Dumped(e.args) => Has(e.args, "moveit_config_dump", e.args["moveit_config_dump"])
  BY DEF Dumped, Has
<1>4. Dumped(e.args) => /\ Has(new, "moveit_config_dump", e.args["moveit_config_dump"])
                        /\ new["moveit_config_dump"] = e.args["moveit_config_dump"] /\ Dumped(new)
  BY <1>2, <1>3 DEF Has, Dumped
<1> HIDE DEF new
<1>5. CASE e.file = "_robot_description" /\ Has(e.args, "robot_description", w.d)
  <2>1. Entities(e.file, new) = RobotDescriptionLaunch(new)
    BY <1>5 DEF Entities
  <2> QED BY <1>1, <1>2, <1>5, <2>1, DescriptionSteady DEF new
<1>6. CASE /\ e.file \in {"_ros2_control", "_dual_ros2_control"}
           /\ Has(e.args, "robot_description", w.d)
           /\ Has(e.args, "ros2_control_params", w.d.params) /\ w.d.params # Nothing
  <2>1. Entities(e.file, new) \in {Ros2Control(new), DualRos2Control(new)}
    BY <1>6 DEF Entities
  <2> QED BY <1>1, <1>2, <1>6, <2>1, ControlSteady DEF new
<1>7. CASE /\ e.file \in {"_robot_moveit_common2", "_dual_robot_moveit_common2", "_robot_planner"}
           /\ Dumped(e.args)
  <2>1. Entities(e.file, new) \in {RobotMoveitCommon2(new), DualRobotMoveitCommon2(new), RobotPlanner(new)}
    BY <1>7 DEF Entities
  <2>2. Dumped(new) /\ "moveit_config_dump" \in DOMAIN new
    BY <1>4, <1>7 DEF Dumped
  <2>3. Steady(RobotPlanner(new), w)
    BY <1>1, <2>2, PlannerSteady
  <2> QED BY <1>1, <2>1, <2>2, <2>3, CommonSteady, DualCommonSteady DEF new
<1>8. CASE /\ e.file \in IF w.one THEN SingleTables ELSE DualTables
           /\ Dumped(e.args) /\ e.args["moveit_config_dump"].description = w.d
           /\ w.d # Nothing /\ Ready(w) /\ w.d.plugin # RealPlugin
  <2>1. /\ Has(new, "moveit_config_dump", new["moveit_config_dump"])
        /\ new["moveit_config_dump"].description = w.d
    BY <1>4, <1>8
  <2> QED BY <1>1, <1>8, <2>1, TableSteady DEF new
<1> QED BY <1>5, <1>6, <1>7, <1>8 DEF IncludeSound

-----------------------------------------------------------------------------
(* The launch that was asked for, and the one its file makes of it. *)

Excused(l) == UnknownRobot(l) \/ NoDof(l) \/ NoRobotIp(l) \/ GripperOfOtherType(l)
Reaches(l, file, c) ==
  /\ file \in DualFiles <=> l.file \in DualFiles
  /\ l.file \in DualFiles => Arms(c) = Arms(l.args)
  /\ ~Excused(l) => Able(file, c)
  /\ file \in Asking /\ RealAsked(c) => RealPluginAsked(l)
  /\ file \in {"emer_planner", "test_dual_planner"} => "dof" \in DOMAIN c \/ NoDof(l)

\* The arguments set twice are the arguments.
LEMMA SetTwice ==
  ASSUME NEW c
  PROVE  /\ DOMAIN Updated(c, c) = DOMAIN c
         /\ Arm(Updated(c, c)) = Arm(c) /\ Arms(Updated(c, c)) = Arms(c)
         /\ RealAsked(Updated(c, c)) <=> RealAsked(c)
<1> DEFINE new == Updated(c, c)
<1>1. DOMAIN new = DOMAIN c /\ \A n \in DOMAIN c : new[n] = c[n]
  BY DEF Updated
<1> HIDE DEF new
<1>2. \A n, d : Arg(new, n, d) = Arg(c, n, d)
  BY <1>1 DEF Arg
<1>3. Arm(new) = Arm(c)
  BY <1>2 DEF Arm
<1>4. Arms(new) = Arms(c)
  BY <1>2, <1>3 DEF Arms
<1>5. RealAsked(new) <=> RealAsked(c)
  BY <1>1 DEF RealAsked
<1> QED BY <1>1, <1>3, <1>4, <1>5 DEF new

\* A launch's own file is what was asked for.
LEMMA ReachesOwn ==
  ASSUME NEW l
  PROVE  Reaches(l, l.file, Updated(l.args, l.args))
<1> DEFINE c == Updated(l.args, l.args)
<1>1. /\ DOMAIN c = DOMAIN l.args
      /\ Arm(c) = Arm(l.args) /\ Arms(c) = Arms(l.args)
      /\ RealAsked(c) <=> RealAsked(l.args)
  BY SetTwice
<1> HIDE DEF c
<1>2. DualPlanning \subseteq DualFiles
  BY DEF DualFiles
<1>3. ~Excused(l) => Able(l.file, c)
  BY <1>1, <1>2 DEF Excused, Able, Addressed, UnknownRobot, NoRobotIp, GripperOfOtherType,
     SupportedArms, Supported, FirstArm, SecondArm
<1>4. l.file \in Asking /\ RealAsked(c) => RealPluginAsked(l)
  BY <1>1 DEF Asking, RealAsked, RealPluginAsked
<1>5. l.file \in {"emer_planner", "test_dual_planner"} => "dof" \in DOMAIN c \/ NoDof(l)
  BY <1>1 DEF NoDof
<1> QED BY <1>1, <1>3, <1>4, <1>5 DEF Reaches, c

\* A wrapper includes a file that reaches what the wrapper does, or raises for
\* want of a dof or an address.
LEMMA WrapperReaches ==
  ASSUME NEW l, NEW file \in Wrappers, NEW c, Reaches(l, file, c)
  PROVE  \/ Entities(file, c) = Raise /\ Excused(l)
         \/ \E f, args : /\ f \in Launchable \ Wrappers /\ Plain(args)
                         /\ Entities(file, c) = <<Include(f, args)>>
                         /\ Reaches(l, f, Updated(c, args))
<1>1. CASE file = "emer_planner"
  <2> DEFINE args == [prefix |-> Arg(c, "prefix", ""), add_gripper |-> FALSE, dof |-> c["dof"],
                      robot_type |-> Arg(c, "robot_type", "xarm"),
                      node_executable |-> "emer_planner"]
             new == Updated(c, args)
             f == "_robot_planner"
  <2>1. Entities(file, c) = EmerPlannerLaunch(c)
    BY <1>1 DEF Entities
  <2>2. CASE "dof" \notin DOMAIN c
    BY <1>1, <2>1, <2>2 DEF EmerPlannerLaunch, Reaches, Excused
  <2>3. CASE "dof" \in DOMAIN c
    <3>1. Entities(file, c) = <<Include(f, args)>>
      BY <2>1, <2>3 DEF EmerPlannerLaunch
    <3>2. Plain(args)
      BY DEF Plain, Generated, Programs, Others
    <3>3. f \in Launchable \ Wrappers /\ f \notin DualFiles /\ f \notin DualPlanning
          /\ f \notin Asking /\ f \notin Xarm6Files /\ f \notin {"emer_planner", "test_dual_planner"}
          /\ \A x : Addressed(f, x)
      BY DEF Launchable, Wrappers, Xarm6Files, DualFiles, DualPlanning, Asking, Addressed
    <3>4. Arg(new, "dof", "7") = Arg(c, "dof", "7") /\ Arg(new, "robot_type", "xarm") = Arg(c, "robot_type", "xarm")
      BY <2>3 DEF Arg, Updated
    <3> HIDE DEF args, new, f
    <3>5. XArmType(Arm(new)) = XArmType(Arm(c))
      BY <3>4 DEF XArmType, Arm
    <3>6. file \notin DualFiles /\ file \notin DualPlanning /\ file \notin Xarm6Files
      BY <1>1 DEF DualFiles, DualPlanning, Xarm6Files
    <3>7. Able(file, c) => Able(f, new)
      BY <3>3, <3>5, <3>6 DEF Able, Supported
    <3>8. Reaches(l, f, new)
      BY <3>3, <3>6, <3>7 DEF Reaches
    <3> QED BY <3>1, <3>2, <3>3, <3>8 DEF new
  <2> QED BY <2>2, <2>3
<1>2. CASE file = "test_dual_planner"
  <2> DEFINE args == [add_gripper |-> Arg(c, "add_gripper", FALSE), dof |-> c["dof"],
                      robot_type |-> Arg(c, "robot_type", "xarm"),
                      node_executable |-> "test_dual_xarm_planner_api_joint"]
             new == Updated(c, args)
             f == "_dual_robot_planner"
  <2>1. Entities(file, c) = TestDualPlannerLaunch(c)
    BY <1>2 DEF Entities
  <2>2. CASE "dof" \notin DOMAIN c
    BY <1>2, <2>1, <2>2 DEF TestDualPlannerLaunch, Reaches, Excused
  <2>3. CASE "dof" \in DOMAIN c
    <3>1. Entities(file, c) = <<Include(f, args)>>
      BY <2>1, <2>3 DEF TestDualPlannerLaunch
    <3>2. Plain(args)
      BY DEF Plain, Generated, Programs, Others
    <3>3. f \in Launchable \ Wrappers /\ f \in DualFiles /\ f \in DualPlanning
          /\ f \notin Asking /\ f \notin {"emer_planner", "test_dual_planner"}
          /\ \A x : Addressed(f, x)
      BY DEF Launchable, Wrappers, Xarm6Files, DualFiles, DualPlanning, Asking, Addressed
    <3>4. ArmGiven(args, Arm(c))
      BY <2>3 DEF ArmGiven, Given, Arm, Arg
    <3>5. \A n \in {"dof_1", "dof_2", "robot_type_1", "robot_type_2", "prefix_1", "prefix_2",
                    "add_gripper_1", "add_gripper_2", "add_bio_gripper_1", "add_bio_gripper_2"} :
            n \notin DOMAIN args
      OBVIOUS
    <3> HIDE DEF args
    <3>6. Arm(new) = Arm(c)
      BY <3>4, ArmKept
    <3>7. \A n, d : n \notin DOMAIN args => Arg(new, n, d) = Arg(c, n, d)
      BY DEF Arg, Updated
    <3> HIDE DEF new, f
    <3>8. Arms(new) = Arms(c)
      BY <3>5, <3>6, <3>7 DEF Arms
    <3>9. file \in DualFiles /\ file \in DualPlanning
      BY <1>2 DEF DualFiles, DualPlanning
    <3>10. Able(file, c) => Able(f, new)
      BY <3>3, <3>8, <3>9 DEF Able
    <3>11. Reaches(l, f, new)
      BY <3>3, <3>8, <3>9, <3>10 DEF Reaches
    <3> QED BY <3>1, <3>2, <3>3, <3>11 DEF new
  <2> QED BY <2>2, <2>3
<1>3. CASE file \in Xarm6Files /\ ~Addressed(file, c)
  <2>1. file = "xarm6_planner_realmove" /\ "robot_ip" \notin DOMAIN c
    BY <1>3 DEF Addressed, Xarm6Files
  <2>2. Entities(file, c) = Raise
    BY <2>1 DEF Entities, Xarm6PlannerRealmove
  <2>3. Excused(l)
    BY <1>3 DEF Reaches, Able
  <2> QED BY <2>2, <2>3
<1>4. CASE file \in Xarm6Files /\ Addressed(file, c)
  <2> DEFINE plain == [dof |-> "6", robot_type |-> "xarm", no_gui_ctrl |-> TRUE]
             found == [robot_ip |-> c["robot_ip"], dof |-> "6", robot_type |-> "xarm",
                       no_gui_ctrl |-> TRUE]
             F == {"_robot_moveit_fake", "_robot_moveit_realmove", "_robot_moveit_gazebo"}
  <2>1. PICK f \in F, args \in {plain, found} :
          /\ Entities(file, c) = <<Include(f, args)>>
          /\ f = "_robot_moveit_realmove" => args = found
    <3>1. CASE file = "xarm6_planner_realmove"
      <4>1. Entities(file, c) = <<Include("_robot_moveit_realmove", found)>>
        BY <1>4, <3>1 DEF Entities, Xarm6PlannerRealmove, Addressed
      <4> QED BY <4>1
    <3>2. CASE file \in {"xarm6_planner_fake", "xarm6_planner_gazebo"}
      <4>1. Entities(file, c) \in {<<Include("_robot_moveit_fake", plain)>>, <<Include("_robot_moveit_gazebo", plain)>>}
        BY <3>2 DEF Entities, Xarm6PlannerFake, Xarm6PlannerGazebo
      <4> QED BY <4>1
    <3> QED BY <1>4, <3>1, <3>2 DEF Xarm6Files
  <2> DEFINE new == Updated(c, args)
  <2>2. Plain(args)
    BY DEF Plain, Generated
  <2>3. f \in Launchable \ Wrappers /\ f \notin DualFiles /\ f \notin DualPlanning
        /\ f \notin Asking /\ f \notin {"emer_planner", "test_dual_planner"}
    BY DEF Launchable, Wrappers, Xarm6Files, DualFiles, DualPlanning, Asking
  <2>4. /\ Arg(new, "dof", "7") = "6" /\ Arg(new, "robot_type", "xarm") = "xarm"
        /\ args = found => "robot_ip" \in DOMAIN new
    BY DEF Arg, Updated
  <2> HIDE DEF plain, found, new
  <2>5. XArmType(Arm(new)) = <<"xarm", "6">>
    BY <2>4 DEF XArmType, Arm
  <2>6. Able(f, new)
    <3>1. Addressed(f, new)
      BY <2>1, <2>4 DEF Addressed
    <3>2. Supported(Arm(new))
      BY <2>5 DEF Supported, Axes
    <3> QED BY <2>3, <3>1, <3>2 DEF Able
  <2>7. file \notin DualFiles
    BY <1>4 DEF DualFiles, DualPlanning, Xarm6Files
  <2>8. Reaches(l, f, new)
    BY <2>3, <2>6, <2>7 DEF Reaches
  <2> QED BY <2>1, <2>2, <2>3, <2>8 DEF new
<1> QED BY <1>1, <1>2, <1>3, <1>4 DEF Wrappers

-----------------------------------------------------------------------------
(* The launch as it goes on. *)

\* The lists of a launch.
ProcsListed ==
  /\ Listing(procs)
  /\ \A i \in 1 .. Len(procs) :
       procs[i] = [id |-> procs[i].id, data |-> procs[i].data, state |-> procs[i].state]
HandlersListed ==
  /\ Listing(handlers)
  /\ \A i \in 1 .. Len(handlers) : handlers[i].kind = "handler" /\ Listing(handlers[i].do)
Shaped == ProcsListed /\ HandlersListed /\ Listing(events) /\ Listing(todo) /\ Known(cfg)
\* They are lists.
LEMMA ShapedAlways ==
  ASSUME LaunchInv
  PROVE  Shaped
<1>1. CASE Fresh
  <2> DEFINE e == Head(todo)
             x == Include(e.file, e.args)
  <2>1. Listing(<<>>) /\ 1 .. Len(<<>>) = {}
    BY DEF Listing
  <2>2. procs = <<>> /\ handlers = <<>> /\ events = <<>> /\ todo = <<x>> /\ Known(cfg)
    BY <1>1 DEF Fresh, Plain, Known
  <2> HIDE DEF x
  <2>3. <<x>> \in Seq({x})
    OBVIOUS
  <2>4. Listing(todo)
    BY <2>2, <2>3, ListingSeq
  <2> QED BY <2>1, <2>2, <2>4 DEF Shaped, ProcsListed, HandlersListed
<1>2. CASE \E m : Follows(m)
  <2>1. PICK m : Follows(m)
    BY <1>2
  <2>2. ProcsListed
    BY <2>1 DEF Follows, ProcsFit, ProcsListed, Listing
  <2>3. HandlersListed
    BY <2>1 DEF Follows, HandlersFit, HandlersListed, Listing, HandlerFits
  <2>4. Listing(events) /\ Listing(todo)
    BY <2>1 DEF Follows, EventsFit, AllFit, Listing
  <2> QED BY <2>1, <2>2, <2>3, <2>4 DEF Shaped, Follows, Known
<1> QED BY <1>1, <1>2 DEF LaunchInv

\* Before the launch's own file was visited, when it raised, and from then on.
Opening == Fresh /\ Reaches(launch, Head(todo).file, Updated(cfg, Head(todo).args))
Failed ==
  /\ Excused(launch) /\ procs = <<>> /\ handlers = <<>> /\ active = {}
  /\ \/ Up /\ todo = Raise
     \/ service = "raised" /\ todo = <<>>
GoingSteady(w) ==
  /\ Of(cfg, w) /\ Steady(todo, w)
  /\ \A i \in 1 .. Len(handlers) : HandlerSound(handlers[i], w)
  /\ \A i \in 1 .. Len(procs) : NodeSound(procs[i], w)
AsAsked(w) ==
  /\ w.asked = RealPluginAsked(launch)
  /\ IF launch.file \in DualFiles THEN w.one = FALSE /\ w.d.arms = Arms(launch.args) ELSE w.one = TRUE
Going == service # "raised" /\ \E w : AsAsked(w) /\ GoingSteady(w)
StartInv == LaunchInv /\ (Opening \/ Failed \/ Going)

\* The first state.
LEMMA InitStart == Init => StartInv
<1> SUFFICES ASSUME Init PROVE StartInv
  OBVIOUS
<1>1. LaunchInv
  BY InitInv
<1>2. Fresh /\ Head(todo).file = launch.file /\ Head(todo).args = launch.args
  <2>1. launch.file \in Launchable /\ Plain(launch.args)
    BY LaunchesAssumption DEF Init
  <2> DEFINE e == Include(launch.file, launch.args)
  <2>2. todo = <<e>> /\ e.kind = "include" /\ e.file = launch.file /\ e.args = launch.args
    BY DEF Init, Include
  <2> HIDE DEF e
  <2>3. Head(todo) = e /\ todo # <<>>
    BY <2>2
  <2> QED BY <2>1, <2>2, <2>3 DEF Fresh, Up, Init, e
<1>3. Opening
  BY <1>2, ReachesOwn DEF Opening, Init
<1> QED BY <1>1, <1>3 DEF StartInv

\* The first file is visited.
LEMMA FirstVisit ==
  ASSUME LaunchInv, Opening, VisitInclude
  PROVE  LaunchInv' /\ (Opening' \/ Failed' \/ Going')
<1> DEFINE e == Head(todo)
           new == Updated(cfg, e.args)
           s == Entities(e.file, new)
<1>0. LaunchInv'
  BY FreshStep DEF Opening, Next, Visit
<1>1. e.file \in Launchable /\ Plain(e.args) /\ Plain(cfg) /\ Tail(todo) = <<>>
  <2> DEFINE x == Include(Head(todo).file, Head(todo).args)
  <2>1. todo = <<x>>
    BY DEF Opening, Fresh
  <2> HIDE DEF x
  <2>2. Tail(todo) = <<>>
    BY <2>1
  <2> QED BY <2>2 DEF Opening, Fresh
<1>2. Plain(new)
  BY <1>1 DEF Plain, Updated
<1>3. Reaches(launch, e.file, new)
  BY DEF Opening
<1>4. /\ UNCHANGED <<launch, service, handlers, events, procs, active, faults>>
      /\ cfg' = new /\ todo' = s \o <<>>
  BY <1>1 DEF VisitInclude
<1>5. procs = <<>> /\ handlers = <<>> /\ events = <<>> /\ active = {} /\ Up
  BY DEF Opening, Fresh
<1>6. Listing(s) => s \o <<>> = s
  BY DEF Listing
<1>7. s = Raise => todo' = Raise
  <2> DEFINE r == [kind |-> "raise"]
  <2>1. <<r>> \o <<>> = <<r>>
    OBVIOUS
  <2> QED BY <1>4, <2>1 DEF Raise
<1> HIDE DEF e, new, s
<1>8. ASSUME s = Raise, Excused(launch)
      PROVE  Failed'
  BY <1>4, <1>5, <1>7, <1>8 DEF Failed, Up, Excused, UnknownRobot, NoDof, NoRobotIp, GripperOfOtherType,
     FirstArm, SecondArm
<1>9. CASE e.file \in Wrappers
  <2>1. \/ s = Raise /\ Excused(launch)
        \/ \E f, args : /\ f \in Launchable \ Wrappers /\ Plain(args) /\ s = <<Include(f, args)>>
                        /\ Reaches(launch, f, Updated(new, args))
    BY <1>3, <1>9, WrapperReaches DEF s
  <2>2. CASE s = Raise /\ Excused(launch)
    BY <1>0, <1>8, <2>2
  <2>3. CASE \E f, args : /\ f \in Launchable \ Wrappers /\ Plain(args) /\ s = <<Include(f, args)>>
                          /\ Reaches(launch, f, Updated(new, args))
    <3>1. PICK f, args : /\ f \in Launchable \ Wrappers /\ Plain(args) /\ s = <<Include(f, args)>>
                         /\ Reaches(launch, f, Updated(new, args))
      BY <2>3
    <3> DEFINE x == Include(f, args)
    <3>2. x.file = f /\ x.args = args /\ x.kind = "include"
      BY DEF Include
    <3>3. todo' = <<x>>
      BY <1>4, <3>1
    <3>4. x = Include(x.file, x.args)
      BY DEF Include
    <3> HIDE DEF x
    <3>5. Head(todo') = x /\ todo' # <<>>
      BY <3>3
    <3>6. Fresh'
      BY <1>2, <1>4, <1>5, <3>1, <3>2, <3>3, <3>4, <3>5 DEF Fresh, Up
    <3>7. Reaches(launch', Head(todo').file, Updated(cfg', Head(todo').args))
      BY <1>4, <3>1, <3>2, <3>5
    <3>8. Opening'
      BY <3>6, <3>7 DEF Opening
    <3> QED BY <1>0, <3>8
  <2> QED BY <2>1, <2>2, <2>3
<1>10. CASE e.file \notin Wrappers
  <2> DEFINE asked == RealPluginAsked(launch)
  <2>1. e.file \in Asking /\ RealAsked(new) => asked
    BY <1>3 DEF Reaches
  <2>2. Begins(e.file, new, asked) \/ (s = Raise /\ ~Able(e.file, new))
    BY <1>1, <1>2, <1>10, <2>1, FileOutcome DEF s
  <2>3. CASE s = Raise /\ ~Able(e.file, new)
    <3>1. Excused(launch)
      BY <1>3, <2>3 DEF Reaches
    <3> QED BY <1>0, <1>8, <2>3, <3>1
  <2>4. CASE Begins(e.file, new, asked)
    <3>1. PICK w : /\ w.asked = asked /\ Of(new, w) /\ Steady(s, w)
                   /\ w.one = IF e.file \in DualFiles THEN FALSE ELSE TRUE
      BY <2>4 DEF Begins, Starts, s
    <3>2. AsAsked(w)
      BY <1>3, <3>1 DEF AsAsked, Reaches, Of
    <3>3. AsAsked(w)'
      BY <1>4, <3>2 DEF AsAsked, RealPluginAsked
    <3>4. Steady(todo', w)
      BY <1>4, <1>6, <3>1 DEF Steady
    <3>5. 1 .. Len(<<>>) = {}
      OBVIOUS
    <3>6. GoingSteady(w)'
      BY <1>4, <1>5, <3>1, <3>4, <3>5 DEF GoingSteady
    <3>7. service' # "raised"
      BY <1>4, <1>5 DEF Up
    <3> QED BY <1>0, <3>3, <3>6, <3>7 DEF Going
  <2> QED BY <2>2, <2>3, <2>4
<1> QED BY <1>9, <1>10

\* The rest of a list.
LEMMA TailListed ==
  ASSUME NEW s, Listing(s), s # <<>>
  PROVE  /\ Listing(Tail(s))
         /\ \E j \in 1 .. Len(s) : Head(s) = s[j]
         /\ \A i \in 1 .. Len(Tail(s)) : \E j \in 1 .. Len(s) : Tail(s)[i] = s[j]
<1> DEFINE S == {s[i] : i \in 1 .. Len(s)}
           t == Tail(s)
<1>1. s \in Seq(S)
  BY DEF Listing
<1>2. \A x \in S : \E j \in 1 .. Len(s) : x = s[j]
  OBVIOUS
<1> HIDE DEF S
<1>3. t \in Seq(S) /\ Head(s) \in S
  BY <1>1
<1> HIDE DEF t
<1>4. Listing(t) /\ \A i \in 1 .. Len(t) : t[i] \in S
  BY <1>3, ListingSeq
<1> QED BY <1>2, <1>3, <1>4 DEF t

\* Of a sound one it is sound, and so is what is visited next.
LEMMA TailSteady ==
  ASSUME NEW w, NEW s, Steady(s, w), s # <<>>
  PROVE  Steady(Tail(s), w) /\ Sound(Head(s), w)
BY TailListed DEF Steady

\* An include is visited,
LEMMA GoingInclude ==
  ASSUME NEW w, GoingSteady(w), VisitInclude, Known(cfg')
  PROVE  GoingSteady(w)'
<1> DEFINE e == Head(todo)
<1>1. e.kind = "include" /\ Sound(e, w) /\ Steady(Tail(todo), w)
  BY TailSteady DEF VisitInclude, NextIs, GoingSteady
<1>2. /\ cfg' = Updated(cfg, e.args) /\ todo' = Entities(e.file, cfg') \o Tail(todo)
      /\ UNCHANGED <<handlers, procs>>
  BY DEF VisitInclude
<1> HIDE DEF e
<1>3. IncludeSound(e, w)
  BY <1>1 DEF Sound
<1>4. Of(cfg', w) /\ Steady(Entities(e.file, cfg'), w)
  BY <1>2, <1>3, IncludedSteady DEF GoingSteady
<1>5. Steady(todo', w)
  BY <1>1, <1>2, <1>4, SteadyConcat
<1> QED BY <1>2, <1>4, <1>5 DEF GoingSteady

\* a node,
LEMMA GoingNode ==
  ASSUME NEW w, GoingSteady(w), VisitNode, ProcsListed
  PROVE  GoingSteady(w)'
<1> DEFINE e == Head(todo)
           p == [id |-> e.id, data |-> e.data, state |-> "runs"]
<1>1. e.kind = "node" /\ Sound(e, w) /\ Steady(Tail(todo), w)
  BY TailSteady DEF VisitNode, NextIs, GoingSteady
<1>2. procs' = Append(procs, p) /\ todo' = Tail(todo) /\ UNCHANGED <<cfg, handlers>>
  BY DEF VisitNode
<1>3. p.id = e.id /\ p.data = e.data
  OBVIOUS
<1> HIDE DEF e, p
<1>4. NodeSound(p, w)
  BY <1>1, <1>3 DEF Sound, NodeSound
<1>5. /\ Len(procs') = Len(procs) + 1 /\ Len(procs) \in Nat
      /\ \A i \in 1 .. Len(procs) : procs'[i] = procs[i]
      /\ procs'[Len(procs) + 1] = p
  BY <1>2, AppendSeq DEF ProcsListed, Listing
<1>6. \A i \in 1 .. Len(procs') : i \in 1 .. Len(procs) \/ i = Len(procs) + 1
  BY <1>5
<1>7. \A i \in 1 .. Len(procs') : NodeSound(procs'[i], w)
  BY <1>4, <1>5, <1>6 DEF GoingSteady
<1> QED BY <1>1, <1>2, <1>7 DEF GoingSteady

\* a handler.
LEMMA GoingHandler ==
  ASSUME NEW w, GoingSteady(w), VisitHandler, HandlersListed
  PROVE  GoingSteady(w)'
<1> DEFINE e == Head(todo)
<1>1. e.kind = "handler" /\ Sound(e, w) /\ Steady(Tail(todo), w)
  BY TailSteady DEF VisitHandler, NextIs, GoingSteady
<1>2. handlers' = <<e>> \o handlers /\ todo' = Tail(todo) /\ UNCHANGED <<cfg, procs>>
  BY DEF VisitHandler
<1> HIDE DEF e
<1>3. HandlerSound(e, w)
  BY <1>1 DEF Sound
<1>4. Listing(<<e>>) /\ \A j \in 1 .. Len(<<e>>) : <<e>>[j] = e
  <2>1. <<e>> \in Seq({e})
    OBVIOUS
  <2>2. Listing(<<e>>) /\ \A j \in 1 .. Len(<<e>>) : <<e>>[j] \in {e}
    BY <2>1, ListingSeq
  <2> QED BY <2>2
<1>5. \A i \in 1 .. Len(handlers') : \/ handlers'[i] = e
                                     \/ \E j \in 1 .. Len(handlers) : handlers'[i] = handlers[j]
  BY <1>2, <1>4, Joined DEF HandlersListed
<1>6. \A i \in 1 .. Len(handlers') : HandlerSound(handlers'[i], w)
  BY <1>3, <1>5 DEF GoingSteady
<1> QED BY <1>1, <1>2, <1>6 DEF GoingSteady

\* An event is handled: what is to be visited is what the handlers do,
LEMMA EventDone ==
  ASSUME HandlersListed, ProcessEvent
  PROVE  /\ Listing(todo')
         /\ \A i \in 1 .. Len(todo') : \E j \in 1 .. Len(handlers) :
              /\ handlers[j].on = Head(events).on /\ handlers[j].target = Head(events).id
              /\ \E k \in 1 .. Len(handlers[j].do) : todo'[i] = handlers[j].do[k]
<1> DEFINE e == Head(events)
           n == Len(handlers)
           U == UNION {{Does(handlers[i], e)[k] : k \in 1 .. Len(Does(handlers[i], e))} : i \in 1 .. n}
           ss == [i \in 1 .. n |-> Does(handlers[i], e)]
<1>1. todo' = FlattenSeq(ss)
  BY DEF ProcessEvent, Does
<1> HIDE DEF e
<1>2. ASSUME NEW i \in 1 .. n
      PROVE  /\ Listing(Does(handlers[i], e))
             /\ \A k \in 1 .. Len(Does(handlers[i], e)) :
                  /\ handlers[i].on = e.on /\ handlers[i].target = e.id
                  /\ k \in 1 .. Len(handlers[i].do)
                  /\ Does(handlers[i], e)[k] = handlers[i].do[k]
  <2> DEFINE h == handlers[i]
  <2>1. Listing(h.do)
    BY DEF HandlersListed
  <2>2. Listing(<<>>) /\ 1 .. Len(<<>>) = {}
    BY DEF Listing
  <2> HIDE DEF h
  <2>3. CASE h.on = e.on /\ h.target = e.id
    BY <2>1, <2>3 DEF Does, h
  <2>4. CASE ~(h.on = e.on /\ h.target = e.id)
    BY <2>2, <2>4 DEF Does, h
  <2> QED BY <2>3, <2>4
<1>3. ss \in Seq(Seq(U)) /\ n \in Nat
  <2>1. n \in Nat
    BY ListingLen DEF HandlersListed
  <2>2. \A i \in 1 .. n : Does(handlers[i], e) \in Seq(U)
    <3> SUFFICES ASSUME NEW i \in 1 .. n PROVE Does(handlers[i], e) \in Seq(U)
      OBVIOUS
    <3> DEFINE V == {Does(handlers[i], e)[k] : k \in 1 .. Len(Does(handlers[i], e))}
    <3>1. Does(handlers[i], e) \in Seq(V)
      BY <1>2 DEF Listing
    <3>2. V \subseteq U
      OBVIOUS
    <3> HIDE DEF V, U
    <3> QED BY <3>1, <3>2
  <2> HIDE DEF U, n
  <2>3. ss \in [1 .. n -> Seq(U)]
    BY <2>2
  <2> QED BY <2>1, <2>3, IndexedSeq
<1>4. \A x \in U : \E j \in 1 .. n :
        /\ handlers[j].on = e.on /\ handlers[j].target = e.id
        /\ \E k \in 1 .. Len(handlers[j].do) : x = handlers[j].do[k]
  <2> SUFFICES ASSUME NEW i \in 1 .. n, NEW k \in 1 .. Len(Does(handlers[i], e))
               PROVE  /\ handlers[i].on = e.on /\ handlers[i].target = e.id
                      /\ \E l \in 1 .. Len(handlers[i].do) : Does(handlers[i], e)[k] = handlers[i].do[l]
    OBVIOUS
  <2> QED BY <1>2
<1> HIDE DEF U, ss
<1>5. todo' \in Seq(U)
  BY <1>1, <1>3, FlattenSeqMade
<1>6. Listing(todo') /\ \A i \in 1 .. Len(todo') : todo'[i] \in U
  BY <1>5, ListingSeq
<1> QED BY <1>4, <1>6 DEF e

\* which is sound.
LEMMA GoingEvent ==
  ASSUME NEW w, GoingSteady(w), ProcessEvent, HandlersListed
  PROVE  GoingSteady(w)'
<1>1. ASSUME NEW i \in 1 .. Len(todo')
      PROVE  Sound(todo'[i], w)
  <2>1. PICK j \in 1 .. Len(handlers) : \E k \in 1 .. Len(handlers[j].do) : todo'[i] = handlers[j].do[k]
    BY EventDone
  <2>3. PICK k \in 1 .. Len(handlers[j].do) : todo'[i] = handlers[j].do[k]
    BY <2>1
  <2>2. HandlerSound(handlers[j], w)
    BY DEF GoingSteady
  <2> QED BY <2>2, <2>3 DEF HandlerSound, Sound
<1>2. Steady(todo', w)
  BY <1>1, EventDone DEF Steady
<1> QED BY <1>2 DEF GoingSteady, ProcessEvent

\* Processes in another state are sound.
LEMMA GoingKept ==
  ASSUME NEW w, GoingSteady(w), Kept(procs', procs), UNCHANGED <<cfg, handlers>>,
         todo' = todo \/ todo' = <<>>
  PROVE  GoingSteady(w)'
<1>1. Steady(todo', w)
  BY SteadyEmpty DEF GoingSteady
<1>2. \A i \in 1 .. Len(procs') : NodeSound(procs'[i], w)
  BY DEF GoingSteady, Kept, NodeSound
<1> QED BY <1>1, <1>2 DEF GoingSteady

\* What the processes do: one of them ends, or nothing happens.
Quiet ==
  /\ UNCHANGED <<launch, service, cfg, todo, handlers>>
  /\ \/ UNCHANGED <<events, procs, active>>
     \/ \E i \in 1 .. Len(procs), state \in {"done", "failed", "refused"} :
          /\ Runs(i) /\ Exit(i, state)
          /\ state = "refused" => Spawn(i) /\ i \in Procs("spawner")
          /\ active' \in {active, {}} \/ (Spawn(i) /\ i \in Procs("spawner"))
\* Every other step is one of the service's.
LEMMA QuietStep ==
  ASSUME [Next]_vars, ~Visit, ~ProcessEvent
  PROVE  Quiet
<1>1. CASE \E i \in Procs("spawner") : Spawn(i)
  BY <1>1 DEF Spawn, Quiet, Procs, serviceVars
<1>2. CASE \E i \in Procs("create") : InsertRobot(i)
  BY <1>2 DEF InsertRobot, Quiet, Procs, serviceVars
<1>3. CASE \E i \in Procs("spawner") : SpawnerTimesOut(i)
  BY <1>3 DEF SpawnerTimesOut, Quiet, Procs, serviceVars
<1>4. CASE \E i \in Procs("create") : InsertFails(i)
  BY <1>4 DEF InsertFails, Quiet, Procs, serviceVars
<1>5. CASE \E i \in Procs("ros2_control_node") \cup Procs("gazebo") : ManagerDies(i)
  BY <1>5 DEF ManagerDies, Quiet, Procs, serviceVars
<1>6. CASE \E i \in Procs("rviz2") : CloseRviz(i)
  BY <1>6 DEF CloseRviz, Quiet, Procs, serviceVars
<1>7. CASE UNCHANGED vars
  BY <1>7 DEF Quiet, vars, serviceVars
<1> QED BY <1>1, <1>2, <1>3, <1>4, <1>5, <1>6, <1>7 DEF Next, Work

\* A process that ends is the same process.
LEMMA ExitSame ==
  ASSUME LaunchInv, NEW i \in 1 .. Len(procs), NEW state \in States, Exit(i, state)
  PROVE  Kept(procs', procs) /\ Ended(procs', procs, i, state)
<1>1. ~Fresh
  BY FreshEmpty DEF Fresh
<1>2. PICK m : Follows(m)
  BY <1>1 DEF LaunchInv
<1> QED BY <1>2, ExitKeeps DEF Follows, Exit

\* What a launch that raised does: it stops,
LEMMA FailedOnly ==
  ASSUME LaunchInv, Failed, [Next]_vars
  PROVE  VisitRaise \/ UNCHANGED vars
<1> DEFINE r == [kind |-> "raise"]
<1>1. todo = Raise => todo = <<r>> /\ todo # <<>> /\ Head(todo).kind = "raise"
  <2>1. r.kind = "raise" /\ Raise = <<r>>
    BY DEF Raise
  <2> HIDE DEF r
  <2>2. Head(<<r>>) = r /\ <<r>> # <<>>
    OBVIOUS
  <2> QED BY <2>1, <2>2
<1>2. ~Visited
  BY <1>1 DEF Failed, Visited, Up
<1>3. ~(VisitInclude \/ VisitNode \/ VisitHandler \/ VisitShutdown)
  BY <1>1 DEF Failed, Up, VisitInclude, VisitNode, VisitHandler, VisitShutdown, NextIs
<1>4. ~ProcessEvent
  BY <1>2 DEF ProcessEvent
<1> QED BY <1>2, <1>3, <1>4 DEF Next, Visit, Work, Spawn, SpawnerTimesOut, InsertRobot, InsertFails,
        ManagerDies, CloseRviz

\* with nothing started.
LEMMA FailedStep ==
  ASSUME LaunchInv, Failed, [Next]_vars
  PROVE  Failed'
<1>1. ASSUME VisitRaise
      PROVE  Failed'
  <2>1. /\ service' = "raised" /\ todo' = <<>> /\ active' = {} /\ UNCHANGED <<launch, handlers>>
        /\ procs' = [i \in 1 .. Len(procs) |-> [procs[i] EXCEPT !.state = IF @ = "runs" THEN "done" ELSE @]]
    BY <1>1 DEF VisitRaise, Stop
  <2>2. procs = <<>> /\ 1 .. Len(procs) = {}
    BY DEF Failed
  <2>3. procs' = <<>>
    <3>1. \A f, g : DOMAIN f = {} /\ f = [i \in {} |-> g] => f = <<>>
      OBVIOUS
    <3> QED BY <2>1, <2>2
  <2> QED BY <2>1, <2>3 DEF Failed, Excused, UnknownRobot, NoDof, NoRobotIp,
      GripperOfOtherType, FirstArm, SecondArm
<1>2. ASSUME UNCHANGED vars
      PROVE  Failed'
  BY <1>2 DEF Failed, vars, serviceVars, Up, Excused, UnknownRobot, NoDof, NoRobotIp, GripperOfOtherType,
     FirstArm, SecondArm
<1> QED BY <1>1, <1>2, FailedOnly

\* What one that goes on does.
LEMMA GoingStep ==
  ASSUME LaunchInv, Going, [Next]_vars, LaunchInv'
  PROVE  Going'
<1>1. PICK w : AsAsked(w) /\ GoingSteady(w)
  BY DEF Going
<1>2. Shaped /\ service # "raised"
  BY ShapedAlways DEF Going
<1>3. Known(cfg')
  BY DEF LaunchInv, Fresh, Follows, Plain, Known
<1>4. launch' = launch
  BY DEF Next, Visit, Work, VisitInclude, VisitNode, VisitHandler, VisitShutdown, VisitRaise, Stop,
     ProcessEvent, Spawn, SpawnerTimesOut, InsertRobot, InsertFails, ManagerDies, CloseRviz, vars
<1>5. AsAsked(w)'
  BY <1>1, <1>4 DEF AsAsked, RealPluginAsked
<1>6. ASSUME VisitInclude PROVE GoingSteady(w)' /\ service' # "raised"
  BY <1>1, <1>2, <1>3, <1>6, GoingInclude DEF VisitInclude
<1>7. ASSUME VisitNode PROVE GoingSteady(w)' /\ service' # "raised"
  BY <1>1, <1>2, <1>7, GoingNode DEF VisitNode, Shaped
<1>8. ASSUME VisitHandler PROVE GoingSteady(w)' /\ service' # "raised"
  BY <1>1, <1>2, <1>8, GoingHandler DEF VisitHandler, Shaped
<1>9. ASSUME ProcessEvent PROVE GoingSteady(w)' /\ service' # "raised"
  BY <1>1, <1>2, <1>9, GoingEvent DEF ProcessEvent, Shaped
<1>10. ASSUME VisitShutdown PROVE GoingSteady(w)' /\ service' # "raised"
  <2>1. Stop("shutdown") /\ NextIs("shutdown")
    BY <1>10 DEF VisitShutdown
  <2>2. ~Fresh
    BY <2>1 DEF Fresh, NextIs
  <2>3. PICK m : Follows(m)
    BY <2>2 DEF LaunchInv
  <2>4. Kept(procs', procs)
    BY <2>1, <2>3, StopKeeps DEF Stop, Follows
  <2> QED BY <1>1, <2>1, <2>4, GoingKept DEF Stop
<1>11. ~VisitRaise
  <2>1. todo # <<>> => Sound(Head(todo), w)
    BY <1>1, TailSteady DEF GoingSteady
  <2> QED BY <2>1 DEF VisitRaise, NextIs, Sound
<1>12. ASSUME Quiet PROVE GoingSteady(w)' /\ service' # "raised"
  <2>1. Kept(procs', procs)
    <3>1. ASSUME NEW i \in 1 .. Len(procs), NEW state \in {"done", "failed", "refused"}, Exit(i, state)
          PROVE  Kept(procs', procs)
      BY <3>1, ExitSame DEF States
    <3>2. UNCHANGED procs => Kept(procs', procs)
      BY DEF Kept
    <3> QED BY <1>12, <3>1, <3>2 DEF Quiet
  <2> QED BY <1>1, <1>2, <1>12, <2>1, GoingKept DEF Quiet
<1>13. (VisitInclude \/ VisitNode \/ VisitHandler \/ VisitShutdown \/ ProcessEvent \/ Quiet)
  BY <1>11, QuietStep DEF Visit
<1>14. GoingSteady(w)' /\ service' # "raised"
  BY <1>6, <1>7, <1>8, <1>9, <1>10, <1>12, <1>13
<1> QED BY <1>5, <1>14 DEF Going

\* A step keeps the invariant.
LEMMA NextStart == StartInv /\ [Next]_vars => StartInv'
<1> SUFFICES ASSUME StartInv, [Next]_vars PROVE StartInv'
  OBVIOUS
<1>1. LaunchInv /\ LaunchInv'
  BY NextInv DEF StartInv
<1>2. CASE Opening
  <2>1. CASE VisitInclude
    BY <1>1, <1>2, <2>1, FirstVisit DEF StartInv
  <2>2. CASE UNCHANGED vars
    <3>1. Opening'
      BY <1>2, <2>2 DEF Opening, vars, serviceVars, Fresh, Up, Reaches, Excused, UnknownRobot, NoDof,
         NoRobotIp, GripperOfOtherType, FirstArm, SecondArm, RealPluginAsked
    <3> QED BY <1>1, <3>1 DEF StartInv
  <2>3. ~(VisitNode \/ VisitHandler \/ VisitShutdown \/ VisitRaise \/ ProcessEvent)
    BY <1>2 DEF Opening, Fresh, VisitNode, VisitHandler, VisitShutdown, VisitRaise, ProcessEvent,
       NextIs, Visited
  <2>4. \A exe : Procs(exe) = {}
    BY <1>2 DEF Opening, Fresh, Procs
  <2> QED BY <2>1, <2>2, <2>3, <2>4 DEF Next, Visit, Work
<1>3. CASE Failed
  BY <1>1, <1>3, FailedStep DEF StartInv
<1>4. CASE Going
  BY <1>1, <1>4, GoingStep DEF StartInv
<1> QED BY <1>2, <1>3, <1>4 DEF StartInv

\* It holds.
LEMMA StartHolds == Spec => []StartInv
BY InitStart, NextStart, PTL DEF Spec

(* A launch of robots there are raises nothing, unless it is asked for       *)
(* without a dof or an address its file has no default for, or for a gripper *)
(* beside a first arm without a file for one: no launch_setup, however deep, *)
(* misses a file or an argument.                                             *)
THEOREM LaunchStartsAlways == Spec => []LaunchStarts
<1>1. StartInv => LaunchStarts
  <2>1. LaunchInv => ~UnknownRobot(launch)
    BY LaunchesAssumption DEF LaunchInv
  <2> QED BY <2>1 DEF StartInv, LaunchStarts, Opening, Fresh, Up, Failed, Going, Excused
<1> QED BY <1>1, StartHolds, PTL

-----------------------------------------------------------------------------
(* Which processes an entity may still start, by their program and name. *)

Key(id) == <<id.exe, id.name>>
\* The planner's program is whatever it is told to be; the others are known.
Kind(exe) == IF exe \in Programs \cup Others THEN exe ELSE "planner"
\* The programs a file that is included starts, itself or in the files it includes.
Planners == {"planner", "xarm_gripper_planner_node"}
Hidden(args) == "show_rviz" \in DOMAIN args /\ args["show_rviz"] = FALSE
OfTables == {"robot_state_publisher", "gazebo", "create", "parameter_bridge", "rviz2", "spawner"}
OfCommon(args) ==
  {"static_transform_publisher", "move_group"} \cup Planners \cup IF Hidden(args) THEN {} ELSE {"rviz2"}
OfFile(file, args) ==
  IF file = "_robot_description" THEN {"robot_state_publisher"}
  ELSE IF file \in {"_ros2_control", "_dual_ros2_control"} THEN {"ros2_control_node"}
  ELSE IF file = "_robot_planner" THEN Planners
  ELSE IF file \in {"_robot_moveit_common2", "_dual_robot_moveit_common2"} THEN OfCommon(args)
  ELSE IF file \in SingleTables \cup DualTables THEN OfTables
  ELSE Programs \cup Others \cup {"planner"}
Claims(e, k) ==
  \/ e.kind = "node" /\ k = Key(e.id)
  \/ /\ e.kind = "handler"
     /\ \E j \in 1 .. Len(e.do) : e.do[j].kind = "node" /\ k = Key(e.do[j].id)
  \/ e.kind = "include" /\ Kind(k[1]) \in OfFile(e.file, e.args)
\* Two entities start different processes; a list's do, and the entities of two lists.
Apart(a, b) == \A k : ~(Claims(a, k) /\ Claims(b, k))
Separate(s) == \A i, j \in 1 .. Len(s) : i # j => Apart(s[i], s[j])
Cross(s, t) == \A i \in 1 .. Len(s) : \A j \in 1 .. Len(t) : Apart(s[i], t[j])
\* An entity that starts programs of X only, a handler that is in order, and a list of such.
Owns(e, X) == \A k : Claims(e, k) => Kind(k[1]) \in X
Neat(e) == e.kind = "handler" => Separate(e.do) /\ e.target.exe \in Watched
Orderly(s, X) ==
  Listing(s) /\ Separate(s) /\ \A i \in 1 .. Len(s) : Neat(s[i]) /\ Owns(s[i], X)

\* Where the elements of two lists are.
LEMMA Positions ==
  ASSUME NEW s, NEW t, Listing(s), Listing(t)
  PROVE  /\ Listing(s \o t) /\ Len(s) \in Nat /\ Len(t) \in Nat
         /\ Len(s \o t) = Len(s) + Len(t)
         /\ \A i \in 1 .. Len(s \o t) :
              (s \o t)[i] = IF i <= Len(s) THEN s[i] ELSE t[i - Len(s)]
<1> DEFINE S == {s[i] : i \in 1 .. Len(s)} \cup {t[i] : i \in 1 .. Len(t)}
<1>1. s \in Seq(S) /\ t \in Seq(S)
  <2>1. s \in Seq({s[i] : i \in 1 .. Len(s)}) /\ t \in Seq({t[i] : i \in 1 .. Len(t)})
    BY DEF Listing
  <2> QED BY <2>1
<1> HIDE DEF S
<1> QED BY <1>1, Joined

\* Two lists in order whose entities start different processes,
LEMMA OrderlyJoin ==
  ASSUME NEW X, NEW Y, NEW s, NEW t, Orderly(s, X), Orderly(t, Y), Cross(s, t)
  PROVE  Orderly(s \o t, X \cup Y)
<1> DEFINE st == s \o t
<1>1. /\ Listing(st) /\ Len(s) \in Nat /\ Len(t) \in Nat
      /\ Len(st) = Len(s) + Len(t)
      /\ \A i \in 1 .. Len(st) : st[i] = IF i <= Len(s) THEN s[i] ELSE t[i - Len(s)]
  BY Positions DEF Orderly
<1> HIDE DEF st
<1>2. \A i \in 1 .. Len(st) : \/ i \in 1 .. Len(s) /\ i <= Len(s) /\ st[i] = s[i]
                              \/ /\ i - Len(s) \in 1 .. Len(t) /\ ~(i <= Len(s))
                                 /\ st[i] = t[i - Len(s)]
  BY <1>1
<1>3. ASSUME NEW i \in 1 .. Len(st)
      PROVE  Neat(st[i]) /\ Owns(st[i], X \cup Y)
  BY <1>2 DEF Orderly, Owns
<1>4. ASSUME NEW i \in 1 .. Len(st), NEW j \in 1 .. Len(st), i # j
      PROVE  Apart(st[i], st[j])
  <2>1. CASE i <= Len(s) /\ j <= Len(s)
    BY <1>2, <1>4, <2>1 DEF Orderly, Separate
  <2>2. CASE i <= Len(s) /\ ~(j <= Len(s))
    BY <1>2, <2>2 DEF Cross
  <2>3. CASE ~(i <= Len(s)) /\ j <= Len(s)
    <3>1. Apart(st[j], st[i])
      BY <1>2, <2>3 DEF Cross
    <3> QED BY <3>1 DEF Apart
  <2>4. CASE ~(i <= Len(s)) /\ ~(j <= Len(s))
    <3>1. i - Len(s) # j - Len(s)
      BY <1>1, <1>4
    <3> QED BY <1>2, <2>4, <3>1 DEF Orderly, Separate
  <2> QED BY <2>1, <2>2, <2>3, <2>4
<1>5. Separate(st)
  BY <1>4 DEF Separate
<1>6. Orderly(st, X \cup Y)
  BY <1>1, <1>3, <1>5 DEF Orderly
<1> QED BY <1>6 DEF st

\* as those of different programs do.
LEMMA OrderlyCross ==
  ASSUME NEW X, NEW Y, NEW s, NEW t, Orderly(s, X), Orderly(t, Y), X \cap Y = {}
  PROVE  Cross(s, t)
BY DEF Orderly, Cross, Owns, Apart
\* So they are in order in a row.
LEMMA OrderlyConcat ==
  ASSUME NEW X, NEW Y, NEW s, NEW t, Orderly(s, X), Orderly(t, Y), X \cap Y = {}
  PROVE  Orderly(s \o t, X \cup Y)
BY OrderlyCross, OrderlyJoin
\* What starts different processes from two lists does from both in a row.
LEMMA CrossConcat ==
  ASSUME NEW s, NEW t, NEW u, Listing(s), Listing(t), Cross(s, u), Cross(t, u)
  PROVE  Cross(s \o t, u)
BY Joined DEF Cross

\* Nothing is in order,
LEMMA OrderlyEmpty ==
  ASSUME NEW X
  PROVE  Orderly(<<>>, X)
BY DEF Orderly, Separate, Listing

\* and so is one entity,
LEMMA OrderlyOne ==
  ASSUME NEW a, NEW X, Neat(a), Owns(a, X)
  PROVE  Orderly(<<a>>, X)
<1>1. <<a>> \in Seq({a}) /\ 1 .. Len(<<a>>) = {1} /\ <<a>>[1] = a
  OBVIOUS
<1>2. Listing(<<a>>)
  BY <1>1, ListingSeq
<1> DEFINE s == <<a>>
<1>3. Listing(s) /\ 1 .. Len(s) = {1} /\ s[1] = a
  BY <1>1, <1>2
<1> HIDE DEF s
<1>4. Orderly(s, X)
  BY <1>3 DEF Orderly, Separate
<1> QED BY <1>4 DEF s

\* two,
LEMMA OrderlyTwo ==
  ASSUME NEW a, NEW X, Neat(a), Owns(a, X), NEW b, NEW Y, Neat(b), Owns(b, Y), X \cap Y = {}
  PROVE  Orderly(<<a, b>>, X \cup Y)
<1>1. <<a, b>> = <<a>> \o <<b>>
  OBVIOUS
<1>2. Orderly(<<a>>, X) /\ Orderly(<<b>>, Y)
  BY OrderlyOne
<1>3. Orderly(<<a>> \o <<b>>, X \cup Y)
  BY <1>2, OrderlyConcat
<1> QED BY <1>1, <1>3

\* or what is left out,
LEMMA OrderlyWhen ==
  ASSUME NEW condition, NEW s, NEW X, Orderly(s, X)
  PROVE  Orderly(When(condition, s), X)
BY OrderlyEmpty DEF When

\* with as many programs as one likes.
LEMMA OrderlyMore ==
  ASSUME NEW s, NEW X, NEW Y, Orderly(s, X), X \subseteq Y
  PROVE  Orderly(s, Y)
BY DEF Orderly, Owns

\* What the entities start: a node itself,
LEMMA NodeClaims ==
  ASSUME NEW id, NEW data
  PROVE  /\ \A k : Claims(Node(id, data), k) <=> k = Key(id)
         /\ Neat(Node(id, data)) /\ Owns(Node(id, data), {Kind(id.exe)})
<1> DEFINE e == Node(id, data)
           key == Key(id)
<1>1. e.kind = "node" /\ e.id = id
  BY DEF Node
<1>2. key[1] = id.exe
  BY DEF Key
<1> HIDE DEF e
<1>3. \A k : Claims(e, k) <=> k = key
  BY <1>1 DEF Claims
<1> HIDE DEF key
<1>4. Neat(e) /\ Owns(e, {Kind(id.exe)})
  BY <1>1, <1>2, <1>3 DEF Neat, Owns
<1> QED BY <1>3, <1>4 DEF e, key

\* an include its file's programs,
LEMMA IncludeClaims ==
  ASSUME NEW file, NEW args
  PROVE  Neat(Include(file, args)) /\ Owns(Include(file, args), OfFile(file, args))
<1> DEFINE e == Include(file, args)
<1>1. e.kind = "include" /\ e.file = file /\ e.args = args
  BY DEF Include
<1> HIDE DEF e
<1>2. Neat(e) /\ Owns(e, OfFile(file, args))
  BY <1>1 DEF Neat, Owns, Claims
<1> QED BY <1>2 DEF e

\* a handler what it does.
LEMMA HandlerClaims ==
  ASSUME NEW X, NEW id, id.exe \in Watched, NEW do, Orderly(do, X)
  PROVE  /\ Neat(OnStart(id, do)) /\ Owns(OnStart(id, do), X)
         /\ Neat(OnExit(id, do)) /\ Owns(OnExit(id, do), X)
<1>1. ASSUME NEW h, h.kind = "handler", h.target = id, h.do = do
      PROVE  Neat(h) /\ Owns(h, X)
  <2>1. Neat(h)
    BY <1>1 DEF Neat, Orderly
  <2>2. ASSUME NEW k, Claims(h, k)
        PROVE  Kind(k[1]) \in X
    <3>1. PICK j \in 1 .. Len(do) : do[j].kind = "node" /\ k = Key(do[j].id)
      BY <1>1, <2>2 DEF Claims
    <3>2. Claims(do[j], k) /\ Owns(do[j], X)
      BY <3>1 DEF Claims, Orderly
    <3> QED BY <3>2 DEF Owns
  <2> QED BY <2>1, <2>2 DEF Owns
<1> DEFINE a == OnStart(id, do)
           b == OnExit(id, do)
<1>2. /\ a.kind = "handler" /\ a.target = id /\ a.do = do
      /\ b.kind = "handler" /\ b.target = id /\ b.do = do
  BY DEF OnStart, OnExit
<1> HIDE DEF a, b
<1>3. Neat(a) /\ Owns(a, X) /\ Neat(b) /\ Owns(b, X)
  BY <1>1, <1>2
<1> QED BY <1>3 DEF a, b

\* A file that raises starts nothing.
LEMMA RaiseOrderly ==
  ASSUME NEW X
  PROVE  Orderly(Raise, X)
<1> DEFINE r == [kind |-> "raise"]
<1>1. r.kind = "raise"
  OBVIOUS
<1>2. Raise = <<r>>
  BY DEF Raise
<1> HIDE DEF r
<1>3. Neat(r) /\ Owns(r, X)
  BY <1>1 DEF Neat, Owns, Claims
<1> QED BY <1>2, <1>3, OrderlyOne

\* The spawners of different controllers,
Different(s) == Listing(s) /\ \A i, j \in 1 .. Len(s) : i # j => s[i] # s[j]
\* claim a controller each.
LEMMA SpawnersOrderly ==
  ASSUME NEW controllers, Different(controllers), NEW file
  PROVE  /\ Orderly(Spawners(controllers, file), {"spawner"})
         /\ Len(Spawners(controllers, file)) = Len(controllers)
         /\ \A i \in 1 .. Len(controllers) : \A k :
              Claims(Spawners(controllers, file)[i], k) <=> k = <<"spawner", controllers[i]>>
<1> DEFINE n == Len(controllers)
           e(i) == Node(Id("spawner", controllers[i], file), Nothing)
           s == Spawners(controllers, file)
<1>1. n \in Nat /\ \A i, j \in 1 .. n : i # j => controllers[i] # controllers[j]
  BY ListingLen DEF Different
<1>2. ASSUME NEW i \in 1 .. n
      PROVE  /\ \A k : Claims(e(i), k) <=> k = <<"spawner", controllers[i]>>
             /\ Neat(e(i)) /\ Owns(e(i), {"spawner"})
  <2> DEFINE id == Id("spawner", controllers[i], file)
  <2>1. id.exe = "spawner" /\ Key(id) = <<"spawner", controllers[i]>> /\ Kind("spawner") = "spawner"
    BY DEF Id, Key, Kind, Programs
  <2> HIDE DEF id
  <2>2. /\ \A k : Claims(Node(id, Nothing), k) <=> k = <<"spawner", controllers[i]>>
        /\ Neat(Node(id, Nothing)) /\ Owns(Node(id, Nothing), {"spawner"})
    BY <2>1, NodeClaims
  <2> QED BY <2>2 DEF id
<1>3. s = [i \in 1 .. n |-> e(i)]
  BY DEF Spawners
<1> HIDE DEF s, e
<1>4. s \in Seq({e(i) : i \in 1 .. n}) /\ Len(s) = n /\ \A i \in 1 .. n : s[i] = e(i)
  <2>1. s \in [1 .. n -> {e(i) : i \in 1 .. n}]
    BY <1>3
  <2> QED BY <1>1, <1>3, <2>1, IndexedSeq
<1>5. Listing(s)
  BY <1>4, ListingSeq
<1>6. Separate(s)
  <2> SUFFICES ASSUME NEW i \in 1 .. n, NEW j \in 1 .. n, i # j, NEW k, Claims(e(i), k), Claims(e(j), k)
               PROVE  FALSE
    BY <1>4 DEF Separate, Apart
  <2>1. <<"spawner", controllers[i]>> = <<"spawner", controllers[j]>>
    BY <1>2
  <2> QED BY <1>1, <2>1
<1>7. Orderly(s, {"spawner"})
  BY <1>2, <1>4, <1>5, <1>6 DEF Orderly
<1> QED BY <1>2, <1>4, <1>7 DEF s

\* and of others.
LEMMA SpawnersCross ==
  ASSUME NEW s, NEW t, Different(s), Different(t), NEW file,
         \A i \in 1 .. Len(s) : \A j \in 1 .. Len(t) : s[i] # t[j]
  PROVE  Cross(Spawners(s, file), Spawners(t, file))
<1> SUFFICES ASSUME NEW i \in 1 .. Len(s), NEW j \in 1 .. Len(t), NEW k,
                    k = <<"spawner", s[i]>>, k = <<"spawner", t[j]>>
             PROVE  FALSE
  BY SpawnersOrderly DEF Cross, Apart
<1>1. s[i] = t[j]
  OBVIOUS
<1> QED BY <1>1

-----------------------------------------------------------------------------
(* The controllers that are asked for have different names. *)

\* A list of different names from a set,
Among(s, N) == Different(s) /\ \A i \in 1 .. Len(s) : s[i] \in N
\* two such lists in a row,
LEMMA AmongConcat ==
  ASSUME NEW s, NEW t, NEW M, NEW N, Among(s, M), Among(t, N), M \cap N = {}
  PROVE  Among(s \o t, M \cup N)
<1> DEFINE st == s \o t
<1>1. /\ Listing(st) /\ Len(s) \in Nat /\ Len(t) \in Nat
      /\ Len(st) = Len(s) + Len(t)
      /\ \A i \in 1 .. Len(st) : st[i] = IF i <= Len(s) THEN s[i] ELSE t[i - Len(s)]
  BY Positions DEF Among, Different
<1> HIDE DEF st
<1>2. \A i \in 1 .. Len(st) : \/ i \in 1 .. Len(s) /\ i <= Len(s) /\ st[i] = s[i] /\ st[i] \in M
                              \/ /\ i - Len(s) \in 1 .. Len(t) /\ ~(i <= Len(s))
                                 /\ st[i] = t[i - Len(s)] /\ st[i] \in N
  BY <1>1 DEF Among
<1>3. ASSUME NEW i \in 1 .. Len(st), NEW j \in 1 .. Len(st), i # j
      PROVE  st[i] # st[j]
  <2>1. CASE i <= Len(s) /\ j <= Len(s)
    BY <1>2, <1>3, <2>1 DEF Among, Different
  <2>2. CASE ~(i <= Len(s)) /\ ~(j <= Len(s))
    <3>1. i - Len(s) # j - Len(s)
      BY <1>1, <1>3
    <3> QED BY <1>2, <2>2, <3>1 DEF Among, Different
  <2> QED BY <1>2, <2>1, <2>2
<1>4. Among(st, M \cup N)
  BY <1>1, <1>2, <1>3 DEF Among, Different
<1> QED BY <1>4 DEF st

\* and one, two or three names.
LEMMA AmongOne ==
  ASSUME NEW a
  PROVE  Among(<<a>>, {a})
<1> DEFINE s == <<a>>
<1>1. s \in Seq({a}) /\ 1 .. Len(s) = {1} /\ s[1] = a
  OBVIOUS
<1>2. Listing(s)
  BY <1>1, ListingSeq
<1> HIDE DEF s
<1>3. Among(s, {a})
  BY <1>1, <1>2 DEF Among, Different
<1> QED BY <1>3 DEF s

\* Two,
LEMMA AmongTwo ==
  ASSUME NEW a, NEW b, a # b
  PROVE  Among(<<a, b>>, {a, b})
<1> DEFINE s == <<a, b>>
<1>1. s \in Seq({a, b}) /\ 1 .. Len(s) = {1, 2} /\ s[1] = a /\ s[2] = b
  OBVIOUS
<1>2. Listing(s)
  BY <1>1, ListingSeq
<1> HIDE DEF s
<1>3. Among(s, {a, b})
  BY <1>1, <1>2 DEF Among, Different
<1> QED BY <1>3 DEF s

\* three.
LEMMA AmongThree ==
  ASSUME NEW a, NEW b, NEW c, a # b, a # c, b # c
  PROVE  Among(<<a, b, c>>, {a, b, c})
<1> DEFINE s == <<a, b, c>>
<1>1. s \in Seq({a, b, c}) /\ 1 .. Len(s) = {1, 2, 3} /\ s[1] = a /\ s[2] = b /\ s[3] = c
  OBVIOUS
<1>2. Listing(s)
  BY <1>1, ListingSeq
<1> HIDE DEF s
<1>3. Among(s, {a, b, c})
  BY <1>1, <1>2 DEF Among, Different
<1> QED BY <1>3 DEF s

\* The controller of a gripper, if there is one.
LEMMA AmongGripper ==
  ASSUME NEW arm
  PROVE  Among(GripperTrajController(arm), GripperNames(arm))
<1> DEFINE g == GripperTrajController(arm)
<1>1. g = <<>> \/ \E a : g = <<a>>
  BY DEF GripperTrajController
<1>2. \A i \in 1 .. Len(g) : g[i] \in GripperNames(arm)
  BY DEF GripperNames
<1>3. Different(<<>>)
  BY DEF Different, Listing
<1>4. \A a : Different(<<a>>)
  BY AmongOne DEF Among
<1> HIDE DEF g
<1> QED BY <1>1, <1>2, <1>3, <1>4 DEF Among, g

\* The arm's controller, the gripper's and the broadcaster have different names,
\* and so have those of two arms with different prefixes.
LEMMA ControllersDiffer ==
  ASSUME NEW a, NEW b
  PROVE  /\ TrajController(a) # Broadcaster /\ Broadcaster \notin GripperNames(a)
         /\ TrajController(a) \notin GripperNames(b)
         /\ a.prefix # b.prefix => /\ TrajController(a) # TrajController(b)
                                   /\ GripperNames(a) \cap GripperNames(b) = {}
<1>1. Broadcaster[4] = "joint_state_broadcaster"
  BY DEF Broadcaster, Name
<1>2. \A arm : TrajController(arm)[1] = arm.prefix /\ TrajController(arm)[4] = "_traj_controller"
  BY DEF TrajController, Prefixed, Name
<1>3. \A arm : \A n \in GripperNames(arm) : n[1] = arm.prefix /\ n[4] = "_gripper_traj_controller"
  <2> SUFFICES ASSUME NEW arm, NEW n \in GripperNames(arm)
               PROVE  n[1] = arm.prefix /\ n[4] = "_gripper_traj_controller"
    OBVIOUS
  <2> DEFINE g == GripperTrajController(arm)
  <2>1. PICK i \in 1 .. Len(g) : n = g[i]
    BY DEF GripperNames
  <2>2. PICK a1, d1 : g = <<>> \/ g = <<Prefixed(arm.prefix, Name(a1, d1, "_gripper_traj_controller"))>>
    BY DEF GripperTrajController
  <2>3. 1 .. Len(<<>>) = {}
    OBVIOUS
  <2> DEFINE x == Prefixed(arm.prefix, Name(a1, d1, "_gripper_traj_controller"))
  <2>4. x[1] = arm.prefix /\ x[4] = "_gripper_traj_controller"
    BY DEF Prefixed, Name
  <2> HIDE DEF g, x
  <2>5. g = <<>> \/ g = <<x>>
    BY <2>2 DEF x
  <2>6. n = x
    BY <2>1, <2>3, <2>5
  <2> QED BY <2>4, <2>6
<1> QED BY <1>1, <1>2, <1>3

\* So those of one arm differ,
LEMMA ArmControllersAmong ==
  ASSUME NEW arm
  PROVE  /\ Among(<<TrajController(arm)>> \o GripperTrajController(arm),
                  {TrajController(arm)} \cup GripperNames(arm))
         /\ Different(<<Broadcaster, TrajController(arm)>> \o GripperTrajController(arm))
<1> DEFINE t == TrajController(arm)
           g == GripperTrajController(arm)
           G == GripperNames(arm)
<1>1. t # Broadcaster /\ Broadcaster \notin G /\ t \notin G
  BY ControllersDiffer
<1>2. Among(<<t>>, {t}) /\ Among(g, G) /\ Among(<<Broadcaster, t>>, {Broadcaster, t})
  BY <1>1, AmongOne, AmongTwo, AmongGripper
<1> HIDE DEF t, g, G
<1>3. {t} \cap G = {} /\ {Broadcaster, t} \cap G = {}
  BY <1>1
<1>4. Among(<<t>> \o g, {t} \cup G)
  BY <1>2, <1>3, AmongConcat
<1>5. Among(<<Broadcaster, t>> \o g, {Broadcaster, t} \cup G)
  BY <1>2, <1>3, AmongConcat
<1> QED BY <1>4, <1>5 DEF t, g, G, Among

\* and those of two.
Two(a, b) == {TrajController(a), TrajController(b)} \cup GripperNames(a) \cup GripperNames(b)
\* Arms with different prefixes have different controllers.
LEMMA DualControllersAmong ==
  ASSUME NEW a, NEW b, a.prefix # b.prefix
  PROVE  /\ Different(<<TrajController(a), TrajController(b)>>)
         /\ Among(<<TrajController(a), TrajController(b)>>
                  \o GripperTrajController(a) \o GripperTrajController(b), Two(a, b))
         /\ Different(<<Broadcaster, TrajController(a), TrajController(b)>>
                      \o GripperTrajController(a) \o GripperTrajController(b))
         /\ Broadcaster \notin Two(a, b)
<1> DEFINE t == TrajController(a)
           u == TrajController(b)
           g == GripperTrajController(a)
           h == GripperTrajController(b)
           G == GripperNames(a)
           H == GripperNames(b)
<1>1. /\ t # Broadcaster /\ u # Broadcaster /\ t # u
      /\ Broadcaster \notin G /\ t \notin G /\ u \notin G
      /\ Broadcaster \notin H /\ t \notin H /\ u \notin H
      /\ G \cap H = {}
  BY ControllersDiffer
<1>2. Among(g, G) /\ Among(h, H)
  BY AmongGripper
<1>3. Two(a, b) = {t, u} \cup G \cup H
  BY DEF Two
<1> HIDE DEF t, u, g, h, G, H
<1>4. Among(<<t, u>>, {t, u}) /\ Among(<<Broadcaster, t, u>>, {Broadcaster, t, u})
  BY <1>1, AmongTwo, AmongThree
<1>5. {t, u} \cap G = {} /\ {Broadcaster, t, u} \cap G = {}
  BY <1>1
<1>6. Among(<<t, u>> \o g, {t, u} \cup G)
  BY <1>2, <1>4, <1>5, AmongConcat
<1>7. Among(<<Broadcaster, t, u>> \o g, {Broadcaster, t, u} \cup G)
  BY <1>2, <1>4, <1>5, AmongConcat
<1>8. ({t, u} \cup G) \cap H = {} /\ ({Broadcaster, t, u} \cup G) \cap H = {}
  BY <1>1
<1>9. Among(<<t, u>> \o g \o h, {t, u} \cup G \cup H)
  BY <1>2, <1>6, <1>8, AmongConcat
<1>10. Among(<<Broadcaster, t, u>> \o g \o h, {Broadcaster, t, u} \cup G \cup H)
  BY <1>2, <1>7, <1>8, AmongConcat
<1>11. Broadcaster \notin {t, u} \cup G \cup H
  BY <1>1
<1> QED BY <1>3, <1>4, <1>9, <1>10, <1>11 DEF t, u, g, h, Among

-----------------------------------------------------------------------------
(* What a file returns is in order. *)

\* The programs that are known.
LEMMA KnownKind ==
  /\ \A exe \in Programs \cup Others : Kind(exe) = exe
  /\ \A exe : exe \notin Programs \cup Others => Kind(exe) = "planner"
BY DEF Kind

\* One node of a file,
LEMMA NodeOrderly ==
  ASSUME NEW exe, NEW name, NEW file, NEW data
  PROVE  /\ Orderly(<<Node(Id(exe, name, file), data)>>, {Kind(exe)})
         /\ Neat(Node(Id(exe, name, file), data)) /\ Owns(Node(Id(exe, name, file), data), {Kind(exe)})
         /\ \A k : Claims(Node(Id(exe, name, file), data), k) <=> k = <<exe, name>>
<1> DEFINE id == Id(exe, name, file)
<1>1. id.exe = exe /\ Key(id) = <<exe, name>>
  BY DEF Id, Key
<1> HIDE DEF id
<1>2. /\ Neat(Node(id, data)) /\ Owns(Node(id, data), {Kind(exe)})
      /\ \A k : Claims(Node(id, data), k) <=> k = <<exe, name>>
  BY <1>1, NodeClaims
<1>3. Orderly(<<Node(id, data)>>, {Kind(exe)})
  BY <1>2, OrderlyOne
<1> QED BY <1>2, <1>3 DEF id

\* of a program that is known.
LEMMA ProgramOrderly ==
  ASSUME NEW exe \in Programs \cup Others, NEW name, NEW file, NEW data
  PROVE  /\ Orderly(<<Node(Id(exe, name, file), data)>>, {exe})
         /\ Neat(Node(Id(exe, name, file), data)) /\ Owns(Node(Id(exe, name, file), data), {exe})
BY NodeOrderly, KnownKind

\* The description,
LEMMA DescriptionOrderly ==
  ASSUME NEW c
  PROVE  Orderly(RobotDescriptionLaunch(c), {"robot_state_publisher"})
<1>1. "robot_state_publisher" \in Programs \cup Others
  BY DEF Programs
<1>2. \A data, file : Orderly(<<Node(RobotStatePublisher(file), data)>>, {"robot_state_publisher"})
  BY <1>1, ProgramOrderly DEF RobotStatePublisher
<1> QED BY <1>2 DEF RobotDescriptionLaunch

\* the controller manager,
LEMMA ControlOrderly ==
  ASSUME NEW c
  PROVE  Orderly(Ros2Control(c), {"ros2_control_node"}) /\ Orderly(DualRos2Control(c), {"ros2_control_node"})
<1>1. "ros2_control_node" \in Programs \cup Others
  BY DEF Programs
<1>2. \A file, data : Orderly(<<Node(Id("ros2_control_node", Unnamed, file), data)>>, {"ros2_control_node"})
  BY <1>1, ProgramOrderly
<1>3. Orderly(Raise, {"ros2_control_node"})
  BY RaiseOrderly
<1>4. Orderly(Ros2Control(c), {"ros2_control_node"})
  BY <1>2, <1>3 DEF Ros2Control
<1>5. Orderly(DualRos2Control(c), {"ros2_control_node"})
  BY <1>2, <1>3 DEF DualRos2Control
<1> QED BY <1>4, <1>5

\* the planner's program,
LEMMA PlannerProgram ==
  ASSUME NEW c, Known(c), NEW file, NEW data
  PROVE  Orderly(<<Node(Id(Arg(c, "node_executable", "xarm_planner_node"), Unnamed, file), data)>>,
                 {"planner"})
<1> DEFINE exe == Arg(c, "node_executable", "xarm_planner_node")
<1>1. exe \notin Programs \cup Others
  BY DEF Arg, Known, Programs, Others
<1> HIDE DEF exe
<1>2. Kind(exe) = "planner"
  BY <1>1, KnownKind
<1>3. Orderly(<<Node(Id(exe, Unnamed, file), data)>>, {"planner"})
  BY <1>2, NodeOrderly
<1> QED BY <1>3 DEF exe

\* the planners of one arm
LEMMA PlannerOrderly ==
  ASSUME NEW c, Known(c)
  PROVE  Orderly(RobotPlanner(c), Planners)
<1> DEFINE arm == Arm(c)
           moveit == Arg(c, "moveit_config_dump",
                         ToMoveItConfigs(arm, "fake_controllers", RealPlugin, Nothing))
           file == "_robot_planner"
           nodes == <<Node(Id(Arg(c, "node_executable", "xarm_planner_node"), Unnamed, file), moveit)>>
           grips == <<Node(Id("xarm_gripper_planner_node", GripperGroup(arm), file), moveit)>>
           asked == HasGripper(arm) /\ Arg(c, "use_gripper_node", arm.gripper)
<1>1. RobotPlanner(c) = Raise \/ RobotPlanner(c) = nodes \o When(asked, grips)
  BY DEF RobotPlanner
<1>2. Orderly(nodes, {"planner"})
  BY PlannerProgram
<1>3. Orderly(grips, {"xarm_gripper_planner_node"})
  <2>1. "xarm_gripper_planner_node" \in Programs \cup Others
    BY DEF Programs
  <2> QED BY <2>1, ProgramOrderly
<1> HIDE DEF nodes, grips, asked
<1>4. {"planner"} \cap {"xarm_gripper_planner_node"} = {}
      /\ {"planner"} \cup {"xarm_gripper_planner_node"} = Planners
  BY DEF Planners
<1>5. Orderly(nodes \o When(asked, grips), Planners)
  BY <1>2, <1>3, <1>4, OrderlyWhen, OrderlyConcat
<1> QED BY <1>1, <1>5, RaiseOrderly

\* and of two,
Mirrored(arms) == arms[1].prefix # arms[2].prefix
\* whose gripper nodes differ in the prefix.
LEMMA DualPlannerOrderly ==
  ASSUME NEW c, Known(c), Mirrored(Arms(c))
  PROVE  Orderly(DualRobotPlanner(c), Planners)
<1> DEFINE arms == Arms(c)
           moveit == Arg(c, "moveit_config_dump",
                         DualToMoveItConfigs(arms, "fake_controllers", RealPlugin, Nothing))
           file == "_dual_robot_planner"
           nodes == <<Node(Id(Arg(c, "node_executable", "xarm_planner_node"), Unnamed, file), moveit)>>
           group(arm) == Prefixed(arm.prefix, Name(arm.type, "", "_gripper"))
           asked(arm) == HasGripper(arm) /\ Arg(c, "use_gripper_node", Arm(c).gripper)
           grip(arm) == Node(Id("xarm_gripper_planner_node", group(arm), file), moveit)
           one(arm) == When(asked(arm), <<grip(arm)>>)
           X == {"xarm_gripper_planner_node"}
           a == arms[1]
           b == arms[2]
<1>1. DualRobotPlanner(c) = Raise \/ DualRobotPlanner(c) = nodes \o one(a) \o one(b)
  BY DEF DualRobotPlanner
<1>2. Orderly(nodes, {"planner"})
  BY PlannerProgram
<1>3. \A arm : Orderly(<<grip(arm)>>, X)
  <2>1. "xarm_gripper_planner_node" \in Programs \cup Others
    BY DEF Programs
  <2> QED BY <2>1, ProgramOrderly
<1>4. \A arm : \A k : Claims(grip(arm), k) <=> k = <<"xarm_gripper_planner_node", group(arm)>>
  BY NodeOrderly
<1>5. group(a) # group(b)
  <2>1. \A arm : group(arm)[1] = arm.prefix
    BY DEF Prefixed, Name
  <2>2. a.prefix # b.prefix
    BY DEF Mirrored
  <2> HIDE DEF group, a, b
  <2> QED BY <2>1, <2>2
<1>6. \A arm : Orderly(one(arm), X)
  <2> HIDE DEF grip, asked
  <2> QED BY <1>3, OrderlyWhen
<1>7. Cross(one(a), one(b))
  <2>1. Apart(grip(a), grip(b))
    <3> HIDE DEF grip, group, a, b
    <3>1. <<"xarm_gripper_planner_node", group(a)>> # <<"xarm_gripper_planner_node", group(b)>>
      BY <1>5
    <3> QED BY <1>4, <3>1 DEF Apart
  <2> DEFINE g == grip(a)
             h == grip(b)
  <2>2. 1 .. Len(<<g>>) = {1} /\ <<g>>[1] = g /\ 1 .. Len(<<h>>) = {1} /\ <<h>>[1] = h /\ 1 .. Len(<<>>) = {}
    <3> HIDE DEF g, h
    <3> QED OBVIOUS
  <2>3. one(a) \in {<<g>>, <<>>} /\ one(b) \in {<<h>>, <<>>}
    BY DEF When
  <2>4. Apart(g, h)
    BY <2>1
  <2> HIDE DEF g, h, one, a, b
  <2> QED BY <2>2, <2>3, <2>4 DEF Cross
<1> HIDE DEF nodes, one, a, b
<1>8. {"planner"} \cap X = {} /\ ({"planner"} \cup X) \cup X = Planners
  BY DEF Planners
<1>9. Orderly(nodes \o one(a), {"planner"} \cup X)
  BY <1>2, <1>6, <1>8, OrderlyConcat
<1>10. Cross(nodes \o one(a), one(b))
  <2>1. Cross(nodes, one(b))
    BY <1>2, <1>6, <1>8, OrderlyCross
  <2>2. Listing(nodes) /\ Listing(one(a))
    BY <1>2, <1>6 DEF Orderly
  <2> QED BY <1>7, <2>1, <2>2, CrossConcat
<1>11. Orderly(nodes \o one(a) \o one(b), ({"planner"} \cup X) \cup X)
  BY <1>6, <1>9, <1>10, OrderlyJoin
<1> QED BY <1>1, <1>8, <1>11, RaiseOrderly

\* RViz's handler, which starts nothing,
LEMMA ClosesOrderly ==
  ASSUME NEW file
  PROVE  Orderly(ClosesLaunch(file), {})
<1>1. Orderly(<<Shutdown>>, {})
  <2>1. Shutdown.kind = "shutdown"
    BY DEF Shutdown
  <2>2. Neat(Shutdown) /\ Owns(Shutdown, {})
    BY <2>1 DEF Neat, Owns, Claims
  <2> QED BY <2>2, OrderlyOne
<1>2. Rviz(file).exe \in Watched
  BY DEF Rviz, Id, Watched
<1>3. Neat(OnExit(Rviz(file), <<Shutdown>>)) /\ Owns(OnExit(Rviz(file), <<Shutdown>>), {})
  BY <1>1, <1>2, HandlerClaims
<1> QED BY <1>3, OrderlyOne DEF ClosesLaunch

\* RViz itself, unless it is hidden,
LEMMA RvizOrderly ==
  ASSUME NEW c, NEW default, NEW file, NEW data
  PROVE  Orderly(When(Arg(c, "show_rviz", default), <<Node(Rviz(file), data)>>),
                 IF Hidden(c) THEN {} ELSE {"rviz2"})
<1>1. "rviz2" \in Programs \cup Others
  BY DEF Others
<1>2. Orderly(<<Node(Rviz(file), data)>>, {"rviz2"})
  BY <1>1, ProgramOrderly DEF Rviz
<1> DEFINE s == <<Node(Rviz(file), data)>>
<1> HIDE DEF s
<1>3. CASE Hidden(c)
  <2>1. When(Arg(c, "show_rviz", default), s) = <<>>
    BY <1>3 DEF Hidden, Arg, When
  <2> QED BY <1>3, <2>1, OrderlyEmpty DEF s
<1>4. CASE ~Hidden(c)
  BY <1>2, <1>4, OrderlyWhen DEF s
<1> QED BY <1>3, <1>4

\* move_group's file for one arm
LEMMA CommonOrderly ==
  ASSUME NEW c
  PROVE  Orderly(RobotMoveitCommon2(c), OfCommon(c))
<1> DEFINE file == "_robot_moveit_common2"
           moveit == c["moveit_config_dump"]
           link == Prefixed(Arg(c, "prefix", ""), Name("", "", "link_base"))
           tf == Node(Id("static_transform_publisher", link, file), Nothing)
           mg == Node(Id("move_group", Unnamed, file), moveit)
           pl == Include("_robot_planner", [moveit_config_dump |-> moveit])
           a == ClosesLaunch(file)
           b == When(Arg(c, "show_rviz", TRUE), <<Node(Rviz(file), moveit)>>)
           d == When(Arg(c, "no_gui_ctrl", FALSE), <<pl>>)
           R == IF Hidden(c) THEN {} ELSE {"rviz2"}
           T == {"static_transform_publisher"} \cup {"move_group"}
<1>1. RobotMoveitCommon2(c) = a \o b \o <<tf, mg>> \o d
  BY DEF RobotMoveitCommon2
<1>2. Orderly(a, {}) /\ Orderly(b, R)
  BY ClosesOrderly, RvizOrderly
<1>3. Orderly(<<tf, mg>>, T)
  <2>1. "static_transform_publisher" \in Programs \cup Others /\ "move_group" \in Programs \cup Others
    BY DEF Programs, Others
  <2>2. /\ Neat(tf) /\ Owns(tf, {"static_transform_publisher"})
        /\ Neat(mg) /\ Owns(mg, {"move_group"})
    BY <2>1, ProgramOrderly
  <2> HIDE DEF tf, mg
  <2> QED BY <2>2, OrderlyTwo
<1>4. Orderly(d, Planners)
  <2>1. OfFile("_robot_planner", [moveit_config_dump |-> moveit]) = Planners
    BY DEF OfFile
  <2>2. Neat(pl) /\ Owns(pl, Planners)
    BY <2>1, IncludeClaims
  <2> HIDE DEF pl
  <2> QED BY <2>2, OrderlyOne, OrderlyWhen
<1> HIDE DEF a, b, tf, mg, d
<1>5. R \cap T = {} /\ (R \cup T) \cap Planners = {} /\ {} \cup R = R /\ {} \cap R = {}
      /\ (R \cup T) \cup Planners = OfCommon(c)
  BY DEF Planners, OfCommon
<1> HIDE DEF R, T
<1>6. Orderly(a \o b, {} \cup R)
  BY <1>2, <1>5, OrderlyConcat
<1>7. Orderly(a \o b \o <<tf, mg>>, R \cup T)
  BY <1>3, <1>5, <1>6, OrderlyConcat
<1>8. Orderly(a \o b \o <<tf, mg>> \o d, (R \cup T) \cup Planners)
  BY <1>4, <1>5, <1>7, OrderlyConcat
<1> QED BY <1>1, <1>5, <1>8

\* and for two,
LEMMA DualCommonOrderly ==
  ASSUME NEW c, Mirrored(Arms(c))
  PROVE  Orderly(DualRobotMoveitCommon2(c), OfCommon(c))
<1> DEFINE file == "_dual_robot_moveit_common2"
           moveit == c["moveit_config_dump"]
           link(arm) == Prefixed(arm.prefix, Name("", "", "link_base"))
           tf(arm) == Node(Id("static_transform_publisher", link(arm), file), Nothing)
           mg == Node(Id("move_group", Unnamed, file), moveit)
           a == ClosesLaunch(file)
           b == When(Arg(c, "show_rviz", TRUE), <<Node(Rviz(file), moveit)>>)
           R == IF Hidden(c) THEN {} ELSE {"rviz2"}
           S == {"static_transform_publisher"}
           M == {"move_group"}
           x == Arms(c)[1]
           y == Arms(c)[2]
<1>1. DualRobotMoveitCommon2(c) = a \o b \o <<tf(x), tf(y), mg>>
  BY DEF DualRobotMoveitCommon2
<1>2. Orderly(a, {}) /\ Orderly(b, R)
  BY ClosesOrderly, RvizOrderly
<1>3. "static_transform_publisher" \in Programs \cup Others /\ "move_group" \in Programs \cup Others
  BY DEF Programs, Others
<1>4. (\A arm : Orderly(<<tf(arm)>>, S)) /\ Orderly(<<mg>>, M)
  BY <1>3, ProgramOrderly
<1>5. \A arm : \A k : Claims(tf(arm), k) <=> k = <<"static_transform_publisher", link(arm)>>
  BY NodeOrderly
<1>6. link(x) # link(y)
  <2>1. \A arm : link(arm)[1] = arm.prefix
    BY DEF Prefixed, Name
  <2>2. x.prefix # y.prefix
    BY DEF Mirrored
  <2> HIDE DEF link, x, y
  <2> QED BY <2>1, <2>2
<1>7. Apart(tf(x), tf(y))
  <2> HIDE DEF tf, link, x, y
  <2>1. <<"static_transform_publisher", link(x)>> # <<"static_transform_publisher", link(y)>>
    BY <1>6
  <2> QED BY <1>5, <2>1 DEF Apart
<1> DEFINE t == tf(x)
           u == tf(y)
<1>8. Apart(t, u) /\ Orderly(<<t>>, S) /\ Orderly(<<u>>, S)
  BY <1>4, <1>7
<1>9. DualRobotMoveitCommon2(c) = a \o b \o <<t, u, mg>>
  BY <1>1
<1> HIDE DEF a, b, tf, mg, t, u
<1>10. Cross(<<t>>, <<u>>)
  <2>1. 1 .. Len(<<t>>) = {1} /\ <<t>>[1] = t /\ 1 .. Len(<<u>>) = {1} /\ <<u>>[1] = u
    OBVIOUS
  <2> QED BY <1>8, <2>1 DEF Cross
<1>11. Orderly(<<t>> \o <<u>>, S \cup S)
  BY <1>8, <1>10, OrderlyJoin
<1>12. S \cup S = S /\ S \cap M = {} /\ S \cup M = {"static_transform_publisher", "move_group"}
  OBVIOUS
<1> HIDE DEF S, M
<1>13. Orderly(<<t>> \o <<u>> \o <<mg>>, S \cup M)
  BY <1>4, <1>11, <1>12, OrderlyConcat
<1>14. <<t, u, mg>> = <<t>> \o <<u>> \o <<mg>>
  OBVIOUS
<1> DEFINE tail == <<t, u, mg>>
<1>15. Orderly(tail, S \cup M)
  BY <1>13, <1>14
<1> HIDE DEF tail
<1>16. {} \cap R = {} /\ {} \cup R = R /\ R \cap (S \cup M) = {} /\ R \cup (S \cup M) \subseteq OfCommon(c)
  BY <1>12 DEF OfCommon
<1> HIDE DEF R
<1>17. Orderly(a \o b, {} \cup R)
  BY <1>2, <1>16, OrderlyConcat
<1>18. Orderly(a \o b \o tail, R \cup (S \cup M))
  BY <1>15, <1>16, <1>17, OrderlyConcat
<1>19. Orderly(a \o b \o tail, OfCommon(c))
  BY <1>16, <1>18, OrderlyMore
<1> QED BY <1>9, <1>19 DEF tail

\* The simulators' files,
LEMMA BesideOrderly ==
  ASSUME NEW c, NEW file, NEW description, NEW controllers, Different(controllers),
         NEW bridges \in {<<>>, <<"parameter_bridge">>}
  PROVE  Orderly(BesideTable(c, file, description, controllers, bridges), OfTables)
<1> DEFINE rsp == RobotStatePublisher(file)
           spawners == When(Arg(c, "load_controller", FALSE), Spawners(controllers, file))
           start1 == OnStart(rsp, <<Node(Simulator(file), Nothing)>>)
           start2 == OnStart(rsp, <<Node(Create(file), Nothing)>>)
           bridge(i) == OnStart(rsp, <<Node(Id(bridges[i], Unnamed, file), Nothing)>>)
           links == [i \in 1 .. Len(bridges) |-> bridge(i)]
           rviz == OnExit(Create(file), <<Node(Rviz(file), Nothing)>>)
           shown == When(Arg(c, "show_rviz", FALSE), <<rviz>>)
           ended == OnExit(Create(file), spawners)
           loaded == When(spawners # <<>>, <<ended>>)
           node == Node(rsp, description)
           all == <<start1, start2>> \o links \o shown \o loaded \o <<node>>
<1>1. BesideTable(c, file, description, controllers, bridges) \in {Raise, all}
  BY DEF BesideTable
<1>2. /\ "gazebo" \in Programs \cup Others /\ "create" \in Programs \cup Others
      /\ "rviz2" \in Programs \cup Others /\ "parameter_bridge" \in Programs \cup Others
      /\ "robot_state_publisher" \in Programs \cup Others
  BY DEF Programs, Others
<1>3. rsp.exe \in Watched /\ Create(file).exe \in Watched
  BY DEF RobotStatePublisher, Create, Id, Watched
<1>4. Orderly(<<start1, start2>>, {"gazebo"} \cup {"create"})
  <2>1. Orderly(<<Node(Simulator(file), Nothing)>>, {"gazebo"})
    BY <1>2, ProgramOrderly DEF Simulator
  <2>2. Orderly(<<Node(Create(file), Nothing)>>, {"create"})
    BY <1>2, ProgramOrderly DEF Create
  <2> HIDE DEF rsp
  <2>3. /\ Neat(start1) /\ Owns(start1, {"gazebo"})
        /\ Neat(start2) /\ Owns(start2, {"create"})
    BY <1>3, <2>1, <2>2, HandlerClaims
  <2> HIDE DEF start1, start2
  <2> QED BY <2>3, OrderlyTwo
<1>5. Orderly(links, {"parameter_bridge"})
  <2>1. 1 .. Len(bridges) \subseteq {1} /\ Len(bridges) \in Nat
        /\ \A i \in 1 .. Len(bridges) : bridges[i] = "parameter_bridge"
    <3>1. 1 .. Len(<<>>) = {}
      OBVIOUS
    <3>2. 1 .. Len(<<"parameter_bridge">>) = {1} /\ <<"parameter_bridge">>[1] = "parameter_bridge"
      OBVIOUS
    <3> QED BY <3>1, <3>2
  <2>2. ASSUME NEW i \in 1 .. Len(bridges)
        PROVE  Neat(bridge(i)) /\ Owns(bridge(i), {"parameter_bridge"})
    <3> DEFINE do == <<Node(Id(bridges[i], Unnamed, file), Nothing)>>
    <3>1. Orderly(do, {"parameter_bridge"})
      BY <1>2, <2>1, ProgramOrderly
    <3> HIDE DEF do, rsp
    <3>2. Neat(OnStart(rsp, do)) /\ Owns(OnStart(rsp, do), {"parameter_bridge"})
      BY <1>3, <3>1, HandlerClaims
    <3> QED BY <3>2 DEF do
  <2> HIDE DEF bridge
  <2>3. links \in [1 .. Len(bridges) -> {bridge(i) : i \in 1 .. Len(bridges)}]
        /\ \A i \in 1 .. Len(bridges) : links[i] = bridge(i)
    OBVIOUS
  <2> HIDE DEF links
  <2>4. links \in Seq({bridge(i) : i \in 1 .. Len(bridges)}) /\ Len(links) = Len(bridges)
    BY <2>1, <2>3, IndexedSeq
  <2>5. Listing(links)
    BY <2>4, ListingSeq
  <2>6. Separate(links)
    BY <2>1, <2>4 DEF Separate
  <2> QED BY <2>2, <2>3, <2>4, <2>5, <2>6 DEF Orderly
<1>6. Orderly(shown, {"rviz2"})
  <2>1. Orderly(<<Node(Rviz(file), Nothing)>>, {"rviz2"})
    BY <1>2, ProgramOrderly DEF Rviz
  <2>2. Neat(rviz) /\ Owns(rviz, {"rviz2"})
    BY <1>3, <2>1, HandlerClaims
  <2> HIDE DEF rviz
  <2> QED BY <2>2, OrderlyOne, OrderlyWhen
<1>7. Orderly(loaded, {"spawner"})
  <2>1. Orderly(spawners, {"spawner"})
    BY SpawnersOrderly, OrderlyWhen
  <2> HIDE DEF spawners
  <2>2. Neat(ended) /\ Owns(ended, {"spawner"})
    BY <1>3, <2>1, HandlerClaims
  <2> HIDE DEF ended
  <2> QED BY <2>2, OrderlyOne, OrderlyWhen
<1>8. Orderly(<<node>>, {"robot_state_publisher"})
  BY <1>2, ProgramOrderly DEF RobotStatePublisher
<1> DEFINE A == {"gazebo"} \cup {"create"}
           B == A \cup {"parameter_bridge"}
           C == B \cup {"rviz2"}
           D == C \cup {"spawner"}
<1>9. /\ A \cap {"parameter_bridge"} = {} /\ B \cap {"rviz2"} = {} /\ C \cap {"spawner"} = {}
      /\ D \cap {"robot_state_publisher"} = {} /\ D \cup {"robot_state_publisher"} = OfTables
  BY DEF OfTables
<1> HIDE DEF start1, start2, links, shown, loaded, node
<1>10. Orderly(<<start1, start2>> \o links, B)
  <2> HIDE DEF A
  <2> QED BY <1>4, <1>5, <1>9, OrderlyConcat DEF A
<1> HIDE DEF B
<1>11. Orderly(<<start1, start2>> \o links \o shown, C)
  BY <1>6, <1>9, <1>10, OrderlyConcat
<1> HIDE DEF C
<1>12. Orderly(<<start1, start2>> \o links \o shown \o loaded, D)
  BY <1>7, <1>9, <1>11, OrderlyConcat
<1> HIDE DEF D
<1>13. Orderly(all, OfTables)
  BY <1>8, <1>9, <1>12, OrderlyConcat
<1> HIDE DEF all
<1> QED BY <1>1, <1>13, RaiseOrderly

\* with their controllers.
LEMMA TableOrderly ==
  ASSUME NEW c
  PROVE  /\ \A file \in SingleTables : Orderly(Entities(file, c), OfTables)
         /\ Mirrored(Arms(c)) => \A file \in DualTables : Orderly(Entities(file, c), OfTables)
<1>1. ASSUME NEW file \in SingleTables
      PROVE  Orderly(Entities(file, c), OfTables)
  <2>1. PICK plugin, bridges :
          /\ bridges \in {<<>>, <<"parameter_bridge">>}
          /\ Entities(file, c)
             = BesideTable(c, file, GivenDescription(c, OwnDescription(c, plugin)),
                           ArmControllers(c), bridges)
    BY TableShape
  <2>2. Different(ArmControllers(c))
    BY ArmControllersAmong DEF ArmControllers
  <2> QED BY <2>1, <2>2, BesideOrderly
<1>2. ASSUME Mirrored(Arms(c)), NEW file \in DualTables
      PROVE  Orderly(Entities(file, c), OfTables)
  <2>1. PICK plugin, bridges :
          /\ bridges \in {<<>>, <<"parameter_bridge">>}
          /\ Entities(file, c)
             = BesideTable(c, file, GivenDescription(c, DualOwnDescription(c, plugin)),
                           DualArmControllers(c), bridges)
    BY TableShape
  <2>2. Different(DualArmControllers(c))
    BY <1>2, DualControllersAmong DEF DualArmControllers, Mirrored
  <2> QED BY <2>1, <2>2, BesideOrderly
<1> QED BY <1>1, <1>2

\* A file that is included.
LEMMA IncludedOrderly ==
  ASSUME NEW c, NEW args, Known(Updated(c, args)),
         NEW file \in {"_robot_description", "_ros2_control", "_dual_ros2_control", "_robot_planner",
                       "_robot_moveit_common2", "_dual_robot_moveit_common2"}
                      \cup SingleTables \cup DualTables,
         file \in {"_dual_robot_moveit_common2"} \cup DualTables => Mirrored(Arms(Updated(c, args)))
  PROVE  Orderly(Entities(file, Updated(c, args)), OfFile(file, args))
<1> DEFINE new == Updated(c, args)
<1>1. OfCommon(new) \subseteq OfCommon(args)
  BY DEF OfCommon, Hidden, Updated
<1>2. Known(new) /\ (file \in {"_dual_robot_moveit_common2"} \cup DualTables => Mirrored(Arms(new)))
  OBVIOUS
<1> HIDE DEF new
<1>3. CASE file = "_robot_description"
  BY <1>3, DescriptionOrderly DEF Entities, OfFile, new
<1>4. CASE file = "_ros2_control"
  BY <1>4, ControlOrderly DEF Entities, OfFile, new
<1>5. CASE file = "_dual_ros2_control"
  BY <1>5, ControlOrderly DEF Entities, OfFile, new
<1>6. CASE file = "_robot_planner"
  <2>1. Entities(file, new) = RobotPlanner(new) /\ OfFile(file, args) = Planners
    BY <1>6 DEF Entities, OfFile
  <2> QED BY <1>2, <2>1, PlannerOrderly DEF new
<1>7. CASE file = "_robot_moveit_common2"
  <2>1. Entities(file, new) = RobotMoveitCommon2(new) /\ OfFile(file, args) = OfCommon(args)
    BY <1>7 DEF Entities, OfFile
  <2> QED BY <1>1, <2>1, CommonOrderly, OrderlyMore DEF new
<1>8. CASE file = "_dual_robot_moveit_common2"
  <2>1. Entities(file, new) = DualRobotMoveitCommon2(new) /\ OfFile(file, args) = OfCommon(args)
    BY <1>8 DEF Entities, OfFile
  <2> QED BY <1>1, <1>2, <1>8, <2>1, DualCommonOrderly, OrderlyMore DEF new
<1>9. CASE file \in SingleTables \cup DualTables
  <2>1. OfFile(file, args) = OfTables
    BY <1>9 DEF OfFile, SingleTables, DualTables
  <2> QED BY <1>2, <1>9, <2>1, TableOrderly DEF new
<1> QED BY <1>3, <1>4, <1>5, <1>6, <1>7, <1>8, <1>9

\* A list in order, whatever it starts.
Anything == Programs \cup Others \cup {"planner"}
Tidy(s) == Orderly(s, Anything)
\* One that starts certain programs is such a list.
LEMMA TidyOf ==
  ASSUME NEW s, NEW X, Orderly(s, X)
  PROVE  Tidy(s)
BY DEF Tidy, Orderly, Owns, Kind, Anything

\* The spawners come in two lists with others between them.
LEMMA TidySpawners ==
  ASSUME NEW p, NEW P, Orderly(p, P), NEW q, NEW Q, Orderly(q, Q), NEW S,
         NEW s, Orderly(s, S), NEW t, Orderly(t, S), Cross(s, t),
         P \cap Q = {}, P \cap S = {}, Q \cap S = {}
  PROVE  Tidy(p \o s \o q \o t)
<1>1. Orderly(p \o s, P \cup S)
  BY OrderlyConcat
<1>2. (P \cup S) \cap Q = {}
  OBVIOUS
<1>3. Orderly(p \o s \o q, (P \cup S) \cup Q)
  BY <1>1, <1>2, OrderlyConcat
<1>4. Listing(p) /\ Listing(s) /\ Listing(q) /\ Listing(p \o s)
  BY <1>1 DEF Orderly
<1>5. Cross(p, t) /\ Cross(q, t)
  BY OrderlyCross
<1>6. Cross(p \o s, t)
  BY <1>4, <1>5, CrossConcat
<1>7. Cross(p \o s \o q, t)
  BY <1>4, <1>5, <1>6, CrossConcat
<1>8. Orderly(p \o s \o q \o t, ((P \cup S) \cup Q) \cup S)
  BY <1>3, <1>7, OrderlyJoin
<1> QED BY <1>8, TidyOf

\* The includes of the MoveIt files: move_group's file,
Commons == {"static_transform_publisher", "move_group"} \cup Planners
\* which starts RViz only when it is shown.
LEMMA CommonOwns ==
  ASSUME NEW file \in {"_robot_moveit_common2", "_dual_robot_moveit_common2"}, NEW args
  PROVE  /\ Neat(Include(file, args)) /\ Owns(Include(file, args), Commons \cup {"rviz2"})
         /\ Hidden(args) => Owns(Include(file, args), Commons)
<1>1. OfFile(file, args) = OfCommon(args)
  BY DEF OfFile
<1>2. /\ OfCommon(args) \subseteq Commons \cup {"rviz2"}
      /\ Hidden(args) => OfCommon(args) \subseteq Commons
  BY DEF OfCommon, Commons
<1>3. Neat(Include(file, args)) /\ Owns(Include(file, args), OfFile(file, args))
  BY IncludeClaims
<1> DEFINE e == Include(file, args)
<1> HIDE DEF e
<1>4. Neat(e) /\ Owns(e, OfFile(file, args))
  BY <1>3 DEF e
<1>5. Owns(e, Commons \cup {"rviz2"}) /\ (Hidden(args) => Owns(e, Commons))
  BY <1>1, <1>2, <1>4 DEF Owns
<1> QED BY <1>4, <1>5 DEF e

\* the description's and the controller manager's.
LEMMA OtherOwns ==
  ASSUME NEW args
  PROVE  /\ Neat(Include("_robot_description", args))
         /\ Owns(Include("_robot_description", args), {"robot_state_publisher"})
         /\ \A file \in {"_ros2_control", "_dual_ros2_control"} :
              Neat(Include(file, args)) /\ Owns(Include(file, args), {"ros2_control_node"})
         /\ \A file \in SingleTables \cup DualTables :
              Neat(Include(file, args)) /\ Owns(Include(file, args), OfTables)
<1>1. OfFile("_robot_description", args) = {"robot_state_publisher"}
  BY DEF OfFile
<1>2. \A file \in {"_ros2_control", "_dual_ros2_control"} : OfFile(file, args) = {"ros2_control_node"}
  BY DEF OfFile
<1>3. \A file \in SingleTables \cup DualTables : OfFile(file, args) = OfTables
  BY DEF OfFile, SingleTables, DualTables
<1> QED BY <1>1, <1>2, <1>3, IncludeClaims

\* The broadcaster's spawner and those of the other controllers.
LEMMA BroadcasterCross ==
  ASSUME NEW own, NEW N, Among(own, N), Broadcaster \notin N, NEW file
  PROVE  /\ Orderly(Spawners(<<Broadcaster>>, file), {"spawner"})
         /\ Orderly(Spawners(own, file), {"spawner"})
         /\ Cross(Spawners(<<Broadcaster>>, file), Spawners(own, file))
<1> DEFINE bc == <<Broadcaster>>
<1>1. Among(bc, {Broadcaster})
  BY AmongOne
<1> HIDE DEF bc
<1>2. \A i \in 1 .. Len(bc) : \A j \in 1 .. Len(own) : bc[i] # own[j]
  BY <1>1 DEF Among
<1>3. Different(bc) /\ Different(own)
  BY <1>1 DEF Among
<1>4. Cross(Spawners(bc, file), Spawners(own, file))
  BY <1>2, <1>3, SpawnersCross
<1>5. Orderly(Spawners(bc, file), {"spawner"}) /\ Orderly(Spawners(own, file), {"spawner"})
  BY <1>3, SpawnersOrderly
<1> QED BY <1>4, <1>5 DEF bc

\* _robot_moveit_fake,
LEMMA FakeTidy ==
  ASSUME NEW c
  PROVE  Tidy(RobotMoveitFake(c))
<1> DEFINE file == "_robot_moveit_fake"
           arm == Arm(c)
           params == GenerateRos2ControlParams(XArmType(arm), arm)
           moveit == ToMoveItConfigs(arm, "fake_controllers", FakePlugin, params)
           a == Include("_robot_description", [robot_description |-> moveit.description])
           b == Include("_robot_moveit_common2", Common2Args(arm, c, moveit))
           d == Include("_ros2_control", ControlArgs(moveit, params))
           s == Spawners(<<Broadcaster>>, file)
           own == <<TrajController(arm)>> \o GripperTrajController(arm)
           t == Spawners(own, file)
           all == <<a, b>> \o s \o <<d>> \o t
           P == {"robot_state_publisher"} \cup (Commons \cup {"rviz2"})
<1>1. RobotMoveitFake(c) \in {Raise, all}
  BY DEF RobotMoveitFake
<1>2. Neat(a) /\ Owns(a, {"robot_state_publisher"}) /\ Neat(d) /\ Owns(d, {"ros2_control_node"})
  BY OtherOwns
<1>3. Neat(b) /\ Owns(b, Commons \cup {"rviz2"})
  BY CommonOwns
<1>4. Orderly(s, {"spawner"}) /\ Orderly(t, {"spawner"}) /\ Cross(s, t)
  <2>1. Among(own, {TrajController(arm)} \cup GripperNames(arm))
    BY ArmControllersAmong
  <2>2. Broadcaster \notin {TrajController(arm)} \cup GripperNames(arm)
    BY ControllersDiffer
  <2> HIDE DEF own
  <2> QED BY <2>1, <2>2, BroadcasterCross
<1> HIDE DEF a, b, d, s, t
<1>5. {"robot_state_publisher"} \cap (Commons \cup {"rviz2"}) = {}
      /\ P \cap {"ros2_control_node"} = {} /\ P \cap {"spawner"} = {}
      /\ {"ros2_control_node"} \cap {"spawner"} = {}
  BY DEF Commons, Planners
<1>6. Orderly(<<a, b>>, P) /\ Orderly(<<d>>, {"ros2_control_node"})
  BY <1>2, <1>3, <1>5, OrderlyTwo, OrderlyOne
<1> HIDE DEF P
<1>7. Tidy(all)
  BY <1>4, <1>5, <1>6, TidySpawners
<1> HIDE DEF all
<1> QED BY <1>1, <1>7, RaiseOrderly, TidyOf

\* _robot_moveit_realmove,
LEMMA RealmoveTidy ==
  ASSUME NEW c
  PROVE  Tidy(RobotMoveitRealmove(c))
<1> DEFINE file == "_robot_moveit_realmove"
           arm == Arm(c)
           params == GenerateRos2ControlParams(XArmType(arm), arm)
           moveit == ToMoveItConfigs(arm, "controllers", RealPlugin, params)
           a == Include("_robot_description", [robot_description |-> moveit.description])
           b == Include("_robot_moveit_common2", Common2Args(arm, c, moveit))
           n == Node(Id("joint_state_publisher", Unnamed, file), Nothing)
           d == Include("_ros2_control", ControlArgs(moveit, params))
           s == Spawners(<<TrajController(arm)>>, file)
           all == <<a, b, n, d>> \o s
           P == {"robot_state_publisher"} \cup (Commons \cup {"rviz2"})
           Q == {"joint_state_publisher"} \cup {"ros2_control_node"}
<1>1. RobotMoveitRealmove(c) \in {Raise, all}
  BY DEF RobotMoveitRealmove
<1>2. Neat(a) /\ Owns(a, {"robot_state_publisher"}) /\ Neat(d) /\ Owns(d, {"ros2_control_node"})
  BY OtherOwns
<1>3. Neat(b) /\ Owns(b, Commons \cup {"rviz2"})
  BY CommonOwns
<1>4. Neat(n) /\ Owns(n, {"joint_state_publisher"})
  <2>1. "joint_state_publisher" \in Programs \cup Others
    BY DEF Others
  <2> QED BY <2>1, ProgramOrderly
<1>5. Orderly(s, {"spawner"})
  BY AmongOne, SpawnersOrderly DEF Among
<1> HIDE DEF a, b, n, d, s
<1>6. {"robot_state_publisher"} \cap (Commons \cup {"rviz2"}) = {} /\ P \cap Q = {}
      /\ {"joint_state_publisher"} \cap {"ros2_control_node"} = {}
      /\ (P \cup Q) \cap {"spawner"} = {}
  BY DEF Commons, Planners
<1>7. Orderly(<<a, b>>, P) /\ Orderly(<<n, d>>, Q)
  BY <1>2, <1>3, <1>4, <1>6, OrderlyTwo
<1> HIDE DEF P, Q
<1>8. <<a, b, n, d>> = <<a, b>> \o <<n, d>>
  OBVIOUS
<1> DEFINE first == <<a, b, n, d>>
<1>9. Orderly(<<a, b>> \o <<n, d>>, P \cup Q)
  BY <1>6, <1>7, OrderlyConcat
<1>10. Orderly(first, P \cup Q)
  BY <1>8, <1>9
<1> HIDE DEF first
<1>11. Orderly(first \o s, (P \cup Q) \cup {"spawner"})
  BY <1>5, <1>6, <1>10, OrderlyConcat
<1>12. Tidy(first \o s)
  BY <1>11, TidyOf
<1> QED BY <1>1, <1>12, RaiseOrderly, TidyOf DEF first

\* their simulated like,
LEMMA SimulatedTidy ==
  ASSUME NEW c, NEW plugin, NEW table \in SingleTables
  PROVE  Tidy(SimulatedMoveit(c, plugin, table))
<1> DEFINE arm == Arm(c)
           params == GenerateRos2ControlParams(XArmType(arm), arm)
           moveit == ToMoveItConfigs(arm, "fake_controllers", plugin, params)
           args == [dof |-> arm.dof, robot_type |-> arm.type, prefix |-> arm.prefix,
                    moveit_config_dump |-> moveit, load_controller |-> TRUE,
                    show_rviz |-> TRUE, no_gui_ctrl |-> Arg(c, "no_gui_ctrl", FALSE)]
           more == Updated(Common2Args(arm, c, moveit), [show_rviz |-> FALSE])
           a == Include(table, args)
           b == Include("_robot_moveit_common2", more)
<1>1. SimulatedMoveit(c, plugin, table) \in {Raise, <<a, b>>}
  BY DEF SimulatedMoveit
<1>2. Hidden(more)
  BY DEF Hidden, Updated
<1> HIDE DEF args, more
<1>3. Neat(a) /\ Owns(a, OfTables)
  BY OtherOwns
<1>4. Neat(b) /\ Owns(b, Commons)
  BY <1>2, CommonOwns
<1>5. OfTables \cap Commons = {}
  BY DEF OfTables, Commons, Planners
<1> HIDE DEF a, b
<1>6. Tidy(<<a, b>>)
  BY <1>3, <1>4, <1>5, OrderlyTwo, TidyOf
<1> QED BY <1>1, <1>6, RaiseOrderly, TidyOf
\* of two arms,
LEMMA DualSimulatedTidy ==
  ASSUME NEW c, NEW moveit, NEW table \in DualTables
  PROVE  Tidy(DualSimulatedMoveit(c, moveit, table))
<1> DEFINE arms == Arms(c)
           args == [dof_1 |-> arms[1].dof, dof_2 |-> arms[2].dof,
                    robot_type_1 |-> arms[1].type, robot_type_2 |-> arms[2].type,
                    prefix_1 |-> arms[1].prefix, prefix_2 |-> arms[2].prefix,
                    moveit_config_dump |-> moveit, load_controller |-> TRUE,
                    show_rviz |-> TRUE, no_gui_ctrl |-> Arg(c, "no_gui_ctrl", FALSE)]
           more == Updated(DualCommon2Args(arms, c, moveit), [show_rviz |-> FALSE])
           a == Include(table, args)
           b == Include("_dual_robot_moveit_common2", more)
<1>1. DualSimulatedMoveit(c, moveit, table) \in {Raise, <<a, b>>}
  BY DEF DualSimulatedMoveit
<1>2. Hidden(more)
  BY DEF Hidden, Updated
<1> HIDE DEF args, more
<1>3. Neat(a) /\ Owns(a, OfTables)
  BY OtherOwns
<1>4. Neat(b) /\ Owns(b, Commons)
  BY <1>2, CommonOwns
<1>5. OfTables \cap Commons = {}
  BY DEF OfTables, Commons, Planners
<1> HIDE DEF a, b
<1>6. Tidy(<<a, b>>)
  BY <1>3, <1>4, <1>5, OrderlyTwo, TidyOf
<1> QED BY <1>1, <1>6, RaiseOrderly, TidyOf

\* Of two controllers' spawners.
LEMMA TwoSpawners ==
  ASSUME NEW a, NEW b, a.prefix # b.prefix, NEW file
  PROVE  Orderly(Spawners(<<TrajController(a), TrajController(b)>>, file), {"spawner"})
<1>1. Different(<<TrajController(a), TrajController(b)>>)
  BY DualControllersAmong
<1> QED BY <1>1, SpawnersOrderly

\* Two nodes or includes of two programs, one and two more.
LEMMA OrderlyThree ==
  ASSUME NEW X, NEW Y, NEW Z, NEW a, NEW b, NEW c, Neat(a), Owns(a, X), Neat(b), Owns(b, Y),
         Neat(c), Owns(c, Z), X \cap Y = {}, (X \cup Y) \cap Z = {}
  PROVE  Orderly(<<a, b, c>>, (X \cup Y) \cup Z)
<1>1. <<a, b, c>> = <<a, b>> \o <<c>>
  OBVIOUS
<1>2. Orderly(<<a, b>>, X \cup Y) /\ Orderly(<<c>>, Z)
  BY OrderlyTwo, OrderlyOne
<1>3. Orderly(<<a, b>> \o <<c>>, (X \cup Y) \cup Z)
  BY <1>2, OrderlyConcat
<1> QED BY <1>1, <1>3

\* _dual_robot_moveit_fake,
LEMMA DualFakeTidy ==
  ASSUME NEW c, Mirrored(Arms(c))
  PROVE  Tidy(DualRobotMoveitFake(c))
<1> DEFINE file == "_dual_robot_moveit_fake"
           arms == Arms(c)
           x == arms[1]
           y == arms[2]
           moveit == DualFakeConfigs(c).moveit
           params == DualFakeConfigs(c).params
           a == Node(RobotStatePublisher(file), moveit.description)
           b == Include("_dual_robot_moveit_common2", DualCommon2Args(arms, c, moveit))
           d == Include("_dual_ros2_control", ControlArgs(moveit, params))
           s == Spawners(<<Broadcaster>>, file)
           own == <<TrajController(x), TrajController(y)>>
                  \o GripperTrajController(x) \o GripperTrajController(y)
           t == Spawners(own, file)
           all == <<a, b>> \o s \o <<d>> \o t
           P == {"robot_state_publisher"} \cup (Commons \cup {"rviz2"})
<1>1. DualRobotMoveitFake(c) \in {Raise, all}
  BY DEF DualRobotMoveitFake
<1>2. Neat(a) /\ Owns(a, {"robot_state_publisher"})
  <2>1. "robot_state_publisher" \in Programs \cup Others
    BY DEF Programs
  <2> QED BY <2>1, ProgramOrderly DEF RobotStatePublisher
<1>3. Neat(b) /\ Owns(b, Commons \cup {"rviz2"})
  BY CommonOwns
<1>4. Orderly(s, {"spawner"}) /\ Orderly(t, {"spawner"}) /\ Cross(s, t)
  <2>1. x.prefix # y.prefix
    BY DEF Mirrored
  <2> HIDE DEF x, y
  <2>2. Among(own, Two(x, y)) /\ Broadcaster \notin Two(x, y)
    BY <2>1, DualControllersAmong
  <2> HIDE DEF own
  <2> QED BY <2>2, BroadcasterCross
<1>5. Neat(d) /\ Owns(d, {"ros2_control_node"})
  BY OtherOwns
<1> HIDE DEF a, b, d, s, t
<1>6. {"robot_state_publisher"} \cap (Commons \cup {"rviz2"}) = {}
      /\ P \cap {"ros2_control_node"} = {} /\ P \cap {"spawner"} = {}
      /\ {"ros2_control_node"} \cap {"spawner"} = {}
  BY DEF Commons, Planners
<1>7. Orderly(<<a, b>>, P) /\ Orderly(<<d>>, {"ros2_control_node"})
  BY <1>2, <1>3, <1>5, <1>6, OrderlyTwo, OrderlyOne
<1> HIDE DEF P
<1>8. Tidy(all)
  BY <1>4, <1>6, <1>7, TidySpawners
<1> HIDE DEF all
<1> QED BY <1>1, <1>8, RaiseOrderly, TidyOf

\* _dual_robot_moveit_realmove,
LEMMA DualRealmoveTidy ==
  ASSUME NEW c, Mirrored(Arms(c))
  PROVE  Tidy(DualRobotMoveitRealmove(c))
<1> DEFINE file == "_dual_robot_moveit_realmove"
           arms == Arms(c)
           x == arms[1]
           y == arms[2]
           moveit == DualRealmoveConfigs(c).moveit
           params == DualRealmoveConfigs(c).params
           a == Node(RobotStatePublisher(file), moveit.description)
           b == Include("_dual_robot_moveit_common2", DualCommon2Args(arms, c, moveit))
           n == Node(Id("joint_state_publisher", Unnamed, file), Nothing)
           d == Include("_dual_ros2_control", ControlArgs(moveit, params))
           s == Spawners(<<TrajController(x), TrajController(y)>>, file)
           all == <<a, b, n, d>> \o s
           P == {"robot_state_publisher"} \cup (Commons \cup {"rviz2"})
           Q == {"joint_state_publisher"} \cup {"ros2_control_node"}
<1>1. DualRobotMoveitRealmove(c) \in {Raise, all}
  BY DEF DualRobotMoveitRealmove
<1>2. Neat(a) /\ Owns(a, {"robot_state_publisher"})
  <2>1. "robot_state_publisher" \in Programs \cup Others
    BY DEF Programs
  <2> QED BY <2>1, ProgramOrderly DEF RobotStatePublisher
<1>3. Neat(b) /\ Owns(b, Commons \cup {"rviz2"})
  BY CommonOwns
<1>4. Neat(n) /\ Owns(n, {"joint_state_publisher"})
  <2>1. "joint_state_publisher" \in Programs \cup Others
    BY DEF Others
  <2> QED BY <2>1, ProgramOrderly
<1>5. Neat(d) /\ Owns(d, {"ros2_control_node"})
  BY OtherOwns
<1>6. Orderly(s, {"spawner"})
  <2>1. x.prefix # y.prefix
    BY DEF Mirrored
  <2> HIDE DEF x, y
  <2> QED BY <2>1, TwoSpawners
<1> HIDE DEF a, b, n, d, s
<1>7. {"robot_state_publisher"} \cap (Commons \cup {"rviz2"}) = {} /\ P \cap Q = {}
      /\ {"joint_state_publisher"} \cap {"ros2_control_node"} = {}
      /\ (P \cup Q) \cap {"spawner"} = {}
  BY DEF Commons, Planners
<1>8. Orderly(<<a, b>>, P) /\ Orderly(<<n, d>>, Q)
  BY <1>2, <1>3, <1>4, <1>5, <1>7, OrderlyTwo
<1> HIDE DEF P, Q
<1>9. <<a, b, n, d>> = <<a, b>> \o <<n, d>>
  OBVIOUS
<1> DEFINE first == <<a, b, n, d>>
<1>10. Orderly(<<a, b>> \o <<n, d>>, P \cup Q)
  BY <1>7, <1>8, OrderlyConcat
<1>11. Orderly(first, P \cup Q)
  BY <1>9, <1>10
<1> HIDE DEF first
<1>12. Orderly(first \o s, (P \cup Q) \cup {"spawner"})
  BY <1>6, <1>7, <1>11, OrderlyConcat
<1>13. Tidy(first \o s)
  BY <1>12, TidyOf
<1> QED BY <1>1, <1>13, RaiseOrderly, TidyOf DEF first

\* _robot_moveit_servo_fake
LEMMA ServoFakeTidy ==
  ASSUME NEW c
  PROVE  Tidy(RobotMoveitServoFake(c))
<1> DEFINE file == "_robot_moveit_servo_fake"
           arm == Arm(c)
           configs == ServoFakeConfigs(c)
           r == Node(Rviz(file), configs.moveit)
           d == Include("_ros2_control", ControlArgs(configs.moveit, configs.params))
           v == Node(Id("servo", Unnamed, file), [output |-> TrajController(arm)])
           j == Node(Id("xarm_joystick_input_node", Unnamed, file), Nothing)
           s == Spawners(<<Broadcaster>>, file)
           own == <<TrajController(arm)>> \o GripperTrajController(arm)
           t == Spawners(own, file)
           all == <<r>> \o s \o <<d, v, j>> \o t
           Q == ({"ros2_control_node"} \cup {"servo"}) \cup {"xarm_joystick_input_node"}
<1>1. RobotMoveitServoFake(c) \in {Raise, all}
  BY DEF RobotMoveitServoFake
<1>2. /\ Orderly(<<r>>, {"rviz2"}) /\ Neat(v) /\ Owns(v, {"servo"})
      /\ Neat(j) /\ Owns(j, {"xarm_joystick_input_node"})
  <2>1. {"rviz2", "servo", "xarm_joystick_input_node"} \subseteq Programs \cup Others
    BY DEF Others
  <2> QED BY <2>1, ProgramOrderly DEF Rviz
<1>3. Neat(d) /\ Owns(d, {"ros2_control_node"})
  BY OtherOwns
<1>4. Orderly(s, {"spawner"}) /\ Orderly(t, {"spawner"}) /\ Cross(s, t)
  <2>1. Among(own, {TrajController(arm)} \cup GripperNames(arm))
    BY ArmControllersAmong
  <2>2. Broadcaster \notin {TrajController(arm)} \cup GripperNames(arm)
    BY ControllersDiffer
  <2> HIDE DEF own
  <2> QED BY <2>1, <2>2, BroadcasterCross
<1> HIDE DEF r, d, v, j, s, t
<1>5. /\ {"ros2_control_node"} \cap {"servo"} = {}
      /\ ({"ros2_control_node"} \cup {"servo"}) \cap {"xarm_joystick_input_node"} = {}
      /\ {"rviz2"} \cap Q = {} /\ {"rviz2"} \cap {"spawner"} = {} /\ Q \cap {"spawner"} = {}
  OBVIOUS
<1>6. Orderly(<<d, v, j>>, Q)
  BY <1>2, <1>3, <1>5, OrderlyThree
<1> HIDE DEF Q
<1> DEFINE first == <<r>>
           middle == <<d, v, j>>
<1>7. Orderly(first, {"rviz2"}) /\ Orderly(middle, Q)
  BY <1>2, <1>6
<1> HIDE DEF first, middle
<1>8. Tidy(first \o s \o middle \o t)
  BY <1>4, <1>5, <1>7, TidySpawners
<1> QED BY <1>1, <1>8, RaiseOrderly, TidyOf DEF first, middle

\* and the real robot's.
LEMMA ServoRealmoveTidy ==
  ASSUME NEW c
  PROVE  Tidy(RobotMoveitServoRealmove(c))
<1> DEFINE file == "_robot_moveit_servo_realmove"
           arm == Arm(c)
           configs == ServoRealmoveConfigs(c)
           r == Node(Rviz(file), configs.moveit)
           n == Node(Id("joint_state_publisher", Unnamed, file), Nothing)
           d == Include("_ros2_control", ControlArgs(configs.moveit, configs.params))
           v == Node(Id("servo", Unnamed, file), [output |-> TrajController(arm)])
           j == Node(Id("xarm_joystick_input_node", Unnamed, file), Nothing)
           s == Spawners(<<TrajController(arm)>>, file)
           all == <<r, n, d, v, j>> \o s
           P == {"rviz2"} \cup {"joint_state_publisher"}
           Q == ({"ros2_control_node"} \cup {"servo"}) \cup {"xarm_joystick_input_node"}
<1>1. RobotMoveitServoRealmove(c) \in {Raise, all}
  BY DEF RobotMoveitServoRealmove
<1>2. /\ Neat(r) /\ Owns(r, {"rviz2"}) /\ Neat(n) /\ Owns(n, {"joint_state_publisher"})
      /\ Neat(v) /\ Owns(v, {"servo"}) /\ Neat(j) /\ Owns(j, {"xarm_joystick_input_node"})
  <2>1. {"rviz2", "joint_state_publisher", "servo", "xarm_joystick_input_node"} \subseteq Programs \cup Others
    BY DEF Others
  <2> QED BY <2>1, ProgramOrderly DEF Rviz
<1>3. Neat(d) /\ Owns(d, {"ros2_control_node"})
  BY OtherOwns
<1>4. Orderly(s, {"spawner"})
  BY AmongOne, SpawnersOrderly DEF Among
<1> HIDE DEF r, n, d, v, j, s
<1>5. /\ {"ros2_control_node"} \cap {"servo"} = {}
      /\ ({"ros2_control_node"} \cup {"servo"}) \cap {"xarm_joystick_input_node"} = {}
      /\ {"rviz2"} \cap {"joint_state_publisher"} = {} /\ P \cap Q = {} /\ (P \cup Q) \cap {"spawner"} = {}
  OBVIOUS
<1>6. Orderly(<<r, n>>, P) /\ Orderly(<<d, v, j>>, Q)
  BY <1>2, <1>3, <1>5, OrderlyTwo, OrderlyThree
<1> HIDE DEF P, Q
<1>7. <<r, n, d, v, j>> = <<r, n>> \o <<d, v, j>>
  OBVIOUS
<1> DEFINE first == <<r, n, d, v, j>>
<1>8. Orderly(<<r, n>> \o <<d, v, j>>, P \cup Q)
  BY <1>5, <1>6, OrderlyConcat
<1>9. Orderly(first, P \cup Q)
  BY <1>7, <1>8
<1> HIDE DEF first
<1>10. Orderly(first \o s, (P \cup Q) \cup {"spawner"})
  BY <1>4, <1>5, <1>9, OrderlyConcat
<1>11. Tidy(first \o s)
  BY <1>10, TidyOf
<1> QED BY <1>1, <1>11, RaiseOrderly, TidyOf DEF first

\* Every file that can be launched, but for the wrappers, is in order.
LEMMA FileTidy ==
  ASSUME NEW file \in Launchable \ Wrappers, NEW c, Known(c), file \in DualFiles => Mirrored(Arms(c))
  PROVE  Tidy(Entities(file, c))
<1>1. CASE file \in SingleTables \cup DualTables
  <2>1. file \in DualTables => file \in DualFiles
    BY DEF DualTables, DualFiles
  <2> QED BY <1>1, <2>1, TableOrderly, TidyOf
<1>2. CASE file \in {"_robot_description", "_ros2_control", "_dual_ros2_control"}
  BY <1>2, DescriptionOrderly, ControlOrderly, TidyOf DEF Entities
<1>3. CASE file = "_robot_planner"
  BY <1>3, PlannerOrderly, TidyOf DEF Entities
<1>4. CASE file = "_dual_robot_planner"
  <2>1. file \in DualFiles
    BY <1>4 DEF DualFiles, DualPlanning
  <2>2. Entities(file, c) = DualRobotPlanner(c)
    BY <1>4 DEF Entities
  <2> QED BY <2>1, <2>2, DualPlannerOrderly, TidyOf
<1>5. CASE file \in {"_robot_moveit_fake", "_robot_moveit_realmove"}
  BY <1>5, FakeTidy, RealmoveTidy DEF Entities
<1>6. CASE file \in {"_robot_moveit_gz", "_robot_moveit_ignition", "_robot_moveit_gazebo"}
  <2>1. \E plugin : \E table \in SingleTables : Entities(file, c) = SimulatedMoveit(c, plugin, table)
    BY <1>6 DEF Entities, RobotMoveitGz, RobotMoveitIgnition, RobotMoveitGazebo, SingleTables
  <2>2. PICK plugin : \E table \in SingleTables : Entities(file, c) = SimulatedMoveit(c, plugin, table)
    BY <2>1
  <2>3. PICK table \in SingleTables : Entities(file, c) = SimulatedMoveit(c, plugin, table)
    BY <2>2
  <2> QED BY <2>3, SimulatedTidy
<1>7. CASE file \in {"_dual_robot_moveit_fake", "_dual_robot_moveit_realmove"}
  <2>1. file \in DualFiles
    BY <1>7 DEF DualFiles, DualPlanning
  <2>2. Entities(file, c) \in {DualRobotMoveitFake(c), DualRobotMoveitRealmove(c)}
    BY <1>7 DEF Entities
  <2> QED BY <2>1, <2>2, DualFakeTidy, DualRealmoveTidy
<1>8. CASE file \in {"_dual_robot_moveit_gz", "_dual_robot_moveit_gazebo"}
  <2>1. \E moveit : \E table \in DualTables : Entities(file, c) = DualSimulatedMoveit(c, moveit, table)
    BY <1>8 DEF Entities, DualRobotMoveitGz, DualRobotMoveitGazebo, DualTables
  <2>2. PICK moveit : \E table \in DualTables : Entities(file, c) = DualSimulatedMoveit(c, moveit, table)
    BY <2>1
  <2>3. PICK table \in DualTables : Entities(file, c) = DualSimulatedMoveit(c, moveit, table)
    BY <2>2
  <2> QED BY <2>3, DualSimulatedTidy
<1>9. CASE file \in {"_robot_moveit_servo_fake", "_robot_moveit_servo_realmove"}
  BY <1>9, ServoFakeTidy, ServoRealmoveTidy DEF Entities
<1> QED BY <1>1, <1>2, <1>3, <1>4, <1>5, <1>6, <1>7, <1>8, <1>9
  DEF Launchable, Wrappers, Xarm6Files, SingleTables, DualTables

-----------------------------------------------------------------------------
(* What the handlers of one event do, in a row. *)

\* A list is in order when its entities start different processes and its
\* handlers are in order.
LEMMA TidyMeans ==
  ASSUME NEW s
  PROVE  Tidy(s) <=> Listing(s) /\ Separate(s) /\ \A i \in 1 .. Len(s) : Neat(s[i])
BY DEF Tidy, Orderly, Owns, Kind, Anything

\* Two such lists in a row.
LEMMA TidyJoin ==
  ASSUME NEW s, NEW t, Tidy(s), Tidy(t), Cross(s, t)
  PROVE  Tidy(s \o t)
<1>1. Orderly(s \o t, Anything \cup Anything)
  BY OrderlyJoin DEF Tidy
<1> QED BY <1>1, TidyOf

\* Any number of them.
Begun(x, ss, k) ==
  /\ Tidy(x)
  /\ \A l \in 1 .. Len(x) : \E i \in 1 .. k : \E m \in 1 .. Len(ss[i]) : x[l] = ss[i][m]
\* Lists that are in order and apart are so when they are flattened.
LEMMA FlattenTidy ==
  ASSUME NEW U, NEW ss \in Seq(Seq(U)), \A i \in 1 .. Len(ss) : Tidy(ss[i]),
         \A i, j \in 1 .. Len(ss) : i # j => Cross(ss[i], ss[j])
  PROVE  Begun(FlattenSeq(ss), ss, Len(ss))
<1>1. PICK n \in Nat : n = Len(ss) /\ ss \in [1 .. n -> Seq(U)]
  OBVIOUS
<1>2. CASE n = 0
  <2>1. FlattenSeq(ss) = <<>>
    BY <1>1, <1>2 DEF FlattenSeq
  <2>2. Listing(<<>>) /\ 1 .. Len(<<>>) = {}
    BY DEF Listing
  <2> QED BY <2>1, <2>2, TidyMeans DEF Begun, Separate
<1>3. CASE n # 0
  <2> DEFINE f == CHOOSE f : Flattens(f, ss, n)
             S == {k \in Nat : k + 1 \in 1 .. n => Begun(f[k + 1], ss, k + 1)}
  <2>1. FlattenSeq(ss) = f[n]
    BY <1>1, <1>3 DEF FlattenSeq, Flattens
  <2>2. f = [i \in 1 .. n |-> IF i = 1 THEN ss[i] ELSE f[i - 1] \o ss[i]]
    <3>1. Flattens(f, ss, n)
      BY FlattenExists
    <3> HIDE DEF f
    <3> QED BY <3>1 DEF Flattens
  <2> HIDE DEF f
  <2>3. \A i \in 1 .. n : f[i] = IF i = 1 THEN ss[i] ELSE f[i - 1] \o ss[i]
    BY <2>2
  <2>4. 0 \in S
    <3>1. 1 \in 1 .. n /\ f[1] = ss[1]
      BY <1>3, <2>3
    <3>2. Begun(ss[1], ss, 1)
      BY <1>1, <3>1 DEF Begun
    <3> QED BY <3>1, <3>2
  <2>5. ASSUME NEW k \in Nat, k \in S
        PROVE  k + 1 \in S
    <3> SUFFICES ASSUME k + 2 \in 1 .. n PROVE Begun(f[k + 2], ss, k + 2)
      OBVIOUS
    <3>1. Begun(f[k + 1], ss, k + 1) /\ k + 1 \in 1 .. n
      BY <1>1, <2>5
    <3>2. PICK j \in 1 .. n : j = k + 2
      OBVIOUS
    <3>3. j # 1 /\ j - 1 = k + 1
      BY <3>2
    <3> DEFINE x == f[j - 1]
               y == ss[j]
    <3>4. f[j] = x \o y
      BY <2>3, <3>3
    <3>5. Begun(x, ss, k + 1) /\ Tidy(y) /\ y = ss[j]
      BY <1>1, <3>1, <3>3
    <3> HIDE DEF x, y
    <3>6. Cross(x, y)
      <4> SUFFICES ASSUME NEW l \in 1 .. Len(x), NEW m \in 1 .. Len(y) PROVE Apart(x[l], y[m])
        BY DEF Cross
      <4>1. PICK i \in 1 .. k + 1 : \E o \in 1 .. Len(ss[i]) : x[l] = ss[i][o]
        BY <3>5 DEF Begun
      <4>2. PICK o \in 1 .. Len(ss[i]) : x[l] = ss[i][o]
        BY <4>1
      <4>3. i \in 1 .. n /\ i # j
        BY <3>2, <4>1
      <4>4. Cross(ss[i], ss[j])
        BY <1>1, <4>3
      <4> QED BY <3>5, <4>2, <4>4 DEF Cross
    <3>7. \A l \in 1 .. Len(x) : \E i \in 1 .. j : \E m \in 1 .. Len(ss[i]) : x[l] = ss[i][m]
      <4> SUFFICES ASSUME NEW l \in 1 .. Len(x)
                   PROVE  \E i \in 1 .. j : \E m \in 1 .. Len(ss[i]) : x[l] = ss[i][m]
        OBVIOUS
      <4>1. PICK i \in 1 .. k + 1 : \E o \in 1 .. Len(ss[i]) : x[l] = ss[i][o]
        BY <3>5 DEF Begun
      <4>2. i \in 1 .. j
        BY <3>2
      <4> QED BY <4>1, <4>2
    <3>8. \A m \in 1 .. Len(y) : \E i \in 1 .. j : \E o \in 1 .. Len(ss[i]) : y[m] = ss[i][o]
      <4>1. j \in 1 .. j
        OBVIOUS
      <4> QED BY <3>5, <4>1
    <3>9. Tidy(x \o y)
      BY <3>5, <3>6, TidyJoin DEF Begun
    <3>10. \A l \in 1 .. Len(x \o y) : \/ \E i \in 1 .. Len(x) : (x \o y)[l] = x[i]
                                       \/ \E i \in 1 .. Len(y) : (x \o y)[l] = y[i]
      BY <3>5, Joined, TidyMeans DEF Begun
    <3> DEFINE z == x \o y
    <3> HIDE DEF z
    <3>11. \A l \in 1 .. Len(z) : \/ \E i \in 1 .. Len(x) : z[l] = x[i]
                                  \/ \E i \in 1 .. Len(y) : z[l] = y[i]
      BY <3>10 DEF z
    <3>12. \A l \in 1 .. Len(z) : \E i \in 1 .. j : \E m \in 1 .. Len(ss[i]) : z[l] = ss[i][m]
      <4> SUFFICES ASSUME NEW l \in 1 .. Len(z)
                   PROVE  \E i \in 1 .. j : \E m \in 1 .. Len(ss[i]) : z[l] = ss[i][m]
        OBVIOUS
      <4>1. CASE \E o \in 1 .. Len(x) : z[l] = x[o]
        <5>1. PICK o \in 1 .. Len(x) : z[l] = x[o]
          BY <4>1
        <5> QED BY <3>7, <5>1
      <4>2. CASE \E o \in 1 .. Len(y) : z[l] = y[o]
        <5>1. PICK o \in 1 .. Len(y) : z[l] = y[o]
          BY <4>2
        <5> QED BY <3>8, <5>1
      <4> QED BY <3>11, <4>1, <4>2
    <3>13. Begun(z, ss, j)
      BY <3>9, <3>12 DEF Begun, z
    <3> QED BY <3>2, <3>4, <3>13 DEF z
  <2>6. n - 1 \in S
    <3> HIDE DEF S
    <3>1. n - 1 \in Nat
      BY <1>3
    <3> QED BY <2>4, <2>5, <3>1, SetInduction
  <2>7. (n - 1) + 1 = n /\ n \in 1 .. n
    BY <1>3
  <2>8. Begun(f[n], ss, n)
    BY <2>6, <2>7
  <2> QED BY <1>1, <2>1, <2>8
<1> QED BY <1>2, <1>3

-----------------------------------------------------------------------------
(* The ledger of a launch: which processes were started, by program and    *)
(* name, and which are still to be.                                        *)

Held(ps, k) == \E i \in 1 .. Len(ps) : Key(ps[i].id) = k
Happened(ps, on, id) ==
  \E i \in 1 .. Len(ps) : ps[i].id = id /\ (on = "exited" => ps[i].state # "runs")
Announced(es, on, id) == \E i \in 1 .. Len(es) : es[i].on = on /\ es[i].id = id
\* A handler is still to run: its event is to come, or came and was not handled.
Waits(ps, es, h) == Announced(es, h.on, h.target) \/ ~Happened(ps, h.on, h.target)
\* Every process is started once, and its events are announced once.
Once(ps) == \A i, j \in 1 .. Len(ps) : Key(ps[i].id) = Key(ps[j].id) => i = j
Told(es, ps) ==
  /\ \A i \in 1 .. Len(es) : Happened(ps, es[i].on, es[i].id)
  /\ \A i, j \in 1 .. Len(es) : es[i].on = es[j].on /\ es[i].id = es[j].id => i = j
Unheld(e, ps) == \A k : Claims(e, k) => ~Held(ps, k)
Pending(h, t, hs, es, ps) ==
  /\ Unheld(h, ps)
  /\ \A j \in 1 .. Len(t) : Apart(h, t[j])
Ledger(t, hs, es, ps) ==
  /\ Tidy(t) /\ \A i \in 1 .. Len(t) : Unheld(t[i], ps)
  /\ Once(ps) /\ Told(es, ps)
  /\ \A i \in 1 .. Len(hs) : Neat(hs[i]) /\ (Waits(ps, es, hs[i]) => Pending(hs[i], t, hs, es, ps))
  /\ \A i, j \in 1 .. Len(hs) :
       i # j /\ Waits(ps, es, hs[i]) /\ Waits(ps, es, hs[j]) => Apart(hs[i], hs[j])

\* An entity that starts no more than another.
Covers(a, b) == \A k : Claims(b, k) => Claims(a, k)

\* The entities to visit are replaced by what starts no more.
LEMMA LedgerTodo ==
  ASSUME NEW t, NEW hs, NEW es, NEW ps, Ledger(t, hs, es, ps), NEW s, Tidy(s),
         \A i \in 1 .. Len(s) : \E j \in 1 .. Len(t) : Covers(t[j], s[i])
  PROVE  Ledger(s, hs, es, ps)
<1>1. ASSUME NEW i \in 1 .. Len(s)
      PROVE  Unheld(s[i], ps)
  <2>1. PICK j \in 1 .. Len(t) : Covers(t[j], s[i])
    OBVIOUS
  <2>2. Unheld(t[j], ps)
    BY DEF Ledger
  <2> QED BY <2>1, <2>2 DEF Unheld, Covers
<1>2. ASSUME NEW i \in 1 .. Len(hs), Waits(ps, es, hs[i])
      PROVE  Pending(hs[i], s, hs, es, ps)
  <2>1. Pending(hs[i], t, hs, es, ps)
    BY <1>2 DEF Ledger
  <2>2. ASSUME NEW j \in 1 .. Len(s)
        PROVE  Apart(hs[i], s[j])
    <3>1. PICK l \in 1 .. Len(t) : Covers(t[l], s[j])
      OBVIOUS
    <3>2. Apart(hs[i], t[l])
      BY <2>1 DEF Pending
    <3> QED BY <3>1, <3>2 DEF Apart, Covers
  <2> QED BY <2>1, <2>2 DEF Pending
<1> QED BY <1>1, <1>2 DEF Ledger

\* More has happened, and no handler waits that did not wait before.
LEMMA LedgerLater ==
  ASSUME NEW t, NEW hs, NEW es, NEW ps, Ledger(t, hs, es, ps), NEW fs, NEW qs,
         Once(qs), Told(fs, qs), \A h : Waits(qs, fs, h) => Waits(ps, es, h),
         \A i \in 1 .. Len(t) : Unheld(t[i], qs),
         \A i \in 1 .. Len(hs) : Waits(ps, es, hs[i]) => Unheld(hs[i], qs)
  PROVE  Ledger(t, hs, fs, qs)
<1>1. ASSUME NEW i \in 1 .. Len(hs), Waits(qs, fs, hs[i])
      PROVE  Pending(hs[i], t, hs, fs, qs)
  BY <1>1 DEF Ledger, Pending
<1>2. ASSUME NEW i \in 1 .. Len(hs), NEW j \in 1 .. Len(hs), i # j,
             Waits(qs, fs, hs[i]), Waits(qs, fs, hs[j])
      PROVE  Apart(hs[i], hs[j])
  BY <1>2 DEF Ledger
<1> QED BY <1>1, <1>2 DEF Ledger

\* The list without its head.
LEMMA TidyTail ==
  ASSUME NEW t, Tidy(t), t # <<>>
  PROVE  /\ Tidy(Tail(t)) /\ 1 \in 1 .. Len(t) /\ Head(t) = t[1]
         /\ \A j \in 1 .. Len(Tail(t)) :
              /\ j + 1 \in 1 .. Len(t) /\ Tail(t)[j] = t[j + 1] /\ Apart(Head(t), Tail(t)[j])
<1> DEFINE S == {t[i] : i \in 1 .. Len(t)}
           u == Tail(t)
<1>1. t \in Seq(S)
  BY TidyMeans DEF Listing
<1> HIDE DEF S
<1>2. /\ u \in Seq(S) /\ 1 \in 1 .. Len(t) /\ Head(t) = t[1] /\ Len(u) \in Nat
      /\ \A j \in 1 .. Len(u) : j + 1 \in 1 .. Len(t) /\ u[j] = t[j + 1]
  BY <1>1
<1> HIDE DEF u
<1>3. Listing(u)
  BY <1>2, ListingSeq
<1>4. Separate(t) /\ \A i \in 1 .. Len(t) : Neat(t[i])
  BY TidyMeans
<1>5. Separate(u)
  <2> SUFFICES ASSUME NEW i \in 1 .. Len(u), NEW j \in 1 .. Len(u), i # j PROVE Apart(u[i], u[j])
    BY DEF Separate
  <2>1. i + 1 # j + 1
    OBVIOUS
  <2> QED BY <1>2, <1>4, <2>1 DEF Separate
<1>6. Tidy(u)
  BY <1>2, <1>3, <1>4, <1>5, TidyMeans
<1>7. \A j \in 1 .. Len(u) : Apart(Head(t), u[j])
  <2> SUFFICES ASSUME NEW j \in 1 .. Len(u) PROVE Apart(t[1], t[j + 1])
    BY <1>2
  <2>1. 1 # j + 1
    OBVIOUS
  <2> QED BY <1>2, <1>4, <2>1 DEF Separate
<1> QED BY <1>2, <1>6, <1>7 DEF u

\* The head is left out.
LEMMA LedgerTail ==
  ASSUME NEW t, NEW hs, NEW es, NEW ps, Ledger(t, hs, es, ps), t # <<>>
  PROVE  Ledger(Tail(t), hs, es, ps)
<1>1. Tidy(t)
  BY DEF Ledger
<1>2. \A j \in 1 .. Len(Tail(t)) : \E i \in 1 .. Len(t) : Covers(t[i], Tail(t)[j])
  BY <1>1, TidyTail DEF Covers
<1> QED BY <1>1, <1>2, TidyTail, LedgerTodo

\* What has happened stays so.
Later(qs, ps) == \A on, id : Happened(ps, on, id) => Happened(qs, on, id)

\* Of what had not happened an event is announced, or not.
LEMMA TellMore ==
  ASSUME NEW es, Listing(es), NEW ps, Told(es, ps), NEW qs, Later(qs, ps),
         NEW on, NEW id, ~Happened(ps, on, id), Happened(qs, on, id),
         NEW fs, fs \in {es, Append(es, [on |-> on, id |-> id])}
  PROVE  Told(fs, qs) /\ \A h : Waits(qs, fs, h) => Waits(ps, es, h)
<1> DEFINE x == [on |-> on, id |-> id]
<1>1. x.on = on /\ x.id = id
  OBVIOUS
<1> HIDE DEF x
<1>2. CASE fs = es
  BY <1>2 DEF Told, Later, Waits
<1>3. CASE fs = Append(es, x)
  <2>1. /\ Len(fs) = Len(es) + 1 /\ Len(es) \in Nat
        /\ \A i \in 1 .. Len(es) : fs[i] = es[i]
        /\ fs[Len(es) + 1] = x
    BY <1>3, AppendSeq DEF Listing
  <2>2. \A i \in 1 .. Len(fs) : \/ i \in 1 .. Len(es) /\ fs[i] = es[i]
                                \/ i = Len(es) + 1 /\ fs[i] = x
    BY <2>1
  <2>3. \A i \in 1 .. Len(es) : ~(es[i].on = on /\ es[i].id = id)
    BY DEF Told
  <2>4. Told(fs, qs)
    <3>1. \A i \in 1 .. Len(fs) : Happened(qs, fs[i].on, fs[i].id)
      BY <1>1, <2>2 DEF Told, Later
    <3>2. ASSUME NEW i \in 1 .. Len(fs), NEW j \in 1 .. Len(fs),
                 fs[i].on = fs[j].on, fs[i].id = fs[j].id
          PROVE  i = j
      BY <1>1, <2>2, <2>3, <3>2 DEF Told
    <3> QED BY <3>1, <3>2 DEF Told
  <2>5. ASSUME NEW h, Waits(qs, fs, h)
        PROVE  Waits(ps, es, h)
    <3>1. CASE Announced(fs, h.on, h.target)
      <4>1. PICK i \in 1 .. Len(fs) : fs[i].on = h.on /\ fs[i].id = h.target
        BY <3>1 DEF Announced
      <4>2. CASE i \in 1 .. Len(es)
        BY <2>1, <4>1, <4>2 DEF Waits, Announced
      <4>3. CASE i = Len(es) + 1
        <5>1. h.on = on /\ h.target = id
          BY <1>1, <2>1, <4>1, <4>3
        <5> QED BY <5>1 DEF Waits
      <4> QED BY <2>2, <4>2, <4>3
    <3>2. CASE ~Happened(qs, h.on, h.target)
      BY <3>2 DEF Later, Waits
    <3> QED BY <2>5, <3>1, <3>2 DEF Waits
  <2> QED BY <2>4, <2>5
<1> QED BY <1>2, <1>3 DEF x

\* A node is visited: its process is started, and no other claims it.
LEMMA LedgerNode ==
  ASSUME NEW t, NEW hs, NEW es, NEW ps, Ledger(t, hs, es, ps), t # <<>>, Listing(es), Listing(ps),
         Head(t).kind = "node", NEW p, p.id = Head(t).id,
         NEW fs, fs \in {es, Append(es, [on |-> "started", id |-> p.id])}
  PROVE  Ledger(Tail(t), hs, fs, Append(ps, p))
<1> DEFINE qs == Append(ps, p)
           key == Key(p.id)
<1>1. /\ Len(qs) = Len(ps) + 1 /\ Len(ps) \in Nat
      /\ \A i \in 1 .. Len(ps) : qs[i] = ps[i]
      /\ qs[Len(ps) + 1] = p
  BY AppendSeq DEF Listing
<1> HIDE DEF qs
<1>2. \A i \in 1 .. Len(qs) : \/ i \in 1 .. Len(ps) /\ qs[i] = ps[i]
                              \/ i = Len(ps) + 1 /\ qs[i] = p
  BY <1>1
<1>3. Tidy(t)
  BY DEF Ledger
<1>4. Claims(Head(t), key) /\ ~Held(ps, key)
  <2>1. Claims(Head(t), key)
    BY DEF Claims
  <2>2. Unheld(t[1], ps) /\ Head(t) = t[1]
    BY <1>3, TidyTail DEF Ledger
  <2> QED BY <2>1, <2>2 DEF Unheld
<1>5. \A k : Held(qs, k) => Held(ps, k) \/ k = key
  BY <1>2 DEF Held
<1> DEFINE u == Tail(t)
<1>6. Ledger(u, hs, es, ps)
  BY LedgerTail
<1>7. \A j \in 1 .. Len(u) : Unheld(u[j], qs)
  <2> SUFFICES ASSUME NEW j \in 1 .. Len(u), NEW k, Claims(u[j], k) PROVE ~Held(qs, k)
    BY DEF Unheld
  <2>1. Apart(Head(t), u[j])
    BY <1>3, TidyTail
  <2>2. k # key
    BY <1>4, <2>1 DEF Apart
  <2>3. ~Held(ps, k)
    BY <1>6 DEF Ledger, Unheld
  <2> QED BY <1>5, <2>2, <2>3
<1>8. ASSUME NEW i \in 1 .. Len(hs), Waits(ps, es, hs[i])
      PROVE  Unheld(hs[i], qs)
  <2>1. Pending(hs[i], t, hs, es, ps)
    BY <1>8 DEF Ledger
  <2>2. Apart(hs[i], Head(t))
    BY <1>3, <2>1, TidyTail DEF Pending
  <2>3. \A k : Claims(hs[i], k) => k # key /\ ~Held(ps, k)
    BY <1>4, <2>1, <2>2 DEF Apart, Pending, Unheld
  <2> QED BY <1>5, <2>3 DEF Unheld
<1>9. Later(qs, ps)
  BY <1>1, <1>2 DEF Later, Happened
<1>10. ~Happened(ps, "started", p.id) /\ Happened(qs, "started", p.id)
  <2>1. ~Happened(ps, "started", p.id)
    BY <1>4 DEF Happened, Held
  <2>2. Len(ps) + 1 \in 1 .. Len(qs)
    BY <1>1
  <2> QED BY <1>1, <2>1, <2>2 DEF Happened
<1>11. Told(es, ps)
  BY DEF Ledger
<1>12. Told(fs, qs) /\ \A h : Waits(qs, fs, h) => Waits(ps, es, h)
  <2> DEFINE on == "started"
             id == p.id
  <2>1. ~Happened(ps, on, id) /\ Happened(qs, on, id) /\ fs \in {es, Append(es, [on |-> on, id |-> id])}
    BY <1>10
  <2> HIDE DEF on, id
  <2> QED BY <1>9, <1>11, <2>1, TellMore
<1>13. Once(qs)
  <2> SUFFICES ASSUME NEW i \in 1 .. Len(qs), NEW j \in 1 .. Len(qs), Key(qs[i].id) = Key(qs[j].id)
               PROVE  i = j
    BY DEF Once
  <2>1. \A l \in 1 .. Len(ps) : Key(ps[l].id) # key
    BY <1>4 DEF Held
  <2>2. Once(ps)
    BY DEF Ledger
  <2> HIDE DEF key
  <2>3. \A l \in 1 .. Len(qs) : l = Len(ps) + 1 => Key(qs[l].id) = key
    BY <1>1 DEF key
  <2> QED BY <1>2, <2>1, <2>2, <2>3 DEF Once
<1> HIDE DEF u
<1>14. Ledger(u, hs, fs, qs)
  BY <1>6, <1>7, <1>8, <1>12, <1>13, LedgerLater
<1> QED BY <1>14 DEF u, qs

\* The same processes have the same names.
LEMMA KeptHeld ==
  ASSUME NEW ps, NEW qs, Kept(qs, ps)
  PROVE  /\ \A k : Held(qs, k) <=> Held(ps, k)
         /\ \A e : Unheld(e, qs) <=> Unheld(e, ps)
         /\ Once(ps) => Once(qs)
<1>1. \A k : Held(qs, k) <=> Held(ps, k)
  BY DEF Kept, Held
<1> QED BY <1>1 DEF Unheld, Once, Kept

\* A process exits.
LEMMA LedgerExit ==
  ASSUME NEW t, NEW hs, NEW es, NEW ps, Ledger(t, hs, es, ps), Listing(es),
         NEW i \in 1 .. Len(ps), ps[i].state = "runs", NEW qs, Kept(qs, ps),
         NEW state, state # "runs", Ended(qs, ps, i, state),
         NEW fs, fs \in {es, Append(es, [on |-> "exited", id |-> ps[i].id])}
  PROVE  Ledger(t, hs, fs, qs)
<1>1. /\ Once(ps) /\ Told(es, ps) /\ \A j \in 1 .. Len(t) : Unheld(t[j], ps)
      /\ \A j \in 1 .. Len(hs) : Waits(ps, es, hs[j]) => Unheld(hs[j], ps)
  BY DEF Ledger, Pending
<1>2. Later(qs, ps)
  <2> SUFFICES ASSUME NEW on, NEW id, Happened(ps, on, id) PROVE Happened(qs, on, id)
    BY DEF Later
  <2>1. PICK j \in 1 .. Len(ps) : ps[j].id = id /\ (on = "exited" => ps[j].state # "runs")
    BY DEF Happened
  <2>2. j \in 1 .. Len(qs) /\ qs[j].id = id /\ (on = "exited" => qs[j].state # "runs")
    BY <2>1 DEF Kept, Ended
  <2> QED BY <2>2 DEF Happened
<1> DEFINE on == "exited"
           id == ps[i].id
<1>3. ~Happened(ps, on, id) /\ Happened(qs, on, id)
  <2>1. \A j \in 1 .. Len(ps) : ps[j].id = id => j = i
    BY <1>1 DEF Once
  <2>2. ~Happened(ps, on, id)
    BY <2>1 DEF Happened
  <2>3. i \in 1 .. Len(qs) /\ qs[i].id = id /\ qs[i].state # "runs"
    BY DEF Kept, Ended
  <2> QED BY <2>2, <2>3 DEF Happened
<1> HIDE DEF on, id
<1>4. Told(fs, qs) /\ \A h : Waits(qs, fs, h) => Waits(ps, es, h)
  <2>1. fs \in {es, Append(es, [on |-> on, id |-> id])}
    BY DEF on, id
  <2> QED BY <1>1, <1>2, <1>3, <2>1, TellMore
<1> QED BY <1>1, <1>4, KeptHeld, LedgerLater

\* Everything stops, and nothing more is to visit.
LEMMA LedgerStop ==
  ASSUME NEW t, NEW hs, NEW es, NEW ps, Ledger(t, hs, es, ps), NEW qs, Kept(qs, ps),
         \A i \in 1 .. Len(ps) : qs[i].state # "runs"
  PROVE  Ledger(<<>>, hs, <<>>, qs)
<1>1. 1 .. Len(<<>>) = {} /\ Listing(<<>>)
  BY DEF Listing
<1> DEFINE none == <<>>
<1>2. 1 .. Len(none) = {} /\ Tidy(none)
  BY <1>1, TidyMeans DEF Separate
<1> HIDE DEF none
<1>3. Ledger(none, hs, es, ps)
  BY <1>2, LedgerTodo
<1>4. /\ Once(ps) /\ \A j \in 1 .. Len(hs) : Waits(ps, es, hs[j]) => Unheld(hs[j], ps)
  BY DEF Ledger, Pending
<1>5. Told(none, qs)
  BY <1>2 DEF Told
<1>6. \A h : Waits(qs, none, h) => Waits(ps, es, h)
  <2>1. Later(qs, ps)
    BY DEF Later, Happened, Kept
  <2> QED BY <1>2, <2>1 DEF Waits, Announced, Later
<1>7. Ledger(none, hs, none, qs)
  BY <1>2, <1>3, <1>4, <1>5, <1>6, KeptHeld, LedgerLater
<1> QED BY <1>7 DEF none

\* A handler is visited: it is registered before the others.
LEMMA LedgerHandler ==
  ASSUME NEW t, NEW hs, NEW es, NEW ps, Ledger(t, hs, es, ps), t # <<>>, Listing(hs)
  PROVE  Ledger(Tail(t), <<Head(t)>> \o hs, es, ps)
<1> DEFINE e == Head(t)
           u == Tail(t)
           one == <<e>>
           gs == one \o hs
<1>1. /\ Tidy(t) /\ Tidy(u) /\ 1 \in 1 .. Len(t) /\ e = t[1]
      /\ \A j \in 1 .. Len(u) : j + 1 \in 1 .. Len(t) /\ u[j] = t[j + 1] /\ Apart(e, u[j])
  BY TidyTail DEF Ledger
<1>2. Ledger(u, hs, es, ps)
  BY LedgerTail
<1>3. Neat(e) /\ Unheld(e, ps)
  BY <1>1, TidyMeans DEF Ledger
<1>4. \A i \in 1 .. Len(hs) : Waits(ps, es, hs[i]) => Apart(e, hs[i])
  BY <1>1 DEF Ledger, Pending, Apart
<1> HIDE DEF e, u
<1>5. one \in Seq({e}) /\ Len(one) = 1 /\ one[1] = e
  OBVIOUS
<1>6. Listing(one)
  BY <1>5, ListingSeq
<1> HIDE DEF one
<1>7. /\ Len(hs) \in Nat /\ Len(gs) = 1 + Len(hs)
      /\ \A i \in 1 .. Len(gs) : gs[i] = IF i <= 1 THEN one[i] ELSE hs[i - 1]
  BY <1>5, <1>6, Positions
<1> HIDE DEF gs
<1>8. \A i \in 1 .. Len(gs) : \/ i = 1 /\ gs[i] = e
                              \/ i # 1 /\ i - 1 \in 1 .. Len(hs) /\ gs[i] = hs[i - 1]
  BY <1>5, <1>7
<1>9. ASSUME NEW i \in 1 .. Len(gs)
      PROVE  Neat(gs[i]) /\ (Waits(ps, es, gs[i]) => Pending(gs[i], u, gs, es, ps))
  <2>1. CASE i = 1
    <3>1. Pending(e, u, gs, es, ps)
      BY <1>1, <1>3 DEF Pending
    <3> QED BY <1>3, <1>8, <2>1, <3>1
  <2>2. CASE i # 1
    <3>1. i - 1 \in 1 .. Len(hs) /\ gs[i] = hs[i - 1]
      BY <1>8, <2>2
    <3> QED BY <1>2, <3>1 DEF Ledger, Pending
  <2> QED BY <2>1, <2>2
<1>10. ASSUME NEW i \in 1 .. Len(gs), NEW j \in 1 .. Len(gs), i # j,
              Waits(ps, es, gs[i]), Waits(ps, es, gs[j])
       PROVE  Apart(gs[i], gs[j])
  <2>1. CASE i = 1
    BY <1>4, <1>8, <1>10, <2>1
  <2>2. CASE j = 1
    <3>1. Apart(gs[j], gs[i])
      BY <1>4, <1>8, <1>10, <2>2
    <3> QED BY <3>1 DEF Apart
  <2>3. CASE i # 1 /\ j # 1
    <3>1. i - 1 # j - 1
      BY <1>7, <1>10
    <3> QED BY <1>2, <1>8, <1>10, <2>3, <3>1 DEF Ledger
  <2> QED BY <2>1, <2>2, <2>3
<1>11. Ledger(u, gs, es, ps)
  BY <1>2, <1>9, <1>10 DEF Ledger
<1> QED BY <1>11 DEF u, gs, one, e

\* What a handler does is what it starts.
LEMMA DoneClaims ==
  ASSUME NEW h, h.kind = "handler", Neat(h), Listing(h.do),
         \A k \in 1 .. Len(h.do) : h.do[k].kind \in {"node", "shutdown"}
  PROVE  Tidy(h.do) /\ \A k \in 1 .. Len(h.do) : Covers(h, h.do[k])
<1>1. \A k \in 1 .. Len(h.do) : Neat(h.do[k]) /\ Covers(h, h.do[k])
  BY DEF Neat, Covers, Claims
<1>2. Separate(h.do)
  BY DEF Neat
<1> QED BY <1>1, <1>2, TidyMeans

\* An event is handled: its handlers wait no more.
LEMMA LedgerEvent ==
  ASSUME NEW hs, NEW es, NEW ps, Ledger(<<>>, hs, es, ps), Listing(hs), Listing(es), es # <<>>,
         \A i \in 1 .. Len(hs) :
           /\ hs[i].kind = "handler" /\ Listing(hs[i].do)
           /\ \A k \in 1 .. Len(hs[i].do) : hs[i].do[k].kind \in {"node", "shutdown"}
  PROVE  Ledger(FlattenSeq([i \in 1 .. Len(hs) |-> Does(hs[i], Head(es))]), hs, Tail(es), ps)
<1> DEFINE e == Head(es)
           fs == Tail(es)
           n == Len(hs)
           runs(i) == hs[i].on = e.on /\ hs[i].target = e.id
           d(i) == Does(hs[i], e)
           ss == [i \in 1 .. n |-> d(i)]
           U == UNION {{d(i)[k] : k \in 1 .. Len(d(i))} : i \in 1 .. n}
           t == FlattenSeq(ss)
<1>1. /\ 1 \in 1 .. Len(es) /\ e = es[1] /\ Listing(fs)
      /\ \A j \in 1 .. Len(fs) : j + 1 \in 1 .. Len(es) /\ fs[j] = es[j + 1]
  <2> DEFINE S == {es[i] : i \in 1 .. Len(es)}
  <2>1. es \in Seq(S)
    BY DEF Listing
  <2> HIDE DEF S
  <2>2. /\ fs \in Seq(S) /\ 1 \in 1 .. Len(es) /\ Head(es) = es[1]
        /\ \A j \in 1 .. Len(fs) : j + 1 \in 1 .. Len(es) /\ fs[j] = es[j + 1]
    BY <2>1
  <2> HIDE DEF fs
  <2> QED BY <2>2, ListingSeq
<1> HIDE DEF e, fs
<1>2. Told(es, ps) /\ Once(ps)
  BY DEF Ledger
<1>3. Happened(ps, e.on, e.id) /\ ~Announced(fs, e.on, e.id)
  <2>1. Happened(ps, e.on, e.id)
    BY <1>1, <1>2 DEF Told
  <2>2. ASSUME NEW j \in 1 .. Len(fs), fs[j].on = e.on, fs[j].id = e.id
        PROVE  FALSE
    <3>1. j + 1 = 1
      BY <1>1, <1>2, <2>2 DEF Told
    <3> QED BY <3>1
  <2> QED BY <2>1, <2>2 DEF Announced
<1>4. Told(fs, ps)
  <2>1. \A j \in 1 .. Len(fs) : Happened(ps, fs[j].on, fs[j].id)
    BY <1>1, <1>2 DEF Told
  <2>2. ASSUME NEW i \in 1 .. Len(fs), NEW j \in 1 .. Len(fs), fs[i].on = fs[j].on, fs[i].id = fs[j].id
        PROVE  i = j
    <3>1. i + 1 = j + 1
      BY <1>1, <1>2, <2>2 DEF Told
    <3> QED BY <3>1
  <2> QED BY <2>1, <2>2 DEF Told
<1>5. \A h : Waits(ps, fs, h) => Waits(ps, es, h)
  <2>1. ASSUME NEW on, NEW id, Announced(fs, on, id)
        PROVE  Announced(es, on, id)
    <3>1. PICK j \in 1 .. Len(fs) : fs[j].on = on /\ fs[j].id = id
      BY <2>1 DEF Announced
    <3>2. j + 1 \in 1 .. Len(es) /\ es[j + 1].on = on /\ es[j + 1].id = id
      BY <1>1, <3>1
    <3> QED BY <3>2 DEF Announced
  <2> QED BY <2>1 DEF Waits
<1>6. Ledger(<<>>, hs, fs, ps)
  <2> DEFINE none == <<>>
  <2>1. Ledger(none, hs, es, ps)
    OBVIOUS
  <2> HIDE DEF none
  <2>2. Ledger(none, hs, fs, ps)
    BY <1>2, <1>4, <1>5, <2>1, LedgerLater DEF Ledger, Pending
  <2> QED BY <2>2 DEF none
<1>7. ASSUME NEW i \in 1 .. n
      PROVE  /\ Tidy(d(i)) /\ \A k \in 1 .. Len(d(i)) : runs(i) /\ Covers(hs[i], d(i)[k])
  <2>1. Neat(hs[i])
    BY DEF Ledger
  <2> DEFINE h == hs[i]
  <2>2. Tidy(h.do) /\ \A k \in 1 .. Len(h.do) : Covers(h, h.do[k])
    BY <2>1, DoneClaims
  <2>3. 1 .. Len(<<>>) = {} /\ Listing(<<>>)
    BY DEF Listing
  <2>4. Tidy(<<>>)
    BY <2>3, TidyMeans DEF Separate
  <2> HIDE DEF h
  <2>5. Tidy(Does(h, e)) /\ \A k \in 1 .. Len(Does(h, e)) :
          h.on = e.on /\ h.target = e.id /\ Covers(h, Does(h, e)[k])
    BY <2>2, <2>3, <2>4 DEF Does
  <2> QED BY <2>5 DEF h
<1>8. \A i \in 1 .. n : runs(i) => Waits(ps, es, hs[i]) /\ ~Waits(ps, fs, hs[i])
  BY <1>1, <1>3 DEF Waits, Announced
<1>9. ASSUME NEW i \in 1 .. n, NEW j \in 1 .. n, i # j
      PROVE  Cross(d(i), d(j))
  <2> SUFFICES ASSUME NEW k \in 1 .. Len(d(i)), NEW l \in 1 .. Len(d(j)) PROVE Apart(d(i)[k], d(j)[l])
    BY DEF Cross
  <2>1. runs(i) /\ Covers(hs[i], d(i)[k]) /\ runs(j) /\ Covers(hs[j], d(j)[l])
    BY <1>7
  <2>2. Apart(hs[i], hs[j])
    BY <1>8, <1>9, <2>1 DEF Ledger
  <2> HIDE DEF d, runs
  <2> QED BY <2>1, <2>2 DEF Apart, Covers
<1> HIDE DEF d, runs
<1>10. n \in Nat
  BY ListingLen
<1>11. ss \in Seq(Seq(U)) /\ Len(ss) = n
  <2>1. ASSUME NEW i \in 1 .. n PROVE d(i) \in Seq(U)
    <3> DEFINE V == {d(i)[k] : k \in 1 .. Len(d(i))}
    <3>1. d(i) \in Seq(V)
      BY <1>7, TidyMeans DEF Listing
    <3>2. V \subseteq U
      OBVIOUS
    <3> HIDE DEF V, U
    <3> QED BY <3>1, <3>2
  <2> HIDE DEF U, n
  <2>2. ss \in [1 .. n -> Seq(U)]
    BY <2>1
  <2> QED BY <1>10, <2>2, IndexedSeq
<1> HIDE DEF U, n
<1>12. \A i \in 1 .. n : ss[i] = d(i)
  OBVIOUS
<1> HIDE DEF ss
<1>13. Begun(t, ss, n)
  BY <1>7, <1>9, <1>11, <1>12, FlattenTidy
<1> HIDE DEF t
<1>14. \A l \in 1 .. Len(t) : \E i \in 1 .. n : \E m \in 1 .. Len(d(i)) : t[l] = d(i)[m]
  BY <1>12, <1>13 DEF Begun
<1>15. \A l \in 1 .. Len(t) : \E i \in 1 .. n : runs(i) /\ Covers(hs[i], t[l])
  BY <1>7, <1>14
<1>16. ASSUME NEW l \in 1 .. Len(t)
       PROVE  Unheld(t[l], ps)
  <2>1. PICK i \in 1 .. n : runs(i) /\ Covers(hs[i], t[l])
    BY <1>15
  <2>2. Unheld(hs[i], ps)
    BY <1>8, <2>1 DEF Ledger, Pending, n
  <2> QED BY <2>1, <2>2 DEF Unheld, Covers
<1>17. ASSUME NEW i \in 1 .. n, Waits(ps, fs, hs[i])
       PROVE  Pending(hs[i], t, hs, fs, ps)
  <2>1. Unheld(hs[i], ps)
    BY <1>6, <1>17 DEF Ledger, Pending, n
  <2>2. ASSUME NEW l \in 1 .. Len(t)
        PROVE  Apart(hs[i], t[l])
    <3>1. PICK j \in 1 .. n : runs(j) /\ Covers(hs[j], t[l])
      BY <1>15
    <3>2. i # j /\ Waits(ps, es, hs[i]) /\ Waits(ps, es, hs[j])
      BY <1>5, <1>8, <1>17, <3>1
    <3>3. Apart(hs[i], hs[j])
      BY <3>2 DEF Ledger, n
    <3> QED BY <3>1, <3>3 DEF Apart, Covers
  <2> QED BY <2>1, <2>2 DEF Pending
<1>18. Tidy(t)
  BY <1>13 DEF Begun
<1>19. Ledger(t, hs, fs, ps)
  BY <1>6, <1>16, <1>17, <1>18 DEF Ledger, n
<1> QED BY <1>19 DEF t, ss, d, n, e, fs

\* An include is visited: what its file starts is what it was for.
LEMMA LedgerInclude ==
  ASSUME NEW t, NEW hs, NEW es, NEW ps, Ledger(t, hs, es, ps), t # <<>>, NEW s, Tidy(s),
         \A i \in 1 .. Len(s) : Covers(Head(t), s[i])
  PROVE  Ledger(s \o Tail(t), hs, es, ps)
<1> DEFINE e == Head(t)
           u == Tail(t)
<1>1. /\ Tidy(t) /\ Tidy(u) /\ 1 \in 1 .. Len(t) /\ e = t[1]
      /\ \A j \in 1 .. Len(u) : j + 1 \in 1 .. Len(t) /\ u[j] = t[j + 1] /\ Apart(e, u[j])
  BY TidyTail DEF Ledger
<1>2. \A i \in 1 .. Len(s) : Covers(e, s[i])
  OBVIOUS
<1> HIDE DEF e, u
<1>3. Cross(s, u)
  BY <1>1, <1>2 DEF Cross, Apart, Covers
<1>4. Tidy(s \o u)
  BY <1>1, <1>3, TidyJoin
<1>5. \A i \in 1 .. Len(s \o u) : \/ \E j \in 1 .. Len(s) : (s \o u)[i] = s[j]
                                  \/ \E j \in 1 .. Len(u) : (s \o u)[i] = u[j]
  BY <1>1, Joined, TidyMeans
<1> DEFINE z == s \o u
<1>6. Tidy(z) /\ \A i \in 1 .. Len(z) : \/ \E j \in 1 .. Len(s) : z[i] = s[j]
                                        \/ \E j \in 1 .. Len(u) : z[i] = u[j]
  BY <1>4, <1>5
<1> HIDE DEF z
<1>7. ASSUME NEW i \in 1 .. Len(z)
      PROVE  \E j \in 1 .. Len(t) : Covers(t[j], z[i])
  <2>1. CASE \E j \in 1 .. Len(s) : z[i] = s[j]
    BY <1>1, <1>2, <2>1
  <2>2. CASE \E j \in 1 .. Len(u) : z[i] = u[j]
    <3>1. PICK j \in 1 .. Len(u) : z[i] = u[j]
      BY <2>2
    <3>2. j + 1 \in 1 .. Len(t) /\ z[i] = t[j + 1]
      BY <1>1, <3>1
    <3> QED BY <3>2 DEF Covers
  <2> QED BY <1>6, <2>1, <2>2
<1>8. Ledger(z, hs, es, ps)
  BY <1>6, <1>7, LedgerTodo
<1> QED BY <1>8 DEF z, u

\* Before anything was started.
LEMMA LedgerFirst ==
  ASSUME NEW t, Tidy(t)
  PROVE  Ledger(t, <<>>, <<>>, <<>>)
<1> DEFINE none == <<>>
<1>1. 1 .. Len(none) = {}
  OBVIOUS
<1> HIDE DEF none
<1>2. Ledger(t, none, none, none)
  BY <1>1 DEF Ledger, Once, Told, Unheld, Held
<1> QED BY <1>2 DEF none

-----------------------------------------------------------------------------
(* Nothing is started twice. *)

Books == Ledger(todo, handlers, events, procs)
TwiceInv == StartInv /\ (SamePrefix(launch) \/ Books)

\* The first state.
LEMMA InitTwice == Init => TwiceInv
<1> SUFFICES ASSUME Init PROVE TwiceInv
  OBVIOUS
<1> DEFINE e == Include(launch.file, launch.args)
<1>1. Tidy(<<e>>)
  BY IncludeClaims, OrderlyOne, TidyOf
<1>2. todo = <<e>> /\ handlers = <<>> /\ events = <<>> /\ procs = <<>>
  BY DEF Init
<1> HIDE DEF e
<1>3. Books
  BY <1>1, <1>2, LedgerFirst DEF Books
<1> QED BY <1>3, InitStart DEF TwiceInv

\* The launch's own file is visited.
LEMMA FirstTwice ==
  ASSUME LaunchInv, Opening, VisitInclude, ~SamePrefix(launch)
  PROVE  Books'
<1> DEFINE e == Head(todo)
           new == Updated(cfg, e.args)
           s == Entities(e.file, new)
<1>1. e.file \in Launchable /\ Plain(e.args) /\ Plain(cfg) /\ Tail(todo) = <<>>
  <2> DEFINE x == Include(Head(todo).file, Head(todo).args)
  <2>1. todo = <<x>>
    BY DEF Opening, Fresh
  <2> HIDE DEF x
  <2>2. Tail(todo) = <<>>
    BY <2>1
  <2> QED BY <2>2 DEF Opening, Fresh
<1>2. Plain(new)
  BY <1>1 DEF Plain, Updated
<1>3. Reaches(launch, e.file, new)
  BY DEF Opening
<1>4. UNCHANGED <<handlers, events, procs>> /\ todo' = s \o <<>>
  BY <1>1 DEF VisitInclude
<1>5. procs = <<>> /\ handlers = <<>> /\ events = <<>>
  BY DEF Opening, Fresh
<1> HIDE DEF e, new, s
<1>6. Tidy(s)
  <2>1. CASE e.file \in Wrappers
    <3>1. s = Raise \/ \E f, args : s = <<Include(f, args)>>
      BY <1>3, <2>1, WrapperReaches DEF s
    <3>2. Tidy(Raise)
      BY RaiseOrderly, TidyOf
    <3>3. \A f, args : Tidy(<<Include(f, args)>>)
      BY IncludeClaims, OrderlyOne, TidyOf
    <3> QED BY <3>1, <3>2, <3>3
  <2>2. CASE e.file \notin Wrappers
    <3>1. Known(new)
      BY <1>2 DEF Plain, Known
    <3>2. e.file \in DualFiles => Mirrored(Arms(new))
      BY <1>3 DEF Reaches, SamePrefix, FirstArm, SecondArm, Mirrored
    <3> QED BY <1>1, <2>2, <3>1, <3>2, FileTidy DEF s
  <2> QED BY <2>1, <2>2
<1>7. todo' = s
  BY <1>4, <1>6, TidyMeans DEF Listing
<1>8. Ledger(s, <<>>, <<>>, <<>>)
  BY <1>6, LedgerFirst
<1> QED BY <1>4, <1>5, <1>7, <1>8 DEF Books

\* One that is included is.
LEMMA IncludeTwice ==
  ASSUME Going, Books, VisitInclude, Known(cfg'), ~SamePrefix(launch)
  PROVE  Books'
<1>1. PICK w : AsAsked(w) /\ GoingSteady(w)
  BY DEF Going
<1> DEFINE e == Head(todo)
           new == Updated(cfg, e.args)
           s == Entities(e.file, new)
<1>2. e.kind = "include" /\ todo # <<>> /\ Sound(e, w)
  BY <1>1, TailSteady DEF VisitInclude, NextIs, GoingSteady
<1>3. cfg' = new /\ todo' = s \o Tail(todo) /\ UNCHANGED <<handlers, events, procs>>
  BY DEF VisitInclude
<1>4. Known(Updated(cfg, e.args))
  BY <1>3
<1> HIDE DEF e
<1>5. IncludeSound(e, w)
  BY <1>2 DEF Sound
<1>6. Of(new, w)
  BY <1>1, <1>5 DEF IncludeSound, GoingSteady
<1>7. e.file \in {"_dual_robot_moveit_common2"} \cup DualTables => Mirrored(Arms(new))
  <2> SUFFICES ASSUME e.file \in {"_dual_robot_moveit_common2"} \cup DualTables
               PROVE  Mirrored(Arms(new))
    OBVIOUS
  <2>1. w.one \in {TRUE, FALSE}
    BY <1>1 DEF AsAsked
  <2>2. w.one = FALSE
    BY <1>5, <2>1 DEF IncludeSound, DualTables, SingleTables
  <2>3. launch.file \in DualFiles /\ w.d.arms = Arms(launch.args)
    BY <1>1, <2>2 DEF AsAsked
  <2>4. Arms(new) = w.d.arms
    BY <1>6, <2>2 DEF Of
  <2> QED BY <2>3, <2>4 DEF SamePrefix, FirstArm, SecondArm, Mirrored
<1>8. e.file \in {"_robot_description", "_ros2_control", "_dual_ros2_control", "_robot_planner",
                  "_robot_moveit_common2", "_dual_robot_moveit_common2"} \cup SingleTables \cup DualTables
  <2>1. w.one \in {TRUE, FALSE}
    BY <1>1 DEF AsAsked
  <2> QED BY <1>5, <2>1 DEF IncludeSound
<1>9. Orderly(s, OfFile(e.file, e.args))
  BY <1>4, <1>7, <1>8, IncludedOrderly
<1> HIDE DEF s, new
<1>10. \A i \in 1 .. Len(s) : Covers(e, s[i])
  BY <1>2, <1>9 DEF Orderly, Owns, Covers, Claims
<1>11. Tidy(s)
  BY <1>9, TidyOf
<1>12. Ledger(s \o Tail(todo), handlers, events, procs)
  BY <1>2, <1>10, <1>11, LedgerInclude DEF Books, e
<1> QED BY <1>3, <1>12 DEF Books

\* A launch that stops keeps its books.
LEMMA BooksStop ==
  ASSUME LaunchInv, Books, VisitShutdown \/ VisitRaise
  PROVE  Books'
<1>1. ~Fresh
  BY DEF Fresh, VisitShutdown, VisitRaise, NextIs
<1>2. PICK m : Follows(m)
  BY <1>1 DEF LaunchInv
<1>3. /\ todo' = <<>> /\ events' = <<>> /\ handlers' = handlers
      /\ procs' = [i \in 1 .. Len(procs) |-> [procs[i] EXCEPT !.state = IF @ = "runs" THEN "done" ELSE @]]
  BY DEF VisitShutdown, VisitRaise, Stop
<1>4. Kept(procs', procs) /\ \A j \in 1 .. Len(procs) : procs'[j].state # "runs"
  BY <1>2, <1>3, StopKeeps DEF Follows
<1>5. Ledger(<<>>, handlers, <<>>, procs')
  BY <1>4, LedgerStop DEF Books
<1> QED BY <1>3, <1>5 DEF Books

\* A step keeps the books.
LEMMA BooksStep ==
  ASSUME LaunchInv, Going, Books, [Next]_vars, LaunchInv', ~SamePrefix(launch)
  PROVE  Books'
<1>1. PICK w : AsAsked(w) /\ GoingSteady(w)
  BY DEF Going
<1>2. Shaped
  BY ShapedAlways
<1>3. Listing(events) /\ Listing(procs) /\ Listing(handlers)
  BY <1>2 DEF Shaped, ProcsListed, HandlersListed
<1>4. Ledger(todo, handlers, events, procs)
  BY DEF Books
<1>5. ASSUME VisitInclude PROVE Books'
  <2>1. Known(cfg')
    BY DEF LaunchInv, Fresh, Follows, Plain, Known
  <2> QED BY <1>5, <2>1, IncludeTwice
<1>6. ASSUME VisitNode PROVE Books'
  <2> DEFINE p == [id |-> Head(todo).id, data |-> Head(todo).data, state |-> "runs"]
  <2>1. p.id = Head(todo).id
    OBVIOUS
  <2>2. /\ todo # <<>> /\ Head(todo).kind = "node" /\ procs' = Append(procs, p)
        /\ todo' = Tail(todo) /\ handlers' = handlers
        /\ events' \in {events, Append(events, [on |-> "started", id |-> p.id])}
    BY <1>6 DEF VisitNode, NextIs, Notice
  <2> HIDE DEF p
  <2>3. Ledger(Tail(todo), handlers, events', Append(procs, p))
    BY <1>3, <1>4, <2>1, <2>2, LedgerNode
  <2> QED BY <2>2, <2>3 DEF Books
<1>7. ASSUME VisitHandler PROVE Books'
  <2>1. /\ todo # <<>> /\ todo' = Tail(todo) /\ handlers' = <<Head(todo)>> \o handlers
        /\ UNCHANGED <<events, procs>>
    BY <1>7 DEF VisitHandler, NextIs
  <2>2. Ledger(Tail(todo), <<Head(todo)>> \o handlers, events, procs)
    BY <1>3, <1>4, <2>1, LedgerHandler
  <2> QED BY <2>1, <2>2 DEF Books
<1>9. ASSUME VisitShutdown \/ VisitRaise PROVE Books'
  BY <1>9, BooksStop
<1>10. ASSUME ProcessEvent PROVE Books'
  <2>1. /\ todo = <<>> /\ events # <<>> /\ events' = Tail(events) /\ UNCHANGED <<handlers, procs>>
        /\ todo' = FlattenSeq([i \in 1 .. Len(handlers) |-> Does(handlers[i], Head(events))])
    BY <1>10 DEF ProcessEvent, Visited, Does
  <2>2. \A i \in 1 .. Len(handlers) :
           /\ handlers[i].kind = "handler" /\ Listing(handlers[i].do)
           /\ \A k \in 1 .. Len(handlers[i].do) : handlers[i].do[k].kind \in {"node", "shutdown"}
    BY <1>1, <1>2 DEF Shaped, HandlersListed, GoingSteady, HandlerSound
  <2>3. Ledger(<<>>, handlers, events, procs)
    BY <1>4, <2>1
  <2>4. Ledger(FlattenSeq([i \in 1 .. Len(handlers) |-> Does(handlers[i], Head(events))]),
               handlers, Tail(events), procs)
    BY <1>3, <2>1, <2>2, <2>3, LedgerEvent
  <2> QED BY <2>1, <2>4 DEF Books
<1>11. ASSUME Quiet PROVE Books'
  <2>1. CASE UNCHANGED <<events, procs, active>>
    BY <1>11, <2>1 DEF Quiet, Books
  <2>2. ASSUME NEW i \in 1 .. Len(procs), NEW state \in {"done", "failed", "refused"},
               Runs(i), Exit(i, state)
        PROVE  Books'
    <3>1. Kept(procs', procs) /\ Ended(procs', procs, i, state)
      BY <2>2, ExitSame DEF States
    <3>2. procs[i].state = "runs" /\ state # "runs"
      BY <2>2 DEF Runs
    <3>3. events' \in {events, Append(events, [on |-> "exited", id |-> procs[i].id])}
      BY <2>2 DEF Exit, Notice
    <3>4. Ledger(todo, handlers, events', procs')
      BY <1>3, <1>4, <3>1, <3>2, <3>3, LedgerExit
    <3> QED BY <1>11, <3>4 DEF Quiet, Books
  <2> QED BY <1>11, <2>1, <2>2 DEF Quiet
<1>12. VisitInclude \/ VisitNode \/ VisitHandler \/ VisitShutdown \/ VisitRaise \/ ProcessEvent \/ Quiet
  BY QuietStep DEF Visit
<1> QED BY <1>5, <1>6, <1>7, <1>9, <1>10, <1>11, <1>12

\* It holds from one step to the next.
LEMMA NextTwice == TwiceInv /\ [Next]_vars => TwiceInv'
<1> SUFFICES ASSUME TwiceInv, [Next]_vars PROVE TwiceInv'
  OBVIOUS
<1>1. StartInv /\ StartInv' /\ LaunchInv /\ LaunchInv'
  BY NextStart DEF TwiceInv, StartInv
<1>2. launch' = launch
  BY DEF Next, Visit, Work, VisitInclude, VisitNode, VisitHandler, VisitShutdown, VisitRaise, Stop,
     ProcessEvent, Spawn, SpawnerTimesOut, InsertRobot, InsertFails, ManagerDies, CloseRviz, vars
<1>3. CASE SamePrefix(launch)
  <2>1. SamePrefix(launch)'
    BY <1>2, <1>3 DEF SamePrefix, FirstArm, SecondArm
  <2> QED BY <1>1, <2>1 DEF TwiceInv
<1>4. CASE ~SamePrefix(launch)
  <2>1. Books
    BY <1>4 DEF TwiceInv
  <2>2. ASSUME UNCHANGED vars PROVE Books'
    BY <2>1, <2>2 DEF Books, vars, serviceVars
  <2>3. ASSUME Opening PROVE Books'
    <3>1. ~(VisitNode \/ VisitHandler \/ VisitShutdown \/ VisitRaise \/ ProcessEvent)
      BY <2>3 DEF Opening, Fresh, VisitNode, VisitHandler, VisitShutdown, VisitRaise, ProcessEvent,
         NextIs, Visited
    <3>2. \A exe : Procs(exe) = {}
      BY <2>3 DEF Opening, Fresh, Procs
    <3>3. VisitInclude \/ UNCHANGED vars
      BY <3>1, <3>2 DEF Next, Visit, Work
    <3> QED BY <1>1, <1>4, <2>2, <2>3, <3>3, FirstTwice
  <2>4. ASSUME Failed PROVE Books'
    BY <1>1, <2>1, <2>2, <2>4, FailedOnly, BooksStop
  <2>5. ASSUME Going PROVE Books'
    BY <1>1, <1>4, <2>1, <2>5, BooksStep
  <2> QED BY <1>1, <2>2, <2>3, <2>4, <2>5 DEF StartInv, TwiceInv
<1> QED BY <1>3, <1>4

\* The invariant of the launches of arms with different prefixes.
LEMMA TwiceHolds == Spec => []TwiceInv
BY InitTwice, NextTwice, PTL DEF Spec

(* A launch starts no program twice under one name, whatever its files       *)
(* include and whatever the handlers of its events start, unless two arms     *)
(* were given one prefix.                                                     *)
THEOREM NothingTwiceAlways == Spec => []NothingTwice
<1>1. TwiceInv => NothingTwice
  BY DEF TwiceInv, NothingTwice, Books, Ledger, Once, Key
<1> QED BY <1>1, TwiceHolds, PTL
-----------------------------------------------------------------------------
(* The controllers a launch asks for. *)

\* The arms of a launch, one or two with different prefixes.
Layout(w) ==
  \/ w.one = TRUE /\ \E a : w.d.arms = <<a>>
  \/ w.one = FALSE /\ \E a, b : w.d.arms = <<a, b>> /\ a.prefix # b.prefix
\* What the parameters of a manager say of the arms: a section of each directory
\* of an arm is there, with a type, and every section is such a one.
Says(params, arms, here) ==
  /\ \A k \in here : \A d \in Sections(arms[k]) :
       /\ Prefixed(arms[k].prefix, ManagerName(d)) \in DOMAIN params.joints
       /\ Prefixed(arms[k].prefix, ManagerName(d)) \in params.types
  /\ \A n \in DOMAIN params.joints : \E k \in here : \E d \in Sections(arms[k]) :
       /\ n = Prefixed(arms[k].prefix, ManagerName(d))
       /\ params.joints[n] = PrefixedAll(arms[k].prefix, ControllerJoints(d))
  /\ Broadcaster \in params.types

\* An arm's parameters are generated from the files of a known robot only.
LEMMA GeneratedConfigured ==
  ASSUME NEW arm, Params(arm) # Nothing
  PROVE  Configured(arm)
<1>1. Supported(arm)
  BY DEF Params, GenerateRos2ControlParams, Supported
<1> QED BY <1>1, SupportedConfigured

\* The broadcaster has a name without a prefix,
LEMMA BroadcasterIs == IsName(Broadcaster) /\ Broadcaster[4] = "joint_state_broadcaster"
<1>1. \E none : Broadcaster = Name(none, none, "joint_state_broadcaster")
  BY DEF Broadcaster
<1>2. PICK none : Broadcaster = Name(none, none, "joint_state_broadcaster")
  BY <1>1
<1> QED BY <1>2, NameIs

\* which is no section's.
LEMMA BroadcasterApart ==
  ASSUME NEW d
  PROVE  ManagerName(d) # Broadcaster
<1>1. Broadcaster[4] = "joint_state_broadcaster"
  BY BroadcasterIs
<1>2. ManagerName(d)[4] \in {"_traj_controller", "_gripper_traj_controller"}
  BY ManagerNameParts
<1>3. "joint_state_broadcaster" \notin {"_traj_controller", "_gripper_traj_controller"}
  OBVIOUS
<1> QED BY <1>1, <1>2, <1>3

\* The broadcaster keeps its name, having no section.
LEMMA BroadcasterTyped ==
  ASSUME NEW arm, Configured(arm)
  PROVE  Broadcaster \in Params(arm).types
<1> DEFINE yaml == Unprefixed(arm)
           own == DOMAIN yaml.joints
           keys == PrefixedKeys(arm.prefix, yaml.joints)
           types == (yaml.types \ own) \cup PrefixedAll(arm.prefix, yaml.types \cap own)
           joints == [n \in DOMAIN keys |-> PrefixedAll(arm.prefix, keys[n])]
           params == Params(arm)
<1>1. XArmType(arm) \in DOMAIN Axes /\ RobotName(arm) = XArmType(arm)
  BY RobotDir DEF Configured
<1>2. params = [types |-> types, joints |-> joints]
  BY <1>1 DEF Params, GenerateRos2ControlParams, AddPrefixToRos2ControlParams, Unprefixed
<1>3. Broadcaster \in yaml.types
  <2> DEFINE file == RobotControllersFile(RobotName(arm))
             extra == GripperControllers(arm)
  <2>1. Broadcaster \in file.types
    BY DEF RobotControllersFile
  <2> HIDE DEF file, extra
  <2>2. yaml = [types |-> file.types \cup extra.types, joints |-> Updated(file.joints, extra.joints)]
    BY DEF Unprefixed, MergeControllers, file, extra
  <2> HIDE DEF yaml
  <2>3. yaml.types = file.types \cup extra.types
    BY <2>2
  <2> QED BY <2>1, <2>3
<1>4. Broadcaster \notin own
  BY SectionsMerged, BroadcasterApart
<1>5. Broadcaster \in types
  BY <1>3, <1>4
<1> HIDE DEF types, joints, params
<1>6. params.types = types
  BY <1>2
<1> QED BY <1>5, <1>6 DEF params

\* One arm's parameters,
LEMMA SingleSays ==
  ASSUME NEW a, Configured(a)
  PROVE  Says(Params(a), <<a>>, {1})
<1> DEFINE arms == <<a>>
<1>1. arms[1] = a
  OBVIOUS
<1> HIDE DEF arms
<1>2. Says(Params(a), arms, {1})
  BY <1>1, ParamsAre, BroadcasterTyped DEF Says
<1> QED BY <1>2 DEF arms

\* and two arms', merged.
LEMMA DualSays ==
  ASSUME NEW a, Configured(a), NEW b, Configured(b)
  PROVE  Says(MergeControllers(Params(a), Params(b)), <<a, b>>, {1, 2})
<1> DEFINE arms == <<a, b>>
           first == Params(a)
           second == Params(b)
           params == MergeControllers(first, second)
<1>1. arms[1] = a /\ arms[2] = b
  OBVIOUS
<1>2. /\ \A d \in Sections(a) : /\ Prefixed(a.prefix, ManagerName(d)) \in DOMAIN first.joints
                                /\ Prefixed(a.prefix, ManagerName(d)) \in first.types
      /\ \A n \in DOMAIN first.joints : \E d \in Sections(a) :
           /\ n = Prefixed(a.prefix, ManagerName(d))
           /\ first.joints[n] = PrefixedAll(a.prefix, ControllerJoints(d))
      /\ Broadcaster \in first.types
  BY ParamsAre, BroadcasterTyped
<1>3. /\ \A d \in Sections(b) : /\ Prefixed(b.prefix, ManagerName(d)) \in DOMAIN second.joints
                                /\ Prefixed(b.prefix, ManagerName(d)) \in second.types
      /\ \A n \in DOMAIN second.joints : \E d \in Sections(b) :
           /\ n = Prefixed(b.prefix, ManagerName(d))
           /\ second.joints[n] = PrefixedAll(b.prefix, ControllerJoints(d))
  BY ParamsAre
<1> HIDE DEF arms, first, second
<1>4. params = [types |-> first.types \cup second.types, joints |-> Updated(first.joints, second.joints)]
  BY DEF MergeControllers
<1> HIDE DEF params
<1>5. /\ params.types = first.types \cup second.types
      /\ DOMAIN params.joints = DOMAIN first.joints \cup DOMAIN second.joints
      /\ \A n \in DOMAIN params.joints :
           params.joints[n] = IF n \in DOMAIN second.joints THEN second.joints[n] ELSE first.joints[n]
  BY <1>4 DEF Updated
<1>6. ASSUME NEW k \in {1, 2}, NEW d \in Sections(arms[k])
      PROVE  /\ Prefixed(arms[k].prefix, ManagerName(d)) \in DOMAIN params.joints
             /\ Prefixed(arms[k].prefix, ManagerName(d)) \in params.types
  <2>1. CASE k = 1
    BY <1>1, <1>2, <1>5, <2>1
  <2>2. CASE k = 2
    BY <1>1, <1>3, <1>5, <2>2
  <2> QED BY <2>1, <2>2
<1>7. ASSUME NEW n \in DOMAIN params.joints
      PROVE  \E k \in {1, 2} : \E d \in Sections(arms[k]) :
               /\ n = Prefixed(arms[k].prefix, ManagerName(d))
               /\ params.joints[n] = PrefixedAll(arms[k].prefix, ControllerJoints(d))
  <2>1. CASE n \in DOMAIN second.joints
    <3>1. PICK d \in Sections(b) : /\ n = Prefixed(b.prefix, ManagerName(d))
                                   /\ second.joints[n] = PrefixedAll(b.prefix, ControllerJoints(d))
      BY <1>3, <2>1
    <3> QED BY <1>1, <1>5, <2>1, <3>1
  <2>2. CASE n \notin DOMAIN second.joints
    <3>1. PICK d \in Sections(a) : /\ n = Prefixed(a.prefix, ManagerName(d))
                                   /\ first.joints[n] = PrefixedAll(a.prefix, ControllerJoints(d))
      BY <1>2, <1>5, <2>2
    <3> QED BY <1>1, <1>5, <2>2, <3>1
  <2> QED BY <2>1, <2>2
<1>8. Says(params, arms, {1, 2})
  BY <1>2, <1>5, <1>6, <1>7 DEF Says
<1> QED BY <1>8 DEF params, arms, first, second

\* A launch that is ready for its spawners has such parameters.
LEMMA ReadySays ==
  ASSUME NEW w, Layout(w), Ready(w)
  PROVE  /\ Says(w.d.params, w.d.arms, 1 .. Len(w.d.arms))
         /\ \A k \in 1 .. Len(w.d.arms) : Configured(w.d.arms[k])
         /\ \A k, l \in 1 .. Len(w.d.arms) : w.d.arms[k].prefix = w.d.arms[l].prefix => k = l
<1> DEFINE arms == w.d.arms
<1>1. CASE w.one = TRUE /\ \E a : arms = <<a>>
  <2>1. PICK a : arms = <<a>>
    BY <1>1
  <2>2. arms[1] = a /\ 1 .. Len(arms) = {1}
    BY <2>1
  <2> HIDE DEF arms
  <2>3. w.d.params = Params(a) /\ w.d.params # Nothing
    BY <1>1, <2>2 DEF Ready, Params, arms
  <2>4. Configured(a)
    BY <2>3, GeneratedConfigured
  <2>5. Says(w.d.params, arms, {1})
    BY <2>1, <2>3, <2>4, SingleSays
  <2>6. Says(w.d.params, arms, 1 .. Len(arms))
    BY <2>2, <2>5
  <2> QED BY <2>2, <2>4, <2>6 DEF arms
<1>2. CASE w.one = FALSE /\ \E a, b : arms = <<a, b>> /\ a.prefix # b.prefix
  <2>1. PICK a, b : arms = <<a, b>> /\ a.prefix # b.prefix
    BY <1>2
  <2>2. arms[1] = a /\ arms[2] = b /\ 1 .. Len(arms) = {1, 2}
    BY <2>1
  <2> HIDE DEF arms
  <2> DEFINE two == [k \in 1 .. 2 |-> GenerateRos2ControlParams(XArmTypes(arms)[k], arms[k])]
  <2>3. two[1] = Params(a) /\ two[2] = Params(b)
    <3>1. XArmTypes(arms)[1] = XArmType(a) /\ XArmTypes(arms)[2] = XArmType(b)
      BY <2>2 DEF XArmTypes
    <3> QED BY <2>2, <3>1 DEF Params
  <2>4. GenerateDualRos2ControlParams(XArmTypes(arms), arms)
        = IF \E k \in 1 .. 2 : two[k] = Nothing THEN Nothing ELSE MergeControllers(two[1], two[2])
    BY DEF GenerateDualRos2ControlParams
  <2> HIDE DEF two
  <2>5. w.d.params # Nothing /\ w.d.params = GenerateDualRos2ControlParams(XArmTypes(arms), arms)
    BY <1>2 DEF Ready, arms
  <2>6. Params(a) # Nothing /\ Params(b) # Nothing /\ w.d.params = MergeControllers(Params(a), Params(b))
    BY <2>3, <2>4, <2>5
  <2>7. Configured(a) /\ Configured(b)
    BY <2>6, GeneratedConfigured
  <2>8. Says(w.d.params, arms, {1, 2})
    BY <2>1, <2>6, <2>7, DualSays
  <2>9. Says(w.d.params, arms, 1 .. Len(arms))
    BY <2>2, <2>8
  <2>10. \A k, l \in {1, 2} : arms[k].prefix = arms[l].prefix => k = l
    BY <2>1, <2>2
  <2> QED BY <2>2, <2>7, <2>9, <2>10 DEF arms
<1> QED BY <1>1, <1>2 DEF Layout
-----------------------------------------------------------------------------
(* What the controllers command. *)

\* A joint is a name.
LEMMA JointIs ==
  ASSUME NEW kind
  PROVE  IsName(Joint(kind)) /\ Joint(kind)[4] = kind
<1>1. \E none : Joint(kind) = Name(none, none, kind)
  BY DEF Joint
<1>2. PICK none : Joint(kind) = Name(none, none, kind)
  BY <1>1
<1> QED BY <1>2, NameIs

\* The joints of a robot and of a gripper are names, and not the same.
ArmKinds == {"joint1", "joint2", "joint3", "joint4", "joint5", "joint6", "joint7"}
\* A robot's are numbered,
LEMMA ArmJointsAre ==
  ASSUME NEW r \in DOMAIN Axes, NEW x \in ArmJoints(r)
  PROVE  \E kind \in ArmKinds : x = Joint(kind)
<1> DEFINE all == <<"joint1", "joint2", "joint3", "joint4", "joint5", "joint6", "joint7">>
<1>1. Axes[r] \in {5, 6, 7}
  BY DEF Axes
<1>2. \A i \in 1 .. 7 : all[i] \in ArmKinds
  <2>1. \A i \in 1 .. 7 : i \in {1, 2, 3, 4, 5, 6, 7}
    OBVIOUS
  <2>2. \A i \in {1, 2, 3, 4, 5, 6, 7} : all[i] \in ArmKinds
    BY DEF ArmKinds
  <2> QED BY <2>1, <2>2
<1>3. ArmJoints(r) = {Joint(all[i]) : i \in 1 .. Axes[r]}
  BY DEF ArmJoints
<1> HIDE DEF all
<1>4. PICK i \in 1 .. Axes[r] : x = Joint(all[i])
  BY <1>3
<1>5. i \in 1 .. 7
  BY <1>1
<1> QED BY <1>2, <1>4, <1>5

\* a gripper's is not.
LEMMA GripperJointApart ==
  ASSUME NEW r \in DOMAIN Axes, NEW g
  PROVE  DrivenJoint(g) \notin ArmJoints(r)
<1>1. \E kind \in {"right_finger_joint", "drive_joint"} : DrivenJoint(g) = Joint(kind)
  BY DEF DrivenJoint
<1>2. PICK kind \in {"right_finger_joint", "drive_joint"} : DrivenJoint(g) = Joint(kind)
  BY <1>1
<1>3. kind \notin ArmKinds
  BY <1>2 DEF ArmKinds
<1>4. ASSUME NEW other \in ArmKinds, Joint(kind) = Joint(other)
      PROVE  FALSE
  BY <1>3, <1>4, JointIs
<1> QED BY <1>2, <1>4, ArmJointsAre

\* The joints of a section are names.
LEMMA ControllerJointsAre ==
  ASSUME NEW d, NEW x \in ControllerJoints(d)
  PROVE  IsName(x)
<1>1. CASE d \in DOMAIN Axes
  <2>1. x \in ArmJoints(d)
    BY <1>1 DEF ControllerJoints
  <2> QED BY <1>1, <2>1, ArmJointsAre, JointIs
<1>2. CASE d \notin DOMAIN Axes
  <2>1. x = DrivenJoint(d)
    BY <1>2 DEF ControllerJoints
  <2>2. \E kind : DrivenJoint(d) = Joint(kind)
    BY DEF DrivenJoint
  <2> QED BY <2>1, <2>2, JointIs
<1> QED BY <1>1, <1>2

\* Two sections of an arm share no joint.
LEMMA SectionJointsApart ==
  ASSUME NEW arm, Configured(arm), NEW d \in Sections(arm), NEW e \in Sections(arm), d # e
  PROVE  ControllerJoints(d) \cap ControllerJoints(e) = {}
<1>1. RobotName(arm) \in DOMAIN Axes
  BY RobotFinger
<1>2. ASSUME NEW g, g \in Sections(arm), g # RobotName(arm)
      PROVE  g \notin DOMAIN Axes /\ ControllerJoints(RobotName(arm)) \cap ControllerJoints(g) = {}
  <2>1. g \in FingerGrippers \cup {BioGripper}
    BY <1>2 DEF Sections
  <2>2. \E type : g = GripperDir(type)
    BY <2>1 DEF FingerGrippers, BioGripper
  <2>3. g \notin DOMAIN Axes
    BY <2>2, GripperNotRobot
  <2>4. ControllerJoints(g) = {DrivenJoint(g)} /\ ControllerJoints(RobotName(arm)) = ArmJoints(RobotName(arm))
    BY <1>1, <2>3 DEF ControllerJoints
  <2>5. DrivenJoint(g) \notin ArmJoints(RobotName(arm))
    BY <1>1, GripperJointApart
  <2> QED BY <2>3, <2>4, <2>5
<1>3. d = RobotName(arm) \/ e = RobotName(arm)
  BY DEF Sections
<1> QED BY <1>2, <1>3

\* No two of a manager's controllers share one.
LEMMA ClaimsApart ==
  ASSUME NEW params, NEW arms, NEW here, Says(params, arms, here),
         \A k \in here : Configured(arms[k]),
         \A k, l \in here : arms[k].prefix = arms[l].prefix => k = l,
         NEW n \in DOMAIN params.joints, NEW o \in DOMAIN params.joints, n # o
  PROVE  params.joints[n] \cap params.joints[o] = {}
<1> SUFFICES ASSUME NEW x, x \in params.joints[n], x \in params.joints[o]
             PROVE  FALSE
  OBVIOUS
<1>1. PICK k \in here : \E d \in Sections(arms[k]) :
        /\ n = Prefixed(arms[k].prefix, ManagerName(d))
        /\ params.joints[n] = PrefixedAll(arms[k].prefix, ControllerJoints(d))
  BY DEF Says
<1>2. PICK d \in Sections(arms[k]) :
        /\ n = Prefixed(arms[k].prefix, ManagerName(d))
        /\ params.joints[n] = PrefixedAll(arms[k].prefix, ControllerJoints(d))
  BY <1>1
<1>3. PICK l \in here : \E e \in Sections(arms[l]) :
        /\ o = Prefixed(arms[l].prefix, ManagerName(e))
        /\ params.joints[o] = PrefixedAll(arms[l].prefix, ControllerJoints(e))
  BY DEF Says
<1>4. PICK e \in Sections(arms[l]) :
        /\ o = Prefixed(arms[l].prefix, ManagerName(e))
        /\ params.joints[o] = PrefixedAll(arms[l].prefix, ControllerJoints(e))
  BY <1>3
<1>5. PICK i \in ControllerJoints(d) : x = Prefixed(arms[k].prefix, i)
  BY <1>2 DEF PrefixedAll
<1>6. PICK j \in ControllerJoints(e) : x = Prefixed(arms[l].prefix, j)
  BY <1>4 DEF PrefixedAll
<1>7. IsName(i) /\ IsName(j)
  BY ControllerJointsAre
<1> DEFINE p == arms[k].prefix
           q == arms[l].prefix
<1>8. p = q /\ i = j
  <2>1. Prefixed(p, i) = Prefixed(q, j)
    BY <1>5, <1>6
  <2> HIDE DEF p, q
  <2> QED BY <1>7, <2>1, PrefixedSame
<1>9. k = l
  BY <1>8
<1>10. d # e
  BY <1>2, <1>4, <1>9
<1>11. ControllerJoints(d) \cap ControllerJoints(e) = {}
  BY <1>9, <1>10, SectionJointsApart
<1> QED BY <1>8, <1>11

\* A section of a manager has the joints of its directory, with the prefix.
LEMMA SectionClaims ==
  ASSUME NEW params, NEW arms, NEW here, Says(params, arms, here),
         \A k \in here : Configured(arms[k]), NEW k \in here, NEW d \in Sections(arms[k])
  PROVE  params.joints[Prefixed(arms[k].prefix, ManagerName(d))]
         = PrefixedAll(arms[k].prefix, ControllerJoints(d))
<1> DEFINE n == Prefixed(arms[k].prefix, ManagerName(d))
<1>1. n \in DOMAIN params.joints
  BY DEF Says
<1>2. PICK l \in here : \E e \in Sections(arms[l]) :
        /\ n = Prefixed(arms[l].prefix, ManagerName(e))
        /\ params.joints[n] = PrefixedAll(arms[l].prefix, ControllerJoints(e))
  BY <1>1 DEF Says
<1>3. PICK e \in Sections(arms[l]) :
        /\ n = Prefixed(arms[l].prefix, ManagerName(e))
        /\ params.joints[n] = PrefixedAll(arms[l].prefix, ControllerJoints(e))
  BY <1>2
<1>4. IsName(ManagerName(d)) /\ IsName(ManagerName(e))
  BY ManagerNameIs
<1>5. arms[k].prefix = arms[l].prefix /\ ManagerName(d) = ManagerName(e)
  BY <1>3, <1>4, PrefixedSame
<1>6. d \in ConfigDirs /\ e \in ConfigDirs
  BY SectionsAre
<1>7. d = e
  BY <1>5, <1>6, ManagerNamesApart
<1> QED BY <1>3, <1>5, <1>7

\* The controller of an arm's gripper is named after the gripper.
LEMMA GripperNamesAre ==
  ASSUME NEW arm, NEW n \in GripperNames(arm)
  PROVE  \/ HasGripper(arm) /\ n = Prefixed(arm.prefix, Name(arm.type, "", "_gripper_traj_controller"))
         \/ /\ ~HasGripper(arm) /\ HasBioGripper(arm)
            /\ n = Prefixed(arm.prefix, Name("bio", "", "_gripper_traj_controller"))
<1> DEFINE g == GripperTrajController(arm)
           own == Prefixed(arm.prefix, Name(arm.type, "", "_gripper_traj_controller"))
           bio == Prefixed(arm.prefix, Name("bio", "", "_gripper_traj_controller"))
<1>1. g = IF HasGripper(arm) THEN <<own>> ELSE IF HasBioGripper(arm) THEN <<bio>> ELSE <<>>
  BY DEF GripperTrajController
<1> HIDE DEF g, own, bio
<1>2. PICK i \in 1 .. Len(g) : n = g[i]
  BY DEF GripperNames, g
<1>3. \A x : 1 .. Len(<<x>>) = {1} /\ <<x>>[1] = x
  OBVIOUS
<1>4. 1 .. Len(<<>>) = {}
  OBVIOUS
<1>5. CASE HasGripper(arm)
  BY <1>1, <1>2, <1>3, <1>5 DEF own
<1>6. CASE ~HasGripper(arm) /\ HasBioGripper(arm)
  BY <1>1, <1>2, <1>3, <1>6 DEF bio
<1>7. CASE ~HasGripper(arm) /\ ~HasBioGripper(arm)
  BY <1>1, <1>2, <1>4, <1>7
<1> QED BY <1>5, <1>6, <1>7

\* What a launch file spawns is such a controller, and an arm's own or a
\* gripper's that is not the real one's.
LEMMA StartableIs ==
  ASSUME NEW w, w.asked = FALSE, \A k \in 1 .. Len(w.d.arms) : Configured(w.d.arms[k]),
         NEW n, Startable(n, w), n # Broadcaster
  PROVE  \E k \in 1 .. Len(w.d.arms) : \E d \in ArmDirs(w.d.arms[k], w.d.arms[k].type) :
            /\ n = Prefixed(w.d.arms[k].prefix, ManagerName(d))
            /\ d = RobotName(w.d.arms[k]) \/ w.d.plugin # RealPlugin
<1>1. CASE \E k \in 1 .. Len(w.d.arms) : n = TrajController(w.d.arms[k])
  <2>1. PICK k \in 1 .. Len(w.d.arms) : n = TrajController(w.d.arms[k])
    BY <1>1
  <2> DEFINE arm == w.d.arms[k]
  <2>2. Configured(arm)
    OBVIOUS
  <2>3. RobotName(arm) = XArmType(arm) /\ RobotName(arm) \in DOMAIN Axes
    BY <2>2, RobotDir DEF Configured
  <2>4. n = Prefixed(arm.prefix, ManagerName(RobotName(arm)))
    BY <2>1, <2>3 DEF TrajController, ManagerName
  <2>5. RobotName(arm) \in ArmDirs(arm, arm.type)
    BY DEF ArmDirs
  <2> QED BY <2>4, <2>5
<1>2. CASE /\ \E k \in 1 .. Len(w.d.arms) : n \in GripperNames(w.d.arms[k])
           /\ w.d.plugin # RealPlugin
  <2>1. PICK k \in 1 .. Len(w.d.arms) : n \in GripperNames(w.d.arms[k])
    BY <1>2
  <2> DEFINE arm == w.d.arms[k]
  <2>2. \/ HasGripper(arm) /\ n = Prefixed(arm.prefix, Name(arm.type, "", "_gripper_traj_controller"))
        \/ /\ ~HasGripper(arm) /\ HasBioGripper(arm)
           /\ n = Prefixed(arm.prefix, Name("bio", "", "_gripper_traj_controller"))
    BY <2>1, GripperNamesAre
  <2>3. \A type : ManagerName(GripperDir(type)) = Name(type, "", "_gripper_traj_controller")
    <3>1. \A type : GripperDir(type)[1] = type
      BY DEF GripperDir
    <3> QED BY <3>1, GripperNotRobot DEF ManagerName
  <2> HIDE DEF arm
  <2>4. \E d \in ArmDirs(arm, arm.type) : n = Prefixed(arm.prefix, ManagerName(d))
    <3>1. CASE HasGripper(arm) /\ n = Prefixed(arm.prefix, Name(arm.type, "", "_gripper_traj_controller"))
      <4>1. GripperDir(arm.type) \in ArmDirs(arm, arm.type)
        BY <3>1 DEF ArmDirs
      <4> QED BY <2>3, <3>1, <4>1
    <3>2. CASE /\ ~HasGripper(arm) /\ HasBioGripper(arm)
               /\ n = Prefixed(arm.prefix, Name("bio", "", "_gripper_traj_controller"))
      <4>1. BioGripper \in ArmDirs(arm, arm.type)
        BY <3>2 DEF ArmDirs
      <4> QED BY <2>3, <3>2, <4>1 DEF BioGripper
    <3> QED BY <2>2, <3>1, <3>2
  <2> QED BY <1>2, <2>4 DEF arm
<1> QED BY <1>1, <1>2 DEF Startable

\* The joints of such a directory have command interfaces in the URDF.
LEMMA DirJointsCommanded ==
  ASSUME NEW arm, Configured(arm), NEW plugin, NEW d \in ArmDirs(arm, arm.type),
         d = RobotName(arm) \/ plugin # RealPlugin
  PROVE  PrefixedAll(arm.prefix, ControllerJoints(d)) \subseteq CommandJoints(arm, plugin)
<1> DEFINE all == ArmJoints(RobotName(arm))
                  \cup (IF plugin = RealPlugin THEN {}
                        ELSE IF HasGripper(arm) THEN {DrivenJoint(GripperDir(arm.type))}
                        ELSE IF HasBioGripper(arm) THEN {DrivenJoint(BioGripper)}
                        ELSE {})
<1>1. CommandJoints(arm, plugin) = PrefixedAll(arm.prefix, all)
  BY DEF CommandJoints
<1>2. ControllerJoints(d) \subseteq all
  <2>1. CASE d = RobotName(arm)
    BY <2>1, RobotFinger DEF ControllerJoints
  <2>2. CASE HasGripper(arm) /\ d = GripperDir(arm.type) /\ d # RobotName(arm)
    BY <2>2, RobotFinger DEF ControllerJoints
  <2>3. CASE HasBioGripper(arm) /\ ~HasGripper(arm) /\ d = BioGripper /\ d # RobotName(arm)
    BY <2>3, RobotFinger DEF ControllerJoints
  <2> QED BY <2>1, <2>2, <2>3, ArmDirIs
<1> HIDE DEF all
<1> QED BY <1>1, <1>2, PrefixedSubset

\* A manager of the launch's parameters and description takes such a controller
\* as long as it was not started before.
LEMMA StartableAccepted ==
  ASSUME NEW w, Layout(w), Ready(w), w.asked = FALSE, NEW n, Startable(n, w), n \notin active,
         NEW m, Drives(m, w.d)
  PROVE  Accepts(m, n)
<1> DEFINE d == w.d
           here == 1 .. Len(d.arms)
<1>1. /\ Says(d.params, d.arms, here)
      /\ \A k \in here : Configured(d.arms[k])
      /\ \A k, l \in here : d.arms[k].prefix = d.arms[l].prefix => k = l
  BY ReadySays
<1>2. m.params = d.params /\ Interfaces(m.description) = Interfaces(d)
  BY DEF Drives, Interfaces
<1>3. \A o : JointsOf(o, m) = IF o \in DOMAIN d.params.joints THEN d.params.joints[o] ELSE {}
  BY <1>2 DEF JointsOf
<1>4. \A o : o # n => JointsOf(n, m) \cap JointsOf(o, m) = {}
  <2> SUFFICES ASSUME NEW o, o # n PROVE JointsOf(n, m) \cap JointsOf(o, m) = {}
    OBVIOUS
  <2>1. CASE n \in DOMAIN d.params.joints /\ o \in DOMAIN d.params.joints
    <3>1. d.params.joints[n] \cap d.params.joints[o] = {}
      BY <1>1, <2>1, ClaimsApart
    <3> QED BY <1>3, <2>1, <3>1
  <2>2. CASE ~(n \in DOMAIN d.params.joints /\ o \in DOMAIN d.params.joints)
    BY <1>3, <2>2
  <2> QED BY <2>1, <2>2
<1>5. /\ n \in d.params.types
      /\ n # Broadcaster => n \in DOMAIN d.params.joints
      /\ JointsOf(n, m) \subseteq Interfaces(d)
  <2>1. CASE n = Broadcaster
    <3>1. n \notin DOMAIN d.params.joints
      <4>1. \A k \in here : \A e \in Sections(d.arms[k]) : Prefixed(d.arms[k].prefix, ManagerName(e)) # Broadcaster
        <5> SUFFICES ASSUME NEW prefix, NEW e, Prefixed(prefix, ManagerName(e)) = Broadcaster PROVE FALSE
          OBVIOUS
        <5>1. IsName(ManagerName(e)) /\ IsName(Broadcaster)
          BY ManagerNameIs, BroadcasterIs
        <5>2. \E none : Broadcaster = Prefixed(none, Broadcaster)
          BY <5>1 DEF IsName, Prefixed
        <5>3. PICK none : Broadcaster = Prefixed(none, Broadcaster)
          BY <5>2
        <5>4. ManagerName(e) = Broadcaster
          BY <5>1, <5>3, PrefixedSame
        <5> QED BY <5>4, BroadcasterApart
      <4> QED BY <1>1, <2>1, <4>1 DEF Says
    <3>2. n \in d.params.types
      BY <1>1, <2>1 DEF Says
    <3> QED BY <1>3, <2>1, <3>1, <3>2
  <2>2. CASE n # Broadcaster
    <3>1. PICK k \in here : \E e \in ArmDirs(d.arms[k], d.arms[k].type) :
            /\ n = Prefixed(d.arms[k].prefix, ManagerName(e))
            /\ e = RobotName(d.arms[k]) \/ d.plugin # RealPlugin
      BY <1>1, <2>2, StartableIs
    <3>2. PICK e \in ArmDirs(d.arms[k], d.arms[k].type) :
            /\ n = Prefixed(d.arms[k].prefix, ManagerName(e))
            /\ e = RobotName(d.arms[k]) \/ d.plugin # RealPlugin
      BY <3>1
    <3>3. e \in Sections(d.arms[k])
      BY <1>1, SectionsAre
    <3>4. n \in DOMAIN d.params.joints /\ n \in d.params.types
      BY <1>1, <3>2, <3>3 DEF Says
    <3>5. JointsOf(n, m) = PrefixedAll(d.arms[k].prefix, ControllerJoints(e))
      <4>1. d.params.joints[n] = PrefixedAll(d.arms[k].prefix, ControllerJoints(e))
        BY <1>1, <3>2, <3>3, SectionClaims
      <4> QED BY <1>3, <3>4, <4>1
    <3>6. JointsOf(n, m) \subseteq CommandJoints(d.arms[k], d.plugin)
      BY <1>1, <3>2, <3>5, DirJointsCommanded
    <3>7. CommandJoints(d.arms[k], d.plugin) \subseteq Interfaces(d)
      BY DEF Interfaces
    <3> QED BY <2>2, <3>4, <3>6, <3>7
  <2> QED BY <2>1, <2>2
<1> QED BY <1>2, <1>4, <1>5 DEF Accepts
-----------------------------------------------------------------------------
(* No controller is refused. *)

\* Nobody was refused, and the controllers that run were started by spawners that
\* have ended.
BySpawners == \A n \in active : \E i \in Procs("spawner") : procs[i].id.name = n /\ ~Runs(i)
Granted == (\A i \in Procs("spawner") : procs[i].state # "refused") /\ BySpawners
RefusedInv == TwiceInv /\ (SamePrefix(launch) \/ RealPluginAsked(launch) \/ Granted)

\* The arms of a launch that goes on.
LEMMA LaunchLayout ==
  ASSUME NEW w, AsAsked(w), GoingSteady(w), ~SamePrefix(launch)
  PROVE  Layout(w)
<1>1. CASE launch.file \in DualFiles
  <2>1. w.one = FALSE /\ w.d.arms = Arms(launch.args)
    BY <1>1 DEF AsAsked
  <2>2. Arms(launch.args)[1].prefix # Arms(launch.args)[2].prefix
    BY <1>1 DEF SamePrefix, FirstArm, SecondArm
  <2>3. \E a, b : Arms(launch.args) = <<a, b>>
    BY DEF Arms
  <2>4. PICK a, b : Arms(launch.args) = <<a, b>>
    BY <2>3
  <2>5. w.d.arms = <<a, b>> /\ a.prefix # b.prefix
    BY <2>1, <2>2, <2>4
  <2> QED BY <2>1, <2>5 DEF Layout
<1>2. CASE launch.file \notin DualFiles
  <2>1. w.one = TRUE
    BY <1>2 DEF AsAsked
  <2>2. w.d.arms = <<Arm(cfg)>>
    BY <2>1 DEF GoingSteady, Of
  <2> QED BY <2>1, <2>2 DEF Layout
<1> QED BY <1>1, <1>2

\* Whichever manager runs, it has the launch's parameters, its arms and its plugin.
LEMMA ManagerOf ==
  ASSUME NEW w, GoingSteady(w), NEW manager \in Manager
  PROVE  Drives(manager, w.d)
<1>1. CASE manager \in ControlNode
  <2>1. PICK i \in Procs("ros2_control_node") : manager = procs[i].data
    BY <1>1 DEF ControlNode
  <2> QED BY <2>1 DEF Procs, GoingSteady, NodeSound
<1>2. CASE manager \in SimulatorPlugin
  <2>1. PICK i \in Procs("robot_state_publisher") :
          manager = [params |-> procs[i].data.params, description |-> procs[i].data]
    BY <1>2 DEF SimulatorPlugin
  <2>2. procs[i].data = w.d
    BY <2>1 DEF Procs, GoingSteady, NodeSound
  <2> QED BY <2>1, <2>2 DEF Drives
<1> QED BY <1>1, <1>2 DEF Manager

\* So it takes what a spawner asks for.
LEMMA SpawnerAccepted ==
  ASSUME NEW w, AsAsked(w), GoingSteady(w), ~SamePrefix(launch), ~RealPluginAsked(launch),
         Books, BySpawners, NEW i \in Procs("spawner"), Runs(i), NEW manager \in Manager
  PROVE  Accepts(manager, procs[i].id.name)
<1>1. Drives(manager, w.d) /\ Layout(w)
  BY ManagerOf, LaunchLayout
<1>2. Ready(w) /\ Startable(procs[i].id.name, w)
  BY DEF Procs, GoingSteady, NodeSound
<1>3. w.asked = FALSE
  BY DEF AsAsked
<1>4. procs[i].id.name \notin active
  <2> SUFFICES ASSUME procs[i].id.name \in active PROVE FALSE
    OBVIOUS
  <2>1. PICK j \in Procs("spawner") : procs[j].id.name = procs[i].id.name /\ ~Runs(j)
    BY DEF BySpawners
  <2>2. i = j
    BY <2>1 DEF Procs, Books, Ledger, Once, Key
  <2> QED BY <2>1, <2>2
<1> QED BY <1>1, <1>2, <1>3, <1>4, StartableAccepted

\* A process that is started changes nothing.
LEMMA GrantedNode ==
  ASSUME Granted, Listing(procs), VisitNode
  PROVE  Granted'
<1> DEFINE p == [id |-> Head(todo).id, data |-> Head(todo).data, state |-> "runs"]
<1>1. procs' = Append(procs, p) /\ active' = active /\ p.state = "runs"
  BY DEF VisitNode
<1> HIDE DEF p
<1>2. /\ Len(procs') = Len(procs) + 1 /\ Len(procs) \in Nat
      /\ \A i \in 1 .. Len(procs) : procs'[i] = procs[i]
      /\ procs'[Len(procs) + 1] = p
  BY <1>1, AppendSeq DEF Listing
<1>3. \A i \in 1 .. Len(procs') : i \in 1 .. Len(procs) \/ i = Len(procs) + 1
  BY <1>2
<1>4. \A i \in 1 .. Len(procs) : i \in 1 .. Len(procs')
  BY <1>2
<1>5. ASSUME NEW i \in Procs("spawner")'
      PROVE  procs'[i].state # "refused"
  BY <1>1, <1>2, <1>3 DEF Procs, Granted
<1>6. ASSUME NEW n \in active'
      PROVE  \E i \in Procs("spawner")' : procs'[i].id.name = n /\ ~Runs(i)'
  <2>1. PICK i \in Procs("spawner") : procs[i].id.name = n /\ ~Runs(i)
    BY <1>1, <1>6 DEF Granted, BySpawners
  <2> QED BY <1>2, <1>4, <2>1 DEF Procs, Runs
<1> QED BY <1>5, <1>6 DEF Granted, BySpawners

\* A launch that stops ends its controllers.
LEMMA GrantedStop ==
  ASSUME LaunchInv, Granted, VisitShutdown \/ VisitRaise
  PROVE  Granted'
<1>1. ~Fresh
  BY DEF Fresh, VisitShutdown, VisitRaise, NextIs
<1>2. PICK m : Follows(m)
  BY <1>1 DEF LaunchInv
<1>3. /\ active' = {}
      /\ procs' = [i \in 1 .. Len(procs) |-> [procs[i] EXCEPT !.state = IF @ = "runs" THEN "done" ELSE @]]
  BY DEF VisitShutdown, VisitRaise, Stop
<1>4. Kept(procs', procs)
  BY <1>2, <1>3, StopKeeps DEF Follows
<1>5. \A i \in 1 .. Len(procs) : procs'[i].state = "refused" => procs[i].state = "refused"
  <2> SUFFICES ASSUME NEW i \in 1 .. Len(procs), procs[i].state # "refused"
               PROVE  procs'[i].state # "refused"
    OBVIOUS
  <2>1. Len(procs) \in Nat /\ procs[i] = [id |-> procs[i].id, data |-> procs[i].data, state |-> procs[i].state]
    BY <1>2 DEF Follows, ProcsFit
  <2> DEFINE p == procs[i]
             over == IF p.state = "runs" THEN "done" ELSE p.state
  <2>2. procs'[i] = [p EXCEPT !.state = over]
    BY <1>3
  <2>3. over # "refused"
    OBVIOUS
  <2> HIDE DEF over, p
  <2>4. [p EXCEPT !.state = over].state = over
    BY <2>1 DEF p
  <2> QED BY <2>2, <2>3, <2>4
<1>6. \A i \in Procs("spawner")' : procs'[i].state # "refused"
  BY <1>4, <1>5 DEF Kept, Procs, Granted
<1> QED BY <1>3, <1>6 DEF Granted, BySpawners

\* A spawner gets what it asks for, and whoever else ends is not refused.
LEMMA GrantedQuiet ==
  ASSUME LaunchInv, NEW w, AsAsked(w), GoingSteady(w), ~SamePrefix(launch), ~RealPluginAsked(launch),
         Books, Granted, Quiet
  PROVE  Granted'
<1>1. CASE UNCHANGED <<events, procs, active>>
  BY <1>1 DEF Granted, BySpawners, Procs, Runs
<1>2. ASSUME NEW i \in 1 .. Len(procs), NEW state \in {"done", "failed", "refused"},
             Runs(i), Exit(i, state),
             state = "refused" => Spawn(i) /\ i \in Procs("spawner"),
             active' \in {active, {}} \/ (Spawn(i) /\ i \in Procs("spawner"))
      PROVE  Granted'
  <2>1. Kept(procs', procs) /\ Ended(procs', procs, i, state)
    BY <1>2, ExitSame DEF States
  <2>2. ASSUME Spawn(i), i \in Procs("spawner")
        PROVE  state = "done" /\ active' = active \cup {procs[i].id.name}
    <3>1. PICK manager \in Manager :
            IF Accepts(manager, procs[i].id.name)
            THEN active' = active \cup {procs[i].id.name} /\ Exit(i, "done")
            ELSE UNCHANGED active /\ Exit(i, "refused")
      BY <2>2 DEF Spawn
    <3>2. Accepts(manager, procs[i].id.name)
      BY <1>2, <2>2, SpawnerAccepted DEF Granted
    <3>3. active' = active \cup {procs[i].id.name} /\ Exit(i, "done")
      BY <3>1, <3>2
    <3>4. Ended(procs', procs, i, "done")
      BY <3>3, ExitSame DEF States
    <3>5. procs'[i].state = state /\ procs'[i].state = "done"
      BY <2>1, <3>4 DEF Ended
    <3> QED BY <3>3, <3>5
  <2>3. state # "refused"
    BY <1>2, <2>2
  <2>4. \A j \in Procs("spawner")' : procs'[j].state # "refused"
    BY <2>1, <2>3 DEF Procs, Granted, Kept, Ended
  <2>5. \A j \in 1 .. Len(procs) : procs[j].state # "runs" => procs'[j].state # "runs"
    BY <1>2, <2>1 DEF Ended
  <2>6. ASSUME NEW n \in active'
        PROVE  \E j \in Procs("spawner")' : procs'[j].id.name = n /\ ~Runs(j)'
    <3>1. CASE n \in active
      <4>1. PICK j \in Procs("spawner") : procs[j].id.name = n /\ ~Runs(j)
        BY <3>1 DEF Granted, BySpawners
      <4> QED BY <2>1, <2>5, <4>1 DEF Procs, Runs, Kept
    <3>2. CASE n \notin active
      <4>1. Spawn(i) /\ i \in Procs("spawner")
        BY <1>2, <2>6, <3>2
      <4>2. n = procs[i].id.name /\ state = "done"
        BY <2>2, <2>6, <3>2, <4>1
      <4> QED BY <2>1, <4>1, <4>2 DEF Procs, Runs, Kept, Ended
    <3> QED BY <3>1, <3>2
  <2> QED BY <2>4, <2>6 DEF Granted, BySpawners
<1> QED BY <1>1, <1>2 DEF Quiet

\* Before anything was started.
LEMMA GrantedFirst ==
  ASSUME procs = <<>>, active = {}
  PROVE  Granted
<1>1. \A exe : Procs(exe) = {}
  BY DEF Procs
<1> QED BY <1>1 DEF Granted, BySpawners

\* A step keeps it so.
LEMMA NextRefused == RefusedInv /\ [Next]_vars => RefusedInv'
<1> SUFFICES ASSUME RefusedInv, [Next]_vars PROVE RefusedInv'
  OBVIOUS
<1>1. TwiceInv /\ TwiceInv' /\ StartInv /\ LaunchInv
  BY NextTwice DEF RefusedInv, TwiceInv, StartInv
<1>2. launch' = launch
  BY DEF Next, Visit, Work, VisitInclude, VisitNode, VisitHandler, VisitShutdown, VisitRaise, Stop,
     ProcessEvent, Spawn, SpawnerTimesOut, InsertRobot, InsertFails, ManagerDies, CloseRviz, vars
<1>3. CASE SamePrefix(launch) \/ RealPluginAsked(launch)
  <2>1. SamePrefix(launch)' \/ RealPluginAsked(launch)'
    BY <1>2, <1>3 DEF SamePrefix, FirstArm, SecondArm, RealPluginAsked
  <2> QED BY <1>1, <2>1 DEF RefusedInv
<1>4. CASE ~SamePrefix(launch) /\ ~RealPluginAsked(launch)
  <2>1. Granted /\ Books
    BY <1>1, <1>4 DEF RefusedInv, TwiceInv
  <2>2. ASSUME UNCHANGED <<procs, active>> PROVE Granted'
    BY <2>1, <2>2 DEF Granted, BySpawners, Procs, Runs
  <2>3. ASSUME Opening PROVE Granted'
    <3>1. ~(VisitNode \/ VisitHandler \/ VisitShutdown \/ VisitRaise \/ ProcessEvent)
      BY <2>3 DEF Opening, Fresh, VisitNode, VisitHandler, VisitShutdown, VisitRaise, ProcessEvent,
         NextIs, Visited
    <3>2. \A exe : Procs(exe) = {}
      BY <2>3 DEF Opening, Fresh, Procs
    <3>3. VisitInclude \/ UNCHANGED vars
      BY <3>1, <3>2 DEF Next, Visit, Work
    <3> QED BY <2>2, <3>3 DEF VisitInclude, vars
  <2>4. ASSUME Failed PROVE Granted'
    BY <1>1, <2>1, <2>2, <2>4, FailedOnly, GrantedStop DEF vars
  <2>5. ASSUME Going PROVE Granted'
    <3>1. PICK w : AsAsked(w) /\ GoingSteady(w)
      BY <2>5 DEF Going
    <3>2. Listing(procs)
      BY <1>1, ShapedAlways DEF Shaped, ProcsListed
    <3>3. ASSUME VisitInclude \/ VisitHandler \/ ProcessEvent PROVE Granted'
      BY <2>2, <3>3 DEF VisitInclude, VisitHandler, ProcessEvent
    <3>4. VisitNode => Granted'
      BY <2>1, <3>2, GrantedNode
    <3>5. VisitShutdown \/ VisitRaise => Granted'
      BY <1>1, <2>1, GrantedStop
    <3>6. Quiet => Granted'
      BY <1>1, <1>4, <2>1, <3>1, GrantedQuiet
    <3>7. VisitInclude \/ VisitNode \/ VisitHandler \/ VisitShutdown \/ VisitRaise \/ ProcessEvent \/ Quiet
      BY QuietStep DEF Visit
    <3> QED BY <3>3, <3>4, <3>5, <3>6, <3>7
  <2> QED BY <1>1, <2>3, <2>4, <2>5 DEF StartInv, RefusedInv
<1> QED BY <1>3, <1>4

\* The first state.
LEMMA InitRefused == Init => RefusedInv
<1> SUFFICES ASSUME Init PROVE RefusedInv
  OBVIOUS
<1>1. procs = <<>> /\ active = {}
  BY DEF Init
<1> QED BY <1>1, InitTwice, GrantedFirst DEF RefusedInv

(* The controller manager takes every controller a launch file starts: the   *)
(* file that lists the spawners, the file that generated the manager's       *)
(* parameters and the URDF agree on names, prefixes, grippers and joints.    *)
THEOREM NoSpawnerRefusedAlways == Spec => []NoSpawnerRefused
<1>1. RefusedInv => NoSpawnerRefused
  BY DEF RefusedInv, NoSpawnerRefused, Granted
<1>2. Spec => []RefusedInv
  BY InitRefused, NextRefused, PTL DEF Spec
<1> QED BY <1>1, <1>2, PTL
=============================================================================
