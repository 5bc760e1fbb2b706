---------------------------- MODULE LaunchServiceMC ----------------------------
(***************************************************************************)
(* The launches TLC tries.                                                 *)
(***************************************************************************)
EXTENDS LaunchService

Flags == {[add_gripper |-> g, add_bio_gripper |-> b] : g, b \in BOOLEAN}
Robots == {[dof |-> "6", robot_type |-> "xarm"], [dof |-> "6", robot_type |-> "lite"],
           [dof |-> "6", robot_type |-> "uf850"]}
Launched(files, args) == {[file |-> f, args |-> a] : f \in files, a \in args}

(* One arm: each kind of gripper, each robot, with and without a prefix.   *)
OneArm ==
    {r @@ f @@ p : r \in Robots, f \in Flags, p \in {[prefix |-> ""], [prefix |-> "L_"]}}
Address == [robot_ip |-> "ip"]
Addresses == [robot_ip_1 |-> "ip", robot_ip_2 |-> "ip"]
SingleLaunches ==
    Launched({"_robot_moveit_fake", "_robot_moveit_gz", "_robot_moveit_servo_fake",
              "_robot_planner"}, OneArm)
    \cup Launched({"_robot_moveit_realmove"}, {Address @@ a : a \in OneArm})
    \cup Launched({"xarm6_planner_realmove"}, {Address @@ f : f \in Flags})
    \cup Launched({"_robot_moveit_ignition", "_robot_moveit_gazebo", "xarm6_planner_fake",
                   "xarm6_planner_gazebo", "emer_planner",
                   "_ros2_control", "_dual_ros2_control", "_robot_description"},
                  {[dof |-> "6", robot_type |-> "xarm"] @@ f : f \in Flags})
    \cup Launched({"_robot_moveit_servo_realmove"},
                  {[dof |-> "6", ros2_control_plugin |-> RealPlugin] @@ f : f \in Flags})
    \cup Launched({"_robot_beside_table_gz", "_robot_beside_table_ignition",
                   "_robot_beside_table_gazebo"},
                  {[dof |-> "6", load_controller |-> l, show_rviz |-> TRUE] @@ f :
                      l \in BOOLEAN, f \in Flags})

(* Two arms: of one type or two, with one gripper, two or none.            *)
Second == {[robot_type_1 |-> "xarm", robot_type_2 |-> t] : t \in {"xarm", "uf850", "lite"}}
TwoGrippers == {[add_gripper_1 |-> g, add_gripper_2 |-> h, add_bio_gripper |-> TRUE] : g, h \in BOOLEAN}
DualLaunches ==
    Launched({"_dual_robot_moveit_fake"},
             {[dof |-> "6"] @@ s @@ g : s \in Second, g \in TwoGrippers})
    \cup Launched({"_dual_robot_moveit_realmove"},
                  {[dof |-> "6"] @@ Addresses @@ s @@ g : s \in Second, g \in TwoGrippers})
    \cup Launched({"_dual_robot_moveit_gz", "_dual_robot_moveit_gazebo"},
                  {[dof |-> "6", add_gripper_1 |-> TRUE] @@ s : s \in Second})
    \cup Launched({"_dual_robot_beside_table_gz", "_dual_robot_beside_table_gazebo"},
                  {[dof |-> "6", load_controller |-> TRUE, add_gripper |-> TRUE]})
    \cup Launched({"_dual_robot_planner", "test_dual_planner"},
                  {[dof |-> "6", add_gripper |-> TRUE], [dof_1 |-> "5", add_gripper |-> TRUE]})

(* A first arm whose type has no gripper, and a second one with a gripper. *)
SeparateLaunches ==
    Launched({"_dual_robot_moveit_fake"},
             {[dof |-> "6", robot_type_1 |-> "lite", robot_type_2 |-> "xarm", add_gripper_2 |-> g] :
                 g \in BOOLEAN})

(* What a file has no default for is missing.                              *)
ShortLaunches ==
    Launched({"emer_planner", "test_dual_planner", "xarm6_planner_realmove"},
             {[add_gripper |-> FALSE]})
    \cup Launched({"_robot_moveit_realmove"}, {[dof |-> "6"]})
    \cup Launched({"_dual_robot_moveit_realmove"},
                  {[dof |-> "6", robot_ip_1 |-> "ip"], [dof |-> "6", robot_ip_2 |-> "ip"]})

AllLaunches == SingleLaunches \cup DualLaunches \cup SeparateLaunches \cup ShortLaunches
=============================================================================
