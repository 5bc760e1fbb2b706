------------------------------ MODULE RobotConfig ------------------------------
(***************************************************************************)
(* The configuration data the launch files read: the YAML files of         *)
(* xarm_moveit_config/config and xarm_controller/config, and what the      *)
(* xacro files make of an arm.  A file is what the launch files tell apart *)
(* in it: the names of its controllers, joints and planning groups.        *)
(*                                                                         *)
(* A name is the tuple of the parts the Python code formats it from,       *)
(* <<prefix, type, dof, kind>>, as in "L_" "xarm" "6" "_traj_controller".  *)
(***************************************************************************)
EXTENDS Naturals, Sequences

Name(type, dof, kind) == <<"", type, dof, kind>>
Prefixed(prefix, name) == <<prefix, name[2], name[3], name[4]>>
PrefixedAll(prefix, names) == {Prefixed(prefix, n) : n \in names}

(* A dictionary with one entry; one that is updated with another; one      *)
(* keyed by names, each key renamed with the prefix.                       *)
Entry(key, value) == [k \in {key} |-> value]
Updated(dict, by) ==
    [k \in DOMAIN dict \cup DOMAIN by |-> IF k \in DOMAIN by THEN by[k] ELSE dict[k]]
PrefixedKeys(prefix, dict) ==
    [n \in PrefixedAll(prefix, DOMAIN dict) |-> dict[Prefixed("", n)]]

---------------------------------------------------------------------------
(***************************************************************************)
(* The directories of xarm_moveit_config/config, one for each robot and    *)
(* one for each gripper.                                                   *)
(***************************************************************************)
Axes ==
    [robot \in {<<"xarm", "5">>, <<"xarm", "6">>, <<"xarm", "7">>,
                <<"lite", "6">>, <<"uf850", "">>, <<"xarm7_mirror", "">>} |->
        IF robot = <<"xarm", "5">> THEN 5
        ELSE IF robot \in {<<"xarm", "7">>, <<"xarm7_mirror", "">>} THEN 7 ELSE 6]

GripperDir(type) == <<type, "_gripper">>
FingerGrippers == {GripperDir(t) : t \in {"xarm", "uf850", "xarm7_mirror"}}
BioGripper == GripperDir("bio")
ConfigDirs == DOMAIN Axes \cup FingerGrippers \cup {BioGripper}

Joint(kind) == Name("", "", kind)
ArmJoints(robot) ==
    LET all == <<"joint1", "joint2", "joint3", "joint4", "joint5", "joint6", "joint7">>
    IN  {Joint(all[i]) : i \in 1 .. Axes[robot]}
DrivenJoint(dir) == Joint(IF dir = BioGripper THEN "right_finger_joint" ELSE "drive_joint")

Serves(action, joints) == [action |-> action, joints |-> joints]

(* <dir>/controllers.yaml and <dir>/fake_controllers.yaml: the controllers  *)
(* MoveIt sends trajectories to.                                            *)
ControllersFile(dir, file) ==
    IF dir \in DOMAIN Axes
    THEN Entry(Name(dir[1], dir[2], "_traj_controller"),
               Serves("follow_joint_trajectory", ArmJoints(dir)))
    ELSE IF file = "fake_controllers"
    THEN Entry(Name(dir[1], "", "_gripper_traj_controller"),
               Serves("follow_joint_trajectory", {DrivenJoint(dir)}))
    ELSE Entry(Name(IF dir = BioGripper THEN "bio" ELSE "xarm", "", "_gripper"),
               Serves("gripper_action", {DrivenJoint(dir)}))

(* <dir>/joint_limits.yaml: the joints that have limits. *)
JointLimitsFile(dir) ==
    IF dir \in DOMAIN Axes THEN ArmJoints(dir)
    ELSE IF dir = BioGripper THEN {Joint("left_finger_joint"), Joint("right_finger_joint")}
    ELSE {Joint(k) : k \in {"drive_joint", "left_finger_joint", "left_inner_knuckle_joint",
                            "right_finger_joint", "right_inner_knuckle_joint",
                            "right_outer_knuckle_joint"}}

(* <robot>/kinematics.yaml and <dir>/ompl_planning.yaml: the planning      *)
(* groups they configure.                                                  *)
KinematicsFile(robot) == {Name(robot[1], robot[2], "")}
OmplPlanningFile(dir) ==
    IF dir \in DOMAIN Axes THEN KinematicsFile(dir)
    ELSE IF dir = BioGripper THEN {Name("bios", "", "_gripper")}
    ELSE {Name(IF dir = GripperDir("uf850") THEN "uf850" ELSE "xarm", "", "_gripper")}

---------------------------------------------------------------------------
(***************************************************************************)
(* xarm_controller/config: the controllers of a controller manager, with   *)
(* the joints of each.  joint_state_broadcaster has no section of its own. *)
(***************************************************************************)
Broadcaster == Name("", "", "joint_state_broadcaster")
RobotControllersFile(robot) ==
    [types  |-> {Broadcaster, Name(robot[1], robot[2], "_traj_controller")},
     joints |-> Entry(Name(robot[1], robot[2], "_traj_controller"), ArmJoints(robot))]
GripperControllersFile(dir) ==
    LET name == Name(dir[1], "", "_gripper_traj_controller")
    IN  [types |-> {name}, joints |-> Entry(name, {DrivenJoint(dir)})]

---------------------------------------------------------------------------
(***************************************************************************)
(* An arm, as the launch arguments describe it, and what xacro generates   *)
(* from it.                                                                *)
(***************************************************************************)
RealPlugin == "uf_robot_hardware/UFRobotSystemHardware"

(* The directory of the robot's own configuration: a lite is a lite6. *)
RobotName(arm) ==
    <<arm.type, IF arm.type = "xarm" THEN arm.dof ELSE IF arm.type = "lite" THEN "6" ELSE "">>

HasGripper(arm) == arm.type # "lite" /\ arm.gripper
HasBioGripper(arm) == arm.type # "lite" /\ ~arm.gripper /\ arm.bio

(* The joints with a command interface in the URDF.  The joint of a        *)
(* gripper has one only when ros2_control does not drive the real robot.   *)
CommandJoints(arm, plugin) ==
    PrefixedAll(arm.prefix,
        ArmJoints(RobotName(arm))
        \cup (IF plugin = RealPlugin THEN {}
              ELSE IF HasGripper(arm) THEN {DrivenJoint(GripperDir(arm.type))}
              ELSE IF HasBioGripper(arm) THEN {DrivenJoint(BioGripper)}
              ELSE {}))

(* The groups of the SRDF. *)
SemanticGroups(arm) ==
    PrefixedAll(arm.prefix,
        KinematicsFile(RobotName(arm))
        \cup (IF HasGripper(arm) THEN OmplPlanningFile(GripperDir(arm.type))
              ELSE IF HasBioGripper(arm) THEN {Name("bio", "", "_gripper")}
              ELSE {}))

(* The actions the driver of a real arm offers, fitted with a gripper or not. *)
DriverActions(arm) ==
    PrefixedAll(arm.prefix, {Name("xarm", "", "_gripper"), Name("bio", "", "_gripper")})
=============================================================================
