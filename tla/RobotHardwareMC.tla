-------------------------- MODULE RobotHardwareMC --------------------------
(* One arm with a trajectory controller and a broadcaster. *)
EXTENDS RobotHardware

CONSTANTS trajectory, broadcaster   \* controllers

OneArm == [c \in {trajectory, broadcaster} |-> IF c = trajectory THEN 1 ELSE 0]
=============================================================================
