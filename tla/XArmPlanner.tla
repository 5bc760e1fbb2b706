---------------------------- MODULE XArmPlanner ----------------------------
(***************************************************************************)
(* One xarm_planner::XArmPlanner object and the move_group node behind it. *)
(* The object keeps one plan slot for joint and pose plans, one for        *)
(* Cartesian trajectories and a flag that says which of the two            *)
(* executePath runs; none of them is protected by a lock, and every thread *)
(* of the process that owns the object calls it.  move_group (external)    *)
(* runs one motion at a time and refuses a second one while the first      *)
(* lasts; MoveGroupInterface::stop is a message, so it acts later.         *)
(*                                                                         *)
(* The operators below are the bodies of the methods, to be conjoined with *)
(* the program counter of the thread that calls them.                      *)
(***************************************************************************)
EXTENDS Integers, Sequences

CONSTANTS Poses,    \* the poses that can be asked for
          NoPose,   \* an empty plan
          Torn,     \* a plan read while another thread writes it, or cut short
          MaxJobs   \* bound: worker threads started in a behaviour

ASSUME PlannerAssumption ==
  /\ NoPose \notin Poses
  /\ Torn \notin Poses
  /\ MaxJobs \in Nat \ {0}

Nobody   == -1
Executor == 0               \* the thread inside rclcpp::spin
Jobs     == 1 .. MaxJobs    \* the worker threads
Callers  == Jobs \cup {Executor}
Plans    == Poses \cup {NoPose, Torn}

VARIABLES
  target,         \* move_group_'s pose target
  xarm_plan_,     \* the pose that the last successful plan() leads to
  trajectory_,    \* the Cartesian trajectory: its goal
  is_trajectory_, \* which of the two executePath runs
  motion,         \* the motion that move_group executes, and for whom
  stopEvents      \* stop messages on their way to move_group

plannerVars == <<target, xarm_plan_, trajectory_, is_trajectory_, motion, stopEvents>>
slotVars    == <<target, xarm_plan_, trajectory_, is_trajectory_>>

Motions == [by : Callers \cup {Nobody}, to : Plans]
AtRest  == [by |-> Nobody, to |-> NoPose]

PlannerInit ==
  /\ target = NoPose
  /\ xarm_plan_ = NoPose
  /\ trajectory_ = NoPose
  /\ is_trajectory_ = FALSE
  /\ motion = AtRest
  /\ stopEvents = 0

PlannerTypeOK ==
  /\ target \in Poses \cup {NoPose}
  /\ xarm_plan_ \in Plans
  /\ trajectory_ \in Plans
  /\ is_trajectory_ \in BOOLEAN
  /\ motion \in Motions
  /\ stopEvents \in Nat

-----------------------------------------------------------------------------
\* planPoseTarget, first half: the target is stored in move_group_.
SetPoseTarget(p) ==
  /\ target' = p
  /\ UNCHANGED <<xarm_plan_, trajectory_, is_trajectory_, motion, stopEvents>>

\* planPoseTarget, second half: plan() fills the slot for whatever target is
\* stored by now, or fails and leaves the slot; either way executePath will
\* run the slot.
Plan(ok) ==
  /\ xarm_plan_' = IF ok THEN target ELSE xarm_plan_
  /\ is_trajectory_' = FALSE
  /\ UNCHANGED <<target, trajectory_, motion, stopEvents>>

\* planCartesianPath: the trajectory is overwritten in any case, by one that
\* ends early if it fails; only a success makes executePath run it.
PlanCartesian(p, ok) ==
  /\ trajectory_' = IF ok THEN p ELSE Torn
  /\ is_trajectory_' = (is_trajectory_ \/ ok)
  /\ UNCHANGED <<target, xarm_plan_, motion, stopEvents>>

\* What executePath hands to move_group; `racing' says that another thread is
\* inside plan(), which writes the slot without a lock.
Selected(racing) ==
  IF is_trajectory_ THEN {trajectory_}
  ELSE {xarm_plan_} \cup (IF racing THEN {Torn} ELSE {})

\* executePath when move_group takes the goal: caller c now waits for it.
BeginMotion(c, racing) ==
  /\ motion = AtRest
  /\ \E p \in Selected(racing) : motion' = [by |-> c, to |-> p]
  /\ UNCHANGED <<slotVars, stopEvents>>

\* executePath when another motion is under way: an error code at once.
MotionRefused ==
  /\ motion # AtRest
  /\ UNCHANGED plannerVars

\* The motion ends, by itself or because a stop message arrived.
MotionEnds ==
  /\ motion # AtRest
  /\ motion' = AtRest
  /\ UNCHANGED <<slotVars, stopEvents>>

\* stopRobot: the stop message goes out.
PostStop ==
  /\ stopEvents' = stopEvents + 1
  /\ UNCHANGED <<slotVars, motion>>

\* Mutant: the stop message is taken twice.
StopArrivesTwice ==
  /\ stopEvents > 0
  /\ stopEvents' = stopEvents - 2
  /\ motion' = AtRest
  /\ UNCHANGED slotVars

\* The stop message reaches move_group, which aborts what runs by then.
StopArrives ==
  /\ stopEvents > 0
  /\ stopEvents' = stopEvents - 1
  /\ motion' = AtRest
  /\ UNCHANGED slotVars
=============================================================================
