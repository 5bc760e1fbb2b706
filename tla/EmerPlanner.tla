---------------------------- MODULE EmerPlanner ----------------------------
(***************************************************************************)
(* The shape listener of emer_planner.cpp: one executor thread that runs   *)
(* the three subscription callbacks one after the other, and the detached  *)
(* worker threads that draw.  They share worker_running_, stop_requested_  *)
(* and one XArmPlanner.  A step is what a thread does between two accesses *)
(* that another thread can see; the start of a worker is a single step     *)
(* because no other thread is alive between the compare_exchange and the   *)
(* creation of the thread.                                                 *)
(***************************************************************************)
EXTENDS XArmPlanner

CONSTANTS CircleRing, SquareRing, \* the poses of each figure, before it is closed
          DrawingPaths,           \* the drawings the GUI may send, the empty one too
          QueueDepth,             \* depth of a subscription queue (10 in the code)
          MaxPublished            \* bound: messages the GUI publishes

Figures  == {"circle", "square"}
Commands == Figures \cup {"stop", "other"}
Topics   == {"shape_command", "drawing_path", "target_pose"}

ASSUME ListenerAssumption ==
  /\ CircleRing \in Seq(Poses) /\ CircleRing # <<>>
  /\ SquareRing \in Seq(Poses) /\ SquareRing # <<>>
  /\ DrawingPaths \subseteq Seq(Poses)
  /\ QueueDepth \in Nat \ {0}
  /\ MaxPublished \in Nat

VARIABLES
  inbox,           \* per topic, the messages not yet taken by the executor
  published,       \* messages published so far
  exec,            \* the executor: where it is, and the pose it was asked for
  worker_running_, stop_requested_,
  nextJob,         \* number of the next worker thread
  pc, job, wp,     \* per worker: where it is, what it draws, its current waypoint
  outcome,         \* per worker: the final status it published, or "none"
  cut,             \* history: why its loop ended early, or "no"
  stopped,         \* history: a stop was handled while it was alive
  late,            \* history: segments begun since then
  mixed            \* history: a target pose was handled while it was alive

listenerVars == <<inbox, published, exec, worker_running_, stop_requested_, nextJob,
                  pc, job, wp, outcome, cut, stopped, late, mixed>>
vars == <<plannerVars, listenerVars>>

WorkerPc == {"none", "head", "plan", "check", "exec", "wait", "after", "reset",
             "report", "report2", "release", "done"}
ExecPc   == {"idle", "stop", "stop_wait", "plan", "exec", "wait"}
Messages(t) == CASE t = "shape_command" -> Commands
                 [] t = "drawing_path"  -> DrawingPaths
                 [] t = "target_pose"   -> Poses
JobRec   == [kind : {"none", "shape", "path"}, path : Seq(Poses)]
ExecRec  == [pc : ExecPc, asked : Poses \cup {NoPose}]
NoJob    == [kind |-> "none", path |-> <<>>]

Live(j)      == pc[j] \notin {"none", "done"}
LiveJobs     == {j \in Jobs : Live(j)}

InboxOK ==
  /\ inbox = [t \in Topics |-> inbox[t]]
  /\ \A t \in Topics : inbox[t] \in Seq(Messages(t))

TypeOK ==
  /\ PlannerTypeOK
  /\ InboxOK
  /\ published \in Nat
  /\ exec \in ExecRec
  /\ worker_running_ \in BOOLEAN
  /\ stop_requested_ \in BOOLEAN
  /\ nextJob \in 1 .. MaxJobs + 1
  /\ pc \in [Jobs -> WorkerPc]
  /\ job \in [Jobs -> JobRec]
  /\ wp \in [Jobs -> Nat \ {0}]
  /\ outcome \in [Jobs -> {"none", "completed", "cancelled", "failed"}]
  /\ cut \in [Jobs -> {"no", "stop", "plan", "throw"}]
  /\ stopped \in [Jobs -> BOOLEAN]
  /\ late \in [Jobs -> Nat]
  /\ mixed \in [Jobs -> BOOLEAN]

Init ==
  /\ PlannerInit
  /\ inbox = [t \in Topics |-> <<>>]
  /\ published = 0
  /\ exec = [pc |-> "idle", asked |-> NoPose]
  /\ worker_running_ = FALSE
  /\ stop_requested_ = FALSE
  /\ nextJob = 1
  /\ pc = [j \in Jobs |-> "none"]
  /\ job = [j \in Jobs |-> NoJob]
  /\ wp = [j \in Jobs |-> 1]
  /\ outcome = [j \in Jobs |-> "none"]
  /\ cut = [j \in Jobs |-> "no"]
  /\ stopped = [j \in Jobs |-> FALSE]
  /\ late = [j \in Jobs |-> 0]
  /\ mixed = [j \in Jobs |-> FALSE]

-----------------------------------------------------------------------------
(* The GUI publishes; a full queue forgets its oldest message. *)

Publish(t, m) ==
  /\ published < MaxPublished
  /\ published' = published + 1
  /\ inbox' = [inbox EXCEPT ![t] = IF Len(@) < QueueDepth THEN Append(@, m)
                                   ELSE Append(Tail(@), m)]
  /\ UNCHANGED <<plannerVars, exec, worker_running_, stop_requested_, nextJob, pc, job,
                 wp, outcome, cut, stopped, late, mixed>>

-----------------------------------------------------------------------------
(* The executor thread. *)

\* The executor is free and takes message m of topic t.
Take(t, m) ==
  /\ exec.pc = "idle"
  /\ inbox[t] # <<>>
  /\ m = Head(inbox[t])
  /\ inbox' = [inbox EXCEPT ![t] = Tail(@)]

ExecGoes(to) == exec' = [exec EXCEPT !.pc = to]

\* Mutant: path_callback without its compare_exchange.
IgnoredPathNeverBusy(t, m) ==
  \/ t = "shape_command" /\ m \notin Figures \cup {"stop"}
  \/ t = "shape_command" /\ m \in Figures /\ worker_running_
  \/ t = "drawing_path" /\ m = <<>>

\* A drawing that nothing can start: busy, empty or unknown.  It is answered
\* with a status message.
Ignored(t, m) ==
  \/ t = "shape_command" /\ m \notin Figures \cup {"stop"}
  \/ t = "shape_command" /\ m \in Figures /\ worker_running_
  \/ t = "drawing_path" /\ (m = <<>> \/ worker_running_)

\* Mutant: stop_requested_ is reset before the compare_exchange.
IgnoreResetsStop(t, m) ==
  /\ Take(t, m)
  /\ Ignored(t, m)
  /\ stop_requested_' = FALSE
  /\ UNCHANGED <<plannerVars, published, exec, worker_running_, nextJob, pc, job, wp,
                 outcome, cut, stopped, late, mixed>>

Ignore(t, m) ==
  /\ Take(t, m)
  /\ Ignored(t, m)
  /\ UNCHANGED <<plannerVars, published, exec, worker_running_, stop_requested_, nextJob,
                 pc, job, wp, outcome, cut, stopped, late, mixed>>

Closed(ring) == Append(ring, Head(ring))

\* What a worker started by message m of topic t draws.
JobOf(t, m) ==
  IF t = "drawing_path" THEN [kind |-> "path", path |-> m]
  ELSE [kind |-> "shape", path |-> IF m = "circle" THEN Closed(CircleRing)
                                   ELSE Closed(SquareRing)]

\* Mutant: stop_requested_ is not reset for the new worker.
StartKeepsStop(t, m) ==
  /\ Take(t, m)
  /\ t \in {"shape_command", "drawing_path"}
  /\ ~Ignored(t, m)
  /\ t = "shape_command" => m # "stop"
  /\ nextJob <= MaxJobs
  /\ worker_running_' = TRUE
  /\ pc' = [pc EXCEPT ![nextJob] = "head"]
  /\ job' = [job EXCEPT ![nextJob] = JobOf(t, m)]
  /\ nextJob' = nextJob + 1
  /\ UNCHANGED <<plannerVars, published, exec, stop_requested_, wp, outcome, cut, stopped,
                 late, mixed>>

\* worker_running_ goes from false to true, stop_requested_ is reset and the
\* thread is created and detached.
Start(t, m) ==
  /\ Take(t, m)
  /\ t \in {"shape_command", "drawing_path"}
  /\ ~Ignored(t, m)
  /\ t = "shape_command" => m # "stop"
  /\ nextJob <= MaxJobs
  /\ worker_running_' = TRUE
  /\ stop_requested_' = FALSE
  /\ pc' = [pc EXCEPT ![nextJob] = "head"]
  /\ job' = [job EXCEPT ![nextJob] = JobOf(t, m)]
  /\ nextJob' = nextJob + 1
  /\ UNCHANGED <<plannerVars, published, exec, wp, outcome, cut, stopped, late, mixed>>

\* on_command("stop"): the flag, then (next steps) stopRobot.
OnStop ==
  /\ Take("shape_command", "stop")
  /\ stop_requested_' = TRUE
  /\ stopped' = [j \in Jobs |-> stopped[j] \/ Live(j)]
  /\ ExecGoes("stop")
  /\ UNCHANGED <<plannerVars, published, worker_running_, nextJob, pc, job, wp, outcome,
                 cut, late, mixed>>

\* Mutant: stop only raises the flag.
StopRobotFlagOnly ==
  /\ exec.pc = "stop"
  /\ ExecGoes("stop_wait")
  /\ UNCHANGED <<plannerVars, inbox, published, worker_running_, stop_requested_, nextJob,
                 pc, job, wp, outcome, cut, stopped, late, mixed>>

\* stopRobot: move_group_->stop().
StopRobot ==
  /\ exec.pc = "stop"
  /\ PostStop
  /\ ExecGoes("stop_wait")
  /\ UNCHANGED <<inbox, published, worker_running_, stop_requested_, nextJob, pc, job, wp,
                 outcome, cut, stopped, late, mixed>>

\* Mutant: wait_for_service without its time limit, and nobody offers /xarm/stop.
StopNeverReturns ==
  /\ exec.pc = "stop_wait"
  /\ UNCHANGED vars

\* stopRobot: nobody offers /xarm/stop within a second, or the request is
\* sent and its answer is not awaited.
StopReturns ==
  /\ exec.pc = "stop_wait"
  /\ ExecGoes("idle")
  /\ UNCHANGED <<plannerVars, inbox, published, worker_running_, stop_requested_, nextJob,
                 pc, job, wp, outcome, cut, stopped, late, mixed>>

\* sub_pose_callback: planPoseTarget and executePath in the executor thread,
\* whatever worker_running_ says.
OnPose(p) ==
  /\ Take("target_pose", p)
  /\ SetPoseTarget(p)
  /\ exec' = [pc |-> "plan", asked |-> p]
  /\ mixed' = [j \in Jobs |-> mixed[j] \/ Live(j)]
  /\ UNCHANGED <<published, worker_running_, stop_requested_, nextJob, pc, job, wp,
                 outcome, cut, stopped, late>>

\* A failed plan is logged and executePath is called all the same.
PosePlanned(ok) ==
  /\ exec.pc = "plan"
  /\ Plan(ok)
  /\ ExecGoes("exec")
  /\ UNCHANGED <<inbox, published, worker_running_, stop_requested_, nextJob, pc, job, wp,
                 outcome, cut, stopped, late, mixed>>

PoseMoves ==
  /\ exec.pc = "exec"
  /\ \/ BeginMotion(Executor, \E j \in Jobs : pc[j] = "plan") /\ ExecGoes("wait")
     \/ MotionRefused /\ ExecGoes("idle")
  /\ UNCHANGED <<inbox, published, worker_running_, stop_requested_, nextJob, pc, job, wp,
                 outcome, cut, stopped, late, mixed>>

-----------------------------------------------------------------------------
(* A worker thread. *)

Goes(j, from, to) ==
  /\ pc[j] = from
  /\ pc' = [pc EXCEPT ![j] = to]

\* The loop of execute_waypoints is left for reason why.
Leaves(j, from, why) ==
  /\ Goes(j, from, "reset")
  /\ cut' = [cut EXCEPT ![j] = why]

\* Head of the loop: out of waypoints, stopped, or the next target is set.
NextWaypoint(j) ==
  /\ \/ /\ wp[j] > Len(job[j].path)
        /\ Leaves(j, "head", "no")
        /\ UNCHANGED plannerVars
     \/ /\ wp[j] <= Len(job[j].path)
        /\ stop_requested_
        /\ Leaves(j, "head", "stop")
        /\ UNCHANGED plannerVars
     \/ /\ wp[j] <= Len(job[j].path)
        /\ ~stop_requested_
        /\ Goes(j, "head", "plan")
        /\ SetPoseTarget(job[j].path[wp[j]])
        /\ UNCHANGED cut
  /\ UNCHANGED <<inbox, published, exec, worker_running_, stop_requested_, nextJob, job, wp,
                 outcome, stopped, late, mixed>>

\* Mutant: no break after a failed plan.
WaypointPlannedNoBreak(j, ok) ==
  /\ Plan(ok)
  /\ Goes(j, "plan", "check")
  /\ UNCHANGED <<inbox, published, exec, worker_running_, stop_requested_, nextJob, job, wp,
                 outcome, cut, stopped, late, mixed>>

WaypointPlanned(j, ok) ==
  /\ Plan(ok)
  /\ IF ok THEN Goes(j, "plan", "check") /\ UNCHANGED cut
     ELSE Leaves(j, "plan", "plan")
  /\ UNCHANGED <<inbox, published, exec, worker_running_, stop_requested_, nextJob, job, wp,
                 outcome, stopped, late, mixed>>

\* The checks of stop_requested_ before and after executePath.
CheckStop(j) ==
  /\ \/ stop_requested_ /\ pc[j] \in {"check", "after"} /\ Leaves(j, pc[j], "stop")
        /\ UNCHANGED wp
     \/ ~stop_requested_ /\ Goes(j, "check", "exec") /\ UNCHANGED <<cut, wp>>
     \/ ~stop_requested_ /\ Goes(j, "after", "head") /\ UNCHANGED cut
        /\ wp' = [wp EXCEPT ![j] = @ + 1]
  /\ UNCHANGED <<plannerVars, inbox, published, exec, worker_running_, stop_requested_,
                 nextJob, job, outcome, stopped, late, mixed>>

\* executePath; its result is not looked at.
WaypointMoves(j) ==
  /\ \/ /\ BeginMotion(j, exec.pc = "plan")
        /\ Goes(j, "exec", "wait")
        /\ late' = [late EXCEPT ![j] = IF stopped[j] THEN @ + 1 ELSE @]
     \/ /\ MotionRefused
        /\ Goes(j, "exec", "after")
        /\ UNCHANGED late
  /\ UNCHANGED <<inbox, published, exec, worker_running_, stop_requested_, nextJob, job, wp,
                 outcome, cut, stopped, mixed>>

\* After the loop stop_requested_ is cleared, whatever ended the loop.
ResetStop(j) ==
  /\ Goes(j, "reset", "report")
  /\ stop_requested_' = FALSE
  /\ UNCHANGED <<plannerVars, inbox, published, exec, worker_running_, nextJob, job, wp,
                 outcome, cut, stopped, late, mixed>>

\* plan() or execute() throws: the catch clause, with the flag as it is.
Throws(j) ==
  /\ pc[j] \in {"plan", "exec"}
  /\ Goes(j, pc[j], "report")
  /\ cut' = [cut EXCEPT ![j] = "throw"]
  /\ UNCHANGED <<plannerVars, inbox, published, exec, worker_running_, stop_requested_,
                 nextJob, job, wp, outcome, stopped, late, mixed>>

Says(j, what) == outcome' = [outcome EXCEPT ![j] = what]

\* Mutant: no status after an exception.
ReportShapeNotFailed(j) ==
  /\ job[j].kind = "shape"
  /\ Goes(j, "report", "release")
  /\ IF stop_requested_ THEN Says(j, "cancelled")
     ELSE IF cut[j] # "throw" THEN Says(j, "completed")
     ELSE UNCHANGED outcome
  /\ UNCHANGED <<plannerVars, inbox, published, exec, worker_running_, stop_requested_,
                 nextJob, job, wp, cut, stopped, late, mixed>>

\* Mutant: worker_running_ is cleared before the status is published.
ReportShapeReleased(j) ==
  /\ job[j].kind = "shape"
  /\ Goes(j, "report", "release")
  /\ worker_running_' = FALSE
  /\ Says(j, IF stop_requested_ THEN "cancelled"
             ELSE IF cut[j] = "throw" THEN "failed" ELSE "completed")
  /\ UNCHANGED <<plannerVars, inbox, published, exec, stop_requested_, nextJob, job, wp,
                 cut, stopped, late, mixed>>

\* The final status of a circle or a square.
ReportShape(j) ==
  /\ job[j].kind = "shape"
  /\ Goes(j, "report", "release")
  /\ Says(j, IF stop_requested_ THEN "cancelled"
             ELSE IF cut[j] = "throw" THEN "failed" ELSE "completed")
  /\ UNCHANGED <<plannerVars, inbox, published, exec, worker_running_, stop_requested_,
                 nextJob, job, wp, cut, stopped, late, mixed>>

\* The final status of a drawing: cancelled inside the try block, ...
ReportPath(j) ==
  /\ job[j].kind = "path"
  /\ Goes(j, "report", "report2")
  /\ IF stop_requested_ /\ cut[j] # "throw" THEN Says(j, "cancelled")
     ELSE UNCHANGED outcome
  /\ UNCHANGED <<plannerVars, inbox, published, exec, worker_running_, stop_requested_,
                 nextJob, job, wp, cut, stopped, late, mixed>>

\* ... completed or, if the flag still allows it, failed after it.
ReportPathEnd(j) ==
  /\ Goes(j, "report2", "release")
  /\ LET success == cut[j] # "throw" /\ outcome[j] # "cancelled"
     IN IF success THEN Says(j, "completed")
        ELSE IF ~stop_requested_ THEN Says(j, "failed")
        ELSE UNCHANGED outcome
  /\ UNCHANGED <<plannerVars, inbox, published, exec, worker_running_, stop_requested_,
                 nextJob, job, wp, cut, stopped, late, mixed>>

Release(j) ==
  /\ Goes(j, "release", "done")
  /\ worker_running_' = FALSE
  /\ UNCHANGED <<plannerVars, inbox, published, exec, stop_requested_, nextJob, job, wp,
                 outcome, cut, stopped, late, mixed>>

-----------------------------------------------------------------------------
(* move_group: a motion ends and its caller goes on. *)

\* The thread that waited for the motion returns from executePath.
CallerReturns ==
  /\ exec' = IF motion.by = Executor THEN [exec EXCEPT !.pc = "idle"] ELSE exec
  /\ pc' = IF motion.by \in Jobs THEN [pc EXCEPT ![motion.by] = "after"] ELSE pc
  /\ UNCHANGED <<inbox, published, worker_running_, stop_requested_, nextJob, job, wp,
                 outcome, cut, stopped, late, mixed>>

SegmentEnds == MotionEnds /\ CallerReturns

SegmentStopped == StopArrives /\ CallerReturns

-----------------------------------------------------------------------------
Worker(j) ==
  \/ NextWaypoint(j)
  \/ \E ok \in BOOLEAN : WaypointPlanned(j, ok)
  \/ CheckStop(j)
  \/ WaypointMoves(j)
  \/ ResetStop(j)
  \/ Throws(j)
  \/ ReportShape(j)
  \/ ReportPath(j)
  \/ ReportPathEnd(j)
  \/ Release(j)

Callback ==
  \/ \E t \in Topics : inbox[t] # <<>> /\ Ignore(t, Head(inbox[t]))
  \/ \E t \in Topics : inbox[t] # <<>> /\ Start(t, Head(inbox[t]))
  \/ OnStop
  \/ StopRobot
  \/ StopReturns
  \/ \E p \in Poses : OnPose(p)
  \/ \E ok \in BOOLEAN : PosePlanned(ok)
  \/ PoseMoves

MoveGroup == SegmentEnds \/ SegmentStopped

Next ==
  \/ \E t \in Topics : \E m \in Messages(t) : Publish(t, m)
  \/ Callback
  \/ \E j \in Jobs : Worker(j)
  \/ MoveGroup

\* The threads are scheduled and stop messages arrive; the GUI owes nothing.
ThreadsRun ==
  /\ WF_vars(Callback)
  /\ \A j \in Jobs : WF_vars(Worker(j))
  /\ WF_vars(SegmentStopped)

\* A motion may last for as long as it likes.
LongMotionSpec == Init /\ [][Next]_vars /\ ThreadsRun

\* Every motion ends, as the trajectory execution of move_group sees to.
Spec == LongMotionSpec /\ WF_vars(SegmentEnds)

-----------------------------------------------------------------------------
(* Properties *)

\* At most one worker thread is alive, and worker_running_ says whether one
\* is: the compare_exchange of on_command and path_callback against the store
\* at the end of the thread.
OneWorker ==
  /\ \A i, j \in LiveJobs : i = j
  /\ worker_running_ <=> LiveJobs # {}

\* Once a stop was handled, the drawing it was meant for begins at most the
\* one segment that had already passed the check before executePath.
StopBoundsMotion == \A j \in Jobs : late[j] <= 1

\* A drawing is cut short or reported cancelled only by a stop that was handled
\* while it was alive, never by one that came before it.
StopAttribution ==
  \A j \in Jobs : cut[j] = "stop" \/ outcome[j] = "cancelled" => stopped[j]

\* What the arm does for a worker is the waypoint the worker is at, although
\* the plan slot is shared, as long as no target pose came meanwhile.
OwnPlan ==
  \A j \in Jobs : motion.by = j /\ ~mixed[j] => motion.to = job[j].path[wp[j]]

\* A drawing ends with a final status on shape_status, except a GUI drawing
\* that failed by an exception after a stop.
EndsWithStatus ==
  \A j \in Jobs : pc[j] = "done" =>
    \/ outcome[j] # "none"
    \/ job[j].kind = "path" /\ cut[j] = "throw" /\ stopped[j]

\* The listener implements ShapeService.
Last == nextJob - 1
Service == INSTANCE ShapeService WITH
  current   <- IF worker_running_ THEN Last ELSE 0,
  cancelled <- worker_running_ /\ stopped[Last],
  late      <- IF worker_running_ THEN late[Last] ELSE 0,
  finished  <- {j \in Jobs : pc[j] = "done"}
ServiceSpec == Service!Spec

\* Once the GUI is silent, every callback returns, every worker ends, the
\* queues are empty and the arm rests for good.
Quiesces ==
  <>[](/\ exec.pc = "idle" /\ ~worker_running_ /\ motion = AtRest
       /\ \A t \in Topics : inbox[t] = <<>>)

StopWaits == \E i \in DOMAIN inbox["shape_command"] : inbox["shape_command"][i] = "stop"

\* A stop on shape_command ends a worker's motion that would not end by itself.
StopEndsDrawing == (motion.by \in Jobs /\ StopWaits) ~> (motion.by \notin Jobs)

\* The same of any motion of the node: README, "stop: Detiene la ejecucion en
\* curso".
StopEndsMotion == (motion # AtRest /\ StopWaits) ~> (motion = AtRest)

\* A drawing that a stop cut short is not reported "completed": README, the
\* states of the arm on shape_status, and the "cancelled by STOP" message.
StatusTruthful == \A j \in Jobs : outcome[j] = "completed" => cut[j] # "stop"
=============================================================================
