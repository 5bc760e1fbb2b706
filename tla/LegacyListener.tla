--------------------------- MODULE LegacyListener ---------------------------
(***************************************************************************)
(* The shape listener of suscriptor_interfaz.py (shape_command_executor)   *)
(* and the planner node it calls.  A worker thread asks for a plan, waits, *)
(* asks for its execution, waits, pose after pose.  A stop only raises     *)
(* _stop_requested, without the lock: it may come between a worker's look  *)
(* at the flag and the request that follows; a worker that waits gives up, *)
(* its request goes on.  The planner node has one thread and one queue per *)
(* service; which of several queues it serves first is not known.          *)
(***************************************************************************)
EXTENDS XArmPlanner

CONSTANTS CirclePath, SquarePath, \* approach, corners and retreat of each shape
          MaxCommands             \* bound: commands handled in a behaviour

ASSUME LegacyAssumption ==
  /\ CirclePath \in Seq(Poses) /\ CirclePath # <<>>
  /\ SquarePath \in Seq(Poses) /\ SquarePath # <<>>
  /\ MaxCommands \in Nat

Shapes   == {"circle", "square"}
Services == {"pose", "straight", "exec"}
None     == 0

VARIABLES
  worker_thread, stop_requested,  \* _worker_thread and _stop_requested
  nextJob, commands,
  pc, path, wp,    \* per worker: where it is, its poses, the current one
  success, answer, \* per worker: result of the handler, of the call under way
  outcome,         \* per worker: the final status it published
  queue,           \* per service: requests the node has not taken
  node,            \* the request the planner node works on, or NoRequest
  stopped,         \* history: a stop was handled while it was drawing
  passed,          \* history: a stop came between its look at the flag and its request
  late,            \* history: executions asked for since the stop
  cleared,         \* history: an older worker cleared the flag while it was drawing
  stray            \* history: a worker gave up waiting for a plan

legacyVars == <<worker_thread, stop_requested, nextJob, commands, pc, path, wp, success,
                answer, outcome, queue, node, stopped, passed, late, cleared, stray>>
vars == <<plannerVars, legacyVars>>

WorkerPc  == {"none", "head", "call_plan", "plan", "ask", "call_exec", "run",
              "status", "forget", "clear", "done"}
Request   == [job : Jobs, service : Services, to : Poses \cup {NoPose}]
NoRequest == [job |-> None, service |-> "none", to |-> NoPose]
Drawing   == {j \in Jobs : pc[j] \in {"head", "call_plan", "plan", "ask", "call_exec", "run"}}

TypeOK ==
  /\ PlannerTypeOK
  /\ worker_thread \in Jobs \cup {None}
  /\ stop_requested \in BOOLEAN
  /\ nextJob \in 1 .. MaxJobs + 1
  /\ commands \in 0 .. MaxCommands
  /\ pc \in [Jobs -> WorkerPc]
  /\ path \in [Jobs -> {<<>>, CirclePath, SquarePath}]
  /\ wp \in [Jobs -> Nat \ {0}]
  /\ \A j \in Jobs : wp[j] <= Len(path[j]) + 1
  /\ success \in [Jobs -> BOOLEAN]
  /\ answer \in [Jobs -> {"none", "yes", "no"}]
  /\ outcome \in [Jobs -> {"none", "completed", "cancelled", "failed"}]
  /\ queue \in [Services -> Seq(Request)]
  /\ node \in Request \cup {NoRequest}
  /\ stopped \in [Jobs -> BOOLEAN]
  /\ passed \in [Jobs -> BOOLEAN]
  /\ late \in [Jobs -> Nat]
  /\ cleared \in [Jobs -> BOOLEAN]
  /\ stray \in BOOLEAN

Init ==
  /\ PlannerInit
  /\ worker_thread = None
  /\ stop_requested = FALSE
  /\ nextJob = 1
  /\ commands = 0
  /\ pc = [j \in Jobs |-> "none"]
  /\ path = [j \in Jobs |-> <<>>]
  /\ wp = [j \in Jobs |-> 1]
  /\ success = [j \in Jobs |-> FALSE]
  /\ answer = [j \in Jobs |-> "none"]
  /\ outcome = [j \in Jobs |-> "none"]
  /\ queue = [s \in Services |-> <<>>]
  /\ node = NoRequest
  /\ stopped = [j \in Jobs |-> FALSE]
  /\ passed = [j \in Jobs |-> FALSE]
  /\ late = [j \in Jobs |-> 0]
  /\ cleared = [j \in Jobs |-> FALSE]
  /\ stray = FALSE

-----------------------------------------------------------------------------
(* The executor thread: _on_command. *)

Commanded ==
  /\ commands < MaxCommands
  /\ commands' = commands + 1

OnStop ==
  /\ Commanded
  /\ stop_requested' = TRUE
  /\ stopped' = [j \in Jobs |-> stopped[j] \/ j \in Drawing]
  /\ passed' = [j \in Jobs |-> passed[j] \/ pc[j] = "call_exec"]
  /\ UNCHANGED <<plannerVars, worker_thread, nextJob, pc, path, wp, success, answer,
                 outcome, queue, node, late, cleared, stray>>

\* Mutant: nobody looks whether a worker is alive.
OnShapeNotBusy(shape) ==
  /\ Commanded
  /\ nextJob <= MaxJobs
  /\ stop_requested' = FALSE
  /\ cleared' = [j \in Jobs |-> cleared[j] \/ j \in Drawing]
  /\ worker_thread' = nextJob
  /\ nextJob' = nextJob + 1
  /\ pc' = [pc EXCEPT ![nextJob] = "head"]
  /\ path' = [path EXCEPT ![nextJob] = IF shape = "circle" THEN CirclePath ELSE SquarePath]
  /\ UNCHANGED <<plannerVars, wp, success, answer, outcome, queue, node, stopped, passed,
                 late, stray>>

\* A shape while no worker is known: the flag is reset, a worker started.
OnShape(shape) ==
  /\ Commanded
  /\ worker_thread = None
  /\ nextJob <= MaxJobs
  /\ stop_requested' = FALSE
  /\ worker_thread' = nextJob
  /\ nextJob' = nextJob + 1
  /\ pc' = [pc EXCEPT ![nextJob] = "head"]
  /\ path' = [path EXCEPT ![nextJob] = IF shape = "circle" THEN CirclePath ELSE SquarePath]
  /\ UNCHANGED <<plannerVars, wp, success, answer, outcome, queue, node, stopped, passed,
                 late, cleared, stray>>

\* An unknown command, or a shape while a worker is alive: a status message.
OnIgnored ==
  /\ Commanded
  /\ UNCHANGED <<plannerVars, worker_thread, stop_requested, nextJob, pc, path, wp, success,
                 answer, outcome, queue, node, stopped, passed, late, cleared, stray>>

-----------------------------------------------------------------------------
(* A worker thread: _run_shape. *)

Goes(j, from, to) ==
  /\ pc[j] = from
  /\ pc' = [pc EXCEPT ![j] = to]

\* _call_service sends a request.
Asks(j, service, to) ==
  /\ queue' = [queue EXCEPT ![service] =
                 Append(@, [job |-> j, service |-> service, to |-> to])]
  /\ answer' = [answer EXCEPT ![j] = "none"]

\* The handler returns FALSE.
Fails(j, from) ==
  /\ Goes(j, from, "status")
  /\ UNCHANGED <<queue, answer, success, wp>>

\* _execute_waypoints turns to its next pose: the first without a look at the
\* flag, the others unless there was a stop.
NextPose(j) ==
  /\ \/ /\ wp[j] > Len(path[j])
        /\ Goes(j, "head", "status")
        /\ success' = [success EXCEPT ![j] = TRUE]
        /\ UNCHANGED <<queue, answer>>
     \/ /\ wp[j] <= Len(path[j])
        /\ wp[j] = 1 \/ ~stop_requested
        /\ Goes(j, "head", "call_plan")
        /\ UNCHANGED <<queue, answer, success>>
     \/ /\ wp[j] <= Len(path[j])
        /\ wp[j] > 1 /\ stop_requested
        /\ Fails(j, "head")
  /\ UNCHANGED <<plannerVars, worker_thread, stop_requested, nextJob, commands, path, wp,
                 outcome, node, stopped, passed, late, cleared, stray>>

\* The service is there: a pose plan for the first pose, a straight line for
\* the others.
CallPlan(j) ==
  /\ Goes(j, "call_plan", "plan")
  /\ Asks(j, IF wp[j] = 1 THEN "pose" ELSE "straight", path[j][wp[j]])
  /\ UNCHANGED <<plannerVars, worker_thread, stop_requested, nextJob, commands, path, wp,
                 success, outcome, node, stopped, passed, late, cleared, stray>>

\* Mutant: the answer to a plan request is not looked at.
PlanAnsweredAny(j) ==
  /\ answer[j] # "none"
  /\ Goes(j, "plan", "ask")
  /\ UNCHANGED <<plannerVars, worker_thread, stop_requested, nextJob, commands, path, wp,
                 success, queue, answer, outcome, node, stopped, passed, late, cleared,
                 stray>>

\* The plan is there, or it failed.
PlanAnswered(j) ==
  /\ \/ answer[j] = "yes" /\ Goes(j, "plan", "ask") /\ UNCHANGED <<queue, answer, success, wp>>
     \/ answer[j] = "no" /\ Fails(j, "plan")
  /\ UNCHANGED <<plannerVars, worker_thread, stop_requested, nextJob, commands, path,
                 outcome, node, stopped, passed, late, cleared, stray>>

\* Mutant: the flag is not looked at before the execution.
AskExecutionBlind(j) ==
  /\ Goes(j, "ask", "call_exec")
  /\ UNCHANGED <<plannerVars, worker_thread, stop_requested, nextJob, commands, path, wp,
                 success, queue, answer, outcome, node, stopped, passed, late, cleared,
                 stray>>

\* _execute_last_plan looks at the flag; the request is still to be made.
AskExecution(j) ==
  /\ IF stop_requested THEN Fails(j, "ask")
     ELSE Goes(j, "ask", "call_exec") /\ UNCHANGED <<queue, answer, success, wp>>
  /\ UNCHANGED <<plannerVars, worker_thread, stop_requested, nextJob, commands, path,
                 outcome, node, stopped, passed, late, cleared, stray>>

\* The service is there, at once or within five seconds: the request goes out,
\* whatever the flag says by now.
CallExecution(j) ==
  /\ Goes(j, "call_exec", "run")
  /\ Asks(j, "exec", NoPose)
  /\ late' = [late EXCEPT ![j] = IF stopped[j] THEN @ + 1 ELSE @]
  /\ UNCHANGED <<plannerVars, worker_thread, stop_requested, nextJob, commands, path, wp,
                 success, outcome, node, stopped, passed, cleared, stray>>

\* Mutant: a pose is skipped.
ExecutionAnsweredTwice(j) ==
  /\ answer[j] = "yes"
  /\ Goes(j, "run", "head")
  /\ wp' = [wp EXCEPT ![j] = @ + 2]
  /\ UNCHANGED <<plannerVars, worker_thread, stop_requested, nextJob, commands, path,
                 success, queue, answer, outcome, node, stopped, passed, late, cleared,
                 stray>>

\* The motion ended well, and the next pose follows, or it did not.
ExecutionAnswered(j) ==
  /\ \/ /\ answer[j] = "yes"
        /\ Goes(j, "run", "head")
        /\ wp' = [wp EXCEPT ![j] = @ + 1]
        /\ UNCHANGED <<queue, answer, success>>
     \/ answer[j] = "no" /\ Fails(j, "run")
  /\ UNCHANGED <<plannerVars, worker_thread, stop_requested, nextJob, commands, path,
                 outcome, node, stopped, passed, late, cleared, stray>>

\* Mutant: the wait for the end of a motion is not given up.
GivesUpPlanOnly(j) ==
  /\ stop_requested
  /\ Fails(j, "plan")
  /\ stray' = (stray \/ answer[j] = "none")
  /\ UNCHANGED <<plannerVars, worker_thread, stop_requested, nextJob, commands, path,
                 outcome, node, stopped, passed, late, cleared>>

\* A stop: the worker gives up waiting, for an answer that may come between its
\* look at the future and its look at the flag.
GivesUp(j) ==
  /\ stop_requested
  /\ \E from \in {"plan", "run"} :
       Fails(j, from) /\ stray' = (stray \/ (from = "plan" /\ answer[j] = "none"))
  /\ UNCHANGED <<plannerVars, worker_thread, stop_requested, nextJob, commands, path,
                 outcome, node, stopped, passed, late, cleared>>

\* The service is not there for five seconds.
Unavailable(j) ==
  /\ \E from \in {"call_plan", "call_exec"} : Fails(j, from)
  /\ UNCHANGED <<plannerVars, worker_thread, stop_requested, nextJob, commands, path,
                 outcome, node, stopped, passed, late, cleared, stray>>

\* The final status.
Report(j) ==
  /\ Goes(j, "status", "forget")
  /\ outcome' = [outcome EXCEPT ![j] = IF success[j] THEN "completed"
                                       ELSE IF stop_requested THEN "cancelled" ELSE "failed"]
  /\ UNCHANGED <<plannerVars, worker_thread, stop_requested, nextJob, commands, path, wp,
                 success, answer, queue, node, stopped, passed, late, cleared, stray>>

\* The worker is forgotten under the lock ...
Forget(j) ==
  /\ Goes(j, "forget", "clear")
  /\ worker_thread' = None
  /\ UNCHANGED <<plannerVars, stop_requested, nextJob, commands, path, wp, success, answer,
                 outcome, queue, node, stopped, passed, late, cleared, stray>>

\* ... and the flag is cleared after it, when a next worker may be drawing.
Clear(j) ==
  /\ Goes(j, "clear", "done")
  /\ stop_requested' = FALSE
  /\ cleared' = [i \in Jobs |-> cleared[i] \/ i \in Drawing]
  /\ UNCHANGED <<plannerVars, worker_thread, nextJob, commands, path, wp, success, answer,
                 outcome, queue, node, stopped, passed, late, stray>>

-----------------------------------------------------------------------------
(* The planner node: one request at a time. *)

Takes(s) ==
  /\ node = NoRequest
  /\ queue[s] # <<>>
  /\ node' = Head(queue[s])
  /\ queue' = [queue EXCEPT ![s] = Tail(@)]

Answers(what) ==
  /\ answer' = IF pc[node.job] \in {"plan", "run"} THEN [answer EXCEPT ![node.job] = what]
               ELSE answer
  /\ node' = NoRequest

\* do_pose_plan
TakesPose ==
  /\ Takes("pose")
  /\ SetPoseTarget(Head(queue["pose"]).to)
  /\ UNCHANGED <<worker_thread, stop_requested, nextJob, commands, pc, path, wp, success,
                 answer, outcome, stopped, passed, late, cleared, stray>>

PosePlanned(ok) ==
  /\ node.service = "pose"
  /\ Plan(ok)
  /\ Answers(IF ok THEN "yes" ELSE "no")
  /\ UNCHANGED <<worker_thread, stop_requested, nextJob, commands, pc, path, wp, success,
                 outcome, queue, stopped, passed, late, cleared, stray>>

\* do_single_cartesian_plan
TakesStraight ==
  /\ Takes("straight")
  /\ UNCHANGED <<plannerVars, worker_thread, stop_requested, nextJob, commands, pc, path,
                 wp, success, answer, outcome, stopped, passed, late, cleared, stray>>

StraightPlanned(ok) ==
  /\ node.service = "straight"
  /\ PlanCartesian(node.to, ok)
  /\ Answers(IF ok THEN "yes" ELSE "no")
  /\ UNCHANGED <<worker_thread, stop_requested, nextJob, commands, pc, path, wp, success,
                 outcome, queue, stopped, passed, late, cleared, stray>>

\* exec_plan_cb with wait = TRUE: the node is busy until the motion ends.
TakesExec ==
  /\ Takes("exec")
  /\ BeginMotion(Head(queue["exec"]).job, FALSE)
  /\ UNCHANGED <<worker_thread, stop_requested, nextJob, commands, pc, path, wp, success,
                 answer, outcome, stopped, passed, late, cleared, stray>>

Executed(ok) ==
  /\ node.service = "exec"
  /\ MotionEnds
  /\ Answers(IF ok THEN "yes" ELSE "no")
  /\ UNCHANGED <<worker_thread, stop_requested, nextJob, commands, pc, path, wp, success,
                 outcome, queue, stopped, passed, late, cleared, stray>>

-----------------------------------------------------------------------------
Worker(j) ==
  \/ NextPose(j)
  \/ CallPlan(j)
  \/ PlanAnswered(j)
  \/ AskExecution(j)
  \/ CallExecution(j)
  \/ ExecutionAnswered(j)
  \/ GivesUp(j)
  \/ Unavailable(j)
  \/ Report(j)
  \/ Forget(j)
  \/ Clear(j)

Node ==
  \/ TakesPose
  \/ TakesStraight
  \/ TakesExec
  \/ \E ok \in BOOLEAN : PosePlanned(ok) \/ StraightPlanned(ok) \/ Executed(ok)

Next ==
  \/ OnStop
  \/ \E shape \in Shapes : OnShape(shape)
  \/ OnIgnored
  \/ \E j \in Jobs : Worker(j)
  \/ Node

Spec ==
  /\ Init /\ [][Next]_vars
  /\ \A j \in Jobs : WF_vars(Worker(j))

-----------------------------------------------------------------------------
(* Properties *)

\* Requests for an execution that stopped workers left in the queues do no harm
\* to the drawing of the next worker: unless one gave up on a plan, the motion
\* that a worker waits for leads to the pose it is at, and not to what another
\* worker planned.
OwnSegment ==
  ~stray => \A j \in Jobs : pc[j] = "run" /\ motion.by = j => motion.to = path[j][wp[j]]

\* Two workers never draw at the same time, and the one that draws is known.
OneDraws == \A j \in Drawing : worker_thread = j

\* However often the flag is looked at and the service waited for, a stop lets
\* no more than one execution of its worker be asked for, and that only if it
\* came between the look at the flag and the request, or if an older worker
\* cleared the flag meanwhile.
StopHeard == \A j \in Jobs : late[j] > 0 => cleared[j] \/ (passed[j] /\ late[j] = 1)

\* Even if the planner never answers, a stopped worker is soon done with its
\* drawing, wherever it stands, unless an older worker clears the flag.
StopReleases ==
  \A j \in Jobs : (j \in Drawing /\ stopped[j]) ~> (j \notin Drawing \/ cleared[j])

\* A stop ends the drawing under way, as README.md says of the command: no
\* execution is asked for after it but one whose look at the flag it overtook.
StopCancels == \A j \in Jobs : late[j] > 0 => passed[j]
=============================================================================
