------------------------ MODULE LegacyListenerProofs ------------------------
(***************************************************************************)
(* Proofs about LegacyListener, for any number of workers and commands and *)
(* any shapes.                                                             *)
(***************************************************************************)
EXTENDS LegacyListener, TLAPS

\* The listener knows a worker until it forgets it; those to come are blank.
Known == {"head", "call_plan", "plan", "ask", "call_exec", "run", "status", "forget"}
ThreadsInv ==
  \A j \in Jobs :
    /\ pc[j] \in Known => worker_thread = j
    /\ j >= nextJob => pc[j] = "none"
    /\ pc[j] = "none" => wp[j] = 1 /\ ~stopped[j]
    /\ pc[j] \in {"call_plan", "plan", "ask", "call_exec", "run"} => wp[j] <= Len(path[j])

\* A stop is not forgotten while the worker it was meant for draws, unless an
\* older worker cleared the flag.
StopInv == \A j \in Drawing : stopped[j] /\ ~cleared[j] => stop_requested

\* A worker that has looked at the flag saw no stop: one that it was meant for
\* came after the look, unless an older worker cleared the flag.
LookedInv ==
  \A j \in Jobs :
    /\ late[j] > 0 => stopped[j]
    /\ pc[j] = "call_exec" /\ stopped[j] => cleared[j] \/ passed[j]
    /\ pc[j] = "call_exec" /\ late[j] > 0 => cleared[j]

\* What is asked of a service: a worker that still draws waits for it.
Pending(r, s) ==
  /\ r.service = s
  /\ pc[r.job] # "none"
  /\ s # "exec" => r.to \in Poses
  /\ r.job \in Drawing => /\ pc[r.job] = (IF s = "exec" THEN "run" ELSE "plan")
                          /\ answer[r.job] = "none"
QueueInv == \A s \in Services : \A i \in 1 .. Len(queue[s]) : Pending(queue[s][i], s)

\* No worker asks for two things at a time.
OneRequest ==
  \A s \in Services : \A i \in 1 .. Len(queue[s]) :
    /\ node # NoRequest => node.job # queue[s][i].job
    /\ \A t \in Services : \A k \in 1 .. Len(queue[t]) :
         queue[s][i].job = queue[t][k].job => s = t /\ i = k

\* The request in hand; the arm moves while it is one for an execution.
NodeInv ==
  /\ node # NoRequest => Pending(node, node.service)
  /\ node.service = "pose" => target = node.to
  /\ IF node.service = "exec" THEN motion.by = node.job ELSE motion = AtRest

\* Unless a worker gave up on a plan, a plan is asked for where its worker
\* stands, and the slot that executePath will run holds the plan.
Asked(r) == r.service # "exec" => pc[r.job] = "plan" /\ r.to = path[r.job][wp[r.job]]
Slot     == IF is_trajectory_ THEN trajectory_ ELSE xarm_plan_
Planned  == {j \in Jobs : pc[j] \in {"ask", "call_exec", "run"} \/ (pc[j] = "plan" /\ answer[j] = "yes")}
SegmentInv ==
  ~stray =>
    /\ \A s \in Services : \A i \in 1 .. Len(queue[s]) : Asked(queue[s][i])
    /\ node # NoRequest => Asked(node)
    /\ \A j \in Planned : Slot = path[j][wp[j]]

LInv ==
  /\ TypeOK /\ ThreadsInv /\ StopInv /\ LookedInv /\ StopHeard
  /\ QueueInv /\ OneRequest /\ NodeInv /\ SegmentInv /\ OwnSegment
-----------------------------------------------------------------------------

(* Types. *)

\* The paths of the shapes are poses.
LEMMA PathTypes ==
  ASSUME TypeOK, NEW j \in Jobs
  PROVE  /\ path[j] \in Seq(Poses)
         /\ Len(path[j]) \in Nat
         /\ wp[j] <= Len(path[j]) => path[j][wp[j]] \in Poses
<1>1. path[j] \in Seq(Poses)
  <2>1. <<>> \in Seq(Poses)
    OBVIOUS
  <2> QED BY <2>1, LegacyAssumption DEF TypeOK
<1>2. wp[j] \in Nat \ {0} /\ Len(path[j]) \in Nat
  BY <1>1 DEF TypeOK
<1> QED BY <1>1, <1>2

\* A shape's path has a first pose.
LEMMA ShapeTypes ==
  ASSUME NEW p \in {CirclePath, SquarePath}
  PROVE  p \in Seq(Poses) /\ Len(p) \in Nat /\ Len(p) > 0
<1>1. p \in Seq(Poses) /\ p # <<>>
  BY LegacyAssumption
<1> QED BY <1>1

\* What _call_service puts in a queue.
LEMMA AsksType ==
  ASSUME TypeOK, NEW j \in Jobs, NEW s \in Services, NEW to \in Poses \cup {NoPose},
         Asks(j, s, to)
  PROVE  /\ queue' \in [Services -> Seq(Request)]
         /\ answer' \in [Jobs -> {"none", "yes", "no"}]
<1>1. [job |-> j, service |-> s, to |-> to] \in Request
  BY DEF Request
<1>2. queue[s] \in Seq(Request)
  BY DEF TypeOK
<1>3. Append(queue[s], [job |-> j, service |-> s, to |-> to]) \in Seq(Request)
  BY <1>1, <1>2
<1> QED BY <1>3 DEF Asks, TypeOK

\* What the node takes from a queue.
LEMMA TakesType ==
  ASSUME TypeOK, NEW s \in Services, Takes(s)
  PROVE  /\ node' \in Request /\ node' = Head(queue[s])
         /\ queue' \in [Services -> Seq(Request)]
<1>1. queue[s] \in Seq(Request) /\ queue[s] # <<>>
  BY DEF TypeOK, Takes
<1>2. Head(queue[s]) \in Request /\ Tail(queue[s]) \in Seq(Request)
  BY <1>1
<1> QED BY <1>2 DEF TypeOK, Takes

\* What the node answers.
LEMMA AnswersType ==
  ASSUME TypeOK, NEW what \in {"yes", "no"}, Answers(what)
  PROVE  answer' \in [Jobs -> {"none", "yes", "no"}] /\ node' \in Request \cup {NoRequest}
BY DEF Answers, TypeOK

\* A program counter that moves stays one.
LEMMA GoesType ==
  ASSUME TypeOK, NEW j \in Jobs, NEW from, NEW to \in WorkerPc, Goes(j, from, to)
  PROVE  pc' \in [Jobs -> WorkerPc]
BY DEF Goes, TypeOK

\* What an executor's step does to types.
LEMMA ExecutorType ==
  ASSUME TypeOK, ThreadsInv, OnStop \/ OnIgnored \/ \E shape \in Shapes : OnShape(shape)
  PROVE  TypeOK'
<1> USE DEF TypeOK
<1>0. ASSUME Commanded PROVE commands' \in 0 .. MaxCommands
  BY <1>0, LegacyAssumption DEF Commanded
<1>1. CASE OnStop
  BY <1>0, <1>1 DEF OnStop, PlannerTypeOK, plannerVars
<1>2. CASE OnIgnored
  BY <1>0, <1>2 DEF OnIgnored, PlannerTypeOK, plannerVars
<1>3. ASSUME NEW shape \in Shapes, OnShape(shape) PROVE TypeOK'
  <2>1. nextJob \in Jobs /\ nextJob' \in 1 .. MaxJobs + 1 /\ worker_thread' \in Jobs
    BY <1>3, PlannerAssumption DEF OnShape, Jobs
  <2>2. pc' \in [Jobs -> WorkerPc]
    BY <1>3, <2>1 DEF OnShape, WorkerPc
  <2>3. PICK p \in {CirclePath, SquarePath} : path' = [path EXCEPT ![nextJob] = p]
    BY <1>3 DEF OnShape
  <2>4. path' \in [Jobs -> {<<>>, CirclePath, SquarePath}]
    BY <2>3
  <2>5. \A j \in Jobs : wp'[j] <= Len(path'[j]) + 1
    <3>1. wp[nextJob] = 1
      BY <2>1 DEF ThreadsInv
    <3>2. Len(p) \in Nat
      BY ShapeTypes
    <3> QED BY <1>3, <2>1, <2>3, <3>1, <3>2 DEF OnShape
  <2> QED BY <1>0, <1>3, <2>1, <2>2, <2>4, <2>5 DEF OnShape, PlannerTypeOK, plannerVars
<1> QED BY <1>1, <1>2, <1>3

\* What a worker's step does to types.
LEMMA WorkerType ==
  ASSUME TypeOK, ThreadsInv, NEW j \in Jobs, Worker(j)
  PROVE  TypeOK'
<1>0. \A to \in {"head", "call_plan", "plan", "ask", "call_exec", "run", "status", "forget",
                  "clear", "done"} : to \in WorkerPc
  BY DEF WorkerPc
<1>a. ASSUME UNCHANGED plannerVars PROVE PlannerTypeOK'
  BY <1>a DEF TypeOK, PlannerTypeOK, plannerVars
<1>b. ASSUME NEW from, Fails(j, from) PROVE pc' \in [Jobs -> WorkerPc]
  BY <1>0, <1>b, GoesType DEF Fails
<1>1. CASE NextPose(j)
  <2>1. pc' \in [Jobs -> WorkerPc]
    BY <1>0, <1>1, <1>b, GoesType DEF NextPose
  <2>2. success' \in [Jobs -> BOOLEAN]
    BY <1>1 DEF NextPose, Fails, TypeOK
  <2> QED BY <1>1, <1>a, <2>1, <2>2 DEF NextPose, Fails, TypeOK
<1>c. CASE CallPlan(j)
  <2>1. pc' \in [Jobs -> WorkerPc]
    BY <1>0, <1>c, GoesType DEF CallPlan
  <2>2. queue' \in [Services -> Seq(Request)] /\ answer' \in [Jobs -> {"none", "yes", "no"}]
    <3>1. path[j][wp[j]] \in Poses
      BY <1>c, PathTypes DEF CallPlan, Goes, ThreadsInv
    <3>2. "pose" \in Services /\ "straight" \in Services
      BY DEF Services
    <3> QED BY <1>c, <3>1, <3>2, AsksType DEF CallPlan
  <2> QED BY <1>c, <1>a, <2>1, <2>2 DEF CallPlan, TypeOK
<1>2. CASE PlanAnswered(j)
  <2>1. pc' \in [Jobs -> WorkerPc]
    BY <1>0, <1>2, <1>b, GoesType DEF PlanAnswered
  <2> QED BY <1>2, <1>a, <2>1 DEF PlanAnswered, Fails, TypeOK
<1>3. CASE AskExecution(j)
  <2>1. pc' \in [Jobs -> WorkerPc]
    BY <1>0, <1>3, <1>b, GoesType DEF AskExecution
  <2> QED BY <1>3, <1>a, <2>1 DEF AskExecution, Fails, TypeOK
<1>d. CASE CallExecution(j)
  <2>1. pc' \in [Jobs -> WorkerPc]
    BY <1>0, <1>d, GoesType DEF CallExecution
  <2>2. late' \in [Jobs -> Nat]
    BY <1>d DEF CallExecution, TypeOK
  <2>3. queue' \in [Services -> Seq(Request)] /\ answer' \in [Jobs -> {"none", "yes", "no"}]
    <3>1. "exec" \in Services
      BY DEF Services
    <3> QED BY <1>d, <3>1, AsksType DEF CallExecution
  <2> QED BY <1>d, <1>a, <2>1, <2>2, <2>3 DEF CallExecution, TypeOK
<1>4. CASE ExecutionAnswered(j)
  <2>1. pc' \in [Jobs -> WorkerPc]
    BY <1>0, <1>4, <1>b, GoesType DEF ExecutionAnswered
  <2>2. wp' \in [Jobs -> Nat \ {0}] /\ \A i \in Jobs : wp'[i] <= Len(path[i]) + 1
    <3>1. Len(path[j]) \in Nat
      BY PathTypes
    <3>2. pc[j] = "run" => wp[j] <= Len(path[j])
      BY DEF ThreadsInv
    <3>3. CASE pc[j] = "run" /\ wp' = [wp EXCEPT ![j] = @ + 1]
      <4>1. wp[j] + 1 \in Nat \ {0} /\ wp[j] + 1 <= Len(path[j]) + 1
        BY <3>1, <3>2, <3>3 DEF TypeOK
      <4>2. ASSUME NEW i \in Jobs PROVE wp'[i] \in Nat \ {0} /\ wp'[i] <= Len(path[i]) + 1
        BY <3>3, <4>1 DEF TypeOK
      <4>3. wp' \in [Jobs -> Nat \ {0}]
        BY <3>3, <4>1 DEF TypeOK
      <4> QED BY <4>2, <4>3
    <3>4. CASE wp' = wp
      BY <3>4 DEF TypeOK
    <3> QED BY <1>4, <3>3, <3>4 DEF ExecutionAnswered, Goes, Fails
  <2> QED BY <1>4, <1>a, <2>1, <2>2 DEF ExecutionAnswered, Fails, TypeOK
<1>5. CASE GivesUp(j) \/ Unavailable(j)
  <2>1. pc' \in [Jobs -> WorkerPc]
    BY <1>5, <1>b DEF GivesUp, Unavailable
  <2>2. stray' \in BOOLEAN
    BY <1>5 DEF GivesUp, Unavailable, TypeOK
  <2> QED BY <1>5, <1>a, <2>1, <2>2 DEF GivesUp, Unavailable, Fails, TypeOK
<1>6. CASE Report(j)
  <2>1. pc' \in [Jobs -> WorkerPc]
    BY <1>0, <1>6, GoesType DEF Report
  <2>2. outcome' \in [Jobs -> {"none", "completed", "cancelled", "failed"}]
    BY <1>6 DEF Report, TypeOK
  <2> QED BY <1>6, <1>a, <2>1, <2>2 DEF Report, TypeOK
<1>7. CASE Forget(j)
  <2>1. pc' \in [Jobs -> WorkerPc]
    BY <1>0, <1>7, GoesType DEF Forget
  <2> QED BY <1>7, <1>a, <2>1 DEF Forget, TypeOK
<1>8. CASE Clear(j)
  <2>1. pc' \in [Jobs -> WorkerPc]
    BY <1>0, <1>8, GoesType DEF Clear
  <2>2. cleared' \in [Jobs -> BOOLEAN]
    BY <1>8 DEF Clear, TypeOK
  <2> QED BY <1>8, <1>a, <2>1, <2>2 DEF Clear, TypeOK
<1> QED BY <1>1, <1>2, <1>3, <1>4, <1>5, <1>6, <1>7, <1>8, <1>c, <1>d DEF Worker

\* What the planner node's step does to types.
LEMMA NodeType ==
  ASSUME TypeOK, QueueInv, NodeInv, Node
  PROVE  TypeOK'
<1>1. ASSUME NEW ok \in BOOLEAN, Answers(IF ok THEN "yes" ELSE "no")
      PROVE  answer' \in [Jobs -> {"none", "yes", "no"}] /\ node' \in Request \cup {NoRequest}
  BY <1>1, AnswersType
<1>2. CASE TakesPose
  <2>1. node' \in Request /\ queue' \in [Services -> Seq(Request)] /\ node' = Head(queue["pose"])
    BY <1>2, TakesType DEF TakesPose, Services
  <2>2. node'.to \in Poses \cup {NoPose}
    BY <2>1 DEF Request
  <2>3. PlannerTypeOK'
    BY <1>2, <2>1, <2>2 DEF TakesPose, SetPoseTarget, TypeOK, PlannerTypeOK
  <2> QED BY <1>2, <2>1, <2>3 DEF TakesPose, TypeOK
<1>3. CASE TakesStraight
  <2>1. node' \in Request /\ queue' \in [Services -> Seq(Request)]
    BY <1>3, TakesType DEF TakesStraight, Services
  <2>2. PlannerTypeOK'
    BY <1>3 DEF TakesStraight, plannerVars, TypeOK, PlannerTypeOK
  <2> QED BY <1>3, <2>1, <2>2 DEF TakesStraight, TypeOK
<1>4. CASE TakesExec
  <2>1. node' \in Request /\ queue' \in [Services -> Seq(Request)] /\ node' = Head(queue["exec"])
    BY <1>4, TakesType DEF TakesExec, Services
  <2>2. Head(queue["exec"]).job \in Callers
    BY <2>1 DEF Request, Callers
  <2>3. motion' \in Motions
    BY <1>4, <2>2 DEF TakesExec, BeginMotion, Selected, Motions, TypeOK, PlannerTypeOK, Plans
  <2>4. PlannerTypeOK'
    BY <1>4, <2>3 DEF TakesExec, BeginMotion, slotVars, TypeOK, PlannerTypeOK
  <2> QED BY <1>4, <2>1, <2>4 DEF TakesExec, TypeOK
<1>5. ASSUME NEW ok \in BOOLEAN, PosePlanned(ok) PROVE TypeOK'
  <2>1. PlannerTypeOK'
    BY <1>5 DEF PosePlanned, Plan, TypeOK, PlannerTypeOK, Plans
  <2> QED BY <1>1, <1>5, <2>1 DEF PosePlanned, TypeOK
<1>6. ASSUME NEW ok \in BOOLEAN, StraightPlanned(ok) PROVE TypeOK'
  <2>1. node.to \in Plans
    BY <1>6 DEF StraightPlanned, TypeOK, Request, NoRequest, Plans
  <2>2. trajectory_' \in Plans /\ is_trajectory_' \in BOOLEAN
    BY <1>6, <2>1 DEF StraightPlanned, PlanCartesian, TypeOK, PlannerTypeOK, Plans
  <2>3. PlannerTypeOK'
    BY <1>6, <2>2 DEF StraightPlanned, PlanCartesian, TypeOK, PlannerTypeOK
  <2> QED BY <1>1, <1>6, <2>3 DEF StraightPlanned, TypeOK
<1>7. ASSUME NEW ok \in BOOLEAN, Executed(ok) PROVE TypeOK'
  <2>1. AtRest \in Motions
    BY DEF AtRest, Motions, Plans
  <2>2. PlannerTypeOK'
    BY <1>7, <2>1 DEF Executed, MotionEnds, slotVars, TypeOK, PlannerTypeOK
  <2> QED BY <1>1, <1>7, <2>2 DEF Executed, TypeOK
<1> QED BY <1>2, <1>3, <1>4, <1>5, <1>6, <1>7 DEF Node

\* Every step keeps every variable in its type.
LEMMA TypeStep ==
  TypeOK /\ ThreadsInv /\ QueueInv /\ NodeInv /\ [Next]_vars => TypeOK'
<1>1. ASSUME TypeOK, UNCHANGED vars PROVE TypeOK'
  BY <1>1 DEF vars, plannerVars, legacyVars, TypeOK, PlannerTypeOK
<1> QED BY <1>1, ExecutorType, WorkerType, NodeType DEF Next

-----------------------------------------------------------------------------
(* The threads and the stop flag. *)

\* A worker moves itself alone, and keeps to its poses.
LEMMA WorkerMoves ==
  ASSUME TypeOK, NEW j \in Jobs, Worker(j)
  PROVE  /\ pc' = [pc EXCEPT ![j] = pc'[j]]
         /\ pc[j] # "none" /\ pc'[j] # "none"
         /\ pc'[j] \in Known => pc[j] \in Known /\ worker_thread' = worker_thread
         /\ worker_thread' = worker_thread \/ (pc[j] = "forget" /\ pc'[j] = "clear")
         /\ pc'[j] = "head" => pc[j] = "run"
         /\ pc'[j] = "call_plan" => pc[j] = "head" /\ wp[j] <= Len(path[j])
         /\ pc'[j] = "plan" => pc[j] = "call_plan"
         /\ pc'[j] = "ask" => pc[j] = "plan"
         /\ pc'[j] = "call_exec" => pc[j] = "ask" /\ ~stop_requested
         /\ pc'[j] = "run" => pc[j] = "call_exec"
         /\ pc'[j] # "head" => wp' = wp
         /\ \A i \in Jobs : i # j => wp'[i] = wp[i] /\ answer'[i] = answer[i]
         /\ pc[j] \in {"plan", "run"} /\ answer[j] = "none" => pc'[j] = "status"
         /\ UNCHANGED <<plannerVars, path, nextJob, stopped, passed, node>>
<1> USE DEF TypeOK, Goes, Known
<1>1. CASE NextPose(j)
  BY <1>1 DEF NextPose, Fails
<1>10. CASE CallPlan(j)
  BY <1>10 DEF CallPlan, Asks
<1>2. CASE PlanAnswered(j)
  BY <1>2 DEF PlanAnswered, Fails
<1>3. CASE AskExecution(j)
  BY <1>3 DEF AskExecution, Fails
<1>11. CASE CallExecution(j)
  BY <1>11 DEF CallExecution, Asks
<1>4. CASE ExecutionAnswered(j)
  BY <1>4 DEF ExecutionAnswered, Fails
<1>5. CASE GivesUp(j)
  BY <1>5 DEF GivesUp, Fails
<1>6. CASE Unavailable(j)
  BY <1>6 DEF Unavailable, Fails
<1>7. CASE Report(j)
  BY <1>7 DEF Report
<1>8. CASE Forget(j)
  BY <1>8 DEF Forget
<1>9. CASE Clear(j)
  BY <1>9 DEF Clear
<1> QED
  BY <1>1, <1>2, <1>3, <1>4, <1>5, <1>6, <1>7, <1>8, <1>9, <1>10, <1>11 DEF Worker

\* The node's steps leave the threads alone.
LEMMA NodeLeaves ==
  Node => UNCHANGED <<worker_thread, stop_requested, nextJob, commands, pc, path, wp, success,
                      outcome, stopped, passed, late, cleared, stray>>
BY DEF Node, TakesPose, PosePlanned, TakesStraight, StraightPlanned, TakesExec, Executed

\* A shape finds no worker that draws, and starts one that is new.
LEMMA ShapeStarts ==
  ASSUME TypeOK, ThreadsInv, NEW shape \in Shapes, OnShape(shape)
  PROVE  /\ nextJob \in Jobs /\ pc[nextJob] = "none" /\ wp[nextJob] = 1 /\ ~stopped[nextJob]
         /\ \A j \in Jobs : pc[j] \notin Known
         /\ pc' = [pc EXCEPT ![nextJob] = "head"]
         /\ Drawing' = {nextJob}
<1>1. nextJob \in Jobs
  BY PlannerAssumption DEF OnShape, TypeOK, Jobs
<1>2. pc[nextJob] = "none" /\ wp[nextJob] = 1 /\ ~stopped[nextJob]
  BY <1>1 DEF ThreadsInv, Jobs
<1>3. ASSUME NEW j \in Jobs PROVE pc[j] \notin Known
  <2>1. worker_thread = None /\ None # j
    BY DEF OnShape, None, Jobs
  <2> QED BY <2>1 DEF ThreadsInv
<1>4. pc' = [pc EXCEPT ![nextJob] = "head"] /\ DOMAIN pc = Jobs
  BY DEF OnShape, TypeOK
<1>5. Drawing' = {nextJob}
  BY <1>1, <1>3, <1>4 DEF Drawing, Known
<1> QED BY <1>1, <1>2, <1>3, <1>4, <1>5

\* Which workers are known, and how far they are.
LEMMA ThreadsStep == TypeOK /\ ThreadsInv /\ [Next]_vars => ThreadsInv'
<1> SUFFICES ASSUME TypeOK, ThreadsInv, [Next]_vars PROVE ThreadsInv'
  OBVIOUS
<1>1. CASE OnStop
  <2>1. ASSUME NEW j \in Jobs, pc[j] = "none" PROVE ~stopped'[j]
    BY <1>1, <2>1 DEF OnStop, ThreadsInv, TypeOK, Drawing
  <2> QED BY <1>1, <2>1 DEF OnStop, ThreadsInv
<1>2. ASSUME NEW shape \in Shapes, OnShape(shape) PROVE ThreadsInv'
  <2> SUFFICES ASSUME NEW j \in Jobs
               PROVE  /\ pc'[j] \in Known => worker_thread' = j
                      /\ j >= nextJob' => pc'[j] = "none"
                      /\ pc'[j] = "none" => wp'[j] = 1 /\ ~stopped'[j]
                      /\ pc'[j] \in {"call_plan", "plan", "ask", "call_exec", "run"}
                           => wp'[j] <= Len(path'[j])
    BY DEF ThreadsInv
  <2>1. /\ nextJob \in Jobs /\ pc' = [pc EXCEPT ![nextJob] = "head"]
        /\ pc[j] \notin Known
    BY <1>2, ShapeStarts
  <2>2. worker_thread' = nextJob /\ nextJob' = nextJob + 1 /\ UNCHANGED <<wp, stopped>>
    BY <1>2 DEF OnShape
  <2>3. CASE j = nextJob
    BY <2>1, <2>2, <2>3 DEF TypeOK, Jobs
  <2>4. CASE j # nextJob
    BY <2>1, <2>2, <2>4 DEF TypeOK, Jobs, ThreadsInv, Known
  <2> QED BY <2>3, <2>4
<1>3. ASSUME NEW j \in Jobs, Worker(j) PROVE ThreadsInv'
  <2> SUFFICES ASSUME NEW i \in Jobs
               PROVE  /\ pc'[i] \in Known => worker_thread' = i
                      /\ i >= nextJob' => pc'[i] = "none"
                      /\ pc'[i] = "none" => wp'[i] = 1 /\ ~stopped'[i]
                      /\ pc'[i] \in {"call_plan", "plan", "ask", "call_exec", "run"}
                           => wp'[i] <= Len(path'[i])
    BY DEF ThreadsInv
  <2>1. CASE i = j
    BY <1>3, <2>1, WorkerMoves DEF ThreadsInv
  <2>2. CASE i # j
    <3>1. pc'[i] = pc[i] /\ wp'[i] = wp[i] /\ UNCHANGED <<path, nextJob, stopped>>
      BY <1>3, <2>2, WorkerMoves DEF TypeOK
    <3>2. pc[i] \in Known => worker_thread' = worker_thread
      BY <1>3, <2>2, WorkerMoves DEF ThreadsInv, Known
    <3> QED BY <3>1, <3>2 DEF ThreadsInv
  <2> QED BY <2>1, <2>2
<1>4. CASE Node
  BY <1>4, NodeLeaves DEF ThreadsInv
<1>5. CASE OnIgnored \/ UNCHANGED vars
  BY <1>5 DEF OnIgnored, vars, legacyVars, ThreadsInv
<1> QED BY <1>1, <1>2, <1>3, <1>4, <1>5 DEF Next

\* A stop stays in sight, whatever steps come between it and the next check; of
\* the requests for an execution it lets one through at most.
LEMMA StopStep ==
  TypeOK /\ ThreadsInv /\ StopInv /\ LookedInv /\ StopHeard /\ [Next]_vars
    => StopInv' /\ LookedInv' /\ StopHeard'
<1> SUFFICES ASSUME TypeOK, ThreadsInv, StopInv, LookedInv, StopHeard, [Next]_vars
             PROVE  StopInv' /\ LookedInv' /\ StopHeard'
  OBVIOUS
<1>1. CASE OnStop
  <2>1. /\ stopped' = [j \in Jobs |-> stopped[j] \/ j \in Drawing]
        /\ passed' = [j \in Jobs |-> passed[j] \/ pc[j] = "call_exec"]
        /\ stop_requested' /\ UNCHANGED <<pc, late, cleared>>
    BY <1>1 DEF OnStop
  <2>2. StopInv'
    BY <2>1 DEF StopInv
  <2>3. LookedInv'
    BY <2>1 DEF LookedInv
  <2>4. \A j \in Jobs : passed[j] => passed'[j]
    BY <2>1
  <2>5. StopHeard'
    BY <2>1, <2>4 DEF StopHeard
  <2> QED BY <2>2, <2>3, <2>5
<1>2. ASSUME NEW shape \in Shapes, OnShape(shape) PROVE StopInv' /\ LookedInv' /\ StopHeard'
  <2>1. /\ Drawing' = {nextJob} /\ nextJob \in Jobs /\ ~stopped[nextJob]
        /\ pc' = [pc EXCEPT ![nextJob] = "head"]
    BY <1>2, ShapeStarts
  <2>2. UNCHANGED <<stopped, passed, late, cleared>>
    BY <1>2 DEF OnShape
  <2>3. LookedInv'
    BY <2>1, <2>2 DEF LookedInv, TypeOK
  <2> QED BY <2>1, <2>2, <2>3 DEF StopInv, StopHeard
<1>3. ASSUME NEW j \in Jobs, Worker(j) PROVE StopInv' /\ LookedInv' /\ StopHeard'
  <2>1. Drawing' \subseteq Drawing
    BY <1>3, WorkerMoves DEF Drawing, Known, TypeOK
  <2>2. UNCHANGED <<stopped, passed>>
    BY <1>3, WorkerMoves
  <2>3. CASE CallExecution(j)
    <3>1. /\ late' = [late EXCEPT ![j] = IF stopped[j] THEN @ + 1 ELSE @]
          /\ UNCHANGED <<stop_requested, cleared>>
          /\ pc[j] = "call_exec" /\ pc' = [pc EXCEPT ![j] = "run"]
      BY <2>3 DEF CallExecution, Goes
    <3>2. late[j] \in Nat /\ late'[j] = IF stopped[j] THEN late[j] + 1 ELSE late[j]
      BY <3>1 DEF TypeOK
    <3>3. \A i \in Jobs : i # j => late'[i] = late[i] /\ pc'[i] = pc[i]
      BY <3>1 DEF TypeOK
    <3>4. StopHeard'
      <4>1. ASSUME late'[j] > 0, ~cleared[j] PROVE passed[j] /\ late'[j] = 1
        BY <3>1, <3>2, <4>1 DEF LookedInv
      <4> QED BY <2>2, <3>1, <3>3, <4>1 DEF StopHeard
    <3>5. LookedInv'
      <4>1. pc'[j] # "call_exec" /\ (late'[j] > 0 => stopped[j])
        <5>1. late[j] > 0 => stopped[j]
          BY DEF LookedInv
        <5>2. pc'[j] = "run"
          BY <3>1 DEF TypeOK
        <5> QED BY <3>2, <5>1, <5>2
      <4> QED BY <2>2, <3>1, <3>3, <4>1 DEF LookedInv
    <3> QED BY <2>1, <2>2, <3>1, <3>4, <3>5 DEF StopInv
  <2>4. ASSUME late' = late, \A i \in Jobs : cleared[i] => cleared'[i]
        PROVE  LookedInv' /\ StopHeard'
    <3>1. ASSUME NEW i \in Jobs, pc'[i] = "call_exec"
          PROVE  /\ stopped[i] => cleared[i] \/ passed[i]
                 /\ late[i] > 0 => cleared[i]
      <4>0. LookedInv
        OBVIOUS
      <4>1. CASE pc[i] = "call_exec"
        BY <4>0, <4>1 DEF LookedInv
      <4>2. CASE pc[i] # "call_exec"
        <5>1. i = j
          BY <1>3, <3>1, <4>2, WorkerMoves DEF TypeOK
        <5>2. pc[i] = "ask" /\ ~stop_requested
          BY <1>3, <3>1, <5>1, WorkerMoves
        <5>3. stopped[i] => cleared[i]
          BY <5>2 DEF StopInv, Drawing
        <5> QED BY <5>3 DEF LookedInv
      <4> QED BY <4>1, <4>2
    <3>2. LookedInv'
      BY <2>2, <2>4, <3>1 DEF LookedInv
    <3> QED BY <2>2, <2>4, <3>2 DEF StopHeard
  <2>5. CASE Clear(j)
    <3>1. late' = late /\ cleared' = [i \in Jobs |-> cleared[i] \/ i \in Drawing]
      BY <2>5 DEF Clear
    <3>2. \A i \in Drawing' : i \in Jobs /\ cleared'[i]
      BY <2>1, <3>1 DEF Drawing
    <3>3. StopInv'
      BY <3>2 DEF StopInv
    <3> QED BY <2>4, <3>1, <3>3
  <2>6. CASE UNCHANGED <<late, cleared, stop_requested>>
    BY <2>1, <2>2, <2>4, <2>6 DEF StopInv
  <2> QED
    BY <1>3, <2>3, <2>5, <2>6
       DEF Worker, NextPose, CallPlan, PlanAnswered, AskExecution, ExecutionAnswered, GivesUp,
           Unavailable, Report, Forget
<1>4. CASE Node
  BY <1>4, NodeLeaves DEF StopInv, LookedInv, StopHeard, Drawing
<1>5. CASE OnIgnored \/ UNCHANGED vars
  BY <1>5 DEF OnIgnored, vars, legacyVars, StopInv, LookedInv, StopHeard, Drawing
<1> QED BY <1>1, <1>2, <1>3, <1>4, <1>5 DEF Next
-----------------------------------------------------------------------------
(* The queues and the request in hand. *)

\* The places of the queues after a request is added to one.
LEMMA AddedPlaces ==
  ASSUME TypeOK, NEW s \in Services, NEW r \in Request,
         queue' = [queue EXCEPT ![s] = Append(@, r)]
  PROVE  \A t \in Services : \A i \in 1 .. Len(queue'[t]) :
           \/ i \in 1 .. Len(queue[t]) /\ queue'[t][i] = queue[t][i]
           \/ t = s /\ i = Len(queue[s]) + 1 /\ queue'[t][i] = r
<1> SUFFICES ASSUME NEW t \in Services, NEW i \in 1 .. Len(queue'[t])
             PROVE  \/ i \in 1 .. Len(queue[t]) /\ queue'[t][i] = queue[t][i]
                    \/ t = s /\ i = Len(queue[s]) + 1 /\ queue'[t][i] = r
  OBVIOUS
<1>1. CASE t = s
  <2> DEFINE q == queue[s]
  <2>1. q \in Seq(Request) /\ queue'[s] = Append(q, r)
    BY DEF TypeOK
  <2> HIDE DEF q
  <2>2. /\ Len(q) \in Nat /\ Len(Append(q, r)) = Len(q) + 1
        /\ Append(q, r)[Len(q) + 1] = r
        /\ \A k \in 1 .. Len(q) : Append(q, r)[k] = q[k]
    BY <2>1
  <2>3. i \in 1 .. Len(q) + 1
    BY <1>1, <2>1, <2>2
  <2>4. i \in 1 .. Len(q) \/ i = Len(q) + 1
    BY <2>2, <2>3
  <2>5. \/ i \in 1 .. Len(q) /\ queue'[s][i] = q[i]
        \/ i = Len(q) + 1 /\ queue'[s][i] = r
    BY <2>1, <2>2, <2>4
  <2> QED BY <1>1, <2>5 DEF q
<1>2. CASE t # s
  BY <1>2 DEF TypeOK
<1> QED BY <1>1, <1>2

\* The places of the queues after the node took a request.
LEMMA TakenPlaces ==
  ASSUME TypeOK, NEW s \in Services, Takes(s)
  PROVE  /\ 1 \in 1 .. Len(queue[s]) /\ node' = queue[s][1]
         /\ \A t \in Services : \A i \in 1 .. Len(queue'[t]) :
              \/ t = s /\ i + 1 \in 1 .. Len(queue[s]) /\ queue'[t][i] = queue[s][i + 1]
              \/ t # s /\ i \in 1 .. Len(queue[t]) /\ queue'[t][i] = queue[t][i]
<1> DEFINE q == queue[s]
<1>1. q \in Seq(Request) /\ q # <<>> /\ queue' = [queue EXCEPT ![s] = Tail(q)] /\ node' = Head(q)
  BY DEF TypeOK, Takes
<1>2. queue'[s] = Tail(q) /\ \A t \in Services : t # s => queue'[t] = queue[t]
  BY <1>1 DEF TypeOK
<1> HIDE DEF q
<1>3. /\ Len(q) \in Nat \ {0} /\ Head(q) = q[1] /\ Len(Tail(q)) = Len(q) - 1
      /\ \A k \in 1 .. Len(q) - 1 : Tail(q)[k] = q[k + 1]
  BY <1>1
<1>4. ASSUME NEW i \in 1 .. Len(queue'[s])
      PROVE  i + 1 \in 1 .. Len(q) /\ queue'[s][i] = q[i + 1]
  <2>1. i \in 1 .. Len(q) - 1
    BY <1>2, <1>3
  <2> QED BY <1>2, <1>3, <2>1
<1>5. 1 \in 1 .. Len(q) /\ node' = q[1]
  BY <1>1, <1>3
<1> QED BY <1>2, <1>4, <1>5 DEF q

\* What a worker sends, and from where.
Where(s) == IF s = "exec" THEN "run" ELSE "plan"
Sends(j, s, to) ==
  /\ Asks(j, s, to)
  /\ pc[j] \in {"call_plan", "call_exec"} /\ pc'[j] = Where(s)
  /\ s # "exec" => wp[j] <= Len(path[j]) /\ to = path[j][wp[j]]

\* A worker's step sends one request or none.
LEMMA WorkerSends ==
  ASSUME TypeOK, ThreadsInv, NEW j \in Jobs, Worker(j)
  PROVE  \/ queue' = queue
         \/ \E s \in Services, to \in Poses \cup {NoPose} : Sends(j, s, to)
<1>1. CASE CallPlan(j)
  <2>1. wp[j] <= Len(path[j]) /\ path[j][wp[j]] \in Poses
    BY <1>1, PathTypes DEF CallPlan, Goes, ThreadsInv
  <2>2. "pose" \in Services /\ "straight" \in Services
    BY DEF Services
  <2>3. PICK s \in {"pose", "straight"} : Asks(j, s, path[j][wp[j]])
    BY <1>1 DEF CallPlan
  <2>4. Sends(j, s, path[j][wp[j]])
    BY <1>1, <2>1, <2>3 DEF CallPlan, Sends, Goes, Where, TypeOK
  <2> QED BY <2>1, <2>2, <2>4
<1>2. CASE CallExecution(j)
  <2>1. Sends(j, "exec", NoPose)
    BY <1>2 DEF CallExecution, Sends, Goes, Where, TypeOK
  <2>2. "exec" \in Services
    BY DEF Services
  <2> QED BY <2>1, <2>2
<1>3. CASE queue' = queue
  BY <1>3
<1> QED
  BY <1>1, <1>2, <1>3
     DEF Worker, NextPose, PlanAnswered, AskExecution, ExecutionAnswered, GivesUp, Unavailable,
         Report, Forget, Clear, Fails

\* What is asked of a service stays asked, whatever any worker does.
LEMMA PendingStays ==
  ASSUME TypeOK, NEW j \in Jobs, Worker(j), NEW r \in Request, NEW s, Pending(r, s)
  PROVE  Pending(r, s)'
<1>1. r.job \in Jobs
  BY DEF Request
<1>2. CASE r.job = j
  <2>1. j \notin Drawing'
    <3>1. CASE j \in Drawing
      <4>1. pc[j] \in {"plan", "run"} /\ answer[j] = "none"
        BY <1>2, <3>1 DEF Pending
      <4>2. pc'[j] = "status"
        BY <4>1, WorkerMoves
      <4> QED BY <4>2 DEF Drawing
    <3>2. CASE j \notin Drawing
      BY <3>2, WorkerMoves DEF Drawing, Known
    <3> QED BY <3>1, <3>2
  <2> QED BY <1>2, <2>1, WorkerMoves DEF Pending
<1>3. CASE r.job # j
  <2>1. pc'[r.job] = pc[r.job] /\ answer'[r.job] = answer[r.job]
    BY <1>1, <1>3, WorkerMoves DEF TypeOK
  <2> QED BY <1>1, <2>1 DEF Pending, Drawing
<1> QED BY <1>2, <1>3

\* A worker that asks has asked for nothing else.
LEMMA AskerIsFree ==
  ASSUME TypeOK, QueueInv, NodeInv, NEW j \in Jobs, pc[j] \in {"call_plan", "call_exec"}
  PROVE  /\ node # NoRequest => node.job # j
         /\ \A s \in Services : \A i \in 1 .. Len(queue[s]) : queue[s][i].job # j
<1>1. ASSUME NEW r, NEW s, Pending(r, s) PROVE r.job # j
  BY <1>1 DEF Pending, Drawing
<1> QED BY <1>1 DEF QueueInv, NodeInv

\* The requests in the queues are requests.
LEMMA PlaceTypes ==
  ASSUME TypeOK, NEW s \in Services, NEW i \in 1 .. Len(queue[s])
  PROVE  queue[s][i] \in Request
<1>1. queue[s] \in Seq(Request)
  BY DEF TypeOK
<1> QED BY <1>1

\* A worker's step and the queues.
LEMMA WorkerQueues ==
  ASSUME TypeOK, ThreadsInv, QueueInv, OneRequest, NodeInv, NEW j \in Jobs, Worker(j)
  PROVE  QueueInv' /\ OneRequest' /\ NodeInv'
<1>1. NodeInv'
  <2>1. UNCHANGED <<node, target, motion>>
    BY WorkerMoves DEF plannerVars
  <2>2. ASSUME node # NoRequest PROVE Pending(node, node.service)'
    <3>1. node \in Request /\ Pending(node, node.service)
      BY <2>2 DEF TypeOK, NodeInv
    <3>2. PICK r \in Request : r = node
      BY <3>1
    <3>3. Pending(r, r.service)'
      BY <3>1, <3>2, PendingStays
    <3> QED BY <2>1, <3>2, <3>3 DEF Pending
  <2> QED BY <2>1, <2>2 DEF NodeInv
<1>2. CASE queue' = queue
  <2>1. QueueInv'
    <3> SUFFICES ASSUME NEW s \in Services, NEW i \in 1 .. Len(queue'[s])
                 PROVE  Pending(queue[s][i], s)'
      BY DEF QueueInv
    <3>1. PICK r \in Request : r = queue[s][i] /\ Pending(r, s)
      BY <1>2, PlaceTypes DEF QueueInv
    <3>2. Pending(r, s)'
      BY <3>1, PendingStays
    <3> QED BY <1>2, <3>1, <3>2 DEF Pending
  <2>2. node' = node
    BY WorkerMoves
  <2> QED BY <1>1, <1>2, <2>1, <2>2 DEF OneRequest
<1>3. ASSUME NEW s \in Services, NEW to \in Poses \cup {NoPose}, Sends(j, s, to)
      PROVE  QueueInv' /\ OneRequest'
  <2> DEFINE new == [job |-> j, service |-> s, to |-> to]
  <2>1. new \in Request /\ new.job = j /\ new.service = s /\ new.to = to
    BY DEF Request
  <2>2. queue' = [queue EXCEPT ![s] = Append(@, new)] /\ answer' = [answer EXCEPT ![j] = "none"]
    BY <1>3 DEF Sends, Asks
  <2>3. Pending(new, s)'
    <3>1. s # "exec" => to \in Poses
      BY <1>3, PathTypes DEF Sends
    <3>2. pc'[j] = Where(s) /\ pc'[j] # "none" /\ answer'[j] = "none"
      BY <1>3, <2>2 DEF Sends, TypeOK, Where
    <3> QED BY <2>1, <3>1, <3>2 DEF Pending, Where
  <2> HIDE DEF new
  <2>4. \A t \in Services : \A i \in 1 .. Len(queue'[t]) :
           \/ i \in 1 .. Len(queue[t]) /\ queue'[t][i] = queue[t][i]
           \/ t = s /\ i = Len(queue[s]) + 1 /\ queue'[t][i] = new
    BY <2>1, <2>2, AddedPlaces
  <2>5. QueueInv'
    <3> SUFFICES ASSUME NEW t \in Services, NEW i \in 1 .. Len(queue'[t])
                 PROVE  Pending(queue[t][i], t)'
      BY DEF QueueInv
    <3>1. CASE i \in 1 .. Len(queue[t]) /\ queue'[t][i] = queue[t][i]
      <4>1. PICK r \in Request : r = queue[t][i] /\ Pending(r, t)
        BY <3>1, PlaceTypes DEF QueueInv
      <4>2. Pending(r, t)'
        BY <4>1, PendingStays
      <4> QED BY <3>1, <4>1, <4>2 DEF Pending
    <3>2. CASE t = s /\ queue'[t][i] = new
      BY <2>3, <3>2 DEF Pending, new
    <3> QED BY <2>4, <3>1, <3>2
  <2>6. /\ node # NoRequest => node.job # j
        /\ \A t \in Services : \A i \in 1 .. Len(queue[t]) : queue[t][i].job # j
    BY <1>3, AskerIsFree DEF Sends
  <2>7. node' = node
    BY WorkerMoves
  <2>8. OneRequest'
    <3> SUFFICES ASSUME NEW t \in Services, NEW i \in 1 .. Len(queue'[t])
                 PROVE  /\ node # NoRequest => node.job # queue'[t][i].job
                        /\ \A u \in Services : \A k \in 1 .. Len(queue'[u]) :
                             queue'[t][i].job = queue'[u][k].job => t = u /\ i = k
      BY <2>7 DEF OneRequest
    <3>1. node # NoRequest => node.job # queue'[t][i].job
      BY <2>1, <2>4, <2>6 DEF OneRequest
    <3>2. ASSUME NEW u \in Services, NEW k \in 1 .. Len(queue'[u]),
                 queue'[t][i].job = queue'[u][k].job
          PROVE  t = u /\ i = k
      <4>1. CASE i \in 1 .. Len(queue[t]) /\ queue'[t][i] = queue[t][i]
        <5>1. queue'[u][k] # new
          BY <2>1, <2>6, <3>2, <4>1
        <5>2. k \in 1 .. Len(queue[u]) /\ queue'[u][k] = queue[u][k]
          BY <2>4, <5>1
        <5> QED BY <3>2, <4>1, <5>2 DEF OneRequest
      <4>2. CASE t = s /\ i = Len(queue[s]) + 1 /\ queue'[t][i] = new
        BY <2>1, <2>4, <2>6, <3>2, <4>2
      <4> QED BY <2>4, <4>1, <4>2
    <3> QED BY <3>1, <3>2
  <2> QED BY <2>5, <2>8
<1> QED BY <1>1, <1>2, <1>3, WorkerSends

\* The node takes a request.
LEMMA TakesQueues ==
  ASSUME TypeOK, QueueInv, OneRequest, NEW s \in Services, Takes(s), UNCHANGED <<pc, answer>>
  PROVE  QueueInv' /\ OneRequest' /\ Pending(node, s)'
<1>1. /\ 1 \in 1 .. Len(queue[s]) /\ node' = queue[s][1]
      /\ \A t \in Services : \A i \in 1 .. Len(queue'[t]) :
           \/ t = s /\ i + 1 \in 1 .. Len(queue[s]) /\ queue'[t][i] = queue[s][i + 1]
           \/ t # s /\ i \in 1 .. Len(queue[t]) /\ queue'[t][i] = queue[t][i]
  BY TakenPlaces
<1>2. Pending(node, s)'
  <2>1. Pending(queue[s][1], s)
    BY <1>1 DEF QueueInv
  <2> QED BY <1>1, <2>1 DEF Pending, Drawing
<1>3. QueueInv'
  <2> SUFFICES ASSUME NEW t \in Services, NEW i \in 1 .. Len(queue'[t])
               PROVE  Pending(queue[t][i], t)'
    BY DEF QueueInv
  <2>1. Pending(queue'[t][i], t)
    BY <1>1 DEF QueueInv
  <2> QED BY <2>1 DEF Pending, Drawing
<1>4. OneRequest'
  <2> SUFFICES ASSUME NEW t \in Services, NEW i \in 1 .. Len(queue'[t])
               PROVE  /\ node'.job # queue'[t][i].job
                      /\ \A u \in Services : \A k \in 1 .. Len(queue'[u]) :
                           queue'[t][i].job = queue'[u][k].job => t = u /\ i = k
    BY DEF OneRequest
  <2>1. i \in Int /\ i > 0
    OBVIOUS
  <2>2. node'.job # queue'[t][i].job
    <3>1. CASE t = s
      <4>1. i + 1 \in 1 .. Len(queue[s]) /\ queue'[t][i] = queue[s][i + 1] /\ i + 1 # 1
        BY <1>1, <2>1, <3>1
      <4>2. queue[s][1].job # queue[s][i + 1].job
        BY <1>1, <4>1 DEF OneRequest
      <4> QED BY <1>1, <4>1, <4>2
    <3>2. CASE t # s
      BY <1>1, <3>2 DEF OneRequest
    <3> QED BY <3>1, <3>2
  <2>3. ASSUME NEW u \in Services, NEW k \in 1 .. Len(queue'[u]),
               queue'[t][i].job = queue'[u][k].job
        PROVE  t = u /\ i = k
    <3>1. CASE t = s /\ u = s
      <4>1. /\ i + 1 \in 1 .. Len(queue[s]) /\ queue'[t][i] = queue[s][i + 1]
            /\ k + 1 \in 1 .. Len(queue[s]) /\ queue'[u][k] = queue[s][k + 1]
        BY <1>1, <3>1
      <4>2. i + 1 = k + 1
        BY <2>3, <4>1 DEF OneRequest
      <4> QED BY <2>1, <3>1, <4>2
    <3>2. CASE t # s /\ u # s
      <4>1. /\ i \in 1 .. Len(queue[t]) /\ queue'[t][i] = queue[t][i]
            /\ k \in 1 .. Len(queue[u]) /\ queue'[u][k] = queue[u][k]
        BY <1>1, <3>2
      <4> QED BY <2>3, <4>1 DEF OneRequest
    <3>3. CASE t = s /\ u # s
      <4>1. /\ i + 1 \in 1 .. Len(queue[s]) /\ queue'[t][i] = queue[s][i + 1]
            /\ k \in 1 .. Len(queue[u]) /\ queue'[u][k] = queue[u][k]
        BY <1>1, <3>3
      <4> QED BY <2>3, <3>3, <4>1 DEF OneRequest
    <3>4. CASE t # s /\ u = s
      <4>1. /\ i \in 1 .. Len(queue[t]) /\ queue'[t][i] = queue[t][i]
            /\ k + 1 \in 1 .. Len(queue[s]) /\ queue'[u][k] = queue[s][k + 1]
        BY <1>1, <3>4
      <4> QED BY <2>3, <3>4, <4>1 DEF OneRequest
    <3> QED BY <3>1, <3>2, <3>3, <3>4
  <2> QED BY <2>2, <2>3
<1> QED BY <1>2, <1>3, <1>4

\* The node answers a request.
LEMMA AnswersQueues ==
  ASSUME TypeOK, QueueInv, OneRequest, NEW what, Answers(what), node # NoRequest,
         UNCHANGED <<pc, queue>>
  PROVE  QueueInv' /\ OneRequest'
<1>1. QueueInv'
  <2> SUFFICES ASSUME NEW s \in Services, NEW i \in 1 .. Len(queue[s])
               PROVE  Pending(queue[s][i], s)'
    BY DEF QueueInv
  <2>1. Pending(queue[s][i], s) /\ queue[s][i].job # node.job
    BY DEF QueueInv, OneRequest
  <2>2. queue[s][i].job \in Jobs
    BY PlaceTypes DEF Request
  <2>3. answer'[queue[s][i].job] = answer[queue[s][i].job]
    BY <2>1, <2>2 DEF Answers, TypeOK
  <2> QED BY <2>1, <2>3 DEF Pending, Drawing
<1>2. OneRequest'
  BY DEF OneRequest, Answers
<1> QED BY <1>1, <1>2

\* The queues and the request in hand after every step.
LEMMA QueueStep ==
  TypeOK /\ ThreadsInv /\ QueueInv /\ OneRequest /\ NodeInv /\ [Next]_vars
    => QueueInv' /\ OneRequest' /\ NodeInv'
<1> SUFFICES ASSUME TypeOK, ThreadsInv, QueueInv, OneRequest, NodeInv, [Next]_vars
             PROVE  QueueInv' /\ OneRequest' /\ NodeInv'
  OBVIOUS
<1>0. /\ \A s \in Services : \A i \in 1 .. Len(queue[s]) : queue[s][i] \in Request
      /\ node # NoRequest => node \in Request
      /\ NoRequest.service = "none"
      /\ "pose" \in Services /\ "exec" \in Services /\ "straight" \in Services
  BY PlaceTypes DEF TypeOK, NoRequest, Services
<1>1. CASE OnStop \/ OnIgnored \/ UNCHANGED vars
  <2>1. UNCHANGED <<pc, answer, queue, node, target, motion>>
    BY <1>1 DEF OnStop, OnIgnored, vars, plannerVars, legacyVars
  <2> QED BY <2>1 DEF QueueInv, OneRequest, NodeInv, Pending, Drawing
<1>2. ASSUME NEW shape \in Shapes, OnShape(shape) PROVE QueueInv' /\ OneRequest' /\ NodeInv'
  <2>1. UNCHANGED <<answer, queue, node, target, motion>>
    BY <1>2 DEF OnShape, plannerVars
  <2>2. /\ nextJob \in Jobs /\ pc[nextJob] = "none" /\ pc' = [pc EXCEPT ![nextJob] = "head"]
        /\ Drawing' = {nextJob}
    BY <1>2, ShapeStarts
  <2>3. ASSUME NEW r \in Request, NEW s, Pending(r, s)
        PROVE  pc'[r.job] # "none" /\ r.job \notin Drawing'
    <3>1. r.job # nextJob /\ r.job \in Jobs
      BY <2>2, <2>3 DEF Pending, Request
    <3> QED BY <2>2, <2>3, <3>1 DEF Pending, TypeOK
  <2>4. QueueInv'
    <3> SUFFICES ASSUME NEW s \in Services, NEW i \in 1 .. Len(queue[s])
                 PROVE  Pending(queue[s][i], s)'
      BY <2>1 DEF QueueInv
    <3>1. Pending(queue[s][i], s) /\ queue[s][i] \in Request
      BY <1>0 DEF QueueInv
    <3> QED BY <2>1, <2>3, <3>1 DEF Pending
  <2>5. NodeInv'
    <3>1. ASSUME node # NoRequest PROVE Pending(node, node.service)'
      <4>1. Pending(node, node.service) /\ node \in Request
        BY <1>0, <3>1 DEF NodeInv
      <4> QED BY <2>1, <2>3, <4>1 DEF Pending
    <3> QED BY <2>1, <3>1 DEF NodeInv
  <2> QED BY <2>1, <2>4, <2>5 DEF OneRequest
<1>3. ASSUME NEW j \in Jobs, Worker(j) PROVE QueueInv' /\ OneRequest' /\ NodeInv'
  BY <1>3, WorkerQueues
<1>4. ASSUME NEW s \in Services, Takes(s), UNCHANGED <<pc, answer>>
      PROVE  /\ QueueInv' /\ OneRequest'
             /\ Pending(node, node.service)' /\ node' = Head(queue[s]) /\ node'.service = s
             /\ motion = AtRest
  <2>1. QueueInv' /\ OneRequest' /\ Pending(node, s)'
    BY <1>4, TakesQueues
  <2>2. node' = Head(queue[s]) /\ node = NoRequest
    BY <1>4 DEF Takes
  <2> QED BY <1>0, <2>1, <2>2 DEF Pending, NodeInv
<1>5. CASE TakesPose
  BY <1>0, <1>4, <1>5 DEF TakesPose, SetPoseTarget, NodeInv
<1>6. CASE TakesStraight
  BY <1>0, <1>4, <1>6 DEF TakesStraight, plannerVars, NodeInv
<1>7. CASE TakesExec
  <2>1. motion'.by = node'.job
    BY <1>0, <1>4, <1>7 DEF TakesExec, BeginMotion
  <2> QED BY <1>0, <1>4, <1>7, <2>1 DEF TakesExec, NodeInv
<1>8. ASSUME NEW ok \in BOOLEAN, PosePlanned(ok) \/ StraightPlanned(ok) \/ Executed(ok)
      PROVE  QueueInv' /\ OneRequest' /\ NodeInv'
  <2>1. /\ Answers(IF ok THEN "yes" ELSE "no") /\ node # NoRequest
        /\ UNCHANGED <<pc, queue>>
    BY <1>0, <1>8 DEF PosePlanned, StraightPlanned, Executed
  <2>2. QueueInv' /\ OneRequest'
    BY <2>1, AnswersQueues
  <2>3. node' = NoRequest
    BY <2>1 DEF Answers
  <2>4. motion' = AtRest
    BY <1>8 DEF PosePlanned, StraightPlanned, Executed, Plan, PlanCartesian, MotionEnds, NodeInv
  <2> QED BY <1>0, <2>2, <2>3, <2>4 DEF NodeInv
<1> QED BY <1>1, <1>2, <1>3, <1>5, <1>6, <1>7, <1>8 DEF Next, Node

-----------------------------------------------------------------------------
(* The plan in the slot and the motion. *)

\* Where a worker comes from when it waits for a plan or has one.
LEMMA WorkerPlans ==
  ASSUME TypeOK, NEW j \in Jobs, Worker(j)
  PROVE  /\ stray => stray'
         /\ pc[j] = "plan" /\ answer[j] = "none" => stray'
         /\ pc'[j] = "plan" => answer'[j] = "none"
         /\ pc'[j] = "ask" => answer[j] = "yes"
         /\ Slot' = Slot
<1> USE DEF TypeOK, Goes, Slot, plannerVars
<1>1. CASE NextPose(j)
  BY <1>1 DEF NextPose, Fails
<1>8. CASE CallPlan(j)
  BY <1>8 DEF CallPlan, Asks
<1>2. CASE PlanAnswered(j)
  BY <1>2 DEF PlanAnswered, Fails
<1>3. CASE AskExecution(j)
  BY <1>3 DEF AskExecution, Fails
<1>9. CASE CallExecution(j)
  BY <1>9 DEF CallExecution, Asks
<1>4. CASE ExecutionAnswered(j)
  BY <1>4 DEF ExecutionAnswered, Fails
<1>5. CASE GivesUp(j)
  BY <1>5 DEF GivesUp, Fails
<1>6. CASE Unavailable(j)
  BY <1>6 DEF Unavailable, Fails
<1>7. CASE Report(j) \/ Forget(j) \/ Clear(j)
  BY <1>7 DEF Report, Forget, Clear
<1> QED BY <1>1, <1>2, <1>3, <1>4, <1>5, <1>6, <1>7, <1>8, <1>9 DEF Worker

\* A worker's step: its plan is still the one in the slot.
LEMMA WorkerSegment ==
  ASSUME TypeOK, ThreadsInv, QueueInv, NodeInv, SegmentInv, OwnSegment, NEW j \in Jobs, Worker(j)
  PROVE  SegmentInv' /\ OwnSegment'
<1> SUFFICES ASSUME ~stray' PROVE SegmentInv' /\ OwnSegment'
  BY DEF SegmentInv, OwnSegment
<1>0. ~stray /\ Slot' = Slot /\ UNCHANGED <<path, node, motion>>
  BY WorkerPlans, WorkerMoves DEF plannerVars
<1>1. ASSUME NEW r \in Request, Pending(r, r.service), Asked(r) PROVE Asked(r)'
  <2>1. r.job \in Jobs
    BY DEF Request
  <2>2. CASE r.service # "exec" /\ r.job = j
    <3>1. pc[j] = "plan" /\ answer[j] = "none"
      BY <1>1, <2>1, <2>2 DEF Asked, Pending, Drawing
    <3> QED BY <3>1, WorkerPlans
  <2>3. CASE r.service # "exec" /\ r.job # j
    <3>1. pc'[r.job] = pc[r.job] /\ wp'[r.job] = wp[r.job]
      BY <2>1, <2>3, WorkerMoves DEF TypeOK
    <3> QED BY <1>0, <1>1, <3>1 DEF Asked
  <2> QED BY <2>2, <2>3 DEF Asked
<1>2. ASSUME NEW s \in Services, NEW i \in 1 .. Len(queue[s])
      PROVE  \E r \in Request : r = queue[s][i] /\ Asked(r)'
  <2>1. queue[s][i] \in Request /\ Pending(queue[s][i], s) /\ Asked(queue[s][i])
    BY <1>0, PlaceTypes DEF QueueInv, SegmentInv
  <2>2. PICK r \in Request : r = queue[s][i]
    BY <2>1
  <2>3. Pending(r, r.service) /\ Asked(r)
    BY <2>1, <2>2 DEF Pending
  <2> QED BY <1>1, <2>2, <2>3
<1>3. \A s \in Services : \A i \in 1 .. Len(queue'[s]) : Asked(queue[s][i])'
  <2>1. CASE queue' = queue
    BY <1>2, <2>1 DEF Asked
  <2>2. ASSUME NEW s \in Services, NEW to \in Poses \cup {NoPose}, Sends(j, s, to),
               NEW t \in Services, NEW i \in 1 .. Len(queue'[t])
        PROVE  Asked(queue[t][i])'
    <3> DEFINE new == [job |-> j, service |-> s, to |-> to]
    <3>1. new \in Request /\ new.job = j /\ new.service = s /\ new.to = to
      BY DEF Request
    <3>2. queue' = [queue EXCEPT ![s] = Append(@, new)]
      BY <2>2 DEF Sends, Asks
    <3>3. s # "exec" => pc'[j] = "plan" /\ to = path'[j][wp'[j]]
      BY <1>0, <2>2, WorkerMoves DEF Sends, Where
    <3> HIDE DEF new
    <3>4. \/ i \in 1 .. Len(queue[t]) /\ queue'[t][i] = queue[t][i]
          \/ queue'[t][i] = new
      BY <3>1, <3>2, AddedPlaces
    <3>5. CASE i \in 1 .. Len(queue[t]) /\ queue'[t][i] = queue[t][i]
      BY <1>2, <3>5 DEF Asked
    <3>6. CASE queue'[t][i] = new
      BY <3>1, <3>3, <3>6 DEF Asked
    <3> QED BY <3>4, <3>5, <3>6
  <2> QED BY <2>1, <2>2, WorkerSends
<1>4. ASSUME node # NoRequest PROVE Asked(node)'
  <2>1. PICK r \in Request : r = node /\ Pending(r, r.service) /\ Asked(r)
    BY <1>0, <1>4 DEF TypeOK, NodeInv, SegmentInv
  <2>2. Asked(r)'
    BY <1>1, <2>1
  <2> QED BY <1>0, <2>1, <2>2 DEF Asked
<1>5. ASSUME NEW i \in Planned' PROVE Slot' = path'[i][wp'[i]]
  <2>1. i \in Jobs
    BY DEF Planned
  <2>2. i \in Planned /\ wp'[i] = wp[i]
    <3>1. CASE i = j
      BY <2>1, <3>1, WorkerMoves, WorkerPlans DEF Planned
    <3>2. CASE i # j
      BY <2>1, <3>2, WorkerMoves DEF Planned, TypeOK
    <3> QED BY <3>1, <3>2
  <2> QED BY <1>0, <2>1, <2>2 DEF SegmentInv
<1>6. ASSUME NEW i \in Jobs, pc'[i] = "run", motion'.by = i
      PROVE  motion'.to = path'[i][wp'[i]]
  <2>1. CASE i = j
    <3>1. pc[j] = "call_exec" /\ motion.by = j
      BY <1>0, <1>6, <2>1, WorkerMoves
    <3>2. node.service = "exec" /\ node.job = j
      BY <3>1 DEF NodeInv, AtRest, Nobody, Jobs
    <3>3. Pending(node, "exec")
      BY <3>2 DEF NodeInv, NoRequest
    <3> QED BY <3>1, <3>2, <3>3 DEF Pending, Drawing
  <2>2. CASE i # j
    <3>1. pc[i] = "run" /\ wp'[i] = wp[i] /\ motion.by = i
      BY <1>0, <1>6, <2>2, WorkerMoves DEF TypeOK
    <3> QED BY <1>0, <3>1 DEF OwnSegment
  <2> QED BY <2>1, <2>2
<1> QED BY <1>0, <1>3, <1>4, <1>5, <1>6 DEF SegmentInv, OwnSegment

\* The node answers a plan: its worker is the only one that could have one.
LEMMA PlanSegment ==
  ASSUME TypeOK, ThreadsInv, QueueInv, NodeInv, SegmentInv, OwnSegment, NEW ok \in BOOLEAN,
         PosePlanned(ok) \/ StraightPlanned(ok)
  PROVE  SegmentInv' /\ OwnSegment'
<1> SUFFICES ASSUME ~stray' PROVE SegmentInv' /\ OwnSegment'
  BY DEF SegmentInv, OwnSegment
<1>0. /\ UNCHANGED <<pc, path, wp, queue, motion, stray>>
      /\ Answers(IF ok THEN "yes" ELSE "no")
      /\ node # NoRequest /\ node.service # "exec"
  BY DEF PosePlanned, StraightPlanned, Plan, PlanCartesian, NoRequest
<1>1. node' = NoRequest
  BY <1>0 DEF Answers
<1> DEFINE k == node.job
<1>2. /\ k \in Jobs /\ pc[k] = "plan" /\ answer[k] = "none"
      /\ node.to = path[k][wp[k]]
  <2>1. Pending(node, node.service) /\ Asked(node) /\ node \in Request
    BY <1>0 DEF NodeInv, SegmentInv, TypeOK
  <2> QED BY <1>0, <2>1 DEF Pending, Asked, Request, Drawing
<1> HIDE DEF k
<1>3. ASSUME NEW i \in Planned' PROVE i = k /\ ok
  <2>1. i \in Jobs /\ pc[i] \in Known /\ pc[k] \in Known
    BY <1>0, <1>2 DEF Planned, Known
  <2>2. i = k
    BY <1>2, <2>1 DEF ThreadsInv
  <2>3. answer'[k] = "yes"
    BY <1>0, <1>2, <2>2 DEF Planned
  <2>4. answer'[k] = IF ok THEN "yes" ELSE "no"
    BY <1>0, <1>2 DEF Answers, TypeOK, k
  <2> QED BY <2>2, <2>3, <2>4
<1>4. ok => Slot' = node.to
  BY DEF PosePlanned, StraightPlanned, Plan, PlanCartesian, NodeInv, Slot
<1>5. \A i \in Planned' : Slot' = path'[i][wp'[i]]
  BY <1>0, <1>2, <1>3, <1>4
<1>6. \A s \in Services : \A i \in 1 .. Len(queue'[s]) : Asked(queue[s][i])'
  BY <1>0 DEF SegmentInv, Asked
<1>7. OwnSegment'
  BY <1>0 DEF OwnSegment
<1> QED BY <1>1, <1>5, <1>6, <1>7 DEF SegmentInv

\* The node takes a request, or a motion ends.
LEMMA MotionSegment ==
  ASSUME TypeOK, QueueInv, NodeInv, SegmentInv, OwnSegment,
         TakesPose \/ TakesStraight \/ TakesExec \/ \E ok \in BOOLEAN : Executed(ok)
  PROVE  SegmentInv' /\ OwnSegment'
<1> SUFFICES ASSUME ~stray' PROVE SegmentInv' /\ OwnSegment'
  BY DEF SegmentInv, OwnSegment
<1>0. UNCHANGED <<pc, path, wp, stray>> /\ Slot' = Slot
  <2>1. UNCHANGED <<pc, path, wp, stray>>
    BY DEF TakesPose, TakesStraight, TakesExec, Executed
  <2>2. UNCHANGED <<xarm_plan_, trajectory_, is_trajectory_>>
    BY DEF TakesPose, TakesStraight, TakesExec, Executed, SetPoseTarget, plannerVars, BeginMotion,
           MotionEnds, slotVars
  <2> QED BY <2>1, <2>2 DEF Slot
<1>1. ASSUME NEW s \in Services, Takes(s), answer' = answer PROVE SegmentInv'
  <2>1. /\ 1 \in 1 .. Len(queue[s]) /\ node' = queue[s][1]
        /\ \A t \in Services : \A i \in 1 .. Len(queue'[t]) :
             \/ t = s /\ i + 1 \in 1 .. Len(queue[s]) /\ queue'[t][i] = queue[s][i + 1]
             \/ t # s /\ i \in 1 .. Len(queue[t]) /\ queue'[t][i] = queue[t][i]
    BY <1>1, TakenPlaces
  <2>2. Asked(node)'
    <3>1. Asked(queue[s][1])
      BY <1>0, <2>1 DEF SegmentInv
    <3> QED BY <1>0, <2>1, <3>1 DEF Asked
  <2>3. ASSUME NEW t \in Services, NEW i \in 1 .. Len(queue'[t]) PROVE Asked(queue[t][i])'
    <3>1. Asked(queue'[t][i])
      BY <1>0, <2>1 DEF SegmentInv
    <3> QED BY <1>0, <3>1 DEF Asked
  <2>4. Planned' = Planned
    BY <1>0, <1>1 DEF Planned
  <2> QED BY <1>0, <2>2, <2>3, <2>4 DEF SegmentInv
<1>2. CASE TakesPose \/ TakesStraight
  <2>1. motion' = motion
    BY <1>2 DEF TakesPose, TakesStraight, SetPoseTarget, plannerVars
  <2>2. SegmentInv'
    BY <1>1, <1>2 DEF TakesPose, TakesStraight, Services
  <2> QED BY <1>0, <2>1, <2>2 DEF OwnSegment
<1>3. CASE TakesExec
  <2>1. SegmentInv'
    BY <1>1, <1>3 DEF TakesExec, Services
  <2>2. motion'.to = Slot
    BY <1>3 DEF TakesExec, BeginMotion, Selected, Slot
  <2>3. ASSUME NEW i \in Jobs, pc[i] = "run" PROVE Slot = path[i][wp[i]]
    BY <1>0, <2>3 DEF SegmentInv, Planned
  <2> QED BY <1>0, <2>1, <2>2, <2>3 DEF OwnSegment
<1>4. ASSUME NEW ok \in BOOLEAN, Executed(ok) PROVE SegmentInv' /\ OwnSegment'
  <2>1. /\ node.service = "exec" /\ node # NoRequest /\ queue' = queue /\ motion' = AtRest
        /\ Answers(IF ok THEN "yes" ELSE "no") /\ node' = NoRequest
    BY <1>4 DEF Executed, MotionEnds, NoRequest, Answers
  <2>2. node.job \in Jobs /\ pc[node.job] # "plan"
    BY <2>1 DEF NodeInv, Pending, Drawing, TypeOK, Request
  <2>3. Planned' \subseteq Planned
    BY <1>0, <2>1, <2>2 DEF Planned, Answers, TypeOK
  <2>4. SegmentInv'
    <3>1. \A s \in Services : \A i \in 1 .. Len(queue'[s]) : Asked(queue[s][i])'
      BY <1>0, <2>1 DEF SegmentInv, Asked
    <3>2. \A i \in Planned' : Slot' = path'[i][wp'[i]]
      BY <1>0, <2>3 DEF SegmentInv
    <3> QED BY <2>1, <3>1, <3>2 DEF SegmentInv
  <2>5. OwnSegment'
    BY <2>1 DEF OwnSegment, AtRest, Nobody, Jobs
  <2> QED BY <2>4, <2>5
<1> QED BY <1>2, <1>3, <1>4

\* The slot and the motion after every step.
LEMMA SegmentStep ==
  TypeOK /\ ThreadsInv /\ QueueInv /\ NodeInv /\ SegmentInv /\ OwnSegment /\ [Next]_vars
    => SegmentInv' /\ OwnSegment'
<1> SUFFICES ASSUME TypeOK, ThreadsInv, QueueInv, NodeInv, SegmentInv, OwnSegment, [Next]_vars
             PROVE  SegmentInv' /\ OwnSegment'
  OBVIOUS
<1>1. CASE OnStop \/ OnIgnored \/ UNCHANGED vars
  <2>1. UNCHANGED <<pc, answer, queue, node, path, wp, stray, motion, xarm_plan_, trajectory_,
                    is_trajectory_>>
    BY <1>1 DEF OnStop, OnIgnored, vars, plannerVars, legacyVars
  <2>2. Slot' = Slot /\ Planned' = Planned
    BY <2>1 DEF Slot, Planned
  <2> QED BY <2>1, <2>2 DEF SegmentInv, OwnSegment, Asked
<1>2. ASSUME NEW shape \in Shapes, OnShape(shape) PROVE SegmentInv' /\ OwnSegment'
  <2>1. UNCHANGED <<queue, node, stray>>
    BY <1>2 DEF OnShape
  <2>2. /\ \A j \in Jobs : pc[j] \notin Known
        /\ pc' = [pc EXCEPT ![nextJob] = "head"] /\ Drawing' = {nextJob}
        /\ nextJob \in Jobs
    BY <1>2, ShapeStarts
  <2>3. \A j \in Jobs : pc'[j] \notin {"plan", "ask", "call_exec", "run"}
    BY <2>2 DEF TypeOK, Known
  <2>4. ASSUME ~stray, NEW r \in Request, Asked(r) PROVE Asked(r)'
    <3>1. r.job \in Jobs
      BY DEF Request
    <3> QED BY <2>2, <2>4, <3>1 DEF Asked, Known
  <2>5. ASSUME ~stray, NEW s \in Services, NEW i \in 1 .. Len(queue[s]) PROVE Asked(queue[s][i])'
    <3>1. PICK r \in Request : r = queue[s][i] /\ Asked(r)
      BY <2>5, PlaceTypes DEF SegmentInv
    <3>2. Asked(r)'
      BY <2>4, <2>5, <3>1
    <3> QED BY <2>1, <3>1, <3>2 DEF Asked
  <2>6. ASSUME ~stray, node # NoRequest PROVE Asked(node)'
    <3>1. PICK r \in Request : r = node /\ Asked(r)
      BY <2>6 DEF SegmentInv, TypeOK
    <3>2. Asked(r)'
      BY <2>4, <2>6, <3>1
    <3> QED BY <2>1, <3>1, <3>2 DEF Asked
  <2>7. Planned' = {}
    BY <2>3 DEF Planned
  <2>8. OwnSegment'
    BY <2>3 DEF OwnSegment
  <2> QED BY <2>1, <2>5, <2>6, <2>7, <2>8 DEF SegmentInv
<1>3. ASSUME NEW j \in Jobs, Worker(j) PROVE SegmentInv' /\ OwnSegment'
  BY <1>3, WorkerSegment
<1>4. CASE Node
  <2>1. ASSUME NEW ok \in BOOLEAN, PosePlanned(ok) \/ StraightPlanned(ok)
        PROVE  SegmentInv' /\ OwnSegment'
    BY <2>1, PlanSegment
  <2>2. CASE TakesPose \/ TakesStraight \/ TakesExec \/ \E ok \in BOOLEAN : Executed(ok)
    BY <2>2, MotionSegment
  <2> QED BY <1>4, <2>1, <2>2 DEF Node
<1> QED BY <1>1, <1>2, <1>3, <1>4 DEF Next
-----------------------------------------------------------------------------
(* The invariant and its consequences. *)

\* Nothing is asked for at first.
LEMMA LInit == Init => LInv
<1> SUFFICES ASSUME Init PROVE LInv
  OBVIOUS
<1>1. TypeOK
  <2>1. nextJob \in 1 .. MaxJobs + 1 /\ commands \in 0 .. MaxCommands
    BY PlannerAssumption, LegacyAssumption DEF Init
  <2>2. PlannerTypeOK
    BY DEF Init, PlannerInit, PlannerTypeOK, AtRest, Motions, Plans, Callers
  <2>3. queue \in [Services -> Seq(Request)]
    <3>1. <<>> \in Seq(Request)
      OBVIOUS
    <3> QED BY <3>1 DEF Init
  <2>4. /\ path \in [Jobs -> {<<>>, CirclePath, SquarePath}]
        /\ \A j \in Jobs : wp[j] <= Len(path[j]) + 1
    <3>1. Len(<<>>) = 0
      OBVIOUS
    <3>2. path \in [Jobs -> {<<>>, CirclePath, SquarePath}]
      BY Zenon DEF Init
    <3>3. ASSUME NEW j \in Jobs PROVE wp[j] <= Len(path[j]) + 1
      <4>1. path[j] = <<>> /\ wp[j] = 1
        BY DEF Init
      <4>2. Len(path[j]) = 0
        BY <3>1, <4>1
      <4> QED BY <4>1, <4>2
    <3> QED BY <3>2, <3>3
  <2>5. pc \in [Jobs -> WorkerPc]
    BY DEF Init, WorkerPc
  <2>6. /\ worker_thread \in Jobs \cup {None}
        /\ wp \in [Jobs -> Nat \ {0}]
        /\ answer \in [Jobs -> {"none", "yes", "no"}]
        /\ outcome \in [Jobs -> {"none", "completed", "cancelled", "failed"}]
        /\ late \in [Jobs -> Nat]
        /\ node \in Request \cup {NoRequest}
    BY DEF Init
  <2>7. /\ stop_requested \in BOOLEAN /\ stray \in BOOLEAN
        /\ success \in [Jobs -> BOOLEAN]
        /\ stopped \in [Jobs -> BOOLEAN] /\ passed \in [Jobs -> BOOLEAN] /\ cleared \in [Jobs -> BOOLEAN]
    BY DEF Init
  <2> QED BY <2>1, <2>2, <2>3, <2>4, <2>5, <2>6, <2>7 DEF TypeOK
<1>2. ThreadsInv /\ StopInv /\ LookedInv /\ StopHeard
  BY DEF Init, ThreadsInv, StopInv, LookedInv, StopHeard, Drawing, Known
<1>3. \A s \in Services : \A i \in 1 .. Len(queue[s]) : FALSE
  <2>1. Len(<<>>) = 0 /\ 1 .. 0 = {}
    OBVIOUS
  <2>2. \A s \in Services : queue[s] = <<>>
    BY DEF Init
  <2> QED BY <2>1, <2>2
<1>4. node = NoRequest /\ NoRequest.service = "none" /\ motion = AtRest
  BY DEF Init, NoRequest, PlannerInit
<1>5. QueueInv /\ OneRequest /\ NodeInv
  BY <1>3, <1>4 DEF QueueInv, OneRequest, NodeInv
<1>6. SegmentInv /\ OwnSegment
  <2>1. Planned = {}
    BY DEF Init, Planned
  <2>2. OwnSegment
    BY DEF Init, OwnSegment
  <2> QED BY <1>3, <1>4, <2>1, <2>2 DEF SegmentInv
<1> QED BY <1>1, <1>2, <1>5, <1>6 DEF LInv

\* The inductive invariant: what the theorems below are read off.
LEMMA LInductive == Spec => []LInv
<1>1. LInv /\ [Next]_vars => LInv'
  BY TypeStep, ThreadsStep, StopStep, QueueStep, SegmentStep DEF LInv
<1> QED
  BY LInit, <1>1, PTL DEF Spec

\* Every variable keeps its type; a worker never counts past its poses by more
\* than one.
THEOREM ListenerTypeCorrect == Spec => []TypeOK
<1>1. LInv => TypeOK
  BY DEF LInv
<1> QED
  BY <1>1, LInductive, PTL

\* The listener never lets two workers draw, however late a worker that was
\* stopped leaves.
THEOREM OneDrawsHolds == Spec => []OneDraws
<1>1. LInv => OneDraws
  BY DEF LInv, ThreadsInv, OneDraws, Drawing, Known
<1> QED
  BY <1>1, LInductive, PTL

\* A stop lets one request of its worker through at most, and that only if it
\* came between the look at the flag and the request, unless an older worker
\* cleared the flag.
THEOREM StopHeardHolds == Spec => []StopHeard
<1>1. LInv => StopHeard
  BY DEF LInv
<1> QED
  BY <1>1, LInductive, PTL

\* Unless a worker gave up on a plan, each one waits for a motion to the pose
\* it is at, whatever requests of stopped workers the planner node still has.
THEOREM OwnSegmentHolds == Spec => []OwnSegment
<1>1. LInv => OwnSegment
  BY DEF LInv
<1> QED
  BY <1>1, LInductive, PTL
=============================================================================
