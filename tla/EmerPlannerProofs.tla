------------------------- MODULE EmerPlannerProofs -------------------------
(***************************************************************************)
(* Proofs about EmerPlanner, for every figure, drawing, queue depth and    *)
(* number of workers.  None of the properties is inductive; IInv adds what *)
(* each thread knows at each of its steps.                                 *)
(***************************************************************************)
EXTENDS EmerPlanner, TLAPS

\* The workers before Last are over, those after it do not exist yet.
ThreadsInv ==
  /\ \A j \in Jobs : pc[j] = "none" <=> j >= nextJob
  /\ \A j \in Jobs : Live(j) => j = Last
  /\ worker_running_ => Last \in Jobs /\ Live(Last)
  /\ ~worker_running_ => \A j \in Jobs : ~Live(j)

\* A thread waits in executePath exactly while the arm moves for it.
WaitingInv ==
  /\ \A j \in Jobs : pc[j] = "wait" <=> motion.by = j
  /\ exec.pc = "wait" <=> motion.by = Executor
  /\ motion = AtRest <=> motion.by = Nobody

InLoop(j) == pc[j] \in {"head", "plan", "check", "exec", "wait", "after"}

\* The stop flag, read by a living worker, speaks of a stop meant for it; in
\* the loop it is up as soon as there was one.
StopInv ==
  \A j \in Jobs :
    /\ Live(j) /\ stop_requested_ => stopped[j]
    /\ InLoop(j) /\ stopped[j] => stop_requested_
    /\ pc[j] \in {"none", "head", "plan", "check", "exec"} => late[j] = 0
    /\ late[j] = 0 \/ (late[j] = 1 /\ stopped[j])
    /\ cut[j] = "stop" \/ outcome[j] = "cancelled" => stopped[j]

\* The plan slot, from setPoseTarget to the end of the motion, belongs to the
\* waypoint of a worker that no target pose disturbed.
PlanInv ==
  /\ ~is_trajectory_
  /\ \A j \in Jobs : Live(j) /\ ~mixed[j] =>
       /\ exec.pc \notin {"plan", "exec", "wait"}
       /\ pc[j] = "plan" => target = job[j].path[wp[j]]
       /\ pc[j] \in {"check", "exec"} => xarm_plan_ = job[j].path[wp[j]]
       /\ pc[j] = "wait" => motion.to = job[j].path[wp[j]]

\* Where each worker stands with its waypoints and its final status.
StatusInv ==
  \A j \in Jobs :
    /\ pc[j] = "none" => outcome[j] = "none" /\ cut[j] = "no" /\ ~stopped[j]
    /\ pc[j] \in {"plan", "check", "exec", "wait", "after"} => wp[j] <= Len(job[j].path)
    /\ pc[j] = "report2" => job[j].kind = "path"
    /\ pc[j] \in {"release", "done"} =>
         \/ outcome[j] # "none"
         \/ job[j].kind = "path" /\ cut[j] = "throw" /\ stopped[j]

IInv == TypeOK /\ ThreadsInv /\ WaitingInv /\ StopInv /\ PlanInv /\ StatusInv
-----------------------------------------------------------------------------
\* Queues only lose their oldest message and gain messages of their topic.
LEMMA InboxStep == TypeOK /\ [Next]_vars => InboxOK'
<1> SUFFICES ASSUME TypeOK, [Next]_vars PROVE InboxOK'
  OBVIOUS
<1> USE DEF TypeOK, InboxOK
<1>1. ASSUME NEW t \in Topics, NEW m \in Messages(t), Publish(t, m)
     PROVE  InboxOK'
  <2>1. /\ Append(inbox[t], m) \in Seq(Messages(t))
        /\ inbox[t] # <<>> => Append(Tail(inbox[t]), m) \in Seq(Messages(t))
    OBVIOUS
  <2>2. Len(inbox[t]) < QueueDepth \/ inbox[t] # <<>>
    BY ListenerAssumption
  <2> QED
    BY <1>1, <2>1, <2>2 DEF Publish
<1>2. ASSUME NEW t \in Topics, inbox[t] # <<>>,
             inbox' = [inbox EXCEPT ![t] = Tail(@)]
     PROVE  InboxOK'
  <2>1. Tail(inbox[t]) \in Seq(Messages(t))
    BY <1>2
  <2> QED
    BY <1>2, <2>1
<1>3. ASSUME UNCHANGED inbox
     PROVE  InboxOK'
  BY <1>3
<1>4. ASSUME Callback PROVE InboxOK'
  BY <1>4, <1>2, <1>3
     DEF Callback, Ignore, Start, OnStop, OnPose, Take, StopRobot, StopReturns,
         PosePlanned, PoseMoves, Topics
<1>5. ASSUME NEW j \in Jobs, Worker(j) PROVE InboxOK'
  BY <1>5, <1>3
     DEF Worker, NextWaypoint, WaypointPlanned, CheckStop, WaypointMoves, ResetStop,
         Throws, ReportShape, ReportPath, ReportPathEnd, Release
<1>6. ASSUME MoveGroup PROVE InboxOK'
  BY <1>6, <1>3 DEF MoveGroup, SegmentEnds, SegmentStopped, CallerReturns
<1>7. CASE UNCHANGED vars
  BY <1>7, <1>3 DEF vars, listenerVars
<1> QED
  BY <1>1, <1>4, <1>5, <1>6, <1>7 DEF Next

\* Every step keeps every variable in its type.
LEMMA TypeStep == TypeOK /\ [Next]_vars => TypeOK'
<1> SUFFICES ASSUME TypeOK, [Next]_vars PROVE TypeOK'
  OBVIOUS
<1>1. ASSUME NEW t \in Topics, NEW m \in Messages(t), Publish(t, m)
     PROVE  TypeOK'
  BY <1>1, InboxStep DEF plannerVars, Publish, TypeOK, PlannerTypeOK
<1>2. ASSUME NEW t \in Topics, inbox[t] # <<>>, Ignore(t, Head(inbox[t]))
     PROVE  TypeOK'
  BY <1>2, InboxStep DEF plannerVars, Ignore, Take, TypeOK, PlannerTypeOK
<1>3. ASSUME NEW t \in Topics, inbox[t] # <<>>, Start(t, Head(inbox[t]))
     PROVE  TypeOK'
  <2>1. Head(inbox[t]) \in Messages(t)
    BY <1>3 DEF TypeOK, InboxOK
  <2>2. JobOf(t, Head(inbox[t])) \in JobRec
    BY <1>3, <2>1, ListenerAssumption
       DEF Start, JobOf, Closed, Messages, Topics, Figures, JobRec
  <2>3. nextJob \in Jobs /\ nextJob + 1 \in 1 .. MaxJobs + 1
    BY <1>3, PlannerAssumption DEF Start, TypeOK, Jobs
  <2> QED
    BY <1>3, <2>2, <2>3, InboxStep DEF plannerVars, Start, TypeOK, PlannerTypeOK, WorkerPc
<1>4. ASSUME OnStop
     PROVE  TypeOK'
  BY <1>4, InboxStep
     DEF plannerVars, OnStop, Take, ExecGoes, TypeOK, PlannerTypeOK, ExecRec, ExecPc
<1>5. ASSUME StopRobot
     PROVE  TypeOK'
  BY <1>5, InboxStep
     DEF plannerVars, StopRobot, PostStop, slotVars, ExecGoes, TypeOK, PlannerTypeOK,
         ExecRec, ExecPc
<1>6. ASSUME StopReturns
     PROVE  TypeOK'
  BY <1>6, InboxStep
     DEF plannerVars, StopReturns, ExecGoes, TypeOK, PlannerTypeOK, ExecRec, ExecPc
<1>7. ASSUME NEW p \in Poses, OnPose(p)
     PROVE  TypeOK'
  BY <1>7, InboxStep
     DEF plannerVars, OnPose, Take, SetPoseTarget, TypeOK, PlannerTypeOK, ExecRec,
         ExecPc
<1>8. ASSUME NEW ok \in BOOLEAN, PosePlanned(ok)
     PROVE  TypeOK'
  BY <1>8, InboxStep
     DEF plannerVars, PosePlanned, Plan, ExecGoes, TypeOK, PlannerTypeOK, Plans,
         ExecRec, ExecPc
<1>9. ASSUME PoseMoves
     PROVE  TypeOK'
  BY <1>9, InboxStep
     DEF plannerVars, PoseMoves, BeginMotion, MotionRefused, Selected, slotVars,
         ExecGoes, TypeOK, PlannerTypeOK, Executor, Motions, AtRest, Plans, Callers,
         Nobody, ExecRec, ExecPc
<1>10. ASSUME NEW j \in Jobs, NextWaypoint(j)
     PROVE  TypeOK'
  <2>1. wp[j] <= Len(job[j].path) => job[j].path[wp[j]] \in Poses
    BY DEF TypeOK, JobRec
  <2> QED
    BY <1>10, <2>1, InboxStep
       DEF plannerVars, NextWaypoint, Leaves, Goes, SetPoseTarget, TypeOK,
           PlannerTypeOK, WorkerPc
<1>11. ASSUME NEW j \in Jobs, NEW ok \in BOOLEAN, WaypointPlanned(j, ok)
     PROVE  TypeOK'
  BY <1>11, InboxStep
     DEF plannerVars, WaypointPlanned, Plan, Leaves, Goes, TypeOK, PlannerTypeOK,
         WorkerPc, Plans
<1>12. ASSUME NEW j \in Jobs, CheckStop(j)
     PROVE  TypeOK'
  BY <1>12, InboxStep
     DEF plannerVars, CheckStop, Leaves, Goes, TypeOK, PlannerTypeOK, WorkerPc
<1>13. ASSUME NEW j \in Jobs, WaypointMoves(j)
     PROVE  TypeOK'
  BY <1>13, InboxStep
     DEF plannerVars, WaypointMoves, BeginMotion, MotionRefused, Selected, slotVars,
         Goes, TypeOK, PlannerTypeOK, WorkerPc, Motions, AtRest, Plans, Callers, Nobody
<1>14. ASSUME NEW j \in Jobs, ResetStop(j)
     PROVE  TypeOK'
  BY <1>14, InboxStep DEF plannerVars, ResetStop, Goes, TypeOK, PlannerTypeOK, WorkerPc
<1>15. ASSUME NEW j \in Jobs, Throws(j)
     PROVE  TypeOK'
  BY <1>15, InboxStep DEF plannerVars, Throws, Goes, TypeOK, PlannerTypeOK, WorkerPc
<1>16. ASSUME NEW j \in Jobs, ReportShape(j)
     PROVE  TypeOK'
  BY <1>16, InboxStep
     DEF plannerVars, ReportShape, Says, Goes, TypeOK, PlannerTypeOK, WorkerPc
<1>17. ASSUME NEW j \in Jobs, ReportPath(j)
     PROVE  TypeOK'
  BY <1>17, InboxStep
     DEF plannerVars, ReportPath, Says, Goes, TypeOK, PlannerTypeOK, WorkerPc
<1>18. ASSUME NEW j \in Jobs, ReportPathEnd(j)
     PROVE  TypeOK'
  BY <1>18, InboxStep
     DEF plannerVars, ReportPathEnd, Says, Goes, TypeOK, PlannerTypeOK, WorkerPc
<1>19. ASSUME NEW j \in Jobs, Release(j)
     PROVE  TypeOK'
  BY <1>19, InboxStep DEF plannerVars, Release, Goes, TypeOK, PlannerTypeOK, WorkerPc
<1>20. ASSUME SegmentEnds
     PROVE  TypeOK'
  BY <1>20, InboxStep
     DEF plannerVars, SegmentEnds, MotionEnds, CallerReturns, slotVars, TypeOK,
         PlannerTypeOK, WorkerPc, ExecRec, ExecPc, Motions, AtRest, Plans, Callers, Nobody
<1>21. ASSUME SegmentStopped
     PROVE  TypeOK'
  BY <1>21, InboxStep
     DEF plannerVars, SegmentStopped, StopArrives, CallerReturns, slotVars, TypeOK,
         PlannerTypeOK, WorkerPc, ExecRec, ExecPc, Motions, AtRest, Plans, Callers, Nobody
<1>22. CASE UNCHANGED vars
  BY <1>22, InboxStep DEF vars, plannerVars, listenerVars, TypeOK, PlannerTypeOK
<1>23. QED
  BY <1>1, <1>2, <1>3, <1>4, <1>5, <1>6, <1>7, <1>8, <1>9, <1>10, <1>11, <1>12, <1>13,
     <1>14, <1>15, <1>16, <1>17, <1>18, <1>19, <1>20, <1>21, <1>22
     DEF Next, Callback, Worker, MoveGroup

\* Every step keeps the workers in order: only the last one lives.
LEMMA ThreadsStep == TypeOK /\ ThreadsInv /\ WaitingInv /\ [Next]_vars => ThreadsInv'
<1> SUFFICES ASSUME TypeOK /\ ThreadsInv /\ WaitingInv, [Next]_vars PROVE ThreadsInv'
  OBVIOUS
<1>1. ASSUME NEW t \in Topics, NEW m \in Messages(t), Publish(t, m)
     PROVE  ThreadsInv'
  BY <1>1 DEF plannerVars, Publish, TypeOK, ThreadsInv, Live, Last, Jobs
<1>2. ASSUME NEW t \in Topics, inbox[t] # <<>>, Ignore(t, Head(inbox[t]))
     PROVE  ThreadsInv'
  BY <1>2 DEF plannerVars, Ignore, Take, TypeOK, ThreadsInv, Live, Last, Jobs
<1>3. ASSUME NEW t \in Topics, inbox[t] # <<>>, Start(t, Head(inbox[t]))
     PROVE  ThreadsInv'
  <2>1. /\ pc' = [pc EXCEPT ![nextJob] = "head"] /\ nextJob' = nextJob + 1
        /\ nextJob \in Jobs /\ worker_running_' = TRUE
    BY <1>3 DEF Start, TypeOK, Jobs
  <2>2. ~worker_running_
    BY <1>3 DEF Start, Ignored, Topics, Take, Figures
  <2>3. \A j \in Jobs : ~Live(j)
    BY <2>2 DEF ThreadsInv
  <2>4. \A j \in Jobs : pc'[j] = IF j = nextJob THEN "head" ELSE pc[j]
    BY <2>1 DEF TypeOK
  <2> QED
    BY <2>1, <2>3, <2>4 DEF ThreadsInv, Live, Last, TypeOK, Jobs
<1>4. ASSUME OnStop
     PROVE  ThreadsInv'
  BY <1>4 DEF plannerVars, OnStop, Take, ExecGoes, TypeOK, ThreadsInv, Live, Last, Jobs
<1>5. ASSUME StopRobot
     PROVE  ThreadsInv'
  BY <1>5
     DEF plannerVars, StopRobot, PostStop, slotVars, ExecGoes, TypeOK, ThreadsInv,
         Live, Last, Jobs
<1>6. ASSUME StopReturns
     PROVE  ThreadsInv'
  BY <1>6 DEF plannerVars, StopReturns, ExecGoes, TypeOK, ThreadsInv, Live, Last, Jobs
<1>7. ASSUME NEW p \in Poses, OnPose(p)
     PROVE  ThreadsInv'
  BY <1>7
     DEF plannerVars, OnPose, Take, SetPoseTarget, TypeOK, ThreadsInv, Live, Last, Jobs
<1>8. ASSUME NEW ok \in BOOLEAN, PosePlanned(ok)
     PROVE  ThreadsInv'
  BY <1>8
     DEF plannerVars, PosePlanned, Plan, ExecGoes, TypeOK, ThreadsInv, Live, Last, Jobs
<1>9. ASSUME PoseMoves
     PROVE  ThreadsInv'
  BY <1>9
     DEF plannerVars, PoseMoves, BeginMotion, MotionRefused, Selected, slotVars,
         ExecGoes, TypeOK, ThreadsInv, Live, Last, Jobs
<1>10. ASSUME NEW j \in Jobs, NextWaypoint(j)
     PROVE  ThreadsInv'
  BY <1>10
     DEF plannerVars, NextWaypoint, Leaves, Goes, SetPoseTarget, TypeOK, ThreadsInv,
         Live, Last, Jobs
<1>11. ASSUME NEW j \in Jobs, NEW ok \in BOOLEAN, WaypointPlanned(j, ok)
     PROVE  ThreadsInv'
  <2>1. /\ pc[j] = "plan" /\ pc' = [pc EXCEPT ![j] = IF ok THEN "check" ELSE "reset"]
        /\ UNCHANGED <<nextJob, worker_running_>>
    BY <1>11 DEF WaypointPlanned, Leaves, Goes
  <2> QED
    BY <2>1 DEF ThreadsInv, Live, Last, TypeOK
<1>12. ASSUME NEW j \in Jobs, CheckStop(j)
     PROVE  ThreadsInv'
  BY <1>12 DEF plannerVars, CheckStop, Leaves, Goes, TypeOK, ThreadsInv, Live, Last, Jobs
<1>13. ASSUME NEW j \in Jobs, WaypointMoves(j)
     PROVE  ThreadsInv'
  BY <1>13
     DEF plannerVars, WaypointMoves, BeginMotion, MotionRefused, Selected, slotVars,
         Goes, TypeOK, ThreadsInv, Live, Last, Jobs
<1>14. ASSUME NEW j \in Jobs, ResetStop(j)
     PROVE  ThreadsInv'
  BY <1>14 DEF plannerVars, ResetStop, Goes, TypeOK, ThreadsInv, Live, Last, Jobs
<1>15. ASSUME NEW j \in Jobs, Throws(j)
     PROVE  ThreadsInv'
  BY <1>15 DEF plannerVars, Throws, Goes, TypeOK, ThreadsInv, Live, Last, Jobs
<1>16. ASSUME NEW j \in Jobs, ReportShape(j)
     PROVE  ThreadsInv'
  BY <1>16 DEF plannerVars, ReportShape, Says, Goes, TypeOK, ThreadsInv, Live, Last, Jobs
<1>17. ASSUME NEW j \in Jobs, ReportPath(j)
     PROVE  ThreadsInv'
  BY <1>17 DEF plannerVars, ReportPath, Says, Goes, TypeOK, ThreadsInv, Live, Last, Jobs
<1>18. ASSUME NEW j \in Jobs, ReportPathEnd(j)
     PROVE  ThreadsInv'
  BY <1>18
     DEF plannerVars, ReportPathEnd, Says, Goes, TypeOK, ThreadsInv, Live, Last, Jobs
<1>19. ASSUME NEW j \in Jobs, Release(j)
     PROVE  ThreadsInv'
  BY <1>19 DEF plannerVars, Release, Goes, TypeOK, ThreadsInv, Live, Last, Jobs
<1>20. ASSUME SegmentEnds
     PROVE  ThreadsInv'
  BY <1>20
     DEF plannerVars, SegmentEnds, MotionEnds, CallerReturns, slotVars, TypeOK,
         ThreadsInv, Live, Last, Jobs, WaitingInv, AtRest, Nobody
<1>21. ASSUME SegmentStopped
     PROVE  ThreadsInv'
  BY <1>21
     DEF plannerVars, SegmentStopped, StopArrives, CallerReturns, slotVars, TypeOK,
         ThreadsInv, Live, Last, Jobs, WaitingInv, AtRest, Nobody
<1>22. CASE UNCHANGED vars
  BY <1>22 DEF vars, plannerVars, listenerVars, TypeOK, ThreadsInv, Live, Last, Jobs
<1>23. QED
  BY <1>1, <1>2, <1>3, <1>4, <1>5, <1>6, <1>7, <1>8, <1>9, <1>10, <1>11, <1>12, <1>13,
     <1>14, <1>15, <1>16, <1>17, <1>18, <1>19, <1>20, <1>21, <1>22
     DEF Next, Callback, Worker, MoveGroup

\* Every step keeps the waiting threads and the motion together.
LEMMA WaitingStep == TypeOK /\ ThreadsInv /\ WaitingInv /\ [Next]_vars => WaitingInv'
<1> SUFFICES ASSUME TypeOK /\ ThreadsInv /\ WaitingInv, [Next]_vars PROVE WaitingInv'
  OBVIOUS
<1>1. ASSUME NEW t \in Topics, NEW m \in Messages(t), Publish(t, m)
     PROVE  WaitingInv'
  BY <1>1
     DEF plannerVars, Publish, TypeOK, WaitingInv, ExecRec, Motions, AtRest, Nobody,
         Executor, Plans, Callers, Jobs, PlannerTypeOK
<1>2. ASSUME NEW t \in Topics, inbox[t] # <<>>, Ignore(t, Head(inbox[t]))
     PROVE  WaitingInv'
  BY <1>2
     DEF plannerVars, Ignore, Take, TypeOK, WaitingInv, ExecRec, Motions, AtRest,
         Nobody, Executor, Plans, Callers, Jobs, PlannerTypeOK
<1>3. ASSUME NEW t \in Topics, inbox[t] # <<>>, Start(t, Head(inbox[t]))
     PROVE  WaitingInv'
  BY <1>3
     DEF plannerVars, Start, Take, TypeOK, WaitingInv, ExecRec, Motions, AtRest,
         Nobody, Executor, Plans, Callers, Jobs, PlannerTypeOK, ThreadsInv
<1>4. ASSUME OnStop
     PROVE  WaitingInv'
  BY <1>4
     DEF plannerVars, OnStop, Take, ExecGoes, TypeOK, WaitingInv, ExecRec, Motions,
         AtRest, Nobody, Executor, Plans, Callers, Jobs, PlannerTypeOK
<1>5. ASSUME StopRobot
     PROVE  WaitingInv'
  BY <1>5
     DEF plannerVars, StopRobot, PostStop, slotVars, ExecGoes, TypeOK, WaitingInv,
         ExecRec, Motions, AtRest, Nobody, Executor, Plans, Callers, Jobs, PlannerTypeOK
<1>6. ASSUME StopReturns
     PROVE  WaitingInv'
  BY <1>6
     DEF plannerVars, StopReturns, ExecGoes, TypeOK, WaitingInv, ExecRec, Motions,
         AtRest, Nobody, Executor, Plans, Callers, Jobs, PlannerTypeOK
<1>7. ASSUME NEW p \in Poses, OnPose(p)
     PROVE  WaitingInv'
  BY <1>7
     DEF plannerVars, OnPose, Take, SetPoseTarget, TypeOK, WaitingInv, ExecRec,
         Motions, AtRest, Nobody, Executor, Plans, Callers, Jobs, PlannerTypeOK
<1>8. ASSUME NEW ok \in BOOLEAN, PosePlanned(ok)
     PROVE  WaitingInv'
  BY <1>8
     DEF plannerVars, PosePlanned, Plan, ExecGoes, TypeOK, WaitingInv, ExecRec,
         Motions, AtRest, Nobody, Executor, Plans, Callers, Jobs, PlannerTypeOK
<1>9. ASSUME PoseMoves
     PROVE  WaitingInv'
  BY <1>9
     DEF plannerVars, PoseMoves, BeginMotion, MotionRefused, Selected, slotVars,
         ExecGoes, TypeOK, WaitingInv, ExecRec, Motions, AtRest, Nobody, Executor, Plans,
         Callers, Jobs, PlannerTypeOK
<1>10. ASSUME NEW j \in Jobs, NextWaypoint(j)
     PROVE  WaitingInv'
  <2>1. /\ pc[j] = "head" /\ UNCHANGED <<motion, exec>>
        /\ \/ pc' = [pc EXCEPT ![j] = "reset"]
           \/ pc' = [pc EXCEPT ![j] = "plan"]
    BY <1>10 DEF NextWaypoint, Leaves, Goes, SetPoseTarget, plannerVars
  <2> QED
    BY <2>1 DEF WaitingInv, TypeOK
<1>11. ASSUME NEW j \in Jobs, NEW ok \in BOOLEAN, WaypointPlanned(j, ok)
     PROVE  WaitingInv'
  BY <1>11, PlannerAssumption
     DEF plannerVars, WaypointPlanned, Plan, Leaves, Goes, TypeOK, WaitingInv, ExecRec,
         Motions, AtRest, Nobody, Executor, Plans, Callers, Jobs, PlannerTypeOK
<1>12. ASSUME NEW j \in Jobs, CheckStop(j)
     PROVE  WaitingInv'
  BY <1>12, PlannerAssumption
     DEF plannerVars, CheckStop, Leaves, Goes, TypeOK, WaitingInv, ExecRec, Motions,
         AtRest, Nobody, Executor, Plans, Callers, Jobs, PlannerTypeOK
<1>13. ASSUME NEW j \in Jobs, WaypointMoves(j)
     PROVE  WaitingInv'
  <2>1. CASE MotionRefused /\ Goes(j, "exec", "after")
    BY <1>13, <2>1 DEF WaypointMoves, MotionRefused, plannerVars, Goes, WaitingInv, TypeOK
  <2>2. CASE BeginMotion(j, exec.pc = "plan") /\ Goes(j, "exec", "wait")
    <3>1. motion = AtRest /\ motion'.by = j
      BY <2>2 DEF BeginMotion
    <3>2. pc[j] = "exec" /\ pc' = [pc EXCEPT ![j] = "wait"] /\ UNCHANGED exec
      BY <1>13, <2>2 DEF WaypointMoves, Goes
    <3>3. \A i \in Jobs : pc[i] # "wait"
      BY <3>1 DEF WaitingInv, AtRest, Nobody, Jobs
    <3>4. exec.pc # "wait" /\ j # Executor /\ j # Nobody
      BY <3>1 DEF WaitingInv, AtRest, Nobody, Executor, Jobs
    <3> QED
      BY <3>1, <3>2, <3>3, <3>4 DEF WaitingInv, TypeOK, AtRest
  <2> QED
    BY <1>13, <2>1, <2>2 DEF WaypointMoves
<1>14. ASSUME NEW j \in Jobs, ResetStop(j)
     PROVE  WaitingInv'
  BY <1>14
     DEF plannerVars, ResetStop, Goes, TypeOK, WaitingInv, ExecRec, Motions, AtRest,
         Nobody, Executor, Plans, Callers, Jobs, PlannerTypeOK
<1>15. ASSUME NEW j \in Jobs, Throws(j)
     PROVE  WaitingInv'
  BY <1>15
     DEF plannerVars, Throws, Goes, TypeOK, WaitingInv, ExecRec, Motions, AtRest,
         Nobody, Executor, Plans, Callers, Jobs, PlannerTypeOK
<1>16. ASSUME NEW j \in Jobs, ReportShape(j)
     PROVE  WaitingInv'
  BY <1>16
     DEF plannerVars, ReportShape, Says, Goes, TypeOK, WaitingInv, ExecRec, Motions,
         AtRest, Nobody, Executor, Plans, Callers, Jobs, PlannerTypeOK
<1>17. ASSUME NEW j \in Jobs, ReportPath(j)
     PROVE  WaitingInv'
  BY <1>17
     DEF plannerVars, ReportPath, Says, Goes, TypeOK, WaitingInv, ExecRec, Motions,
         AtRest, Nobody, Executor, Plans, Callers, Jobs, PlannerTypeOK
<1>18. ASSUME NEW j \in Jobs, ReportPathEnd(j)
     PROVE  WaitingInv'
  BY <1>18
     DEF plannerVars, ReportPathEnd, Says, Goes, TypeOK, WaitingInv, ExecRec, Motions,
         AtRest, Nobody, Executor, Plans, Callers, Jobs, PlannerTypeOK
<1>19. ASSUME NEW j \in Jobs, Release(j)
     PROVE  WaitingInv'
  BY <1>19
     DEF plannerVars, Release, Goes, TypeOK, WaitingInv, ExecRec, Motions, AtRest,
         Nobody, Executor, Plans, Callers, Jobs, PlannerTypeOK
<1>20. ASSUME SegmentEnds
     PROVE  WaitingInv'
  BY <1>20
     DEF plannerVars, SegmentEnds, MotionEnds, CallerReturns, slotVars, TypeOK,
         WaitingInv, ExecRec, Motions, AtRest, Nobody, Executor, Plans, Callers, Jobs,
         PlannerTypeOK
<1>21. ASSUME SegmentStopped
     PROVE  WaitingInv'
  BY <1>21
     DEF plannerVars, SegmentStopped, StopArrives, CallerReturns, slotVars, TypeOK,
         WaitingInv, ExecRec, Motions, AtRest, Nobody, Executor, Plans, Callers, Jobs,
         PlannerTypeOK
<1>22. CASE UNCHANGED vars
  BY <1>22
     DEF vars, plannerVars, listenerVars, TypeOK, WaitingInv, ExecRec, Motions, AtRest,
         Nobody, Executor, Plans, Callers, Jobs, PlannerTypeOK
<1>23. QED
  BY <1>1, <1>2, <1>3, <1>4, <1>5, <1>6, <1>7, <1>8, <1>9, <1>10, <1>11, <1>12, <1>13,
     <1>14, <1>15, <1>16, <1>17, <1>18, <1>19, <1>20, <1>21, <1>22
     DEF Next, Callback, Worker, MoveGroup

\* Every step keeps what the stop flag means to a worker.
LEMMA StopStep ==
  TypeOK /\ ThreadsInv /\ WaitingInv /\ StopInv /\ StatusInv /\ [Next]_vars => StopInv'
<1> SUFFICES ASSUME TypeOK /\ ThreadsInv /\ WaitingInv /\ StopInv /\ StatusInv, [Next]_vars
             PROVE  StopInv'
  OBVIOUS
<1>1. ASSUME NEW t \in Topics, NEW m \in Messages(t), Publish(t, m)
     PROVE  StopInv'
  BY <1>1 DEF plannerVars, Publish, TypeOK, StopInv, InLoop, Live, Jobs
<1>2. ASSUME NEW t \in Topics, inbox[t] # <<>>, Ignore(t, Head(inbox[t]))
     PROVE  StopInv'
  BY <1>2 DEF plannerVars, Ignore, Take, TypeOK, StopInv, InLoop, Live, Jobs
<1>3. ASSUME NEW t \in Topics, inbox[t] # <<>>, Start(t, Head(inbox[t]))
     PROVE  StopInv'
  <2>1. /\ pc' = [pc EXCEPT ![nextJob] = "head"] /\ nextJob \in Jobs
        /\ stop_requested_' = FALSE /\ UNCHANGED <<stopped, late, cut, outcome>>
    BY <1>3 DEF Start, TypeOK, Jobs
  <2>2. \A j \in Jobs : ~Live(j)
    BY <1>3 DEF Start, Ignored, Topics, Take, Figures, ThreadsInv
  <2>3. pc[nextJob] = "none" /\ ~stopped[nextJob]
    BY <2>1, <1>3 DEF ThreadsInv, StatusInv, TypeOK, Jobs
  <2>4. \A j \in Jobs : pc'[j] = IF j = nextJob THEN "head" ELSE pc[j]
    BY <2>1 DEF TypeOK
  <2> QED
    BY <2>1, <2>2, <2>3, <2>4 DEF StopInv, InLoop, Live
<1>4. ASSUME OnStop
     PROVE  StopInv'
  BY <1>4 DEF plannerVars, OnStop, Take, ExecGoes, TypeOK, StopInv, InLoop, Live, Jobs
<1>5. ASSUME StopRobot
     PROVE  StopInv'
  BY <1>5
     DEF plannerVars, StopRobot, PostStop, slotVars, ExecGoes, TypeOK, StopInv, InLoop,
         Live, Jobs
<1>6. ASSUME StopReturns
     PROVE  StopInv'
  BY <1>6 DEF plannerVars, StopReturns, ExecGoes, TypeOK, StopInv, InLoop, Live, Jobs
<1>7. ASSUME NEW p \in Poses, OnPose(p)
     PROVE  StopInv'
  BY <1>7
     DEF plannerVars, OnPose, Take, SetPoseTarget, TypeOK, StopInv, InLoop, Live, Jobs
<1>8. ASSUME NEW ok \in BOOLEAN, PosePlanned(ok)
     PROVE  StopInv'
  BY <1>8
     DEF plannerVars, PosePlanned, Plan, ExecGoes, TypeOK, StopInv, InLoop, Live, Jobs
<1>9. ASSUME PoseMoves
     PROVE  StopInv'
  BY <1>9
     DEF plannerVars, PoseMoves, BeginMotion, MotionRefused, Selected, slotVars,
         ExecGoes, TypeOK, StopInv, InLoop, Live, Jobs
<1>10. ASSUME NEW j \in Jobs, NextWaypoint(j)
     PROVE  StopInv'
  BY <1>10
     DEF plannerVars, NextWaypoint, Leaves, Goes, SetPoseTarget, TypeOK, StopInv,
         InLoop, Live, Jobs
<1>11. ASSUME NEW j \in Jobs, NEW ok \in BOOLEAN, WaypointPlanned(j, ok)
     PROVE  StopInv'
  BY <1>11
     DEF plannerVars, WaypointPlanned, Plan, Leaves, Goes, TypeOK, StopInv, InLoop,
         Live, Jobs
<1>12. ASSUME NEW j \in Jobs, CheckStop(j)
     PROVE  StopInv'
  <2>1. UNCHANGED <<stop_requested_, stopped, late, outcome>>
    BY <1>12 DEF CheckStop
  <2>2. CASE /\ stop_requested_ /\ pc[j] \in {"check", "after"}
             /\ pc' = [pc EXCEPT ![j] = "reset"] /\ cut' = [cut EXCEPT ![j] = "stop"]
    BY <2>1, <2>2 DEF StopInv, InLoop, Live, TypeOK
  <2>3. CASE /\ ~stop_requested_ /\ pc[j] = "check" /\ UNCHANGED cut
             /\ pc' = [pc EXCEPT ![j] = "exec"]
    BY <2>1, <2>3 DEF StopInv, InLoop, Live, TypeOK
  <2>4. CASE /\ ~stop_requested_ /\ pc[j] = "after" /\ UNCHANGED cut
             /\ pc' = [pc EXCEPT ![j] = "head"]
    <3>1. ~stopped[j]
      BY <2>4 DEF StopInv, InLoop
    <3>2. late[j] = 0
      BY <3>1 DEF StopInv
    <3> QED
      BY <2>1, <2>4, <3>1, <3>2 DEF StopInv, InLoop, Live, TypeOK
  <2> QED
    BY <1>12, <2>2, <2>3, <2>4 DEF CheckStop, Leaves, Goes
<1>13. ASSUME NEW j \in Jobs, WaypointMoves(j)
     PROVE  StopInv'
  BY <1>13, PlannerAssumption
     DEF plannerVars, WaypointMoves, BeginMotion, MotionRefused, Selected, slotVars,
         Goes, TypeOK, StopInv, InLoop, Live, Jobs
<1>14. ASSUME NEW j \in Jobs, ResetStop(j)
     PROVE  StopInv'
  BY <1>14
     DEF plannerVars, ResetStop, Goes, TypeOK, StopInv, InLoop, Live, Jobs, ThreadsInv
<1>15. ASSUME NEW j \in Jobs, Throws(j)
     PROVE  StopInv'
  BY <1>15 DEF plannerVars, Throws, Goes, TypeOK, StopInv, InLoop, Live, Jobs
<1>16. ASSUME NEW j \in Jobs, ReportShape(j)
     PROVE  StopInv'
  BY <1>16 DEF plannerVars, ReportShape, Says, Goes, TypeOK, StopInv, InLoop, Live, Jobs
<1>17. ASSUME NEW j \in Jobs, ReportPath(j)
     PROVE  StopInv'
  BY <1>17 DEF plannerVars, ReportPath, Says, Goes, TypeOK, StopInv, InLoop, Live, Jobs
<1>18. ASSUME NEW j \in Jobs, ReportPathEnd(j)
     PROVE  StopInv'
  BY <1>18 DEF plannerVars, ReportPathEnd, Says, Goes, TypeOK, StopInv, InLoop, Live, Jobs
<1>19. ASSUME NEW j \in Jobs, Release(j)
     PROVE  StopInv'
  BY <1>19 DEF plannerVars, Release, Goes, TypeOK, StopInv, InLoop, Live, Jobs, ThreadsInv
<1>20. ASSUME SegmentEnds
     PROVE  StopInv'
  BY <1>20
     DEF plannerVars, SegmentEnds, MotionEnds, CallerReturns, slotVars, TypeOK,
         StopInv, InLoop, Live, Jobs, WaitingInv, AtRest, Nobody
<1>21. ASSUME SegmentStopped
     PROVE  StopInv'
  BY <1>21
     DEF plannerVars, SegmentStopped, StopArrives, CallerReturns, slotVars, TypeOK,
         StopInv, InLoop, Live, Jobs, WaitingInv, AtRest, Nobody
<1>22. CASE UNCHANGED vars
  BY <1>22 DEF vars, plannerVars, listenerVars, TypeOK, StopInv, InLoop, Live, Jobs
<1>23. QED
  BY <1>1, <1>2, <1>3, <1>4, <1>5, <1>6, <1>7, <1>8, <1>9, <1>10, <1>11, <1>12, <1>13,
     <1>14, <1>15, <1>16, <1>17, <1>18, <1>19, <1>20, <1>21, <1>22
     DEF Next, Callback, Worker, MoveGroup

\* Every step keeps the plan slot of an undisturbed worker.
LEMMA PlanStep ==
  TypeOK /\ ThreadsInv /\ WaitingInv /\ PlanInv /\ StatusInv /\ [Next]_vars => PlanInv'
<1> SUFFICES ASSUME TypeOK /\ ThreadsInv /\ WaitingInv /\ PlanInv /\ StatusInv, [Next]_vars
             PROVE  PlanInv'
  OBVIOUS
<1>1. ASSUME NEW t \in Topics, NEW m \in Messages(t), Publish(t, m)
     PROVE  PlanInv'
  BY <1>1 DEF plannerVars, Publish, TypeOK, PlanInv, Live
<1>2. ASSUME NEW t \in Topics, inbox[t] # <<>>, Ignore(t, Head(inbox[t]))
     PROVE  PlanInv'
  BY <1>2 DEF plannerVars, Ignore, Take, TypeOK, PlanInv, Live
<1>3. ASSUME NEW t \in Topics, inbox[t] # <<>>, Start(t, Head(inbox[t]))
     PROVE  PlanInv'
  BY <1>3 DEF plannerVars, Start, Take, TypeOK, PlanInv, Live, ThreadsInv, Last, Jobs
<1>4. ASSUME OnStop
     PROVE  PlanInv'
  BY <1>4 DEF plannerVars, OnStop, Take, ExecGoes, TypeOK, PlanInv, Live
<1>5. ASSUME StopRobot
     PROVE  PlanInv'
  BY <1>5 DEF plannerVars, StopRobot, PostStop, slotVars, ExecGoes, TypeOK, PlanInv, Live
<1>6. ASSUME StopReturns
     PROVE  PlanInv'
  BY <1>6 DEF plannerVars, StopReturns, ExecGoes, TypeOK, PlanInv, Live
<1>7. ASSUME NEW p \in Poses, OnPose(p)
     PROVE  PlanInv'
  BY <1>7 DEF plannerVars, OnPose, Take, SetPoseTarget, TypeOK, PlanInv, Live
<1>8. ASSUME NEW ok \in BOOLEAN, PosePlanned(ok)
     PROVE  PlanInv'
  BY <1>8 DEF plannerVars, PosePlanned, Plan, ExecGoes, TypeOK, PlanInv, Live
<1>9. ASSUME PoseMoves
     PROVE  PlanInv'
  BY <1>9
     DEF plannerVars, PoseMoves, BeginMotion, MotionRefused, Selected, slotVars,
         ExecGoes, TypeOK, PlanInv, Live
<1>10. ASSUME NEW j \in Jobs, NextWaypoint(j)
     PROVE  PlanInv'
  <2>1. /\ pc[j] = "head" /\ UNCHANGED <<exec, is_trajectory_, job, wp, mixed, motion>>
        /\ \/ pc' = [pc EXCEPT ![j] = "reset"]
           \/ pc' = [pc EXCEPT ![j] = "plan"] /\ target' = job[j].path[wp[j]]
    BY <1>10 DEF NextWaypoint, Leaves, Goes, SetPoseTarget, plannerVars
  <2>2. \A i \in Jobs : Live(i) => i = j
    BY <2>1 DEF ThreadsInv, Live
  <2>3. \A i \in Jobs : i # j => pc'[i] = pc[i]
    BY <2>1 DEF TypeOK
  <2>4. pc'[j] = "reset" \/ (pc'[j] = "plan" /\ target' = job[j].path[wp[j]])
    <3>1. pc \in [Jobs -> WorkerPc]
      BY DEF TypeOK
    <3> QED
      BY <2>1, <3>1
  <2>5. Live(j)
    BY <2>1 DEF Live
  <2> QED
    BY <2>1, <2>2, <2>3, <2>4, <2>5 DEF PlanInv, Live
<1>11. ASSUME NEW j \in Jobs, NEW ok \in BOOLEAN, WaypointPlanned(j, ok)
     PROVE  PlanInv'
  <2>1. /\ pc[j] = "plan" /\ UNCHANGED <<exec, job, wp, mixed, motion, target>>
        /\ is_trajectory_' = FALSE
        /\ \/ pc' = [pc EXCEPT ![j] = "reset"]
           \/ pc' = [pc EXCEPT ![j] = "check"] /\ xarm_plan_' = target
    BY <1>11 DEF WaypointPlanned, Plan, Leaves, Goes
  <2>2. \A i \in Jobs : Live(i) => i = j
    BY <2>1 DEF ThreadsInv, Live
  <2>3. \A i \in Jobs : i # j => pc'[i] = pc[i]
    BY <2>1 DEF TypeOK
  <2>4. pc'[j] = "reset" \/ (pc'[j] = "check" /\ xarm_plan_' = target)
    <3>1. pc \in [Jobs -> WorkerPc]
      BY DEF TypeOK
    <3> QED
      BY <2>1, <3>1
  <2>5. Live(j)
    BY <2>1 DEF Live
  <2> QED
    BY <2>1, <2>2, <2>3, <2>4, <2>5 DEF PlanInv, Live
<1>12. ASSUME NEW j \in Jobs, CheckStop(j)
     PROVE  PlanInv'
  BY <1>12 DEF plannerVars, CheckStop, Leaves, Goes, TypeOK, PlanInv, Live
<1>13. ASSUME NEW j \in Jobs, WaypointMoves(j)
     PROVE  PlanInv'
  <2>1. /\ pc[j] = "exec"
        /\ UNCHANGED <<exec, is_trajectory_, job, wp, mixed, xarm_plan_>>
    BY <1>13 DEF WaypointMoves, BeginMotion, MotionRefused, Goes, plannerVars, slotVars
  <2>2. \A i \in Jobs : Live(i) => i = j
    BY <2>1 DEF ThreadsInv, Live
  <2>3. /\ \A i \in Jobs : i # j => pc'[i] = pc[i]
        /\ pc'[j] \in {"wait", "after"}
    BY <1>13, <2>1 DEF WaypointMoves, Goes, TypeOK
  <2>4. Live(j)
    BY <2>1 DEF Live
  <2>5. pc'[j] = "wait" => motion'.to \in Selected(exec.pc = "plan")
    BY <1>13, <2>1 DEF WaypointMoves, BeginMotion, Goes, TypeOK
  <2>6. ~mixed[j] => Selected(exec.pc = "plan") = {xarm_plan_}
    BY <2>4 DEF PlanInv, Selected
  <2>7. ~mixed[j] /\ pc'[j] = "wait" => motion'.to = job[j].path[wp[j]]
    BY <2>1, <2>4, <2>5, <2>6 DEF PlanInv
  <2> QED
    BY <2>1, <2>2, <2>3, <2>4, <2>7 DEF PlanInv, Live
<1>14. ASSUME NEW j \in Jobs, ResetStop(j)
     PROVE  PlanInv'
  BY <1>14 DEF plannerVars, ResetStop, Goes, TypeOK, PlanInv, Live
<1>15. ASSUME NEW j \in Jobs, Throws(j)
     PROVE  PlanInv'
  BY <1>15 DEF plannerVars, Throws, Goes, TypeOK, PlanInv, Live
<1>16. ASSUME NEW j \in Jobs, ReportShape(j)
     PROVE  PlanInv'
  BY <1>16 DEF plannerVars, ReportShape, Says, Goes, TypeOK, PlanInv, Live
<1>17. ASSUME NEW j \in Jobs, ReportPath(j)
     PROVE  PlanInv'
  BY <1>17 DEF plannerVars, ReportPath, Says, Goes, TypeOK, PlanInv, Live
<1>18. ASSUME NEW j \in Jobs, ReportPathEnd(j)
     PROVE  PlanInv'
  BY <1>18 DEF plannerVars, ReportPathEnd, Says, Goes, TypeOK, PlanInv, Live
<1>19. ASSUME NEW j \in Jobs, Release(j)
     PROVE  PlanInv'
  BY <1>19 DEF plannerVars, Release, Goes, TypeOK, PlanInv, Live
<1>20. ASSUME SegmentEnds
     PROVE  PlanInv'
  BY <1>20
     DEF plannerVars, SegmentEnds, MotionEnds, CallerReturns, slotVars, TypeOK,
         PlanInv, Live, WaitingInv, AtRest, Nobody, Executor, Jobs
<1>21. ASSUME SegmentStopped
     PROVE  PlanInv'
  BY <1>21
     DEF plannerVars, SegmentStopped, StopArrives, CallerReturns, slotVars, TypeOK,
         PlanInv, Live, WaitingInv, AtRest, Nobody, Executor, Jobs
<1>22. CASE UNCHANGED vars
  BY <1>22 DEF vars, plannerVars, listenerVars, TypeOK, PlanInv, Live
<1>23. QED
  BY <1>1, <1>2, <1>3, <1>4, <1>5, <1>6, <1>7, <1>8, <1>9, <1>10, <1>11, <1>12, <1>13,
     <1>14, <1>15, <1>16, <1>17, <1>18, <1>19, <1>20, <1>21, <1>22
     DEF Next, Callback, Worker, MoveGroup

\* Every step keeps the account of waypoints and final statuses.
LEMMA StatusStep ==
  TypeOK /\ ThreadsInv /\ WaitingInv /\ StopInv /\ StatusInv /\ [Next]_vars
    => StatusInv'
<1> SUFFICES ASSUME TypeOK /\ ThreadsInv /\ WaitingInv /\ StopInv /\ StatusInv, [Next]_vars
             PROVE  StatusInv'
  OBVIOUS
<1>1. ASSUME NEW t \in Topics, NEW m \in Messages(t), Publish(t, m)
     PROVE  StatusInv'
  BY <1>1 DEF plannerVars, Publish, TypeOK, StatusInv, Live
<1>2. ASSUME NEW t \in Topics, inbox[t] # <<>>, Ignore(t, Head(inbox[t]))
     PROVE  StatusInv'
  BY <1>2 DEF plannerVars, Ignore, Take, TypeOK, StatusInv, Live
<1>3. ASSUME NEW t \in Topics, inbox[t] # <<>>, Start(t, Head(inbox[t]))
     PROVE  StatusInv'
  BY <1>3 DEF plannerVars, Start, Take, TypeOK, StatusInv, Live, ThreadsInv, Last, Jobs
<1>4. ASSUME OnStop
     PROVE  StatusInv'
  BY <1>4 DEF plannerVars, OnStop, Take, ExecGoes, TypeOK, StatusInv, Live
<1>5. ASSUME StopRobot
     PROVE  StatusInv'
  BY <1>5
     DEF plannerVars, StopRobot, PostStop, slotVars, ExecGoes, TypeOK, StatusInv, Live
<1>6. ASSUME StopReturns
     PROVE  StatusInv'
  BY <1>6 DEF plannerVars, StopReturns, ExecGoes, TypeOK, StatusInv, Live
<1>7. ASSUME NEW p \in Poses, OnPose(p)
     PROVE  StatusInv'
  BY <1>7 DEF plannerVars, OnPose, Take, SetPoseTarget, TypeOK, StatusInv, Live
<1>8. ASSUME NEW ok \in BOOLEAN, PosePlanned(ok)
     PROVE  StatusInv'
  BY <1>8 DEF plannerVars, PosePlanned, Plan, ExecGoes, TypeOK, StatusInv, Live
<1>9. ASSUME PoseMoves
     PROVE  StatusInv'
  BY <1>9
     DEF plannerVars, PoseMoves, BeginMotion, MotionRefused, Selected, slotVars,
         ExecGoes, TypeOK, StatusInv, Live
<1>10. ASSUME NEW j \in Jobs, NextWaypoint(j)
     PROVE  StatusInv'
  BY <1>10
     DEF plannerVars, NextWaypoint, Leaves, Goes, SetPoseTarget, TypeOK, StatusInv,
         Live
<1>11. ASSUME NEW j \in Jobs, NEW ok \in BOOLEAN, WaypointPlanned(j, ok)
     PROVE  StatusInv'
  BY <1>11 DEF plannerVars, WaypointPlanned, Plan, Leaves, Goes, TypeOK, StatusInv, Live
<1>12. ASSUME NEW j \in Jobs, CheckStop(j)
     PROVE  StatusInv'
  BY <1>12 DEF plannerVars, CheckStop, Leaves, Goes, TypeOK, StatusInv, Live
<1>13. ASSUME NEW j \in Jobs, WaypointMoves(j)
     PROVE  StatusInv'
  BY <1>13
     DEF plannerVars, WaypointMoves, BeginMotion, MotionRefused, Selected, slotVars,
         Goes, TypeOK, StatusInv, Live
<1>14. ASSUME NEW j \in Jobs, ResetStop(j)
     PROVE  StatusInv'
  BY <1>14 DEF plannerVars, ResetStop, Goes, TypeOK, StatusInv, Live
<1>15. ASSUME NEW j \in Jobs, Throws(j)
     PROVE  StatusInv'
  BY <1>15 DEF plannerVars, Throws, Goes, TypeOK, StatusInv, Live
<1>16. ASSUME NEW j \in Jobs, ReportShape(j)
     PROVE  StatusInv'
  BY <1>16 DEF plannerVars, ReportShape, Says, Goes, TypeOK, StatusInv, Live
<1>17. ASSUME NEW j \in Jobs, ReportPath(j)
     PROVE  StatusInv'
  BY <1>17 DEF plannerVars, ReportPath, Says, Goes, TypeOK, StatusInv, Live
<1>18. ASSUME NEW j \in Jobs, ReportPathEnd(j)
     PROVE  StatusInv'
  <2>1. /\ pc[j] = "report2" /\ pc' = [pc EXCEPT ![j] = "release"]
        /\ UNCHANGED <<job, wp, cut, stopped>>
        /\ outcome' \in [Jobs -> {"none", "completed", "cancelled", "failed"}]
        /\ \A i \in Jobs : i # j => outcome'[i] = outcome[i]
    BY <1>18 DEF ReportPathEnd, Says, Goes, TypeOK
  <2>2. job[j].kind = "path" /\ Live(j)
    BY <2>1 DEF StatusInv, Live
  <2>3. stop_requested_ => stopped[j]
    BY <2>2 DEF StopInv
  <2>4. outcome'[j] # "none" \/ (cut[j] = "throw" /\ stopped[j])
    <3>1. j \in DOMAIN outcome
      BY DEF TypeOK
    <3>2. CASE cut[j] # "throw" /\ outcome[j] # "cancelled"
      BY <1>18, <3>1, <3>2 DEF ReportPathEnd, Says
    <3>3. CASE ~stop_requested_ /\ ~(cut[j] # "throw" /\ outcome[j] # "cancelled")
      BY <1>18, <3>1, <3>3 DEF ReportPathEnd, Says
    <3>4. CASE stop_requested_ /\ ~(cut[j] # "throw" /\ outcome[j] # "cancelled")
      BY <1>18, <2>3, <3>4 DEF ReportPathEnd
    <3> QED
      BY <3>2, <3>3, <3>4
  <2>5. /\ \A i \in Jobs : i # j => pc'[i] = pc[i]
        /\ pc'[j] = "release"
    BY <2>1 DEF TypeOK
  <2> QED
    BY <2>1, <2>2, <2>4, <2>5 DEF StatusInv
<1>19. ASSUME NEW j \in Jobs, Release(j)
     PROVE  StatusInv'
  BY <1>19 DEF plannerVars, Release, Goes, TypeOK, StatusInv, Live
<1>20. ASSUME SegmentEnds
     PROVE  StatusInv'
  BY <1>20
     DEF plannerVars, SegmentEnds, MotionEnds, CallerReturns, slotVars, TypeOK,
         StatusInv, Live, WaitingInv, AtRest, Nobody, Executor, Jobs
<1>21. ASSUME SegmentStopped
     PROVE  StatusInv'
  BY <1>21
     DEF plannerVars, SegmentStopped, StopArrives, CallerReturns, slotVars, TypeOK,
         StatusInv, Live, WaitingInv, AtRest, Nobody, Executor, Jobs
<1>22. CASE UNCHANGED vars
  BY <1>22 DEF vars, plannerVars, listenerVars, TypeOK, StatusInv, Live
<1>23. QED
  BY <1>1, <1>2, <1>3, <1>4, <1>5, <1>6, <1>7, <1>8, <1>9, <1>10, <1>11, <1>12, <1>13,
     <1>14, <1>15, <1>16, <1>17, <1>18, <1>19, <1>20, <1>21, <1>22
     DEF Next, Callback, Worker, MoveGroup

-----------------------------------------------------------------------------
\* Nothing has happened yet: every part of the invariant holds.
LEMMA InitInv == Init => IInv
<1> SUFFICES ASSUME Init PROVE IInv
  OBVIOUS
<1> USE PlannerAssumption, ListenerAssumption DEF Init, PlannerInit
<1>1. TypeOK
  <2>1. PlannerTypeOK
    BY DEF PlannerTypeOK, Motions, AtRest, Plans
  <2>2. InboxOK
    BY DEF InboxOK
  <2>3. exec \in ExecRec /\ nextJob \in 1 .. MaxJobs + 1
    BY DEF ExecRec, ExecPc
  <2>4. pc \in [Jobs -> WorkerPc] /\ job \in [Jobs -> JobRec] /\ wp \in [Jobs -> Nat \ {0}]
    BY DEF WorkerPc, JobRec, NoJob
  <2> QED
    BY <2>1, <2>2, <2>3, <2>4 DEF TypeOK
<1>2. ThreadsInv
  BY DEF ThreadsInv, Live, Jobs
<1>3. WaitingInv
  BY DEF WaitingInv, AtRest, Nobody, Executor, Jobs
<1>4. StopInv
  BY DEF StopInv, Live, InLoop
<1>5. PlanInv
  BY DEF PlanInv, Live
<1>6. StatusInv
  BY DEF StatusInv
<1> QED
  BY <1>1, <1>2, <1>3, <1>4, <1>5, <1>6 DEF IInv

\* The invariant from which the safety theorems follow: however the threads
\* interleave, each knows at each of its steps what IInv says.
THEOREM Inductive == LongMotionSpec => []IInv
<1>1. IInv /\ [Next]_vars => IInv'
  BY TypeStep, ThreadsStep, WaitingStep, StopStep, PlanStep, StatusStep DEF IInv
<1> QED
  BY <1>1, InitInv, PTL DEF LongMotionSpec

\* Every variable keeps its type.
THEOREM TypeCorrect == Spec => []TypeOK
<1>1. IInv => TypeOK
  BY DEF IInv
<1> QED
  BY <1>1, Inductive, PTL DEF Spec

\* The compare_exchange on worker_running_ lets one worker live at a time,
\* however callbacks and workers interleave.
THEOREM OneWorkerHolds == Spec => []OneWorker
<1>1. IInv => OneWorker
  BY DEF IInv, ThreadsInv, OneWorker, LiveJobs
<1> QED
  BY <1>1, Inductive, PTL DEF Spec

\* After a stop at most one more segment of the drawing begins, whatever the
\* length of the drawing and the step at which the stop comes.
THEOREM StopBoundsMotionHolds == Spec => []StopBoundsMotion
<1>1. IInv => StopBoundsMotion
  BY DEF IInv, StopInv, StopBoundsMotion
<1> QED
  BY <1>1, Inductive, PTL DEF Spec

\* A stop that was handled before a drawing began never cancels it, although
\* the flag is shared by all workers.
THEOREM StopAttributionHolds == Spec => []StopAttribution
<1>1. IInv => StopAttribution
  BY DEF IInv, StopInv, StopAttribution
<1> QED
  BY <1>1, Inductive, PTL DEF Spec

\* The shared plan slot never mixes up the waypoints of two drawings.
THEOREM OwnPlanHolds == Spec => []OwnPlan
<1>1. IInv => OwnPlan
  <2> SUFFICES ASSUME IInv, NEW j \in Jobs, motion.by = j, ~mixed[j]
               PROVE  motion.to = job[j].path[wp[j]]
    BY DEF OwnPlan
  <2>1. pc[j] = "wait"
    BY DEF IInv, WaitingInv
  <2> QED
    BY <2>1 DEF IInv, PlanInv, Live
<1> QED
  BY <1>1, Inductive, PTL DEF Spec

\* No drawing ends in silence but the one exception and stop case.
THEOREM EndsWithStatusHolds == Spec => []EndsWithStatus
<1>1. IInv => EndsWithStatus
  BY DEF IInv, StatusInv, EndsWithStatus
<1> QED
  BY <1>1, Inductive, PTL DEF Spec

-----------------------------------------------------------------------------
(* Every step of the listener is a step of ShapeService, or none. *)

Finished == {j \in Jobs : pc[j] = "done"}

\* A step that leaves the workers' ends, the flag and the stop history alone
\* is no step of the service.
LEMMA Stutters ==
  ASSUME Finished' = Finished, UNCHANGED <<worker_running_, nextJob, stopped, late>>
  PROVE  UNCHANGED Service!vars
BY DEF Finished, Service!vars, Last

\* A worker that does not release its flag does not end.
LEMMA WorkerGoesOn ==
  ASSUME TypeOK, NEW j \in Jobs, NEW to, pc[j] # "done", to # "done",
         pc' = [pc EXCEPT ![j] = to]
  PROVE  Finished' = Finished
BY DEF Finished

\* The listener implements the safety part of ShapeService: its drawings are
\* accepted one at a time, cancelled, and finished once, and the stop leaves
\* one segment at most.
THEOREM ImplementsService == Spec => Service!Init /\ [][Service!Next]_Service!vars
<1>1. Init => Service!Init
  BY DEF Init, Service!Init, Service!None, Jobs
<1>2. IInv /\ [Next]_vars => [Service!Next]_Service!vars
  <2> SUFFICES ASSUME IInv, [Next]_vars PROVE [Service!Next]_Service!vars
    OBVIOUS
  <2>1. TypeOK /\ Last \in Int
    BY DEF IInv, TypeOK, Last
  <2>2. ASSUME UNCHANGED <<pc, worker_running_, nextJob, stopped, late>>
        PROVE  UNCHANGED Service!vars
    BY <2>2, Stutters DEF Finished
  <2>3. ASSUME NEW j \in Jobs, NEW to, pc[j] # "done", to # "done",
               pc' = [pc EXCEPT ![j] = to],
               UNCHANGED <<worker_running_, nextJob, stopped, late>>
        PROVE  UNCHANGED Service!vars
    BY <2>1, <2>3, WorkerGoesOn, Stutters
  <2>4. ASSUME NEW t \in Topics, NEW m \in Messages(t), Publish(t, m)
        PROVE  UNCHANGED Service!vars
    BY <2>2, <2>4 DEF Publish
  <2>5. ASSUME NEW t \in Topics, inbox[t] # <<>>, Ignore(t, Head(inbox[t]))
        PROVE  UNCHANGED Service!vars
    BY <2>2, <2>5 DEF Ignore
  <2>6. ASSUME NEW t \in Topics, inbox[t] # <<>>, Start(t, Head(inbox[t]))
        PROVE  Service!Accept
    <3>1. /\ ~worker_running_ /\ worker_running_' = TRUE
          /\ nextJob \in Jobs /\ nextJob' = nextJob + 1
          /\ pc' = [pc EXCEPT ![nextJob] = "head"]
          /\ UNCHANGED <<stopped, late>>
      BY <2>1, <2>6 DEF Start, Ignored, Topics, Figures, TypeOK, Jobs
    <3>2. pc[nextJob] = "none"
      BY <2>1, <3>1 DEF IInv, ThreadsInv, Jobs
    <3>3. Last' = nextJob
      BY <2>1, <3>1 DEF Last, Jobs
    <3>4. ~stopped[nextJob] /\ late[nextJob] = 0
      BY <3>1, <3>2 DEF IInv, StopInv, StatusInv
    <3>5. Finished' = Finished /\ nextJob \notin Finished
      BY <2>1, <3>1, <3>2 DEF Finished
    <3> QED
      BY <3>1, <3>3, <3>4, <3>5
         DEF Service!Accept, Service!None, Service!Jobs, Jobs, Finished
  <2>7. ASSUME OnStop
        PROVE  [Service!Next]_Service!vars
    <3>1. /\ UNCHANGED <<pc, worker_running_, nextJob, late>>
          /\ stopped' = [j \in Jobs |-> stopped[j] \/ Live(j)]
      BY <2>7 DEF OnStop
    <3>2. CASE ~worker_running_
      BY <3>1, <3>2 DEF Service!vars, Last
    <3>3. CASE worker_running_
      <4>1. Last \in Jobs /\ Live(Last) /\ Last' = Last
        BY <3>1, <3>3 DEF IInv, ThreadsInv, Last
      <4>2. stopped'[Last] = TRUE
        BY <3>1, <4>1
      <4>3. CASE ~stopped[Last]
        BY <3>1, <3>3, <4>1, <4>2, <4>3
           DEF Service!Next, Service!Cancel, Service!None, Jobs, Last
      <4>4. CASE stopped[Last]
        <5>1. stopped[Last] = TRUE
          BY <2>1, <4>1, <4>4
        <5> QED
          BY <3>1, <3>3, <4>1, <4>2, <5>1 DEF Service!vars
      <4> QED
        BY <4>3, <4>4
    <3> QED
      BY <3>2, <3>3
  <2>8. ASSUME StopRobot \/ StopReturns \/ PoseMoves
        PROVE  UNCHANGED Service!vars
    BY <2>2, <2>8 DEF StopRobot, StopReturns, PoseMoves
  <2>9. ASSUME NEW p \in Poses, OnPose(p)
        PROVE  UNCHANGED Service!vars
    BY <2>2, <2>9 DEF OnPose
  <2>10. ASSUME NEW ok \in BOOLEAN, PosePlanned(ok)
         PROVE  UNCHANGED Service!vars
    BY <2>2, <2>10 DEF PosePlanned
  <2>11. ASSUME NEW j \in Jobs, NEW ok \in BOOLEAN, WaypointPlanned(j, ok)
         PROVE  UNCHANGED Service!vars
    BY <2>3, <2>11 DEF WaypointPlanned, Leaves, Goes
  <2>12. ASSUME NEW j \in Jobs,
                \/ NextWaypoint(j) \/ CheckStop(j) \/ ResetStop(j) \/ Throws(j)
                \/ ReportShape(j) \/ ReportPath(j) \/ ReportPathEnd(j)
         PROVE  UNCHANGED Service!vars
    <3>1. /\ pc[j] # "done" /\ UNCHANGED <<worker_running_, nextJob, stopped, late>>
          /\ \E to \in WorkerPc \ {"done"} : pc' = [pc EXCEPT ![j] = to]
      BY <2>12
         DEF NextWaypoint, CheckStop, ResetStop, Throws, ReportShape, ReportPath,
             ReportPathEnd, Leaves, Goes, WorkerPc
    <3> QED
      BY <2>3, <3>1
  <2>13. ASSUME NEW j \in Jobs, WaypointMoves(j)
         PROVE  [Service!Next]_Service!vars
    <3>1. /\ pc[j] = "exec" /\ UNCHANGED <<worker_running_, nextJob, stopped>>
          /\ \E to \in {"wait", "after"} : pc' = [pc EXCEPT ![j] = to]
      BY <2>13 DEF WaypointMoves, Goes
    <3>2. Finished' = Finished
      BY <2>1, <3>1, WorkerGoesOn
    <3>3. j = Last /\ worker_running_
      BY <3>1 DEF IInv, ThreadsInv, Live
    <3>4. CASE UNCHANGED late
      BY <3>1, <3>2, <3>4, Stutters
    <3>5. CASE stopped[j] /\ late' = [late EXCEPT ![j] = @ + 1]
      <4>1. late[j] = 0
        BY <3>1 DEF IInv, StopInv
      <4>2. late'[j] = 1
        BY <2>1, <3>5, <4>1 DEF TypeOK
      <4> QED
        BY <3>1, <3>2, <3>3, <3>5, <4>1, <4>2
           DEF Service!Next, Service!Move, Service!None, Jobs, Last, Finished
    <3> QED
      BY <2>1, <2>13, <3>4, <3>5 DEF WaypointMoves, TypeOK
  <2>14. ASSUME NEW j \in Jobs, Release(j)
         PROVE  Service!Finish
    <3>1. /\ pc[j] = "release" /\ pc' = [pc EXCEPT ![j] = "done"]
          /\ worker_running_' = FALSE
      BY <2>14 DEF Release, Goes
    <3>2. j = Last /\ worker_running_
      BY <3>1 DEF IInv, ThreadsInv, Live
    <3>3. Finished' = Finished \cup {j}
      BY <2>1, <3>1 DEF Finished, TypeOK
    <3> QED
      BY <3>1, <3>2, <3>3 DEF Service!Finish, Service!None, Jobs, Finished
  <2>15. ASSUME SegmentEnds \/ SegmentStopped
         PROVE  UNCHANGED Service!vars
    <3>1. UNCHANGED <<worker_running_, nextJob, stopped, late>>
      BY <2>15 DEF SegmentEnds, SegmentStopped, CallerReturns
    <3>2. CASE motion.by \in Jobs
      <4>1. pc[motion.by] = "wait" /\ pc' = [pc EXCEPT ![motion.by] = "after"]
        BY <2>15, <3>2 DEF SegmentEnds, SegmentStopped, CallerReturns, IInv, WaitingInv
      <4> QED
        BY <2>3, <3>1, <3>2, <4>1
    <3>3. CASE motion.by \notin Jobs
      BY <2>2, <2>15, <3>1, <3>3 DEF SegmentEnds, SegmentStopped, CallerReturns
    <3> QED
      BY <3>2, <3>3
  <2>16. CASE UNCHANGED vars
    BY <2>2, <2>16 DEF vars, listenerVars
  <2> QED
    BY <2>4, <2>5, <2>6, <2>7, <2>8, <2>9, <2>10, <2>11, <2>12, <2>13, <2>14, <2>15, <2>16
       DEF Next, Callback, Worker, MoveGroup, Service!Next
<1> QED
  BY <1>1, <1>2, Inductive, PTL DEF Spec, LongMotionSpec
=============================================================================
