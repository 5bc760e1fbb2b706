------------------------------ MODULE XArmAPI ------------------------------
(***************************************************************************)
(* The wrapper of the SDK: threads call set_position with wait while the   *)
(* report thread copies the robot's reports and wakes those that wait for  *)
(* the end of a pause, the feedback thread files the results of the moves, *)
(* and other threads stop, pause, resume or clean an error.  state and     *)
(* error_code are plain members that every thread writes; the results are  *)
(* one map that every waiting thread may clear.                            *)
(*                                                                         *)
(* A command is one step here, in the robot's queue when it returns; what  *)
(* happens on the bus inside it is CommandBus.  The robot is external.     *)
(***************************************************************************)
EXTENDS Integers, Sequences, Functions

CONSTANTS Callers,    \* threads that call the wrapper
          TransIds,   \* transaction ids (1..65535)
          MaxMoves,   \* bound: moves asked for
          MaxOrders,  \* bound: states set and errors cleaned
          MaxFaults   \* bound: errors and lost connections

ASSUME WrapperAssumption ==
  /\ TransIds \subseteq Nat \ {0}
  /\ MaxMoves \in Nat /\ MaxOrders \in Nat /\ MaxFaults \in Nat

VARIABLES
  connected,               \* is_connected()
  state, error_code,       \* as the wrapper knows them
  fb_transid_type_map_,    \* the ids a feedback is expected for
  fb_transid_result_map_,  \* id to result: the move that the feedback spoke of
  pc, call,                \* per caller: where it is, and its call
  reporter, report,        \* the report thread: where it is, what it read
  robot,                   \* its state, its error and the moves it has accepted
  feedbacks,               \* feedback frames in the socket
  moves, orders, faults,   \* counters of the bounds
  over,                    \* history: the moves that ended or were discarded
  succeeded,               \* history: the moves whose call returned 0
  forsaken                 \* history: the callers whose result never comes

wrapperVars == <<connected, state, error_code, fb_transid_type_map_, fb_transid_result_map_>>
callVars    == <<pc, call>>
reportVars  == <<reporter, report>>
robotVars   == <<robot, feedbacks, over>>
historyVars == <<succeeded, forsaken>>
boundVars   == <<moves, orders, faults>>
vars == <<wrapperVars, callVars, reportVars, robotVars, boundVars, historyVars>>

Ready == 2   \* 1 while it moves; the wrapper does not tell them apart here
Pause == 3
Stop  == 4
States == {Ready, Pause, Stop}

Moves == [id : TransIds, no : 1 .. MaxMoves]
Calls == [id : TransIds \cup {0}, no : 0 .. MaxMoves]

TypeOK ==
  /\ connected \in BOOLEAN
  /\ state \in States /\ error_code \in BOOLEAN
  /\ fb_transid_type_map_ \subseteq TransIds
  /\ DOMAIN fb_transid_result_map_ \subseteq TransIds
  /\ Range(fb_transid_result_map_) \subseteq 1 .. MaxMoves
  /\ pc \in [Callers -> {"idle", "lock", "paused", "send", "wait", "poll", "refresh"}]
  /\ call \in [Callers -> Calls]
  /\ reporter \in {"read", "state", "notify", "error"}
  /\ report \in [state : States, error : BOOLEAN]
  /\ robot \in [state : States, error : BOOLEAN, queue : Seq(Moves)]
  /\ feedbacks \in Seq(Moves)
  /\ moves \in 0 .. MaxMoves /\ orders \in 0 .. MaxOrders /\ faults \in 0 .. MaxFaults
  /\ over \subseteq 1 .. MaxMoves /\ succeeded \subseteq 1 .. MaxMoves
  /\ forsaken \subseteq Callers

NoCall == [id |-> 0, no |-> 0]

Init ==
  /\ connected = TRUE
  /\ state = Ready /\ error_code = FALSE
  /\ fb_transid_type_map_ = {}
  /\ fb_transid_result_map_ = <<>>
  /\ pc = [c \in Callers |-> "idle"]
  /\ call = [c \in Callers |-> NoCall]
  /\ reporter = "read" /\ report = [state |-> Ready, error |-> FALSE]
  /\ robot = [state |-> Ready, error |-> FALSE, queue |-> <<>>]
  /\ feedbacks = <<>>
  /\ moves = 0 /\ orders = 0 /\ faults = 0
  /\ over = {} /\ succeeded = {} /\ forsaken = {}

Forget(results, id) == Restrict(results, DOMAIN results \ {id})
Goes(c, from, to) == pc[c] = from /\ pc' = [pc EXCEPT ![c] = to]
Returns(c, from, code) ==
  /\ Goes(c, from, "idle")
  /\ call' = [call EXCEPT ![c] = NoCall]
  /\ succeeded' = IF code = "ok" THEN succeeded \cup {call[c].no} ELSE succeeded

\* fb_transid_result_map_.clear(), before returning: also what others wait for.
Waiting == {c \in Callers : pc[c] \in {"wait", "poll"}}
ClearResults(c) ==
  /\ fb_transid_result_map_' = <<>>
  /\ forsaken' = (forsaken \cup {d \in Waiting : call[d].id \in DOMAIN fb_transid_result_map_}) \ {c}

-----------------------------------------------------------------------------
(* A caller in set_position(pose, wait = true, timeout). *)

\* The first test of a pause is made without the mutex.
SetPosition(c) ==
  /\ moves < MaxMoves /\ moves' = moves + 1
  /\ Goes(c, "idle", IF connected /\ state = Pause THEN "lock" ELSE "send")
  /\ call' = [call EXCEPT ![c] = [id |-> 0, no |-> moves']]
  /\ UNCHANGED <<wrapperVars, reportVars, robotVars, orders, faults, historyVars>>

\* The condition variable: with the mutex the predicate is tried, before the
\* first wait and after each notification.
WaitUntilNotPause(c) ==
  /\ Goes(c, "lock", IF state # Pause \/ ~connected THEN "send" ELSE "paused")
  /\ UNCHANGED <<wrapperVars, call, reportVars, robotVars, boundVars, historyVars>>

\* An id comes round after 65535 commands: nothing that still waits, or is on
\* its way, is that old.
FreeIds ==
  TransIds \ ({m.id : m \in Range(robot.queue) \cup Range(feedbacks)}
               \cup {call[c].id : c \in Callers})

\* Mutant: what an earlier wait left behind under the id is kept.
SetFeedbackKeyTransidKeeps(id) ==
  /\ fb_transid_type_map_' = fb_transid_type_map_ \cup {id}
  /\ UNCHANGED fb_transid_result_map_

\* Mutant: registers what an unsuccessful look-up of the key returns.
SetFeedbackKeyTransidUnknown(id) ==
  /\ fb_transid_type_map_' = fb_transid_type_map_ \cup {-1}
  /\ fb_transid_result_map_' = Forget(fb_transid_result_map_, id)

\* Called before the request is sent.
SetFeedbackKeyTransid(id) ==
  /\ fb_transid_type_map_' = fb_transid_type_map_ \cup {id}
  /\ fb_transid_result_map_' = Forget(fb_transid_result_map_, id)

SendNotConnected(c) ==
  /\ ~connected
  /\ Returns(c, "send", "not_connected")
  /\ forsaken' = forsaken \ {c}
  /\ UNCHANGED <<wrapperVars, reportVars, robotVars, boundVars>>

\* The robot is stopped: the answer says that it is not ready.
SendRefused(c) ==
  /\ connected /\ robot.state = Stop
  /\ \E id \in FreeIds : SetFeedbackKeyTransid(id)
  /\ Returns(c, "send", "state_not_ready")
  /\ forsaken' = forsaken \ {c}
  /\ UNCHANGED <<connected, state, error_code, reportVars, robotVars, boundVars>>

Send(c) ==
  /\ connected /\ robot.state # Stop
  /\ Goes(c, "send", "wait")
  /\ \E id \in FreeIds :
        /\ SetFeedbackKeyTransid(id)
        /\ call' = [call EXCEPT ![c].id = id]
        /\ robot' = [robot EXCEPT !.queue = Append(@, [id |-> id, no |-> call[c].no])]
  /\ UNCHANGED <<connected, state, error_code, reportVars, feedbacks, over, boundVars,
                 historyVars>>

\* _wait_feedback: the connection and the error first ...
WaitFeedback(c) ==
  /\ connected /\ ~error_code
  /\ Goes(c, "wait", "poll")
  /\ UNCHANGED <<wrapperVars, call, reportVars, robotVars, boundVars, historyVars>>

\* ... either of which clears the results of everybody ...
WaitFails(c) ==
  /\ ~connected \/ error_code
  /\ Returns(c, "wait", IF connected THEN "has_error" ELSE "not_connected")
  /\ ClearResults(c)
  /\ UNCHANGED <<connected, state, error_code, fb_transid_type_map_, reportVars, robotVars,
                 boundVars>>

\* ... then the state is asked for, and the result looked up.
PollDisconnected(c) ==
  /\ ~connected
  /\ Returns(c, "poll", "not_connected")
  /\ forsaken' = forsaken \ {c}
  /\ UNCHANGED <<wrapperVars, reportVars, robotVars, boundVars>>

PollStopped(c) ==
  /\ connected /\ robot.state = Stop
  /\ state' = robot.state
  /\ Returns(c, "poll", "emergency_stop")
  /\ ClearResults(c)
  /\ UNCHANGED <<connected, error_code, fb_transid_type_map_, reportVars, robotVars, boundVars>>

PollResult(c) ==
  /\ connected /\ robot.state # Stop /\ call[c].id \in DOMAIN fb_transid_result_map_
  /\ state' = robot.state
  /\ Returns(c, "poll", "ok")
  /\ fb_transid_result_map_' = Forget(fb_transid_result_map_, call[c].id)
  /\ forsaken' = forsaken \ {c}
  /\ UNCHANGED <<connected, error_code, fb_transid_type_map_, reportVars, robotVars, boundVars>>

PollAgain(c) ==
  /\ connected /\ robot.state # Stop /\ call[c].id \notin DOMAIN fb_transid_result_map_
  /\ state' = robot.state
  /\ Goes(c, "poll", "wait")
  /\ UNCHANGED <<connected, error_code, fb_transid_type_map_, fb_transid_result_map_, call,
                 reportVars, robotVars, boundVars, historyVars>>

\* A call that was given a timeout.  The result, if it comes, stays in the map.
WaitTimesOut(c) ==
  /\ Returns(c, "wait", "timeout")
  /\ forsaken' = forsaken \ {c}
  /\ UNCHANGED <<wrapperVars, reportVars, robotVars, boundVars>>

-----------------------------------------------------------------------------
(* A caller in another method. *)

Order(c) ==
  /\ connected
  /\ orders < MaxOrders /\ orders' = orders + 1
  /\ Goes(c, "idle", "refresh")
  /\ UNCHANGED <<wrapperVars, call, reportVars, moves, faults>>

\* Callers that look only after the repair see nothing of what ended their moves.
Overlooked == forsaken' = forsaken \cup Waiting /\ UNCHANGED succeeded

Tell(ended) == feedbacks' = IF connected THEN feedbacks \o ended ELSE <<>>

\* The queue is given up; the robot may tell, or not, that the moves are discarded.
Discard(queue) ==
  /\ over' = over \cup {m.no : m \in Range(queue)}
  /\ Tell(queue) \/ Tell(<<>>)

SetStatePause(c) ==
  /\ Order(c) /\ robot.state = Ready
  /\ robot' = [robot EXCEPT !.state = Pause]
  /\ UNCHANGED <<feedbacks, over, historyVars>>

SetStateStop(c) ==
  /\ Order(c)
  /\ robot' = [robot EXCEPT !.state = Stop, !.queue = <<>>]
  /\ Discard(robot.queue)
  /\ UNCHANGED historyVars

SetStateStart(c) ==
  /\ Order(c) /\ ~robot.error
  /\ robot' = [robot EXCEPT !.state = Ready]
  /\ IF robot.state = Stop THEN Overlooked ELSE UNCHANGED historyVars
  /\ UNCHANGED <<feedbacks, over>>

CleanError(c) ==
  /\ Order(c) /\ robot.error
  /\ robot' = [robot EXCEPT !.error = FALSE]
  /\ Overlooked
  /\ UNCHANGED <<feedbacks, over>>

\* Both methods end with get_state(&state), which notifies nobody; error_code
\* is left to the next report.
GetState(c) ==
  /\ Goes(c, "refresh", "idle")
  /\ state' = IF connected THEN robot.state ELSE state
  /\ UNCHANGED <<connected, error_code, fb_transid_type_map_, fb_transid_result_map_, call,
                 reportVars, robotVars, boundVars, historyVars>>

-----------------------------------------------------------------------------
(* The report thread: XArmAPI::_update. *)

ReadReport ==
  /\ connected /\ reporter = "read"
  /\ reporter' = "state"
  /\ report' = [state |-> robot.state, error |-> robot.error]
  /\ UNCHANGED <<wrapperVars, callVars, robotVars, boundVars, historyVars>>

\* Mutant: the waiting threads are woken when the state has changed.
UpdateStateOnChange ==
  /\ reporter = "state"
  /\ state' = report.state
  /\ reporter' = IF state' \notin {Pause, state} THEN "notify" ELSE "error"
  /\ UNCHANGED <<connected, error_code, fb_transid_type_map_, fb_transid_result_map_, callVars,
                 report, robotVars, boundVars, historyVars>>

UpdateState ==
  /\ reporter = "state"
  /\ state' = report.state
  /\ reporter' = IF state' # Pause THEN "notify" ELSE "error"
  /\ UNCHANGED <<connected, error_code, fb_transid_type_map_, fb_transid_result_map_, callVars,
                 report, robotVars, boundVars, historyVars>>

NotifyAll ==
  /\ reporter = "notify" /\ reporter' = "error"
  /\ pc' = [c \in Callers |-> IF pc[c] = "paused" THEN "lock" ELSE pc[c]]
  /\ UNCHANGED <<wrapperVars, call, report, robotVars, boundVars, historyVars>>

UpdateError ==
  /\ reporter = "error" /\ reporter' = "read"
  /\ error_code' = report.error
  /\ UNCHANGED <<connected, state, fb_transid_type_map_, fb_transid_result_map_, callVars,
                 report, robotVars, boundVars, historyVars>>

\* The feedback thread: the result of an id that was registered is kept, once.
FeedbackCallback ==
  /\ connected /\ feedbacks # <<>>
  /\ feedbacks' = Tail(feedbacks)
  /\ LET m == Head(feedbacks) IN
       /\ fb_transid_type_map_' = fb_transid_type_map_ \ {m.id}
       /\ fb_transid_result_map_' =
            IF m.id \in fb_transid_type_map_
            THEN [i \in DOMAIN fb_transid_result_map_ \cup {m.id} |->
                    IF i = m.id THEN m.no ELSE fb_transid_result_map_[i]]
            ELSE fb_transid_result_map_
  /\ UNCHANGED <<connected, state, error_code, callVars, reportVars, robot, over, boundVars,
                 historyVars>>

-----------------------------------------------------------------------------
(* The robot and the connection (external). *)

RobotEndsMove ==
  /\ robot.state = Ready /\ robot.queue # <<>>
  /\ robot' = [robot EXCEPT !.queue = Tail(@)]
  /\ over' = over \cup {Head(robot.queue).no}
  /\ Tell(<<Head(robot.queue)>>)
  /\ UNCHANGED <<wrapperVars, callVars, reportVars, boundVars, historyVars>>

RobotFails ==
  /\ faults < MaxFaults /\ faults' = faults + 1
  /\ robot' = [state |-> Stop, error |-> TRUE, queue |-> <<>>]
  /\ Discard(robot.queue)
  /\ UNCHANGED <<wrapperVars, callVars, reportVars, moves, orders, historyVars>>

\* The port fails or somebody calls disconnect(); neither notifies anybody.
\* What the robot still does goes on, and nobody hears of it.  Nothing in the
\* workspace connects a second time.
ConnectionLost ==
  /\ connected /\ connected' = FALSE
  /\ faults < MaxFaults /\ faults' = faults + 1
  /\ feedbacks' = <<>>
  /\ UNCHANGED <<state, error_code, fb_transid_type_map_, fb_transid_result_map_, callVars,
                 reportVars, robot, over, moves, orders, historyVars>>

-----------------------------------------------------------------------------
Proceed(c) ==
  \/ WaitUntilNotPause(c)
  \/ SendNotConnected(c) \/ SendRefused(c) \/ Send(c)
  \/ WaitFeedback(c) \/ WaitFails(c)
  \/ PollDisconnected(c) \/ PollStopped(c) \/ PollResult(c) \/ PollAgain(c)
  \/ GetState(c)

Reporter == ReadReport \/ UpdateState \/ NotifyAll \/ UpdateError

Next ==
  \/ \E c \in Callers :
       \/ SetPosition(c) \/ Proceed(c) \/ WaitTimesOut(c)
       \/ SetStatePause(c) \/ SetStateStop(c) \/ SetStateStart(c) \/ CleanError(c)
  \/ Reporter \/ FeedbackCallback
  \/ RobotEndsMove \/ RobotFails \/ ConnectionLost

\* Every thread is scheduled, reports keep coming and a move ends.  Nobody has
\* to time out, resume or repair.
Fairness ==
  /\ \A c \in Callers : WF_vars(Proceed(c))
  /\ WF_vars(Reporter)
  /\ WF_vars(FeedbackCallback)
  /\ WF_vars(RobotEndsMove)

Spec == Init /\ [][Next]_vars /\ Fairness
-----------------------------------------------------------------------------
(* A call that waits and returns success had its own move ended or          *)
(* discarded: not another caller's, and not the move that an earlier wait,  *)
(* given up with a timeout, left a result for under the same id.            *)
OwnFeedback == succeeded \subseteq over

(* While pauses end, every call returns: by its result, an error, a stop or *)
(* the loss of the connection, however the reports, the feedbacks and the   *)
(* other callers write state.  Left out, because the code does leave them   *)
(* waiting: a caller that waits for the end of a pause when the connection  *)
(* is lost, whom nobody notifies, and the forsaken ones, whose result       *)
(* another caller cleared, or whose move ended by an error or a stop that   *)
(* another caller repaired before they looked.                              *)
CallsReturn ==
  []<>(robot.state # Pause) =>
    \A c \in Callers :
      pc[c] # "idle" ~> \/ pc[c] = "idle"
                        \/ pc[c] = "paused" /\ ~connected
                        \/ c \in forsaken
=============================================================================
