---------------------------- MODULE XArmAPIProofs ----------------------------
(***************************************************************************)
(* Type correctness of the SDK wrapper and the safety of its feedbacks,    *)
(* for any number of callers, any set of ids and any bounds.               *)
(***************************************************************************)
EXTENDS XArmAPI, TLAPS

(* The program counters at which a move was asked for and not returned. *)
Asked == {"lock", "paused", "send", "wait", "poll"}

(* A caller that has asked for a move has a move's number. *)
CallInv == \A c \in Callers : pc[c] \in Asked => call[c].no # 0

(* Two callers never wait for one id, and whatever goes by the id of a      *)
(* caller, in the robot, in the socket or in the map, is that caller's      *)
(* move.                                                                    *)
IdInv ==
  \A c, d \in Callers : call[c].id # 0 /\ call[c].id = call[d].id => c = d
OwnMove(m) == \A c \in Callers : call[c].id = m.id => call[c].no = m.no
QueueInv    == \A m \in Range(robot.queue) : OwnMove(m)
FeedbackInv == \A m \in Range(feedbacks) : OwnMove(m)
ResultInv ==
  \A c \in Callers :
    call[c].id \in DOMAIN fb_transid_result_map_ =>
      fb_transid_result_map_[call[c].id] = call[c].no

(* A feedback on its way, and a result in the map, speak of a move that     *)
(* ended or was discarded.                                                  *)
OverInv ==
  /\ \A m \in Range(feedbacks) : m.no \in over
  /\ Range(fb_transid_result_map_) \subseteq over

OwnInv == IdInv /\ QueueInv /\ FeedbackInv /\ ResultInv /\ OverInv /\ OwnFeedback
WInv == TypeOK /\ CallInv /\ OwnInv

-----------------------------------------------------------------------------
(* What a sequence holds after each of the operators the model uses. *)

LEMMA RangeEmpty == Range(<<>>) = {}
BY DEF Range

LEMMA RangeAppend ==
  ASSUME NEW S, NEW s \in Seq(S), NEW e \in S
  PROVE  Range(Append(s, e)) = Range(s) \cup {e}
<1> DEFINE t == Append(s, e)
<1>1. /\ Len(s) \in Nat /\ DOMAIN s = 1 .. Len(s)
      /\ DOMAIN t = 1 .. Len(s) + 1
      /\ t[Len(s) + 1] = e
      /\ \A i \in 1 .. Len(s) : t[i] = s[i]
  OBVIOUS
<1>2. ASSUME NEW x \in Range(t) PROVE x \in Range(s) \cup {e}
  <2>1. PICK i \in 1 .. Len(s) + 1 : x = t[i]
    BY <1>1, <1>2 DEF Range
  <2>2. CASE i = Len(s) + 1
    BY <1>1, <2>1, <2>2
  <2>3. CASE i \in 1 .. Len(s)
    BY <1>1, <2>1, <2>3 DEF Range
  <2> QED BY <1>1, <2>2, <2>3
<1>3. ASSUME NEW x \in Range(s) \cup {e} PROVE x \in Range(t)
  <2>1. CASE x = e
    <3>1. Len(s) + 1 \in DOMAIN t
      BY <1>1
    <3> QED BY <1>1, <2>1, <3>1 DEF Range
  <2>2. CASE x \in Range(s)
    <3>1. PICK i \in 1 .. Len(s) : x = s[i]
      BY <1>1, <2>2 DEF Range
    <3>2. i \in DOMAIN t /\ x = t[i]
      BY <1>1, <3>1
    <3> QED BY <3>2 DEF Range
  <2> QED BY <1>3, <2>1, <2>2
<1> QED BY <1>2, <1>3

LEMMA RangeConcat ==
  ASSUME NEW S, NEW s \in Seq(S), NEW t \in Seq(S)
  PROVE  Range(s \o t) \subseteq Range(s) \cup Range(t)
<1> SUFFICES ASSUME NEW x \in Range(s \o t) PROVE x \in Range(s) \cup Range(t)
  OBVIOUS
<1>1. /\ Len(s) \in Nat /\ DOMAIN s = 1 .. Len(s)
      /\ Len(t) \in Nat /\ DOMAIN t = 1 .. Len(t)
      /\ DOMAIN (s \o t) = 1 .. Len(s) + Len(t)
  OBVIOUS
<1>2. PICK i \in 1 .. Len(s) + Len(t) : x = (s \o t)[i]
  BY <1>1 DEF Range
<1>3. CASE i <= Len(s)
  <2>1. i \in DOMAIN s /\ x = s[i]
    BY <1>1, <1>2, <1>3
  <2> QED BY <2>1 DEF Range
<1>4. CASE i > Len(s)
  <2>1. i - Len(s) \in DOMAIN t /\ x = t[i - Len(s)]
    BY <1>1, <1>2, <1>4
  <2> QED BY <2>1 DEF Range
<1> QED BY <1>1, <1>2, <1>3, <1>4

LEMMA RangeHeadTail ==
  ASSUME NEW S, NEW s \in Seq(S), s # <<>>
  PROVE  /\ Head(s) \in Range(s) /\ Head(s) \in S
         /\ Tail(s) \in Seq(S) /\ Range(Tail(s)) \subseteq Range(s)
<1>1. /\ Len(s) \in Nat \ {0} /\ DOMAIN s = 1 .. Len(s)
      /\ Head(s) = s[1] /\ Head(s) \in S
      /\ Tail(s) \in Seq(S)
      /\ DOMAIN Tail(s) = 1 .. Len(s) - 1
      /\ \A i \in 1 .. Len(s) - 1 : Tail(s)[i] = s[i + 1]
  OBVIOUS
<1>2. 1 \in DOMAIN s
  BY <1>1
<1>3. \A i \in 1 .. Len(s) - 1 : i + 1 \in DOMAIN s
  BY <1>1
<1> QED BY <1>1, <1>2, <1>3 DEF Range

LEMMA RangeOfSeq ==
  ASSUME NEW S, NEW s \in Seq(S)
  PROVE  Range(s) \subseteq S
BY DEF Range

-----------------------------------------------------------------------------
(* Type correctness. *)

(* The moves a robot gives up, told or not. *)
LEMMA DiscardType ==
  TypeOK /\ Discard(robot.queue) => over' \subseteq 1 .. MaxMoves /\ feedbacks' \in Seq(Moves)
<1> SUFFICES ASSUME TypeOK, Discard(robot.queue)
             PROVE  over' \subseteq 1 .. MaxMoves /\ feedbacks' \in Seq(Moves)
  OBVIOUS
<1>1. robot.queue \in Seq(Moves) /\ feedbacks \in Seq(Moves)
  BY DEF TypeOK
<1>2. Range(robot.queue) \subseteq Moves
  BY <1>1, RangeOfSeq
<1>3. \A m \in Range(robot.queue) : m.no \in 1 .. MaxMoves
  BY <1>2 DEF Moves
<1>4. over' \subseteq 1 .. MaxMoves
  <2>1. over \subseteq 1 .. MaxMoves
    BY DEF TypeOK
  <2>2. over' = over \cup {m.no : m \in Range(robot.queue)}
    BY DEF Discard
  <2> QED BY <1>3, <2>1, <2>2
<1>5. /\ feedbacks \o robot.queue \in Seq(Moves)
      /\ feedbacks \o <<>> \in Seq(Moves)
      /\ <<>> \in Seq(Moves)
  BY <1>1
<1>6. feedbacks' \in Seq(Moves)
  BY <1>5 DEF Discard, Tell
<1> QED BY <1>4, <1>6

(* A new key: what the map still holds, it held before. *)
LEMMA KeyType ==
  ASSUME TypeOK, NEW id \in FreeIds, SetFeedbackKeyTransid(id)
  PROVE  /\ fb_transid_type_map_' \subseteq TransIds
         /\ DOMAIN fb_transid_result_map_' \subseteq TransIds
         /\ Range(fb_transid_result_map_') \subseteq 1 .. MaxMoves
<1>1. id \in TransIds
  BY DEF FreeIds
<1>2. /\ DOMAIN fb_transid_result_map_' = DOMAIN fb_transid_result_map_ \ {id}
      /\ \A i \in DOMAIN fb_transid_result_map_' :
           fb_transid_result_map_'[i] = fb_transid_result_map_[i]
  BY DEF SetFeedbackKeyTransid, Forget, Restrict
<1>3. Range(fb_transid_result_map_') \subseteq Range(fb_transid_result_map_)
  BY <1>2 DEF Range
<1>4. fb_transid_type_map_' \subseteq TransIds
  BY <1>1 DEF TypeOK, SetFeedbackKeyTransid
<1> QED BY <1>2, <1>3, <1>4 DEF TypeOK

(* That a move in the robot's queue has a number needs CallInv. *)
LEMMA TypeStep == TypeOK /\ CallInv /\ [Next]_vars => TypeOK'
<1> SUFFICES ASSUME TypeOK, CallInv, [Next]_vars PROVE TypeOK'
  OBVIOUS
<1> USE WrapperAssumption
<1>0. /\ Moves \subseteq [id : TransIds, no : 1 .. MaxMoves]
      /\ NoCall \in Calls
      /\ TransIds \subseteq Int
  BY DEF Moves, Calls, NoCall
<1>1. ASSUME NEW c \in Callers, SetPosition(c) PROVE TypeOK'
  <2>1. [id |-> 0, no |-> moves'] \in Calls /\ moves' \in 0 .. MaxMoves
    BY <1>1 DEF TypeOK, SetPosition, Calls
  <2>2. call' \in [Callers -> Calls]
    BY <1>1, <2>1 DEF TypeOK, SetPosition
  <2>3. pc' \in [Callers -> {"idle", "lock", "paused", "send", "wait", "poll", "refresh"}]
    BY <1>1 DEF TypeOK, SetPosition, Goes
  <2> QED BY <1>1, <2>1, <2>2, <2>3 DEF TypeOK, SetPosition, wrapperVars, reportVars, robotVars, historyVars
<1>2. ASSUME NEW c \in Callers, Proceed(c) PROVE TypeOK'
  <2>1. CASE WaitUntilNotPause(c)
    BY <2>1 DEF TypeOK, WaitUntilNotPause, Goes, wrapperVars, reportVars, robotVars, boundVars, historyVars
  <2>2. CASE SendNotConnected(c)
    BY <1>0, <2>2 DEF TypeOK, SendNotConnected, Returns, Goes, wrapperVars, reportVars, robotVars, boundVars
  <2>3. CASE SendRefused(c)
    <3>1. PICK id \in FreeIds : SetFeedbackKeyTransid(id)
      BY <2>3 DEF SendRefused
    <3>2. /\ fb_transid_type_map_' \subseteq TransIds
          /\ DOMAIN fb_transid_result_map_' \subseteq TransIds
          /\ Range(fb_transid_result_map_') \subseteq 1 .. MaxMoves
      BY <3>1, KeyType
    <3> QED BY <1>0, <2>3, <3>2 DEF TypeOK, SendRefused, Returns, Goes, reportVars, robotVars, boundVars
  <2>4. CASE Send(c)
    <3>1. PICK id \in FreeIds :
            /\ SetFeedbackKeyTransid(id)
            /\ call' = [call EXCEPT ![c].id = id]
            /\ robot' = [robot EXCEPT !.queue = Append(@, [id |-> id, no |-> call[c].no])]
      BY <2>4 DEF Send
    <3>2. /\ fb_transid_type_map_' \subseteq TransIds
          /\ DOMAIN fb_transid_result_map_' \subseteq TransIds
          /\ Range(fb_transid_result_map_') \subseteq 1 .. MaxMoves
      BY <3>1, KeyType
    <3>3. call[c] \in Calls /\ call[c].no # 0 /\ id \in TransIds
      BY <2>4, <3>1 DEF TypeOK, CallInv, Asked, Send, Goes, FreeIds
    <3>4. [id |-> id, no |-> call[c].no] \in Moves
      BY <3>3 DEF Calls, Moves
    <3>5. [call[c] EXCEPT !.id = id] \in Calls
      BY <3>3 DEF Calls
    <3>6. call' \in [Callers -> Calls]
      BY <3>1, <3>5 DEF TypeOK
    <3>7. robot' \in [state : States, error : BOOLEAN, queue : Seq(Moves)]
      <4>1. robot.queue \in Seq(Moves)
        BY DEF TypeOK
      <4>2. Append(robot.queue, [id |-> id, no |-> call[c].no]) \in Seq(Moves)
        BY <3>4, <4>1
      <4> QED BY <3>1, <4>2 DEF TypeOK
    <3> QED BY <2>4, <3>2, <3>6, <3>7 DEF TypeOK, Send, Goes, reportVars, boundVars, historyVars
  <2>5. CASE WaitFeedback(c)
    BY <2>5 DEF TypeOK, WaitFeedback, Goes, wrapperVars, reportVars, robotVars, boundVars, historyVars
  <2>6. CASE WaitFails(c)
    <3>1. /\ DOMAIN fb_transid_result_map_' \subseteq TransIds
          /\ Range(fb_transid_result_map_') \subseteq 1 .. MaxMoves
          /\ forsaken' \subseteq Callers
      BY <2>6, RangeEmpty DEF TypeOK, WaitFails, ClearResults, Waiting
    <3> QED BY <1>0, <2>6, <3>1 DEF TypeOK, WaitFails, Returns, Goes, reportVars, robotVars, boundVars
  <2>7. CASE PollDisconnected(c)
    BY <1>0, <2>7 DEF TypeOK, PollDisconnected, Returns, Goes, wrapperVars, reportVars, robotVars, boundVars
  <2>8. CASE PollStopped(c)
    <3>1. /\ DOMAIN fb_transid_result_map_' \subseteq TransIds
          /\ Range(fb_transid_result_map_') \subseteq 1 .. MaxMoves
          /\ forsaken' \subseteq Callers
      BY <2>8, RangeEmpty DEF TypeOK, PollStopped, ClearResults, Waiting
    <3> QED BY <1>0, <2>8, <3>1 DEF TypeOK, PollStopped, Returns, Goes, reportVars, robotVars, boundVars
  <2>9. CASE PollResult(c)
    <3>1. /\ DOMAIN fb_transid_result_map_' \subseteq TransIds
          /\ Range(fb_transid_result_map_') \subseteq 1 .. MaxMoves
      BY <2>9 DEF TypeOK, PollResult, Forget, Restrict, Range
    <3>2. call[c].no \in 1 .. MaxMoves
      BY <2>9 DEF TypeOK, CallInv, Asked, PollResult, Returns, Goes, Calls
    <3> QED BY <1>0, <2>9, <3>1, <3>2 DEF TypeOK, PollResult, Returns, Goes, reportVars, robotVars, boundVars
  <2>10. CASE PollAgain(c)
    BY <2>10 DEF TypeOK, PollAgain, Goes, reportVars, robotVars, boundVars, historyVars
  <2>11. CASE GetState(c)
    BY <2>11 DEF TypeOK, GetState, Goes, reportVars, robotVars, boundVars, historyVars
  <2> QED BY <1>2, <2>1, <2>2, <2>3, <2>4, <2>5, <2>6, <2>7, <2>8, <2>9, <2>10, <2>11 DEF Proceed
<1>3. ASSUME NEW c \in Callers, WaitTimesOut(c) PROVE TypeOK'
  BY <1>0, <1>3 DEF TypeOK, WaitTimesOut, Returns, Goes, wrapperVars, reportVars, robotVars, boundVars
<1>4. ASSUME NEW c \in Callers, SetStatePause(c) PROVE TypeOK'
  <2>1. robot' \in [state : States, error : BOOLEAN, queue : Seq(Moves)]
    <3>1. Pause \in States
      BY DEF States
    <3> QED BY <1>4, <3>1 DEF TypeOK, SetStatePause
  <2> QED BY <1>4, <2>1 DEF TypeOK, SetStatePause, Order, Goes, wrapperVars, reportVars, historyVars
<1>5. ASSUME NEW c \in Callers, SetStateStop(c) PROVE TypeOK'
  <2>1. over' \subseteq 1 .. MaxMoves /\ feedbacks' \in Seq(Moves)
    BY <1>5, DiscardType DEF SetStateStop
  <2>2. robot' \in [state : States, error : BOOLEAN, queue : Seq(Moves)]
    <3>1. Stop \in States /\ <<>> \in Seq(Moves)
      BY DEF States
    <3> QED BY <1>5, <3>1 DEF TypeOK, SetStateStop
  <2> QED BY <1>5, <2>1, <2>2 DEF TypeOK, SetStateStop, Order, Goes, wrapperVars, reportVars, historyVars
<1>6. ASSUME NEW c \in Callers, SetStateStart(c) PROVE TypeOK'
  <2>1. robot' \in [state : States, error : BOOLEAN, queue : Seq(Moves)]
    <3>1. Ready \in States
      BY DEF States
    <3> QED BY <1>6, <3>1 DEF TypeOK, SetStateStart
  <2>2. forsaken' \subseteq Callers /\ succeeded' = succeeded
    BY <1>6 DEF TypeOK, SetStateStart, Overlooked, Waiting, historyVars
  <2> QED BY <1>6, <2>1, <2>2 DEF TypeOK, SetStateStart, Order, Goes, wrapperVars, reportVars
<1>7. ASSUME NEW c \in Callers, CleanError(c) PROVE TypeOK'
  <2>1. robot' \in [state : States, error : BOOLEAN, queue : Seq(Moves)]
    BY <1>7 DEF TypeOK, CleanError
  <2>2. forsaken' \subseteq Callers /\ succeeded' = succeeded
    BY <1>7 DEF TypeOK, CleanError, Overlooked, Waiting
  <2> QED BY <1>7, <2>1, <2>2 DEF TypeOK, CleanError, Order, Goes, wrapperVars, reportVars
<1>8. ASSUME Reporter PROVE TypeOK'
  <2>1. CASE ReadReport
    BY <2>1 DEF TypeOK, ReadReport, wrapperVars, callVars, robotVars, boundVars, historyVars
  <2>2. CASE UpdateState
    BY <2>2 DEF TypeOK, UpdateState, callVars, robotVars, boundVars, historyVars
  <2>3. CASE NotifyAll
    BY <2>3 DEF TypeOK, NotifyAll, wrapperVars, robotVars, boundVars, historyVars
  <2>4. CASE UpdateError
    BY <2>4 DEF TypeOK, UpdateError, callVars, robotVars, boundVars, historyVars
  <2> QED BY <1>8, <2>1, <2>2, <2>3, <2>4 DEF Reporter
<1>9. CASE FeedbackCallback
  <2>1. Head(feedbacks) \in Moves /\ feedbacks' \in Seq(Moves)
    BY <1>9, RangeHeadTail DEF TypeOK, FeedbackCallback
  <2>2. /\ fb_transid_type_map_' \subseteq TransIds
        /\ DOMAIN fb_transid_result_map_' \subseteq TransIds
        /\ Range(fb_transid_result_map_') \subseteq 1 .. MaxMoves
    <3>1. Head(feedbacks).id \in TransIds /\ Head(feedbacks).no \in 1 .. MaxMoves
      BY <2>1 DEF Moves
    <3>2. CASE Head(feedbacks).id \notin fb_transid_type_map_
      BY <1>9, <3>1, <3>2 DEF TypeOK, FeedbackCallback
    <3>3. CASE Head(feedbacks).id \in fb_transid_type_map_
      <4> DEFINE id == Head(feedbacks).id
      <4>1. /\ DOMAIN fb_transid_result_map_' = DOMAIN fb_transid_result_map_ \cup {id}
            /\ \A i \in DOMAIN fb_transid_result_map_' :
                 fb_transid_result_map_'[i] =
                   IF i = id THEN Head(feedbacks).no ELSE fb_transid_result_map_[i]
        BY <1>9, <3>3 DEF FeedbackCallback
      <4>2. Range(fb_transid_result_map_')
              \subseteq Range(fb_transid_result_map_) \cup {Head(feedbacks).no}
        <5> SUFFICES ASSUME NEW i \in DOMAIN fb_transid_result_map_'
                     PROVE  fb_transid_result_map_'[i]
                              \in Range(fb_transid_result_map_) \cup {Head(feedbacks).no}
          BY DEF Range
        <5>1. CASE i = id
          BY <4>1, <5>1
        <5>2. CASE i # id
          BY <4>1, <5>2 DEF Range
        <5> QED BY <5>1, <5>2
      <4> QED BY <1>9, <3>1, <4>1, <4>2 DEF TypeOK, FeedbackCallback
    <3> QED BY <3>2, <3>3
  <2> QED BY <1>9, <2>1, <2>2 DEF TypeOK, FeedbackCallback, callVars, reportVars, boundVars, historyVars
<1>10. CASE RobotEndsMove
  <2>1. /\ Head(robot.queue) \in Moves
        /\ Tail(robot.queue) \in Seq(Moves)
    BY <1>10, RangeHeadTail DEF TypeOK, RobotEndsMove
  <2>2. robot' \in [state : States, error : BOOLEAN, queue : Seq(Moves)]
    BY <1>10, <2>1 DEF TypeOK, RobotEndsMove
  <2>3. over' \subseteq 1 .. MaxMoves
    BY <1>10, <2>1 DEF TypeOK, RobotEndsMove, Moves
  <2>4. feedbacks' \in Seq(Moves)
    BY <1>10, <2>1 DEF TypeOK, RobotEndsMove, Tell
  <2> QED BY <1>10, <2>2, <2>3, <2>4 DEF TypeOK, RobotEndsMove, wrapperVars, callVars, reportVars, boundVars, historyVars
<1>11. CASE RobotFails
  <2>1. over' \subseteq 1 .. MaxMoves /\ feedbacks' \in Seq(Moves)
    BY <1>11, DiscardType DEF RobotFails
  <2>2. robot' \in [state : States, error : BOOLEAN, queue : Seq(Moves)]
    BY <1>11 DEF TypeOK, RobotFails, States, Stop
  <2> QED BY <1>11, <2>1, <2>2 DEF TypeOK, RobotFails, wrapperVars, callVars, reportVars, historyVars
<1>12. CASE ConnectionLost
  <2>1. feedbacks' \in Seq(Moves)
    <3>1. <<>> \in Seq(Moves)
      OBVIOUS
    <3> QED BY <1>12, <3>1 DEF ConnectionLost
  <2>2. faults' \in 0 .. MaxFaults
    <3>1. faults \in 0 .. MaxFaults
      BY DEF TypeOK
    <3>2. faults < MaxFaults /\ faults' = faults + 1
      BY <1>12 DEF ConnectionLost
    <3> QED BY <3>1, <3>2
  <2>4. connected' \in BOOLEAN
    BY <1>12 DEF ConnectionLost
  <2>3. UNCHANGED <<state, error_code, fb_transid_type_map_, fb_transid_result_map_, callVars,
                    reportVars, robot, over, moves, orders, historyVars>>
    BY <1>12 DEF ConnectionLost
  <2> QED BY <2>1, <2>2, <2>3, <2>4 DEF TypeOK, callVars, reportVars, historyVars
<1>13. CASE UNCHANGED vars
  BY <1>13 DEF TypeOK, vars, wrapperVars, callVars, reportVars, robotVars, boundVars, historyVars
<1> QED BY <1>1, <1>2, <1>3, <1>4, <1>5, <1>6, <1>7, <1>8, <1>9, <1>10, <1>11, <1>12, <1>13 DEF Next

(* Only a return takes a caller's number away, and it leaves the call. *)
LEMMA CallStep == TypeOK /\ CallInv /\ [Next]_vars => CallInv'
<1> SUFFICES ASSUME TypeOK, CallInv, [Next]_vars PROVE CallInv'
  OBVIOUS
<1> USE WrapperAssumption DEF CallInv, Asked, Goes
<1>1. ASSUME NEW c \in Callers, SetPosition(c) PROVE CallInv'
  BY <1>1 DEF TypeOK, SetPosition
<1>2. ASSUME NEW c \in Callers, Proceed(c) PROVE CallInv'
  <2>1. CASE WaitUntilNotPause(c)
    BY <2>1 DEF TypeOK, WaitUntilNotPause
  <2>2. CASE Send(c)
    <3>1. PICK id \in FreeIds : call' = [call EXCEPT ![c].id = id]
      BY <2>2 DEF Send
    <3>2. \A d \in Callers : call'[d].no = call[d].no
      BY <3>1 DEF TypeOK, Calls
    <3> QED BY <2>2, <3>2 DEF TypeOK, Send
  <2>3. CASE WaitFeedback(c)
    BY <2>3 DEF TypeOK, WaitFeedback
  <2>4. CASE PollAgain(c)
    BY <2>4 DEF TypeOK, PollAgain
  <2>5. CASE GetState(c)
    BY <2>5 DEF TypeOK, GetState
  <2>6. CASE \E from, code : Returns(c, from, code)
    BY <2>6 DEF TypeOK, Returns
  <2> QED BY <1>2, <2>1, <2>2, <2>3, <2>4, <2>5, <2>6
          DEF Proceed, SendNotConnected, SendRefused, WaitFails, PollDisconnected, PollStopped, PollResult
<1>3. ASSUME NEW c \in Callers, WaitTimesOut(c) PROVE CallInv'
  BY <1>3 DEF TypeOK, WaitTimesOut, Returns
<1>4. ASSUME NEW c \in Callers, Order(c) PROVE CallInv'
  BY <1>4 DEF TypeOK, Order
<1>5. ASSUME NotifyAll PROVE CallInv'
  BY <1>5 DEF TypeOK, NotifyAll
<1>6. ASSUME UNCHANGED callVars PROVE CallInv'
  BY <1>6 DEF callVars
<1> QED BY <1>1, <1>2, <1>3, <1>4, <1>5, <1>6
        DEF Next, Reporter, ReadReport, UpdateState, UpdateError, FeedbackCallback, RobotEndsMove,
            RobotFails, ConnectionLost, SetStatePause, SetStateStop, SetStateStart, CleanError, vars

-----------------------------------------------------------------------------
(* The way of a move: from the robot to a feedback, when it is over, from    *)
(* there to the map, and from the map to the caller of that id.              *)
Flow ==
  /\ over \subseteq over'
  /\ Range(robot'.queue) \subseteq Range(robot.queue)
  /\ \A m \in Range(feedbacks') :
       m \in Range(feedbacks) \/ (m \in Range(robot.queue) /\ m.no \in over')
  /\ \A i \in DOMAIN fb_transid_result_map_' :
       \/ i \in DOMAIN fb_transid_result_map_
          /\ fb_transid_result_map_'[i] = fb_transid_result_map_[i]
       \/ \E m \in Range(feedbacks) : m.id = i /\ m.no = fb_transid_result_map_'[i]
  /\ \A c \in Callers : call'[c].id # 0 => call'[c] = call[c]
  /\ \A k \in succeeded' :
       \/ k \in succeeded
       \/ \E c \in Callers : call[c].id \in DOMAIN fb_transid_result_map_ /\ call[c].no = k

(* A discarded move is over, told or not. *)
LEMMA DiscardFlow ==
  ASSUME TypeOK, Discard(robot.queue)
  PROVE  /\ over \subseteq over'
         /\ \A m \in Range(feedbacks') :
              m \in Range(feedbacks) \/ (m \in Range(robot.queue) /\ m.no \in over')
<1>1. robot.queue \in Seq(Moves) /\ feedbacks \in Seq(Moves) /\ <<>> \in Seq(Moves)
  BY DEF TypeOK
<1>2. over' = over \cup {m.no : m \in Range(robot.queue)}
  BY DEF Discard
<1>3. Range(feedbacks') \subseteq Range(feedbacks) \cup Range(robot.queue)
  <2>1. /\ Range(feedbacks \o robot.queue) \subseteq Range(feedbacks) \cup Range(robot.queue)
        /\ Range(feedbacks \o <<>>) \subseteq Range(feedbacks) \cup Range(<<>>)
    BY <1>1, RangeConcat
  <2> QED BY <2>1, RangeEmpty DEF Discard, Tell
<1> QED BY <1>2, <1>3

(* Every step but a send moves what there is along that way. *)
LEMMA FlowStep ==
  TypeOK /\ [Next]_vars => Flow \/ \E c \in Callers : Send(c)
<1> SUFFICES ASSUME TypeOK, [Next]_vars, ~ \E c \in Callers : Send(c) PROVE Flow
  OBVIOUS
<1> DEFINE SameMoves   == UNCHANGED <<robot, feedbacks, over>>
           SameResults == UNCHANGED fb_transid_result_map_
           SameCalls   == \A c \in Callers : call'[c].id # 0 => call'[c] = call[c]
<1>1. ASSUME SameMoves, SameResults, SameCalls, succeeded' = succeeded PROVE Flow
  BY <1>1 DEF Flow
<1>2. ASSUME NEW c \in Callers, NEW from, NEW code, Returns(c, from, code)
      PROVE  SameCalls /\ (code # "ok" => succeeded' = succeeded)
  BY <1>2 DEF TypeOK, Returns, NoCall
<1>3. ASSUME NEW c \in Callers, SetPosition(c) PROVE Flow
  <2>1. SameCalls
    BY <1>3 DEF TypeOK, SetPosition
  <2> QED BY <1>1, <1>3, <2>1 DEF SetPosition, wrapperVars, robotVars, historyVars
<1>4. ASSUME NEW c \in Callers, Proceed(c) PROVE Flow
  <2>1. CASE WaitUntilNotPause(c) \/ WaitFeedback(c) \/ PollAgain(c) \/ GetState(c)
    BY <1>1, <2>1 DEF WaitUntilNotPause, WaitFeedback, PollAgain, GetState, wrapperVars, robotVars, historyVars
  <2>2. CASE SendNotConnected(c) \/ PollDisconnected(c)
    BY <1>1, <1>2, <2>2 DEF SendNotConnected, PollDisconnected, wrapperVars, robotVars
  <2>3. CASE SendRefused(c)
    <3>1. \A i \in DOMAIN fb_transid_result_map_' :
            i \in DOMAIN fb_transid_result_map_ /\ fb_transid_result_map_'[i] = fb_transid_result_map_[i]
      BY <2>3 DEF SendRefused, SetFeedbackKeyTransid, Forget, Restrict
    <3>2. SameCalls /\ succeeded' = succeeded /\ SameMoves
      BY <1>2, <2>3 DEF SendRefused, robotVars
    <3> QED BY <3>1, <3>2 DEF Flow
  <2>4. CASE WaitFails(c) \/ PollStopped(c)
    <3>1. DOMAIN fb_transid_result_map_' = {}
      BY <2>4 DEF WaitFails, PollStopped, ClearResults
    <3>2. SameCalls /\ succeeded' = succeeded /\ SameMoves
      BY <1>2, <2>4 DEF WaitFails, PollStopped, robotVars
    <3> QED BY <3>1, <3>2 DEF Flow
  <2>5. CASE PollResult(c)
    <3>1. \A i \in DOMAIN fb_transid_result_map_' :
            i \in DOMAIN fb_transid_result_map_ /\ fb_transid_result_map_'[i] = fb_transid_result_map_[i]
      BY <2>5 DEF PollResult, Forget, Restrict
    <3>2. SameCalls /\ SameMoves
      BY <1>2, <2>5 DEF PollResult, robotVars
    <3>3. succeeded' = succeeded \cup {call[c].no} /\ call[c].id \in DOMAIN fb_transid_result_map_
      BY <2>5 DEF PollResult, Returns
    <3> QED BY <3>1, <3>2, <3>3 DEF Flow
  <2> QED BY <1>4, <2>1, <2>2, <2>3, <2>4, <2>5 DEF Proceed
<1>5. ASSUME NEW c \in Callers, WaitTimesOut(c) PROVE Flow
  BY <1>1, <1>2, <1>5 DEF WaitTimesOut, wrapperVars, robotVars
<1>6. ASSUME NEW c \in Callers, SetStatePause(c) \/ SetStateStart(c) \/ CleanError(c) PROVE Flow
  <2>1. robot'.queue = robot.queue
    BY <1>6 DEF TypeOK, SetStatePause, SetStateStart, CleanError
  <2>2. UNCHANGED <<feedbacks, over, fb_transid_result_map_, call, succeeded>>
    BY <1>6 DEF SetStatePause, SetStateStart, CleanError, Order, Overlooked, wrapperVars, historyVars
  <2> QED BY <2>1, <2>2 DEF Flow
<1>7. ASSUME NEW c \in Callers, SetStateStop(c) PROVE Flow
  <2>1. robot'.queue = <<>>
    BY <1>7 DEF TypeOK, SetStateStop
  <2>2. UNCHANGED <<fb_transid_result_map_, call, succeeded>>
    BY <1>7 DEF SetStateStop, Order, wrapperVars, historyVars
  <2> QED BY <1>7, <2>1, <2>2, DiscardFlow, RangeEmpty DEF Flow, SetStateStop
<1>8. CASE Reporter
  BY <1>1, <1>8 DEF Reporter, ReadReport, UpdateState, NotifyAll, UpdateError, wrapperVars, callVars, robotVars, historyVars
<1>9. CASE FeedbackCallback
  <2>1. Head(feedbacks) \in Range(feedbacks) /\ Range(feedbacks') \subseteq Range(feedbacks)
    BY <1>9, RangeHeadTail DEF TypeOK, FeedbackCallback
  <2>2. UNCHANGED <<robot, over, call, succeeded>>
    BY <1>9 DEF FeedbackCallback, callVars, historyVars
  <2>3. \A i \in DOMAIN fb_transid_result_map_' :
          \/ i \in DOMAIN fb_transid_result_map_
             /\ fb_transid_result_map_'[i] = fb_transid_result_map_[i]
          \/ Head(feedbacks).id = i /\ Head(feedbacks).no = fb_transid_result_map_'[i]
    BY <1>9 DEF FeedbackCallback
  <2> QED BY <2>1, <2>2, <2>3 DEF Flow
<1>10. CASE RobotEndsMove
  <2>1. /\ Head(robot.queue) \in Range(robot.queue) /\ Head(robot.queue) \in Moves
        /\ Range(Tail(robot.queue)) \subseteq Range(robot.queue)
    BY <1>10, RangeHeadTail DEF TypeOK, RobotEndsMove
  <2>2. robot'.queue = Tail(robot.queue)
    BY <1>10 DEF TypeOK, RobotEndsMove
  <2>3. over' = over \cup {Head(robot.queue).no}
    BY <1>10 DEF RobotEndsMove
  <2>4. Range(feedbacks') \subseteq Range(feedbacks) \cup {Head(robot.queue)}
    <3>1. feedbacks \in Seq(Moves) /\ <<Head(robot.queue)>> \in Seq(Moves)
      BY <2>1 DEF TypeOK
    <3>2. Range(feedbacks \o <<Head(robot.queue)>>)
            \subseteq Range(feedbacks) \cup Range(<<Head(robot.queue)>>)
      BY <3>1, RangeConcat
    <3>3. Range(<<Head(robot.queue)>>) = {Head(robot.queue)}
      BY DEF Range
    <3> QED BY <1>10, <3>2, <3>3, RangeEmpty DEF RobotEndsMove, Tell
  <2>5. UNCHANGED <<fb_transid_result_map_, call, succeeded>>
    BY <1>10 DEF RobotEndsMove, wrapperVars, callVars, historyVars
  <2> QED BY <2>1, <2>2, <2>3, <2>4, <2>5 DEF Flow
<1>11. CASE RobotFails
  <2>1. robot'.queue = <<>>
    BY <1>11 DEF RobotFails
  <2>2. UNCHANGED <<fb_transid_result_map_, call, succeeded>>
    BY <1>11 DEF RobotFails, wrapperVars, callVars, historyVars
  <2> QED BY <1>11, <2>1, <2>2, DiscardFlow, RangeEmpty DEF Flow, RobotFails
<1>12. CASE ConnectionLost
  <2>1. feedbacks' = <<>> /\ UNCHANGED <<robot, over, fb_transid_result_map_, call, succeeded>>
    BY <1>12 DEF ConnectionLost, callVars, historyVars
  <2> QED BY <2>1, RangeEmpty DEF Flow
<1>13. CASE UNCHANGED vars
  BY <1>1, <1>13 DEF vars, wrapperVars, callVars, robotVars, historyVars
<1> QED BY <1>3, <1>4, <1>5, <1>6, <1>7, <1>8, <1>9, <1>10, <1>11, <1>12, <1>13 DEF Next

(* Along the way the number stays with the id. *)
LEMMA FlowKeeps ==
  ASSUME TypeOK, OwnInv, Flow
  PROVE  OwnInv'
<1> USE WrapperAssumption
<1>1. \A m \in Range(robot.queue) \cup Range(feedbacks) : m.id # 0
  <2>1. robot.queue \in Seq(Moves) /\ feedbacks \in Seq(Moves)
    BY DEF TypeOK
  <2>2. Range(robot.queue) \subseteq Moves /\ Range(feedbacks) \subseteq Moves
    BY <2>1, RangeOfSeq
  <2> QED BY <2>2 DEF Moves
<1>2. 0 \notin DOMAIN fb_transid_result_map_
  BY DEF TypeOK
<1>3. IdInv'
  BY DEF OwnInv, IdInv, Flow
<1>4. QueueInv'
  BY <1>1 DEF OwnInv, QueueInv, OwnMove, Flow
<1>5. FeedbackInv'
  BY <1>1 DEF OwnInv, QueueInv, FeedbackInv, OwnMove, Flow
<1>6. ResultInv'
  <2> SUFFICES ASSUME NEW c \in Callers, call'[c].id \in DOMAIN fb_transid_result_map_'
               PROVE  fb_transid_result_map_'[call'[c].id] = call'[c].no
    BY DEF ResultInv
  <2>1. call'[c].id # 0
    BY <1>1, <1>2 DEF Flow
  <2>2. call'[c] = call[c]
    BY <2>1 DEF Flow
  <2>3. CASE /\ call[c].id \in DOMAIN fb_transid_result_map_
             /\ fb_transid_result_map_'[call[c].id] = fb_transid_result_map_[call[c].id]
    BY <2>2, <2>3 DEF OwnInv, ResultInv
  <2>4. CASE \E m \in Range(feedbacks) : m.id = call[c].id /\ m.no = fb_transid_result_map_'[call[c].id]
    BY <2>2, <2>4 DEF OwnInv, FeedbackInv, OwnMove
  <2> QED BY <2>2, <2>3, <2>4 DEF Flow
<1>7. OverInv'
  <2>1. \A m \in Range(feedbacks') : m.no \in over'
    BY DEF OwnInv, OverInv, Flow
  <2>2. \A i \in DOMAIN fb_transid_result_map_' : fb_transid_result_map_'[i] \in over'
    BY DEF OwnInv, OverInv, Flow, Range
  <2> QED BY <2>1, <2>2 DEF OverInv, Range
<1>8. OwnFeedback'
  BY DEF OwnInv, ResultInv, OverInv, OwnFeedback, Flow, Range
<1> QED BY <1>3, <1>4, <1>5, <1>6, <1>7, <1>8 DEF OwnInv

(* A send takes an id that nothing goes by, and clears what the map holds   *)
(* under it.                                                                *)
LEMMA SendKeeps ==
  ASSUME TypeOK, CallInv, OwnInv, NEW c \in Callers, Send(c)
  PROVE  OwnInv'
<1> USE WrapperAssumption
<1>1. PICK id \in FreeIds :
        /\ SetFeedbackKeyTransid(id)
        /\ call' = [call EXCEPT ![c].id = id]
        /\ robot' = [robot EXCEPT !.queue = Append(@, [id |-> id, no |-> call[c].no])]
  BY DEF Send
<1>2. UNCHANGED <<feedbacks, over, succeeded>>
  BY DEF Send, historyVars
<1>3. /\ call'[c].id = id /\ call'[c].no = call[c].no
      /\ \A d \in Callers \ {c} : call'[d] = call[d]
  BY <1>1 DEF TypeOK, Calls
<1>4. /\ id \in TransIds
      /\ \A m \in Range(robot.queue) \cup Range(feedbacks) : m.id # id
      /\ \A d \in Callers : call[d].id # id
  BY DEF FreeIds
<1>5. Range(robot'.queue) = Range(robot.queue) \cup {[id |-> id, no |-> call[c].no]}
  <2>1. [id |-> id, no |-> call[c].no] \in Moves
    BY <1>4 DEF TypeOK, CallInv, Asked, Send, Goes, Calls, Moves
  <2>2. robot'.queue = Append(robot.queue, [id |-> id, no |-> call[c].no])
    BY <1>1 DEF TypeOK
  <2> QED BY <2>1, <2>2, RangeAppend DEF TypeOK
<1>6. /\ DOMAIN fb_transid_result_map_' = DOMAIN fb_transid_result_map_ \ {id}
      /\ \A i \in DOMAIN fb_transid_result_map_' :
           fb_transid_result_map_'[i] = fb_transid_result_map_[i]
  BY <1>1 DEF SetFeedbackKeyTransid, Forget, Restrict
<1>7. IdInv'
  BY <1>3, <1>4 DEF OwnInv, IdInv
<1>8. QueueInv'
  BY <1>3, <1>4, <1>5 DEF OwnInv, QueueInv, OwnMove
<1>9. FeedbackInv'
  BY <1>2, <1>3, <1>4 DEF OwnInv, FeedbackInv, OwnMove
<1>10. ResultInv'
  BY <1>3, <1>6 DEF OwnInv, ResultInv
<1>11. OverInv'
  <2>1. Range(fb_transid_result_map_') \subseteq Range(fb_transid_result_map_)
    BY <1>6 DEF Range
  <2> QED BY <1>2, <2>1 DEF OwnInv, OverInv
<1>12. OwnFeedback'
  BY <1>2 DEF OwnInv, OwnFeedback
<1> QED BY <1>7, <1>8, <1>9, <1>10, <1>11, <1>12 DEF OwnInv

-----------------------------------------------------------------------------
(* The invariant. *)
LEMMA WInit == Init => WInv
<1> SUFFICES ASSUME Init PROVE WInv
  OBVIOUS
<1> USE WrapperAssumption
<1>1. TypeOK
  <2>1. call \in [Callers -> Calls]
    BY DEF Init, NoCall, Calls
  <2>2. report \in [state : States, error : BOOLEAN] /\ state \in States
    BY DEF Init, States
  <2>3. robot \in [state : States, error : BOOLEAN, queue : Seq(Moves)] /\ feedbacks \in Seq(Moves)
    <3>1. <<>> \in Seq(Moves) /\ Ready \in States
      BY DEF States
    <3> QED BY <3>1 DEF Init
  <2>4. /\ DOMAIN fb_transid_result_map_ = {}
        /\ Range(fb_transid_result_map_) = {}
    BY RangeEmpty DEF Init
  <2>5. connected \in BOOLEAN /\ error_code \in BOOLEAN
    BY DEF Init
  <2>6. pc \in [Callers -> {"idle", "lock", "paused", "send", "wait", "poll", "refresh"}]
    BY DEF Init
  <2>7. /\ moves \in 0 .. MaxMoves /\ orders \in 0 .. MaxOrders /\ faults \in 0 .. MaxFaults
        /\ over \subseteq 1 .. MaxMoves /\ succeeded \subseteq 1 .. MaxMoves
        /\ forsaken \subseteq Callers /\ fb_transid_type_map_ \subseteq TransIds
        /\ reporter \in {"read", "state", "notify", "error"}
    BY DEF Init
  <2> QED BY <2>1, <2>2, <2>3, <2>4, <2>5, <2>6, <2>7 DEF TypeOK
<1>2. CallInv
  BY DEF Init, CallInv, Asked
<1>3. OwnInv
  <2>1. /\ Range(robot.queue) = {} /\ Range(feedbacks) = {}
        /\ DOMAIN fb_transid_result_map_ = {} /\ Range(fb_transid_result_map_) = {}
    BY RangeEmpty DEF Init
  <2>2. \A c \in Callers : call[c].id = 0
    BY DEF Init, NoCall
  <2> QED BY <2>1, <2>2 DEF Init, OwnInv, IdInv, QueueInv, FeedbackInv, ResultInv, OverInv, OwnFeedback
<1> QED BY <1>1, <1>2, <1>3 DEF WInv

LEMMA WInductive == Spec => []WInv
<1>1. ASSUME WInv, [Next]_vars PROVE WInv'
  <2>1. TypeOK'
    BY <1>1, TypeStep DEF WInv
  <2>2. CallInv'
    BY <1>1, CallStep DEF WInv
  <2>3. OwnInv'
    BY <1>1, FlowStep, FlowKeeps, SendKeeps DEF WInv
  <2> QED BY <2>1, <2>2, <2>3 DEF WInv
<1> QED BY <1>1, WInit, PTL DEF Spec

(* Every variable has its type: the wrapper's, the callers', and what the   *)
(* robot and the socket hold.                                               *)
THEOREM WrapperTypeCorrect == Spec => []TypeOK
<1>1. WInv => TypeOK
  BY DEF WInv
<1> QED BY <1>1, WInductive, PTL

(* A call that returns success had its own move ended or discarded, however *)
(* many callers share the map of the results and clear it, and whatever was *)
(* left in it under an id that is used again.                               *)
THEOREM OwnFeedbackHolds == Spec => []OwnFeedback
<1>1. WInv => OwnFeedback
  BY DEF WInv, OwnInv
<1> QED BY <1>1, WInductive, PTL
=============================================================================
