---------------------------- MODULE CommandBus ----------------------------
(***************************************************************************)
(* Commands over the control port: the threads of the process call         *)
(* UxbusCmd, which sends one request at a time under its mutex and polls   *)
(* the receive queue for the answer with the same transaction id; the      *)
(* thread of SocketPort reads frames off the socket and pushes them.  The  *)
(* controller (external) answers in order, late, or not at all; the        *)
(* connection to it may end.                                               *)
(*                                                                         *)
(* A command that wants a feedback is three requests: the feedback type is *)
(* widened, the command is sent, the type is set back.                     *)
(***************************************************************************)
EXTENDS QueueMemcpy

CONSTANTS Clients,     \* the threads that send commands
          NoOne,
          MaxId,       \* TRANSACTION_ID_MAX (65535 in the code)
          MaxRequests  \* bound: requests sent in a behaviour

ASSUME BusAssumption ==
  /\ NoOne \notin Clients
  /\ MaxId \in Nat \ 0 .. 2   \* the requests of one command have different ids
  /\ MaxRequests \in Nat

VARIABLES
  mutex_,          \* of UxbusCmd: who holds it
  transaction_id_,
  state_,          \* of SocketPort: 0, or -1 once it is closed
  pc, todo,        \* per client: where it is, the requests it still has to send
  sent,            \* per client: its last request
  filed,           \* per client: the id under which its feedback key is filed
  answer,          \* per client: the frame it took for the answer, or Blank
  wire,            \* requests the controller has not handled
  stream,          \* answers in the socket
  lost,            \* the connection was closed by the controller, or failed
  hand,            \* the frame recv_proc is about to push, or Blank
  requests,        \* requests sent so far
  fifo,            \* history: frames pushed since the last flush and not popped
  raced,           \* history: that flush overlapped a push
  timeouts         \* history: requests given up

clientVars == <<pc, todo, sent, filed, answer>>
vars == <<queueVars, clientVars, mutex_, transaction_id_, state_, wire, stream, lost, hand,
          requests, fifo, raced, timeouts>>

Ids    == 1 .. MaxId
Frames == [id : 0 .. MaxId, no : 0 .. MaxRequests, whole : BOOLEAN]
Flush  == {"flush_cnt", "flush_head", "flush_tail", "flush_buf"}
Pc     == Flush \cup {"idle", "next", "write", "recv"}

TypeOK ==
  /\ QueueTypeOK(Frames)
  /\ mutex_ \in Clients \cup {NoOne}
  /\ transaction_id_ \in Ids
  /\ state_ \in {0, -1}
  /\ pc \in [Clients -> Pc]
  /\ todo \in [Clients -> Seq({"type", "filed", "plain"})]
  /\ sent \in [Clients -> Frames]
  /\ filed \in [Clients -> 0 .. MaxId]
  /\ answer \in [Clients -> Frames]
  /\ wire \in Seq(Frames)
  /\ stream \in Seq(Frames)
  /\ lost \in BOOLEAN
  /\ hand \in Frames
  /\ requests \in 0 .. MaxRequests
  /\ fifo \in Seq(Frames)
  /\ raced \in BOOLEAN
  /\ timeouts \in 0 .. MaxRequests

Init ==
  /\ QueueInit
  /\ mutex_ = NoOne
  /\ transaction_id_ = 1
  /\ state_ = 0
  /\ pc = [c \in Clients |-> "idle"]
  /\ todo = [c \in Clients |-> <<>>]
  /\ sent = [c \in Clients |-> Blank]
  /\ filed = [c \in Clients |-> 0]
  /\ answer = [c \in Clients |-> Blank]
  /\ wire = <<>>
  /\ stream = <<>>
  /\ lost = FALSE
  /\ hand = Blank
  /\ requests = 0
  /\ fifo = <<>>
  /\ raced = FALSE
  /\ timeouts = 0

Goes(c, from, to) == pc[c] = from /\ pc' = [pc EXCEPT ![c] = to]

-----------------------------------------------------------------------------
(* A client: UxbusCmd and UxbusCmdTcp. *)

\* Frames that a flush from now on does not remove.
OnItsWay == {wire[i] : i \in DOMAIN wire} \cup {stream[i] : i \in DOMAIN stream} \cup {hand}

\* The ids of the next n requests; 65535 requests do not fit between two threads
\* and a controller, so no frame that is still on its way has one of them.
NextIds(n) == {((transaction_id_ + i - 1) % MaxId) + 1 : i \in 0 .. n - 1}
IdsFree(n) == \A f \in OnItsWay : f.id \notin NextIds(n)

\* Mutant: the feedback key is filed before the feedback type is sent.
LockFilesEarly(c, work) ==
  /\ mutex_ = NoOne
  /\ requests + Len(work) <= MaxRequests /\ IdsFree(Len(work))
  /\ mutex_' = c
  /\ Goes(c, "idle", "next")
  /\ todo' = [todo EXCEPT ![c] = [i \in 1 .. Len(work) |-> IF work[i] = "filed" THEN "plain"
                                                          ELSE work[i]]]
  /\ filed' = [filed EXCEPT ![c] = transaction_id_]
  /\ UNCHANGED <<queueVars, sent, answer, transaction_id_, state_, wire, stream, lost, hand,
                 requests, fifo, raced, timeouts>>

\* A command takes the mutex.  Its requests: the command alone, or, when it
\* wants a feedback that is not switched on, with the type around it.
Lock(c, work) ==
  /\ mutex_ = NoOne
  /\ requests + Len(work) <= MaxRequests /\ IdsFree(Len(work))
  /\ mutex_' = c
  /\ Goes(c, "idle", "next")
  /\ todo' = [todo EXCEPT ![c] = work]
  /\ UNCHANGED <<queueVars, sent, filed, answer, transaction_id_, state_, wire, stream,
                 lost, hand, requests, fifo, raced, timeouts>>

\* Before a command is sent its feedback key is filed under the id it will have.
NextRequest(c) ==
  /\ todo[c] # <<>>
  /\ Goes(c, "next", "flush_cnt")
  /\ filed' = IF Head(todo[c]) = "filed" THEN [filed EXCEPT ![c] = transaction_id_] ELSE filed
  /\ UNCHANGED <<queueVars, todo, sent, answer, mutex_, transaction_id_, state_, wire,
                 stream, lost, hand, requests, fifo, raced, timeouts>>

\* The command returns: its locals and the lock_guard leave their scope.
Unlock(c) ==
  /\ todo[c] = <<>>
  /\ Goes(c, "next", "idle")
  /\ mutex_' = NoOne
  /\ sent' = [sent EXCEPT ![c] = Blank]
  /\ answer' = [answer EXCEPT ![c] = Blank]
  /\ filed' = [filed EXCEPT ![c] = 0]
  /\ UNCHANGED <<queueVars, todo, transaction_id_, state_, wire, stream, lost, hand,
                 requests, fifo, raced, timeouts>>

\* One assignment of flush.
FlushStep(c) ==
  /\ \/ Goes(c, "flush_cnt", "flush_head") /\ FlushCnt
     \/ Goes(c, "flush_head", "flush_tail") /\ FlushHead
     \/ Goes(c, "flush_tail", "flush_buf") /\ FlushTail
     \/ Goes(c, "flush_buf", "write") /\ FlushBuf
  /\ raced' = (pushing.step # "no" \/ (raced /\ pc[c] # "flush_cnt"))
  /\ fifo' = <<>>
  /\ UNCHANGED <<todo, sent, filed, answer, mutex_, transaction_id_, state_, wire, stream,
                 lost, hand, requests, timeouts>>

\* Mutant: the transaction id is counted on past its maximum.
WriteIdUnwrapped(c) ==
  /\ state_ = 0
  /\ Goes(c, "write", "recv")
  /\ sent' = [sent EXCEPT ![c] = [id |-> transaction_id_, no |-> requests + 1, whole |-> TRUE]]
  /\ answer' = [answer EXCEPT ![c] = Blank]
  /\ wire' = Append(wire, sent'[c])
  /\ requests' = requests + 1
  /\ transaction_id_' = transaction_id_ + 1
  /\ UNCHANGED <<queueVars, todo, filed, mutex_, state_, stream, lost, hand, fifo, raced,
                 timeouts>>

\* The request goes out.
Write(c) ==
  /\ state_ = 0
  /\ Goes(c, "write", "recv")
  /\ sent' = [sent EXCEPT ![c] = [id |-> transaction_id_, no |-> requests + 1, whole |-> TRUE]]
  /\ answer' = [answer EXCEPT ![c] = Blank]
  /\ wire' = Append(wire, sent'[c])
  /\ requests' = requests + 1
  /\ transaction_id_' = (transaction_id_ % MaxId) + 1
  /\ UNCHANGED <<queueVars, todo, filed, mutex_, state_, stream, lost, hand, fifo, raced,
                 timeouts>>

\* The socket is closed or the connection is gone: ERR_NOTTCP, and what was left
\* to do is left undone unless it was only the feedback type.
WriteFails(c) ==
  /\ state_ = -1 \/ lost
  /\ Goes(c, "write", "next")
  /\ todo' = [todo EXCEPT ![c] = IF Head(@) = "type" THEN Tail(@) ELSE <<>>]
  /\ UNCHANGED <<queueVars, sent, filed, answer, mutex_, transaction_id_, state_, wire,
                 stream, lost, hand, requests, fifo, raced, timeouts>>

\* Mutant: any frame is taken for the answer.
ReceiveAny(c) ==
  /\ state_ = 0
  /\ Pop
  /\ fifo' = IF fifo = <<>> THEN <<>> ELSE Tail(fifo)
  /\ Goes(c, "recv", "next")
  /\ answer' = [answer EXCEPT ![c] = Front]
  /\ todo' = [todo EXCEPT ![c] = Tail(@)]
  /\ UNCHANGED <<sent, filed, mutex_, transaction_id_, state_, wire, stream, lost, hand,
                 requests, raced, timeouts>>

\* A frame is popped; with another transaction id it is forgotten.
Receive(c) ==
  /\ state_ = 0
  /\ Pop
  /\ fifo' = IF fifo = <<>> THEN <<>> ELSE Tail(fifo)
  /\ IF Front.id = sent[c].id
     THEN /\ Goes(c, "recv", "next")
          /\ answer' = [answer EXCEPT ![c] = Front]
          /\ todo' = [todo EXCEPT ![c] = Tail(@)]
     ELSE pc[c] = "recv" /\ UNCHANGED <<pc, answer, todo>>
  /\ UNCHANGED <<sent, filed, mutex_, transaction_id_, state_, wire, stream, lost, hand,
                 requests, raced, timeouts>>

\* Mutant: the poll has no end.
TimesOutNever(c) ==
  /\ pc[c] = "recv"
  /\ UNCHANGED vars

\* ERR_TOUT; the next request of the command is sent all the same.
TimesOut(c) ==
  /\ Goes(c, "recv", "next")
  /\ todo' = [todo EXCEPT ![c] = Tail(@)]
  /\ timeouts' = timeouts + 1
  /\ UNCHANGED <<queueVars, sent, filed, answer, mutex_, transaction_id_, state_, wire,
                 stream, lost, hand, requests, fifo, raced>>

-----------------------------------------------------------------------------
(* The receiving thread: recv_proc. *)

TakeFrame ==
  /\ state_ = 0
  /\ hand = Blank
  /\ stream # <<>>
  /\ hand' = Head(stream)
  /\ stream' = Tail(stream)
  /\ UNCHANGED <<queueVars, clientVars, mutex_, transaction_id_, state_, wire, lost,
                 requests, fifo, raced, timeouts>>

\* recv returns 0 or an error that is not to be ignored: the port is closed.
RecvFails ==
  /\ state_ = 0
  /\ hand = Blank
  /\ lost
  /\ state_' = -1
  /\ UNCHANGED <<queueVars, clientVars, mutex_, transaction_id_, wire, stream, lost, hand,
                 requests, fifo, raced, timeouts>>

Flushing == \E c \in Clients : pc[c] \in Flush \ {"flush_cnt"}

\* A step of push; the last one frees the hand.
Push ==
  /\ hand # Blank
  /\ \/ PushCopy(hand) /\ raced' = (raced \/ Flushing) /\ UNCHANGED <<hand, fifo>>
     \/ PushHead /\ UNCHANGED <<hand, fifo, raced>>
     \/ PushCnt /\ hand' = Blank /\ fifo' = Append(fifo, hand) /\ UNCHANGED raced
  /\ UNCHANGED <<clientVars, mutex_, transaction_id_, state_, wire, stream, lost, requests,
                 timeouts>>

\* 1500 times the queue was full: the port is closed.
GiveUp ==
  /\ state_ = 0
  /\ hand # Blank
  /\ pushing.step = "no"
  /\ IsFull
  /\ state_' = -1
  /\ hand' = Blank
  /\ UNCHANGED <<queueVars, clientVars, mutex_, transaction_id_, wire, stream, lost,
                 requests, fifo, raced, timeouts>>

-----------------------------------------------------------------------------
(* The controller and the network. *)

\* The oldest request is handled, with or without an answer.
Handles(answers) ==
  /\ answers => ~lost
  /\ wire # <<>>
  /\ wire' = Tail(wire)
  /\ stream' = IF answers THEN Append(stream, Head(wire)) ELSE stream
  /\ UNCHANGED <<queueVars, clientVars, mutex_, transaction_id_, state_, lost, hand,
                 requests, fifo, raced, timeouts>>

\* The controller closes the connection, or the network gives it up.
ConnectionEnds ==
  /\ ~lost
  /\ lost' = TRUE
  /\ UNCHANGED <<queueVars, clientVars, mutex_, transaction_id_, state_, wire, stream, hand,
                 requests, fifo, raced, timeouts>>

-----------------------------------------------------------------------------
Works == {<<"plain">>, <<"filed">>, <<"type", "filed", "type">>}

Running(c) ==
  \/ NextRequest(c)
  \/ Unlock(c)
  \/ FlushStep(c)
  \/ Write(c)
  \/ WriteFails(c)
  \/ Receive(c)
  \/ TimesOut(c)

Receiver == TakeFrame \/ RecvFails \/ Push \/ GiveUp

Controller == \E answers \in BOOLEAN : Handles(answers)

Next ==
  \/ \E c \in Clients, work \in Works : Lock(c, work)
  \/ \E c \in Clients : Running(c)
  \/ Receiver
  \/ Controller
  \/ ConnectionEnds

\* Clocks and threads run, and the network delivers; nobody has to send commands.
Spec ==
  /\ Init /\ [][Next]_vars
  /\ \A c \in Clients : WF_vars(Running(c))
  /\ WF_vars(Receiver)
  /\ WF_vars(Controller)

-----------------------------------------------------------------------------
(* Properties *)

\* What a command takes for its answer is the whole answer to its own request,
\* however late the answers to earlier ones come.
OwnAnswer ==
  \A c \in Clients : answer[c] # Blank => answer[c] = sent[c]

\* The feedback of a command is awaited under the id the command was sent with.
FiledUnderOwnId ==
  \A c \in Clients :
    pc[c] = "recv" /\ Head(todo[c]) # "type" /\ filed[c] # 0 => filed[c] = sent[c].id

\* As long as no push overlapped the last flush, the ring is a first-in
\* first-out queue of the frames pushed since.
RingIsFifo ==
  ~raced /\ pushing.step = "no" /\ ~Flushing => Contents = fifo

\* While the connection stands, the receiver closes the port only after as many
\* requests were given up as the queue holds frames: one slow answer costs nobody
\* the connection.
PortSurvives == state_ = -1 => lost \/ timeouts >= Total

\* Every command returns.
CommandsReturn == \A c \in Clients : mutex_ = c ~> mutex_ # c
=============================================================================
