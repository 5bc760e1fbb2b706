---------------------------- MODULE QueueMemcpy ----------------------------
(***************************************************************************)
(* The ring of queue_memcpy.cc between the thread that receives frames and *)
(* the thread that runs a command.  push and pop take the queue's mutex;   *)
(* flush, which runs before every command, takes none, so its four         *)
(* assignments interleave with those of push.  pop and flush are called by *)
(* the same thread, hence pop is one step.                                 *)
(*                                                                         *)
(* The operators are the bodies of the methods, to be conjoined with the   *)
(* program counter of the thread that calls them.                          *)
(***************************************************************************)
EXTENDS Integers, Sequences

CONSTANT Total    \* number of nodes (3 for the command port)

ASSUME TotalAssumption == Total \in Nat \ {0}

Nodes == 0 .. Total - 1

\* A node of zeros.
Blank == [id |-> 0, no |-> 0, whole |-> TRUE]

VARIABLES
  buf_, cnt_, head_, tail_,
  pushing    \* how far push is, and what it read of cnt_ and head_

queueVars == <<buf_, cnt_, head_, tail_, pushing>>

NotPushing == [step |-> "no", at |-> 0, cnt |-> 0]
Zeros      == [i \in Nodes |-> Blank]

QueueInit ==
  /\ buf_ = Zeros
  /\ cnt_ = 0
  /\ head_ = 0
  /\ tail_ = 0
  /\ pushing = NotPushing

QueueTypeOK(Frames) ==
  /\ buf_ \in [Nodes -> Frames]
  /\ cnt_ \in 0 .. Total
  /\ head_ \in 0 .. Total
  /\ tail_ \in 0 .. Total
  /\ pushing \in [step : {"no", "copied", "moved"}, at : Nodes, cnt : 0 .. Total]

\* Mutant: one node is left unused.
IsFullEarly == Total <= cnt_ + 1

IsFull == Total <= cnt_

\* Where the next node is written or read: an index at the end wraps.
Wrapped(i) == IF Total <= i THEN 0 ELSE i

-----------------------------------------------------------------------------
(* flush *)

FlushCnt ==
  /\ cnt_' = 0
  /\ UNCHANGED <<buf_, head_, tail_, pushing>>

FlushHead ==
  /\ head_' = 0
  /\ UNCHANGED <<buf_, cnt_, tail_, pushing>>

\* Mutant: the read index survives a flush.
FlushTailKept == UNCHANGED queueVars

FlushTail ==
  /\ tail_' = 0
  /\ UNCHANGED <<buf_, cnt_, head_, pushing>>

\* memset against the memcpy of a push: either wins, or each in part.
FlushBuf ==
  /\ IF pushing.step = "copied"
     THEN \E node \in {Blank, buf_[pushing.at], [buf_[pushing.at] EXCEPT !.whole = FALSE]} :
            buf_' = [Zeros EXCEPT ![pushing.at] = node]
     ELSE buf_' = Zeros
  /\ UNCHANGED <<cnt_, head_, tail_, pushing>>

-----------------------------------------------------------------------------
(* push and pop *)

PushCopy(frame) ==
  /\ pushing.step = "no"
  /\ ~IsFull
  /\ head_' = Wrapped(head_)
  /\ buf_' = [buf_ EXCEPT ![Wrapped(head_)] = frame]
  /\ pushing' = [step |-> "copied", at |-> Wrapped(head_), cnt |-> cnt_]
  /\ UNCHANGED <<cnt_, tail_>>

\* head_++ and cnt_++ are not atomic: a store of flush may be lost in between.
PushHead ==
  /\ pushing.step = "copied"
  /\ head_' \in {pushing.at + 1, head_ + 1}
  /\ pushing' = [pushing EXCEPT !.step = "moved"]
  /\ UNCHANGED <<buf_, cnt_, tail_>>

PushCnt ==
  /\ pushing.step = "moved"
  /\ cnt_' \in {pushing.cnt + 1, cnt_ + 1}
  /\ pushing' = NotPushing
  /\ UNCHANGED <<buf_, head_, tail_>>

Front == buf_[Wrapped(tail_)]

Pop ==
  /\ pushing.step = "no"
  /\ cnt_ > 0
  /\ tail_' = Wrapped(tail_) + 1
  /\ cnt_' = cnt_ - 1
  /\ UNCHANGED <<buf_, head_, pushing>>

\* The nodes in the ring, the oldest first.
Contents == [i \in 1 .. cnt_ |-> buf_[(tail_ + i - 1) % Total]]
=============================================================================
