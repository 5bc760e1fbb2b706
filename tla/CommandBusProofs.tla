-------------------------- MODULE CommandBusProofs --------------------------
(***************************************************************************)
(* Proofs about CommandBus, for any number of clients and requests, any    *)
(* range of ids and any depth of the receive queue.                        *)
(***************************************************************************)
EXTENDS CommandBus, TLAPS

\* One client is in a command, and it holds the mutex.
HolderInv == \A c \in Clients : pc[c] # "idle" <=> mutex_ = c

\* What is left of one of the Works.
Rests == {<<>>, <<"plain">>, <<"type">>, <<"filed">>, <<"filed", "type">>, <<"type", "filed", "type">>}
TodoInv ==
  \A c \in Clients :
    /\ todo[c] \in Rests
    /\ pc[c] \in Flush \cup {"write", "recv"} => todo[c] # <<>>

\* The requests a command has still to send; and the one that waits, if any.
Left(c) == IF pc[c] = "recv" THEN Len(todo[c]) - 1 ELSE Len(todo[c])
Waits   == IF \E c \in Clients : pc[c] = "recv" THEN 1 ELSE 0
CountInv ==
  /\ \A c \in Clients : pc[c] # "idle" => requests + Left(c) <= MaxRequests
  /\ timeouts + Waits <= requests

\* A push in progress: what it read holds, but for what a flush cleared.
PushInv ==
  pushing.step # "no" =>
    /\ hand # Blank
    /\ cnt_ <= pushing.cnt /\ pushing.cnt < Total
    /\ pushing.step = "copied" =>
         head_ < Total /\ buf_[pushing.at].id \in {0, hand.id}

\* The frames that were not taken are answers to requests that were given up,
\* or to the one that waits.
InRing == IF pushing.step = "no" THEN cnt_ ELSE pushing.cnt
InHand == IF hand = Blank THEN 0 ELSE 1
FramesInv ==
  /\ Len(wire) + Len(stream) + InHand + InRing <= timeouts + Waits
  /\ PortSurvives

\* No frame that may still be received has an id of a request to come, and
\* none but its own answer has the id of the one that waits.
InBuf == {buf_[i] : i \in Nodes}
IdsInv ==
  \A c \in Clients : pc[c] # "idle" =>
    /\ \A f \in OnItsWay : f.id \notin NextIds(Left(c))
    /\ pc[c] = "write" => \A f \in InBuf : f.id \notin NextIds(Left(c))
    /\ pc[c] = "recv" =>
         /\ sent[c].id \in Ids
         /\ \A f \in OnItsWay \cup InBuf : f.id = sent[c].id => f = sent[c]

\* The key is filed under the id that the next request will have.
FiledInv ==
  \A c \in Clients :
    /\ pc[c] = "idle" \/ todo[c] = <<"plain">> => filed[c] = 0
    /\ pc[c] \in Flush \cup {"write"} /\ Head(todo[c]) # "type" /\ filed[c] # 0
         => filed[c] = transaction_id_

\* Without a race the ring holds fifo from tail_ on, and a push writes behind it.
Slot(i) == i % Total
Holds(buf, tail, n, s) ==
  /\ Len(s) = n
  /\ \A i \in 1 .. n : buf[Slot(tail + i - 1)] = s[i]
RingInv ==
  ~raced =>
    /\ Flushing => pushing.step = "no" /\ fifo = <<>> /\ cnt_ = 0
    /\ (\E c \in Clients : pc[c] \in {"flush_tail", "flush_buf"}) => head_ = 0
    /\ (\E c \in Clients : pc[c] = "flush_buf") => tail_ = 0
    /\ ~Flushing =>
         /\ Holds(buf_, tail_, cnt_, fifo)
         /\ pushing.step = "no" => Wrapped(head_) = Slot(tail_ + cnt_)
         /\ pushing.step # "no" =>
              /\ cnt_ = pushing.cnt /\ pushing.at = Slot(tail_ + cnt_)
              /\ buf_[pushing.at] = hand
              /\ head_ = IF pushing.step = "copied" THEN pushing.at ELSE pushing.at + 1

BInv ==
  /\ TypeOK /\ HolderInv /\ TodoInv /\ CountInv /\ PushInv /\ FramesInv /\ IdsInv
  /\ OwnAnswer /\ FiledInv /\ FiledUnderOwnId /\ RingInv
-----------------------------------------------------------------------------
(* Arithmetic of the ids and of the ring. *)

\* What wraps at most once.
LEMMA ModOnce ==
  ASSUME NEW M \in Nat \ {0}, NEW x \in 0 .. 2 * M - 1
  PROVE  x % M = IF x < M THEN x ELSE x - M
<1>1. ASSUME x \in 0 .. M - 1 PROVE x % M = x
  BY <1>1
<1>2. ASSUME x \in M .. 2 * M - 1 PROVE x % M = x - M
  BY <1>2
<1> QED BY <1>1, <1>2

\* The id that comes after t, and the n ids from t on.
After(t) == (t % MaxId) + 1
FromOn(t, n) == {((t + i - 1) % MaxId) + 1 : i \in 0 .. n - 1}

\* The ids after t's are those from t on but for t itself, as no command has as
\* many requests as there are ids (TRANSACTION_ID_MAX).
LEMMA IdsFromOn ==
  ASSUME NEW t \in Ids, NEW n \in 1 .. 3
  PROVE  /\ After(t) \in Ids
         /\ t \in FromOn(t, n)
         /\ FromOn(After(t), n - 1) \subseteq FromOn(t, n) \ {t}
         /\ FromOn(t, n) \subseteq Ids
<1> DEFINE w(x) == IF x < MaxId THEN x ELSE x - MaxId
<1>0. MaxId \in Nat /\ MaxId > 2
  BY BusAssumption
<1>1. ASSUME NEW x \in 0 .. 2 * MaxId - 1 PROVE x % MaxId = w(x)
  <2>1. MaxId \in Nat \ {0}
    BY <1>0
  <2> QED BY <2>1, ModOnce
<1>2. t \in 1 .. MaxId
  BY DEF Ids
<1>3. After(t) = w(t) + 1 /\ After(t) \in 1 .. MaxId
  <2>1. t \in 0 .. 2 * MaxId - 1
    BY <1>0, <1>2
  <2>2. t % MaxId = w(t)
    BY <1>1, <2>1
  <2> QED BY <1>0, <1>2, <2>2 DEF After
<1>4. ASSUME NEW u \in 1 .. MaxId, NEW i \in 0 .. 2 PROVE (u + i - 1) % MaxId = w(u + i - 1)
  <2>1. u + i - 1 \in 0 .. 2 * MaxId - 1
    BY <1>0
  <2> QED BY <1>1, <2>1
<1>5. ((t + 0 - 1) % MaxId) + 1 = t
  BY <1>0, <1>2, <1>4
<1>6. t \in FromOn(t, n)
  BY <1>5 DEF FromOn
<1>7. ASSUME NEW i \in 0 .. n - 2
      PROVE  /\ ((After(t) + i - 1) % MaxId) + 1 = ((t + (i + 1) - 1) % MaxId) + 1
             /\ ((After(t) + i - 1) % MaxId) + 1 # t
             /\ ((After(t) + i - 1) % MaxId) + 1 \in 1 .. MaxId
             /\ i + 1 \in 0 .. n - 1
  <2>1. i \in 0 .. 1 /\ i + 1 \in 0 .. 2
    OBVIOUS
  <2>2. (After(t) + i - 1) % MaxId = w(After(t) + i - 1)
    BY <1>3, <1>4, <2>1
  <2>3. (t + (i + 1) - 1) % MaxId = w(t + (i + 1) - 1)
    BY <1>2, <1>4, <2>1
  <2> QED BY <1>0, <1>2, <1>3, <2>1, <2>2, <2>3
<1>8. FromOn(After(t), n - 1) \subseteq FromOn(t, n) \ {t}
  <2> SUFFICES ASSUME NEW x \in FromOn(After(t), n - 1) PROVE x \in FromOn(t, n) \ {t}
    OBVIOUS
  <2>1. PICK i \in 0 .. n - 2 : x = ((After(t) + i - 1) % MaxId) + 1
    BY DEF FromOn
  <2>2. x = ((t + (i + 1) - 1) % MaxId) + 1 /\ x # t /\ i + 1 \in 0 .. n - 1
    BY <1>7, <2>1
  <2> QED BY <2>2 DEF FromOn
<1>9. FromOn(t, n) \subseteq Ids
  <2>1. ASSUME NEW i \in 0 .. n - 1 PROVE ((t + i - 1) % MaxId) + 1 \in 1 .. MaxId
    <3>1. i \in 0 .. 2 /\ t + i - 1 \in 0 .. 2 * MaxId - 1
      BY <1>0, <1>2
    <3>2. (t + i - 1) % MaxId = w(t + i - 1)
      BY <1>1, <3>1
    <3> QED BY <1>0, <1>2, <3>1, <3>2
  <2> QED BY <2>1 DEF FromOn, Ids
<1> QED BY <1>3, <1>6, <1>8, <1>9 DEF Ids

\* Fewer ids from the same one on; and all of them are ids.
LEMMA FewerIds ==
  ASSUME NEW t \in Ids, NEW n \in 0 .. 3, NEW m \in 0 .. 3, m <= n
  PROVE  FromOn(t, m) \subseteq FromOn(t, n) /\ FromOn(t, n) \subseteq Ids
<1>1. FromOn(t, m) \subseteq FromOn(t, n)
  BY DEF FromOn
<1>2. CASE n = 0
  BY <1>1, <1>2 DEF FromOn
<1>3. CASE n # 0
  <2>1. n \in 1 .. 3
    BY <1>3
  <2> QED BY <1>1, <2>1, IdsFromOn
<1> QED BY <1>2, <1>3

-----------------------------------------------------------------------------
(* Sequences. *)

InSeq(s) == {s[i] : i \in DOMAIN s}

\* What is in a sequence that grew by one.
LEMMA InSeqAppend ==
  ASSUME NEW S, NEW s \in Seq(S), NEW e \in S
  PROVE  InSeq(Append(s, e)) \subseteq InSeq(s) \cup {e}
<1> DEFINE t == Append(s, e)
<1>1. /\ Len(s) \in Nat /\ DOMAIN s = 1 .. Len(s) /\ DOMAIN t = 1 .. Len(s) + 1
      /\ t[Len(s) + 1] = e /\ \A i \in 1 .. Len(s) : t[i] = s[i]
  OBVIOUS
<1> SUFFICES ASSUME NEW i \in 1 .. Len(s) + 1 PROVE t[i] \in InSeq(s) \cup {e}
  BY <1>1 DEF InSeq
<1>2. CASE i = Len(s) + 1
  BY <1>1, <1>2
<1>3. CASE i \in 1 .. Len(s)
  BY <1>1, <1>3 DEF InSeq
<1> QED BY <1>1, <1>2, <1>3

\* What is at the front of a sequence, and what is behind.
LEMMA InSeqHeadTail ==
  ASSUME NEW S, NEW s \in Seq(S), s # <<>>
  PROVE  /\ Head(s) \in S /\ Head(s) \in InSeq(s)
         /\ Tail(s) \in Seq(S) /\ InSeq(Tail(s)) \subseteq InSeq(s)
         /\ Len(s) \in Nat \ {0} /\ Len(Tail(s)) = Len(s) - 1
<1>1. /\ Len(s) \in Nat \ {0} /\ DOMAIN s = 1 .. Len(s)
      /\ Head(s) = s[1] /\ Head(s) \in S
      /\ Tail(s) \in Seq(S) /\ Len(Tail(s)) = Len(s) - 1
      /\ DOMAIN Tail(s) = 1 .. Len(s) - 1
      /\ \A i \in 1 .. Len(s) - 1 : Tail(s)[i] = s[i + 1]
  OBVIOUS
<1>2. 1 \in DOMAIN s /\ \A i \in 1 .. Len(s) - 1 : i + 1 \in DOMAIN s
  BY <1>1
<1> QED BY <1>1, <1>2 DEF InSeq

\* What the rest of a command can be, and the rest of that.
LEMMA RestsType ==
  ASSUME NEW r \in Rests
  PROVE  /\ r \in Seq({"type", "filed", "plain"})
         /\ Len(r) \in 0 .. 3
         /\ r # <<>> => /\ Len(r) \in 1 .. 3
                        /\ Tail(r) \in Rests /\ Tail(r) # <<"plain">>
                        /\ Len(Tail(r)) = Len(r) - 1
                        /\ Head(r) = "plain" => r = <<"plain">>
<1>1. CASE r = <<>>
  BY <1>1
<1>2. ASSUME NEW k \in {"plain", "type", "filed"}, r = <<k>>
      PROVE  /\ r \in Seq({"type", "filed", "plain"})
             /\ Len(r) = 1 /\ Tail(r) = <<>>
             /\ Head(r) = "plain" => r = <<"plain">>
  BY <1>2
<1>3. CASE \E k \in {"plain", "type", "filed"} : r = <<k>>
  <2>1. Len(r) = 1 /\ Tail(r) = <<>>
    BY <1>2, <1>3
  <2>2. r \in Seq({"type", "filed", "plain"})
    BY <1>2, <1>3
  <2>3. Head(r) = "plain" => r = <<"plain">>
    BY <1>2, <1>3
  <2>4. <<>> # <<"plain">>
    OBVIOUS
  <2> QED BY <2>1, <2>2, <2>3, <2>4 DEF Rests
<1>4. CASE r = <<"filed", "type">>
  <2>1. Len(r) = 2 /\ Tail(r) = <<"type">> /\ Head(r) = "filed"
    BY <1>4
  <2>2. r \in Seq({"type", "filed", "plain"})
    BY <1>4
  <2>3. <<"type">> # <<"plain">> /\ Len(<<"type">>) = 1
    OBVIOUS
  <2> QED BY <2>1, <2>2, <2>3 DEF Rests
<1>5. CASE r = <<"type", "filed", "type">>
  <2>1. Len(r) = 3 /\ Tail(r) = <<"filed", "type">> /\ Head(r) = "type"
    BY <1>5
  <2>2. r \in Seq({"type", "filed", "plain"})
    BY <1>5
  <2>3. <<"filed", "type">> # <<"plain">> /\ Len(<<"filed", "type">>) = 2
    OBVIOUS
  <2> QED BY <2>1, <2>2, <2>3 DEF Rests
<1> QED BY <1>1, <1>3, <1>4, <1>5 DEF Rests

\* A command starts with all of its requests.
LEMMA WorksAreRests ==
  ASSUME NEW work \in Works
  PROVE  work \in Rests /\ work # <<>>
BY DEF Works, Rests

\* While one client is in a command all others are idle.
LEMMA OthersIdle ==
  ASSUME HolderInv, NEW c \in Clients, pc[c] # "idle"
  PROVE  /\ mutex_ = c
         /\ \A d \in Clients : d # c => pc[d] = "idle"
BY DEF HolderInv

-----------------------------------------------------------------------------
(* Types. *)

\* What the model puts in frames are frames.
LEMMA FrameTypes ==
  ASSUME TypeOK
  PROVE  /\ Blank \in Frames
         /\ \A f \in Frames : [f EXCEPT !.whole = FALSE] \in Frames
         /\ requests < MaxRequests =>
              [id |-> transaction_id_, no |-> requests + 1, whole |-> TRUE] \in Frames
<1>1. MaxId \in Nat /\ MaxRequests \in Nat
  BY BusAssumption
<1>2. transaction_id_ \in 0 .. MaxId /\ requests \in 0 .. MaxRequests
  BY <1>1 DEF TypeOK, Ids
<1>3. Blank \in Frames
  BY <1>1 DEF Frames, Blank
<1>4. \A f \in Frames : [f EXCEPT !.whole = FALSE] \in Frames
  BY DEF Frames
<1>5. requests < MaxRequests => requests + 1 \in 0 .. MaxRequests
  BY <1>1, <1>2
<1> QED BY <1>2, <1>3, <1>4, <1>5 DEF Frames

\* The ring's variables after each part of its methods.
LEMMA QueueStep ==
  ASSUME TypeOK, PushInv,
         \/ FlushCnt \/ FlushHead \/ FlushTail \/ FlushBuf \/ Pop
         \/ PushCopy(hand) \/ PushHead \/ PushCnt
         \/ UNCHANGED queueVars
  PROVE  QueueTypeOK(Frames)'
<1> USE TotalAssumption DEF TypeOK, QueueTypeOK
<1>0. /\ 0 \in 0 .. Total /\ Nodes \subseteq 0 .. Total
      /\ \A i \in 0 .. Total : Wrapped(i) \in Nodes
      /\ \A i \in Nodes : i + 1 \in 0 .. Total
  BY DEF Nodes, Wrapped
<1>1. CASE FlushCnt \/ FlushHead \/ FlushTail
  BY <1>0, <1>1 DEF FlushCnt, FlushHead, FlushTail
<1>2. CASE FlushBuf
  <2>1. Zeros \in [Nodes -> Frames]
    BY FrameTypes DEF Zeros
  <2>2. CASE pushing.step = "copied"
    <3>1. PICK node \in {Blank, buf_[pushing.at], [buf_[pushing.at] EXCEPT !.whole = FALSE]} :
            buf_' = [Zeros EXCEPT ![pushing.at] = node]
      BY <1>2, <2>2 DEF FlushBuf
    <3>2. pushing.at \in Nodes /\ buf_[pushing.at] \in Frames
      OBVIOUS
    <3>3. node \in Frames
      BY <3>1, <3>2, FrameTypes
    <3>4. buf_' \in [Nodes -> Frames]
      BY <2>1, <3>1, <3>3
    <3> QED BY <1>2, <3>4 DEF FlushBuf
  <2>3. CASE pushing.step # "copied"
    BY <1>2, <2>1, <2>3 DEF FlushBuf
  <2> QED BY <2>2, <2>3
<1>3. CASE Pop
  <2>1. tail_' \in 0 .. Total
    BY <1>0, <1>3 DEF Pop
  <2>2. cnt_' \in 0 .. Total
    BY <1>3 DEF Pop
  <2> QED BY <1>3, <2>1, <2>2 DEF Pop
<1>4. CASE PushCopy(hand)
  <2>1. Wrapped(head_) \in Nodes
    BY <1>0
  <2>2. buf_' \in [Nodes -> Frames]
    BY <1>4, <2>1 DEF PushCopy
  <2>3. pushing' \in [step : {"no", "copied", "moved"}, at : Nodes, cnt : 0 .. Total]
    BY <1>4, <2>1 DEF PushCopy
  <2> QED BY <1>0, <1>4, <2>1, <2>2, <2>3 DEF PushCopy
<1>5. CASE PushHead
  <2>1. pushing.at + 1 \in 0 .. Total
    BY <1>0
  <2>2. head_ + 1 \in 0 .. Total
    BY <1>5 DEF PushHead, PushInv
  <2>3. pushing' \in [step : {"no", "copied", "moved"}, at : Nodes, cnt : 0 .. Total]
    BY <1>5 DEF PushHead
  <2> QED BY <1>5, <2>1, <2>2, <2>3 DEF PushHead
<1>6. CASE PushCnt
  <2>1. pushing.cnt + 1 \in 0 .. Total /\ cnt_ + 1 \in 0 .. Total
    BY <1>6 DEF PushCnt, PushInv
  <2>2. NotPushing \in [step : {"no", "copied", "moved"}, at : Nodes, cnt : 0 .. Total]
    BY DEF NotPushing, Nodes
  <2> QED BY <1>6, <2>1, <2>2 DEF PushCnt
<1>7. CASE UNCHANGED queueVars
  BY <1>7 DEF queueVars
<1> QED BY <1>1, <1>2, <1>3, <1>4, <1>5, <1>6, <1>7

\* Every step keeps every variable in its type; that requests and timeouts stay
\* within their bound needs CountInv.
LEMMA TypeStep ==
  TypeOK /\ TodoInv /\ HolderInv /\ CountInv /\ PushInv /\ [Next]_vars => TypeOK'
<1> SUFFICES ASSUME TypeOK, TodoInv, HolderInv, CountInv, PushInv, [Next]_vars PROVE TypeOK'
  OBVIOUS
<1> DEFINE T == Seq({"type", "filed", "plain"})
<1>0. Blank \in Frames /\ 0 \in 0 .. MaxId
  BY FrameTypes, BusAssumption
<1>1. ASSUME NEW c \in Clients, NEW work \in Works, Lock(c, work) PROVE TypeOK'
  <2>1. work \in T
    BY WorksAreRests, RestsType
  <2>2. todo' \in [Clients -> T]
    BY <1>1, <2>1 DEF TypeOK, Lock
  <2>3. pc' \in [Clients -> Pc] /\ mutex_' \in Clients \cup {NoOne}
    BY <1>1 DEF TypeOK, Lock, Goes, Pc
  <2>4. QueueTypeOK(Frames)'
    BY <1>1, QueueStep DEF Lock
  <2> QED BY <1>1, <2>2, <2>3, <2>4 DEF TypeOK, Lock
<1>2. ASSUME NEW c \in Clients, NextRequest(c) PROVE TypeOK'
  <2>1. pc' \in [Clients -> Pc]
    BY <1>2 DEF TypeOK, NextRequest, Goes, Pc, Flush
  <2>2. filed' \in [Clients -> 0 .. MaxId]
    BY <1>2, BusAssumption DEF TypeOK, NextRequest, Ids
  <2>4. QueueTypeOK(Frames)'
    BY <1>2, QueueStep DEF NextRequest
  <2> QED BY <1>2, <2>1, <2>2, <2>4 DEF TypeOK, NextRequest
<1>3. ASSUME NEW c \in Clients, Unlock(c) PROVE TypeOK'
  <2>1. pc' \in [Clients -> Pc]
    BY <1>3 DEF TypeOK, Unlock, Goes, Pc
  <2>2. /\ filed' \in [Clients -> 0 .. MaxId] /\ sent' \in [Clients -> Frames]
        /\ answer' \in [Clients -> Frames]
    BY <1>0, <1>3 DEF TypeOK, Unlock
  <2>4. QueueTypeOK(Frames)'
    BY <1>3, QueueStep DEF Unlock
  <2> QED BY <1>3, <2>1, <2>2, <2>4 DEF TypeOK, Unlock
<1>4. ASSUME NEW c \in Clients, FlushStep(c) PROVE TypeOK'
  <2>1. pc' \in [Clients -> Pc]
    BY <1>4 DEF TypeOK, FlushStep, Goes, Pc, Flush
  <2>2. fifo' \in Seq(Frames) /\ raced' \in BOOLEAN
    <3>1. <<>> \in Seq(Frames)
      OBVIOUS
    <3>2. raced' = (pushing.step # "no" \/ (raced /\ pc[c] # "flush_cnt"))
      BY <1>4 DEF FlushStep
    <3>3. raced' \in BOOLEAN
      BY <3>2 DEF TypeOK
    <3> QED BY <1>4, <3>1, <3>3 DEF FlushStep
  <2>3. QueueTypeOK(Frames)'
    BY <1>4, QueueStep DEF FlushStep
  <2> QED BY <1>4, <2>1, <2>2, <2>3 DEF TypeOK, FlushStep
<1>5. ASSUME NEW c \in Clients, Write(c) PROVE TypeOK'
  <2>1. requests + Len(todo[c]) <= MaxRequests /\ Len(todo[c]) \in 1 .. 3
    <3>1. pc[c] = "write"
      BY <1>5 DEF Write, Goes
    <3>2. Len(todo[c]) \in 1 .. 3
      BY <3>1, RestsType DEF TodoInv
    <3> QED BY <3>1, <3>2 DEF CountInv, Left
  <2>2. requests \in Nat /\ requests < MaxRequests
    <3>1. requests \in 0 .. MaxRequests /\ MaxRequests \in Nat
      BY BusAssumption DEF TypeOK
    <3>2. PICK n \in 1 .. 3 : requests + n <= MaxRequests
      BY <2>1
    <3> QED BY <3>1, <3>2
  <2>3. [id |-> transaction_id_, no |-> requests + 1, whole |-> TRUE] \in Frames
    BY <2>2, FrameTypes
  <2>4. sent' \in [Clients -> Frames] /\ sent'[c] \in Frames
    BY <1>5, <2>3 DEF TypeOK, Write
  <2>5. wire' \in Seq(Frames)
    BY <1>5, <2>4 DEF TypeOK, Write
  <2>6. requests' \in 0 .. MaxRequests
    BY <1>5, <2>2, BusAssumption DEF Write
  <2>7. transaction_id_' \in Ids
    BY <1>5, IdsFromOn DEF TypeOK, Write, After
  <2>8. pc' \in [Clients -> Pc] /\ answer' \in [Clients -> Frames]
    BY <1>0, <1>5 DEF TypeOK, Write, Goes, Pc
  <2>9. QueueTypeOK(Frames)'
    BY <1>5, QueueStep DEF Write
  <2> QED BY <1>5, <2>4, <2>5, <2>6, <2>7, <2>8, <2>9 DEF TypeOK, Write
<1>6. ASSUME NEW c \in Clients, WriteFails(c) PROVE TypeOK'
  <2>1. Tail(todo[c]) \in T /\ <<>> \in T
    <3>1. pc[c] = "write" /\ todo[c] \in Rests /\ todo[c] # <<>>
      BY <1>6 DEF TodoInv, WriteFails, Goes
    <3>2. Tail(todo[c]) \in Rests /\ <<>> \in Rests
      BY <3>1, RestsType DEF Rests
    <3> QED BY <3>2, RestsType
  <2>2. todo' \in [Clients -> T]
    BY <1>6, <2>1 DEF TypeOK, WriteFails
  <2>3. pc' \in [Clients -> Pc]
    BY <1>6 DEF TypeOK, WriteFails, Goes, Pc
  <2>4. QueueTypeOK(Frames)'
    BY <1>6, QueueStep DEF WriteFails
  <2> QED BY <1>6, <2>2, <2>3, <2>4 DEF TypeOK, WriteFails
<1>7. ASSUME NEW c \in Clients, pc[c] = "recv" PROVE Tail(todo[c]) \in T
  <2>1. todo[c] \in Rests /\ todo[c] # <<>>
    BY <1>7 DEF TodoInv
  <2> QED BY <2>1, RestsType
<1>8. ASSUME NEW c \in Clients, Receive(c) PROVE TypeOK'
  <2>1. QueueTypeOK(Frames)'
    BY <1>8, QueueStep DEF Receive
  <2>2. Front \in Frames
    BY TotalAssumption DEF TypeOK, QueueTypeOK, Front, Wrapped, Nodes
  <2>3. fifo' \in Seq(Frames)
    BY <1>8, InSeqHeadTail DEF TypeOK, Receive
  <2>4. pc[c] = "recv"
    BY <1>8 DEF Receive, Goes
  <2>5. /\ pc' \in [Clients -> Pc] /\ answer' \in [Clients -> Frames]
        /\ todo' \in [Clients -> T]
    <3>1. CASE Front.id = sent[c].id
      BY <1>7, <1>8, <2>2, <2>4, <3>1 DEF TypeOK, Receive, Goes, Pc
    <3>2. CASE Front.id # sent[c].id
      BY <1>8, <3>2 DEF TypeOK, Receive
    <3> QED BY <3>1, <3>2
  <2> QED BY <1>8, <2>1, <2>3, <2>5 DEF TypeOK, Receive
<1>9. ASSUME NEW c \in Clients, TimesOut(c) PROVE TypeOK'
  <2>1. pc[c] = "recv"
    BY <1>9 DEF TimesOut, Goes
  <2>2. todo' \in [Clients -> T] /\ pc' \in [Clients -> Pc]
    BY <1>7, <1>9, <2>1 DEF TypeOK, TimesOut, Goes, Pc
  <2>3. timeouts' \in 0 .. MaxRequests
    <3>1. Waits = 1
      BY <2>1 DEF Waits
    <3>2. timeouts + 1 <= requests
      BY <3>1 DEF CountInv
    <3> QED BY <1>9, <3>2, BusAssumption DEF TypeOK, TimesOut
  <2>4. QueueTypeOK(Frames)'
    BY <1>9, QueueStep DEF TimesOut
  <2> QED BY <1>9, <2>2, <2>3, <2>4 DEF TypeOK, TimesOut
<1>10. CASE TakeFrame
  <2>1. hand' \in Frames /\ stream' \in Seq(Frames)
    BY <1>10, InSeqHeadTail DEF TypeOK, TakeFrame
  <2>2. QueueTypeOK(Frames)'
    BY <1>10, QueueStep DEF TakeFrame
  <2> QED BY <1>10, <2>1, <2>2 DEF TypeOK, TakeFrame, clientVars
<1>11. CASE Push
  <2>1. QueueTypeOK(Frames)'
    BY <1>11, QueueStep DEF Push
  <2>2. hand' \in Frames /\ fifo' \in Seq(Frames)
    <3>1. hand \in Frames /\ fifo \in Seq(Frames) /\ Append(fifo, hand) \in Seq(Frames)
      BY DEF TypeOK
    <3>2. \/ hand' = Blank /\ fifo' = Append(fifo, hand)
          \/ UNCHANGED <<hand, fifo>>
      BY <1>11 DEF Push
    <3> QED BY <1>0, <3>1, <3>2
  <2>3. raced' \in BOOLEAN
    <3>1. raced' = raced \/ raced' = (raced \/ Flushing)
      BY <1>11 DEF Push
    <3> QED BY <3>1 DEF TypeOK
  <2> QED BY <1>11, <2>1, <2>2, <2>3 DEF TypeOK, Push, clientVars
<1>12. CASE GiveUp
  <2>1. QueueTypeOK(Frames)'
    BY <1>12, QueueStep DEF GiveUp
  <2> QED BY <1>0, <1>12, <2>1 DEF TypeOK, GiveUp, clientVars
<1>13. ASSUME NEW answers \in BOOLEAN, Handles(answers) PROVE TypeOK'
  <2>1. wire' \in Seq(Frames) /\ stream' \in Seq(Frames)
    <3>1. Head(wire) \in Frames /\ Tail(wire) \in Seq(Frames)
      BY <1>13, InSeqHeadTail DEF TypeOK, Handles
    <3> QED BY <1>13, <3>1 DEF TypeOK, Handles
  <2>2. QueueTypeOK(Frames)'
    BY <1>13, QueueStep DEF Handles
  <2> QED BY <1>13, <2>1, <2>2 DEF TypeOK, Handles, clientVars
<1>14. CASE UNCHANGED vars
  BY <1>14 DEF TypeOK, QueueTypeOK, vars, queueVars, clientVars
<1>15. CASE RecvFails
  <2>1. QueueTypeOK(Frames)'
    BY <1>15, QueueStep DEF RecvFails
  <2> QED BY <1>15, <2>1 DEF TypeOK, RecvFails, clientVars
<1>16. CASE ConnectionEnds
  <2>1. QueueTypeOK(Frames)'
    BY <1>16, QueueStep DEF ConnectionEnds
  <2> QED BY <1>16, <2>1 DEF TypeOK, ConnectionEnds, clientVars
<1> QED BY <1>1, <1>2, <1>3, <1>4, <1>5, <1>6, <1>8, <1>9, <1>10, <1>11, <1>12, <1>13, <1>14,
      <1>15, <1>16
   DEF Next, Running, Receiver, Controller

-----------------------------------------------------------------------------
(* The mutex and what is left of a command. *)

\* What a client's step does to its program counter and to what is left of its
\* command.
LEMMA RunningMoves ==
  ASSUME TypeOK, NEW c \in Clients, Running(c)
  PROVE  /\ pc[c] # "idle"
         /\ pc' = [pc EXCEPT ![c] = pc'[c]]
         /\ todo' = [todo EXCEPT ![c] = todo'[c]]
         /\ \/ Unlock(c) /\ pc'[c] = "idle" /\ mutex_' = NoOne /\ todo[c] = <<>> /\ todo' = todo
            \/ pc'[c] = "next" /\ UNCHANGED mutex_ /\ pc[c] \in {"write", "recv"}
               /\ todo'[c] \in {Tail(todo[c]), <<>>}
            \/ pc'[c] \in Flush \cup {"write", "recv"} /\ UNCHANGED <<mutex_, todo>>
               /\ (todo[c] # <<>> \/ pc[c] \in Flush \cup {"write", "recv"})
<1> USE DEF TypeOK, Flush
<1>1. CASE NextRequest(c)
  BY <1>1 DEF NextRequest, Goes
<1>2. CASE Unlock(c)
  BY <1>2 DEF Unlock, Goes
<1>3. CASE FlushStep(c)
  BY <1>3 DEF FlushStep, Goes
<1>4. CASE Write(c)
  BY <1>4 DEF Write, Goes
<1>5. CASE WriteFails(c)
  BY <1>5 DEF WriteFails, Goes
<1>6. CASE Receive(c)
  <2>1. CASE Front.id = sent[c].id
    BY <1>6, <2>1 DEF Receive, Goes
  <2>2. CASE Front.id # sent[c].id
    BY <1>6, <2>2 DEF Receive
  <2> QED BY <2>1, <2>2
<1>7. CASE TimesOut(c)
  BY <1>7 DEF TimesOut, Goes
<1> QED BY <1>1, <1>2, <1>3, <1>4, <1>5, <1>6, <1>7 DEF Running

\* The receiver, the controller and the network move no client.
LEMMA OthersStay ==
  ASSUME Receiver \/ Controller \/ ConnectionEnds \/ UNCHANGED vars
  PROVE  UNCHANGED <<clientVars, mutex_, transaction_id_, requests, timeouts>>
BY DEF Receiver, Controller, TakeFrame, RecvFails, Push, GiveUp, Handles, ConnectionEnds, vars

\* The mutex is held by the client that is in a command.
LEMMA HolderStep ==
  TypeOK /\ HolderInv /\ [Next]_vars => HolderInv'
<1> SUFFICES ASSUME TypeOK, HolderInv, [Next]_vars PROVE HolderInv'
  OBVIOUS
<1>1. ASSUME NEW c \in Clients, NEW work \in Works, Lock(c, work) PROVE HolderInv'
  BY <1>1, BusAssumption DEF TypeOK, HolderInv, Lock, Goes
<1>2. ASSUME NEW c \in Clients, Running(c) PROVE HolderInv'
  <2>1. /\ pc[c] # "idle" /\ pc' = [pc EXCEPT ![c] = pc'[c]]
        /\ \/ pc'[c] = "idle" /\ mutex_' = NoOne
           \/ pc'[c] # "idle" /\ mutex_' = mutex_
    BY <1>2, RunningMoves DEF Flush
  <2>2. \A d \in Clients : pc'[d] = IF d = c THEN pc'[c] ELSE pc[d]
    BY <2>1 DEF TypeOK
  <2> QED BY <2>1, <2>2, BusAssumption DEF HolderInv
<1>3. CASE Receiver \/ Controller \/ ConnectionEnds \/ UNCHANGED vars
  BY <1>3, OthersStay DEF HolderInv, clientVars
<1> QED BY <1>1, <1>2, <1>3 DEF Next

\* A command's requests are sent one after the other, and none is missing.
LEMMA TodoStep ==
  TypeOK /\ TodoInv /\ [Next]_vars => TodoInv'
<1> SUFFICES ASSUME TypeOK, TodoInv, [Next]_vars PROVE TodoInv'
  OBVIOUS
<1>1. ASSUME NEW c \in Clients, NEW work \in Works, Lock(c, work) PROVE TodoInv'
  <2>1. work \in Rests
    BY WorksAreRests
  <2>2. \A d \in Clients : /\ todo'[d] = IF d = c THEN work ELSE todo[d]
                           /\ pc'[d] = IF d = c THEN "next" ELSE pc[d]
    BY <1>1 DEF TypeOK, Lock, Goes
  <2> QED BY <2>1, <2>2 DEF TodoInv, Flush
<1>2. ASSUME NEW c \in Clients, Running(c) PROVE TodoInv'
  <2>1. \A d \in Clients : /\ pc'[d] = IF d = c THEN pc'[c] ELSE pc[d]
                           /\ todo'[d] = IF d = c THEN todo'[c] ELSE todo[d]
    BY <1>2, RunningMoves DEF TypeOK
  <2>2. todo[c] \in Rests /\ (pc[c] \in Flush \cup {"write", "recv"} => todo[c] # <<>>)
    BY DEF TodoInv
  <2>3. <<>> \in Rests /\ (todo[c] # <<>> => Tail(todo[c]) \in Rests)
    BY <2>2, RestsType DEF Rests
  <2>4. \/ pc'[c] = "idle" /\ todo'[c] = todo[c]
        \/ pc'[c] = "next" /\ pc[c] \in {"write", "recv"} /\ todo'[c] \in {Tail(todo[c]), <<>>}
        \/ todo'[c] = todo[c] /\ (todo[c] # <<>> \/ pc[c] \in Flush \cup {"write", "recv"})
    BY <1>2, RunningMoves
  <2>5. /\ todo'[c] \in Rests
        /\ pc'[c] \in Flush \cup {"write", "recv"} => todo'[c] # <<>>
    BY <2>2, <2>3, <2>4 DEF Flush
  <2> QED BY <2>1, <2>5 DEF TodoInv
<1>3. CASE Receiver \/ Controller \/ ConnectionEnds \/ UNCHANGED vars
  BY <1>3, OthersStay DEF TodoInv, clientVars
<1> QED BY <1>1, <1>2, <1>3 DEF Next

-----------------------------------------------------------------------------
(* Counting requests. *)

\* Only the client that holds the mutex can wait.
LEMMA WhoWaits ==
  ASSUME TypeOK, HolderInv, NEW c \in Clients, Running(c)
  PROVE  /\ Waits  = IF pc[c] = "recv" THEN 1 ELSE 0
         /\ Waits' = IF pc'[c] = "recv" THEN 1 ELSE 0
<1>1. pc[c] # "idle" /\ pc' = [pc EXCEPT ![c] = pc'[c]]
  BY RunningMoves
<1>2. \A d \in Clients : d # c => pc[d] = "idle" /\ pc'[d] = "idle"
  BY <1>1, OthersIdle DEF TypeOK
<1>3. Waits  = IF pc[c] = "recv" THEN 1 ELSE 0
  BY <1>2 DEF Waits
<1>4. Waits' = IF pc'[c] = "recv" THEN 1 ELSE 0
  BY <1>2 DEF Waits
<1> QED BY <1>3, <1>4

\* The requests a command has left go down with each that is sent, and the one
\* that waits is answered or given up.
LEMMA CountsMove ==
  ASSUME TypeOK, HolderInv, TodoInv, NEW c \in Clients, Running(c)
  PROVE  /\ Left(c) \in 0 .. 3 /\ Left(c)' \in 0 .. 3
         /\ Waits \in 0 .. 1 /\ Waits' \in 0 .. 1
         /\ \/ /\ Write(c) /\ Left(c)' = Left(c) - 1
               /\ requests' = requests + 1 /\ timeouts' = timeouts /\ Waits = 0 /\ Waits' = 1
            \/ /\ Receive(c) /\ Front.id = sent[c].id /\ Left(c)' = Left(c)
               /\ requests' = requests /\ timeouts' = timeouts /\ Waits = 1 /\ Waits' = 0
            \/ /\ ~ Write(c) /\ ~ (Receive(c) /\ Front.id = sent[c].id)
               /\ Left(c)' <= Left(c)
               /\ requests' = requests /\ timeouts' + Waits' = timeouts + Waits
<1>1. /\ todo[c] \in Rests /\ Len(todo[c]) \in 0 .. 3
      /\ todo[c] # <<>> => Len(todo[c]) \in 1 .. 3 /\ Len(Tail(todo[c])) = Len(todo[c]) - 1
      /\ pc[c] \in Flush \cup {"write", "recv"} => todo[c] # <<>>
  BY RestsType DEF TodoInv
<1>2. /\ Waits  = IF pc[c] = "recv" THEN 1 ELSE 0
      /\ Waits' = IF pc'[c] = "recv" THEN 1 ELSE 0
  BY WhoWaits
<1>3. timeouts \in Nat /\ requests \in Nat
  BY BusAssumption DEF TypeOK
<1>4. Left(c) \in 0 .. 3
  BY <1>1 DEF Left
<1>5. CASE NextRequest(c) \/ FlushStep(c) \/ Unlock(c)
  <2>1. pc[c] # "recv" /\ pc'[c] # "recv" /\ todo' = todo
    BY <1>5 DEF TypeOK, NextRequest, FlushStep, Unlock, Goes, Flush
  <2>2. Left(c)' = Left(c)
    BY <2>1 DEF Left
  <2>3. UNCHANGED <<requests, timeouts>> /\ pc[c] # "write"
    BY <1>5 DEF NextRequest, FlushStep, Unlock, Goes
  <2>4. ~ Write(c) /\ ~ Receive(c)
    <3>1. Write(c) => pc[c] = "write"
      BY DEF Write, Goes
    <3>2. Receive(c) => pc[c] = "recv"
      BY DEF Receive, Goes
    <3> QED BY <2>1, <2>3, <3>1, <3>2
  <2> QED BY <1>2, <1>3, <1>4, <2>1, <2>2, <2>3, <2>4
<1>6. CASE Write(c)
  <2>1. pc[c] = "write" /\ pc'[c] = "recv" /\ todo' = todo
    BY <1>6 DEF TypeOK, Write, Goes
  <2>2. Left(c)' = Left(c) - 1 /\ Left(c)' \in 0 .. 3
    BY <1>1, <2>1 DEF Left
  <2> QED BY <1>2, <1>4, <1>6, <2>1, <2>2 DEF Write
<1>7. CASE WriteFails(c)
  <2>1. pc[c] = "write" /\ pc'[c] = "next" /\ todo'[c] \in {Tail(todo[c]), <<>>}
    BY <1>7 DEF TypeOK, WriteFails, Goes
  <2>2. Left(c)' <= Left(c) /\ Left(c)' \in 0 .. 3
    <3>1. CASE todo'[c] = <<>>
      BY <1>1, <2>1, <3>1 DEF Left
    <3>2. CASE todo'[c] = Tail(todo[c])
      BY <1>1, <2>1, <3>2 DEF Left
    <3> QED BY <2>1, <3>1, <3>2
  <2>3. ~ Write(c) /\ ~ Receive(c)
    BY <1>7, <2>1 DEF WriteFails, Write, Receive, Goes
  <2> QED BY <1>2, <1>3, <1>4, <1>7, <2>1, <2>2, <2>3 DEF WriteFails
<1>8. CASE Receive(c) /\ Front.id = sent[c].id
  <2>1. pc[c] = "recv" /\ pc'[c] = "next" /\ todo'[c] = Tail(todo[c])
    BY <1>8 DEF TypeOK, Receive, Goes
  <2>2. Left(c)' = Left(c)
    BY <1>1, <2>1 DEF Left
  <2> QED BY <1>2, <1>4, <1>8, <2>1, <2>2 DEF Receive
<1>9. CASE Receive(c) /\ Front.id # sent[c].id
  <2>1. pc[c] = "recv" /\ pc' = pc /\ todo' = todo
    BY <1>9 DEF Receive
  <2>2. Left(c)' = Left(c)
    BY <2>1 DEF Left
  <2>3. ~ Write(c)
    BY <2>1 DEF Write, Goes
  <2> QED BY <1>2, <1>3, <1>4, <1>9, <2>1, <2>2, <2>3 DEF Receive
<1>10. CASE TimesOut(c)
  <2>1. pc[c] = "recv" /\ pc'[c] = "next" /\ todo'[c] = Tail(todo[c])
    BY <1>10 DEF TypeOK, TimesOut, Goes
  <2>2. Left(c)' = Left(c)
    BY <1>1, <2>1 DEF Left
  <2>3. ~ Write(c) /\ ~ (Receive(c) /\ Front.id = sent[c].id)
    <3>1. timeouts' # timeouts
      BY <1>3, <1>10 DEF TimesOut
    <3> QED BY <3>1 DEF Write, Receive
  <2> QED BY <1>2, <1>3, <1>4, <1>10, <2>1, <2>2, <2>3 DEF TimesOut
<1> QED BY <1>5, <1>6, <1>7, <1>8, <1>9, <1>10 DEF Running

\* No more requests are sent, or given up, than there are.
LEMMA CountStep ==
  TypeOK /\ HolderInv /\ TodoInv /\ CountInv /\ [Next]_vars => CountInv'
<1> SUFFICES ASSUME TypeOK, HolderInv, TodoInv, CountInv, [Next]_vars PROVE CountInv'
  OBVIOUS
<1>0. timeouts \in Nat /\ requests \in Nat /\ MaxRequests \in Nat
  BY BusAssumption DEF TypeOK
<1>1. ASSUME NEW c \in Clients, NEW work \in Works, Lock(c, work) PROVE CountInv'
  <2>1. \A d \in Clients : pc[d] = "idle"
    BY <1>1, BusAssumption DEF Lock, HolderInv
  <2>2. \A d \in Clients : pc'[d] = IF d = c THEN "next" ELSE "idle"
    BY <1>1, <2>1 DEF TypeOK, Lock, Goes
  <2>3. Waits = 0 /\ Waits' = 0
    BY <2>1, <2>2 DEF Waits
  <2>4. Left(c)' = Len(work) /\ requests + Len(work) <= MaxRequests
    BY <1>1, <2>2 DEF TypeOK, Left, Lock
  <2> QED BY <1>1, <2>2, <2>3, <2>4 DEF CountInv, Lock
<1>2. ASSUME NEW c \in Clients, Running(c) PROVE CountInv'
  <2>1. pc[c] # "idle" /\ \A d \in Clients : d # c => pc'[d] = "idle"
    BY <1>2, RunningMoves, OthersIdle DEF TypeOK
  <2>2. requests + Left(c) <= MaxRequests /\ timeouts + Waits <= requests
    BY <2>1 DEF CountInv
  <2>3. requests' + Left(c)' <= MaxRequests /\ timeouts' + Waits' <= requests'
    BY <1>0, <1>2, <2>2, CountsMove
  <2> QED BY <2>1, <2>3 DEF CountInv
<1>3. CASE Receiver \/ Controller \/ ConnectionEnds \/ UNCHANGED vars
  <2>1. UNCHANGED <<pc, todo, requests, timeouts>>
    BY <1>3, OthersStay DEF clientVars
  <2> QED BY <2>1 DEF CountInv, Left, Waits
<1> QED BY <1>1, <1>2, <1>3 DEF Next

-----------------------------------------------------------------------------
(* A push in progress. *)

\* The steps that leave the ring and the hand alone.
LEMMA QueueRests ==
  ASSUME \/ \E c \in Clients : \/ NextRequest(c) \/ Unlock(c) \/ Write(c) \/ WriteFails(c)
                             \/ TimesOut(c) \/ \E work \in Works : Lock(c, work)
         \/ Controller \/ ConnectionEnds \/ RecvFails
         \/ UNCHANGED vars
  PROVE  UNCHANGED <<queueVars, hand, fifo, raced>>
BY DEF NextRequest, Unlock, Write, WriteFails, TimesOut, Lock, Controller, Handles,
       ConnectionEnds, RecvFails, vars, queueVars

\* A flush that overlaps a push never leaves more in the counters than the push
\* puts there, nor another frame's id in its node.
LEMMA PushStep ==
  TypeOK /\ PushInv /\ [Next]_vars => PushInv'
<1> SUFFICES ASSUME TypeOK, PushInv, [Next]_vars PROVE PushInv'
  OBVIOUS
<1>0. cnt_ \in 0 .. Total /\ head_ \in 0 .. Total /\ Total \in Nat \ {0} /\ pushing.at \in Nodes
      /\ buf_ \in [Nodes -> Frames] /\ pushing.cnt \in 0 .. Total
  BY TotalAssumption DEF TypeOK, QueueTypeOK
<1>1. CASE UNCHANGED <<queueVars, hand>>
  BY <1>1 DEF PushInv, queueVars
<1>2. ASSUME NEW c \in Clients, FlushStep(c) PROVE PushInv'
  <2>1. hand' = hand /\ pushing' = pushing
    BY <1>2 DEF FlushStep, FlushCnt, FlushHead, FlushTail, FlushBuf
  <2>2. CASE pushing.step = "no"
    BY <2>1, <2>2 DEF PushInv
  <2>3. CASE pushing.step # "no"
    <3>1. cnt_' \in {0, cnt_} /\ head_' \in {0, head_}
      BY <1>2 DEF FlushStep, FlushCnt, FlushHead, FlushTail, FlushBuf
    <3>2. hand # Blank /\ cnt_' <= pushing.cnt /\ pushing.cnt < Total
      BY <1>0, <2>3, <3>1 DEF PushInv
    <3>3. ASSUME pushing.step = "copied"
          PROVE  head_' < Total /\ buf_'[pushing.at].id \in {0, hand.id}
      <4>1. head_' < Total
        BY <1>0, <3>1, <3>3 DEF PushInv
      <4>2. buf_[pushing.at].id \in {0, hand.id}
        BY <3>3 DEF PushInv
      <4>3. CASE buf_' = buf_
        BY <4>1, <4>2, <4>3
      <4>4. CASE FlushBuf
        <5>1. PICK node \in {Blank, buf_[pushing.at], [buf_[pushing.at] EXCEPT !.whole = FALSE]} :
                buf_' = [Zeros EXCEPT ![pushing.at] = node]
          BY <3>3, <4>4 DEF FlushBuf
        <5>2. buf_'[pushing.at] = node
          BY <1>0, <5>1 DEF Zeros
        <5>3. buf_[pushing.at] \in Frames
          BY <1>0
        <5>4. node.id \in {0, buf_[pushing.at].id}
          BY <5>3 DEF Blank, Frames
        <5> QED BY <4>1, <4>2, <5>2, <5>4
      <4> QED BY <1>2, <4>3, <4>4 DEF FlushStep, FlushCnt, FlushHead, FlushTail
    <3> QED BY <2>1, <3>2, <3>3 DEF PushInv
  <2> QED BY <2>2, <2>3
<1>3. CASE TakeFrame \/ GiveUp \/ \E c \in Clients : Receive(c)
  <2>1. pushing' = pushing /\ pushing.step = "no"
    BY <1>3 DEF TakeFrame, GiveUp, Receive, Pop, PushInv, queueVars
  <2> QED BY <2>1 DEF PushInv
<1>4. CASE hand # Blank /\ PushCopy(hand) /\ hand' = hand
  <2>1. Wrapped(head_) \in Nodes /\ Wrapped(head_) < Total
    BY <1>0 DEF Wrapped, Nodes
  <2>2. cnt_' = cnt_ /\ cnt_ < Total
    BY <1>0, <1>4 DEF PushCopy, IsFull
  <2>3. /\ pushing'.at = Wrapped(head_) /\ pushing'.cnt = cnt_ /\ head_' = Wrapped(head_)
        /\ buf_'[Wrapped(head_)] = hand
    BY <1>0, <1>4, <2>1 DEF PushCopy
  <2> QED BY <1>0, <1>4, <2>1, <2>2, <2>3 DEF PushInv
<1>5. CASE hand # Blank /\ PushHead /\ hand' = hand
  <2>1. pushing.step = "copied" /\ pushing'.step = "moved" /\ pushing'.cnt = pushing.cnt /\ cnt_' = cnt_
    BY <1>5 DEF TypeOK, QueueTypeOK, PushHead
  <2> QED BY <1>5, <2>1 DEF PushInv
<1>6. CASE PushCnt
  <2>1. pushing'.step = "no"
    BY <1>6 DEF PushCnt, NotPushing
  <2> QED BY <2>1 DEF PushInv
<1>7. CASE Push
  BY <1>4, <1>5, <1>6, <1>7 DEF Push
<1>8. \/ UNCHANGED <<queueVars, hand>>
      \/ \E c \in Clients : FlushStep(c)
      \/ TakeFrame \/ GiveUp \/ \E c \in Clients : Receive(c)
      \/ Push
  BY QueueRests DEF Next, Running, Receiver
<1> QED BY <1>1, <1>2, <1>3, <1>7, <1>8

-----------------------------------------------------------------------------
(* Counting frames. *)

\* The frames between a request and its answer are no more than the requests
\* given up and the one that waits; so a full queue means that many given up.
LEMMA FramesStep ==
  TypeOK /\ HolderInv /\ TodoInv /\ PushInv /\ FramesInv /\ [Next]_vars => FramesInv'
<1> SUFFICES ASSUME TypeOK, HolderInv, TodoInv, PushInv, FramesInv, [Next]_vars PROVE FramesInv'
  OBVIOUS
<1> DEFINE W == Len(wire)
           S == Len(stream)
<1>0. /\ W \in Nat /\ S \in Nat /\ timeouts \in Nat /\ cnt_ \in Nat /\ pushing.cnt \in Nat
      /\ InHand \in 0 .. 1 /\ InRing \in Nat /\ Waits \in 0 .. 1 /\ Total \in Nat
      /\ W + S + InHand + InRing <= timeouts + Waits
      /\ state_ = -1 => lost \/ timeouts >= Total
  <2>1. W \in Nat /\ S \in Nat
    BY DEF TypeOK
  <2>2. timeouts \in Nat /\ cnt_ \in Nat /\ pushing.cnt \in Nat /\ Total \in Nat
    BY BusAssumption, TotalAssumption DEF TypeOK, QueueTypeOK
  <2>3. InHand \in 0 .. 1 /\ Waits \in 0 .. 1 /\ InRing \in Nat
    BY <2>2 DEF InHand, Waits, InRing
  <2> QED BY <2>1, <2>2, <2>3 DEF FramesInv, PortSurvives
<1> HIDE DEF W, S
<1>1. ASSUME NEW c \in Clients, NEW work \in Works, Lock(c, work) PROVE FramesInv'
  <2>1. \A d \in Clients : pc[d] = "idle" /\ pc'[d] # "recv"
    BY <1>1, BusAssumption DEF TypeOK, Lock, Goes, HolderInv
  <2>2. Waits = Waits'
    BY <2>1 DEF Waits
  <2> QED BY <1>1, <2>2 DEF Lock, FramesInv, InHand, InRing, PortSurvives, queueVars
<1>2. ASSUME NEW c \in Clients, FlushStep(c) PROVE FramesInv'
  <2>1. UNCHANGED <<wire, stream, lost, hand, state_, timeouts, pushing>> /\ cnt_' \in {0, cnt_}
    BY <1>2 DEF FlushStep, FlushCnt, FlushHead, FlushTail, FlushBuf
  <2>2. W' = W /\ S' = S /\ InHand' = InHand /\ InRing' <= InRing /\ InRing' \in Nat
    BY <1>0, <2>1 DEF W, S, InHand, InRing
  <2>3. timeouts' + Waits' = timeouts + Waits
    <3>1. ~ Write(c) /\ ~ Receive(c)
      BY <1>2 DEF FlushStep, Write, Receive, Goes
    <3> QED BY <1>2, <3>1, CountsMove DEF Running
  <2>4. W' + S' + InHand' + InRing' <= timeouts' + Waits'
    BY <1>0, <2>2, <2>3
  <2> QED BY <2>1, <2>4 DEF FramesInv, PortSurvives, W, S
<1>3. ASSUME NEW c \in Clients, Write(c) PROVE FramesInv'
  <2>1. UNCHANGED <<queueVars, stream, lost, hand, state_, timeouts>>
    BY <1>3 DEF Write
  <2>2. W' = W + 1 /\ S' = S /\ InHand' = InHand /\ InRing' = InRing
    BY <1>3, <2>1 DEF TypeOK, Write, W, S, InHand, InRing, queueVars
  <2>3. Waits' = Waits + 1
    <3>1. ~ Receive(c)
      BY <1>3 DEF Write, Receive, Goes
    <3> QED BY <1>3, <3>1, CountsMove DEF Running
  <2>4. W' + S' + InHand' + InRing' <= timeouts' + Waits'
    BY <1>0, <2>1, <2>2, <2>3
  <2> QED BY <2>1, <2>4 DEF FramesInv, PortSurvives, W, S
<1>4. ASSUME NEW c \in Clients, NextRequest(c) \/ Unlock(c) \/ WriteFails(c) \/ TimesOut(c)
      PROVE  FramesInv'
  <2>1. UNCHANGED <<queueVars, wire, stream, lost, hand, state_>>
    BY <1>4 DEF NextRequest, Unlock, WriteFails, TimesOut
  <2>2. W' = W /\ S' = S /\ InHand' = InHand /\ InRing' = InRing
    BY <2>1 DEF W, S, InHand, InRing, queueVars
  <2>3. timeouts' + Waits' = timeouts + Waits
    <3>1. ~ Write(c)
      BY <1>4 DEF NextRequest, Unlock, WriteFails, TimesOut, Write, Goes
    <3>2. ~ (Receive(c) /\ Front.id = sent[c].id)
      <4>1. Receive(c) /\ Front.id = sent[c].id => pc[c] = "recv" /\ timeouts' = timeouts
        BY DEF Receive, Goes
      <4> QED BY <1>0, <1>4, <4>1 DEF NextRequest, Unlock, WriteFails, TimesOut, Goes
    <3> QED BY <1>4, <3>1, <3>2, CountsMove DEF Running
  <2>4. timeouts' \in Nat /\ timeouts' >= timeouts
    BY <1>0, <1>4 DEF NextRequest, Unlock, WriteFails, TimesOut
  <2>5. W' + S' + InHand' + InRing' <= timeouts' + Waits'
    BY <1>0, <2>2, <2>3
  <2>6. state_' = -1 => lost' \/ timeouts' >= Total
    BY <1>0, <2>1, <2>4
  <2> QED BY <2>5, <2>6 DEF FramesInv, PortSurvives, W, S
<1>5. ASSUME NEW c \in Clients, Receive(c) PROVE FramesInv'
  <2>1. /\ UNCHANGED <<wire, stream, lost, hand, state_, timeouts, pushing>>
        /\ pushing.step = "no" /\ cnt_' = cnt_ - 1
    BY <1>5 DEF Receive, Pop
  <2>2. W' = W /\ S' = S /\ InHand' = InHand /\ InRing' = InRing - 1
    BY <1>0, <2>1 DEF W, S, InHand, InRing
  <2>3. timeouts' = timeouts /\ Waits' \in 0 .. 1 /\ Waits <= Waits' + 1
    <3>1. ~ Write(c)
      BY <1>5 DEF Write, Receive, Goes
    <3> QED BY <1>0, <1>5, <2>1, <3>1, CountsMove DEF Running
  <2>4. W' + S' + InHand' + InRing' <= timeouts' + Waits'
    <3>1. PICK a \in 0 .. 1 : a = Waits
      BY <1>0
    <3>2. PICK b \in 0 .. 1 : b = Waits'
      BY <2>3
    <3>3. a <= b + 1 /\ W + S + InHand + InRing <= timeouts + a
      BY <1>0, <2>3, <3>1, <3>2
    <3>4. W + S + InHand + (InRing - 1) <= timeouts + b
      BY <1>0, <3>3
    <3> QED BY <2>2, <2>3, <3>2, <3>4
  <2> QED BY <2>1, <2>4 DEF FramesInv, PortSurvives, W, S
<1>6. ASSUME Receiver \/ Controller \/ ConnectionEnds \/ UNCHANGED vars PROVE timeouts' = timeouts /\ timeouts' + Waits' = timeouts + Waits
  BY <1>6, OthersStay DEF clientVars, Waits
<1>7. CASE TakeFrame
  <2>1. UNCHANGED <<queueVars, wire, lost, state_>>
    BY <1>7 DEF TakeFrame
  <2>2. W' = W /\ S' = S - 1
    BY <1>7, InSeqHeadTail DEF TypeOK, TakeFrame, W, S
  <2>3. timeouts' = timeouts /\ timeouts' + Waits' = timeouts + Waits
    BY <1>6, <1>7 DEF Receiver
  <2>4. InHand = 0 /\ InHand' \in 0 .. 1 /\ InRing' = InRing
    BY <1>7, <2>1 DEF TakeFrame, InHand, InRing, queueVars
  <2>5. W' + S' + InHand' + InRing' <= timeouts' + Waits'
    BY <1>0, <2>4, <2>2, <2>3
  <2> QED BY <1>7, <2>1, <2>5, <2>3 DEF FramesInv, PortSurvives, W, S
<1>8. CASE Push
  <2>1. UNCHANGED <<wire, stream, lost, state_>>
    BY <1>8 DEF Push
  <2>2. W' = W /\ S' = S /\ InHand = 1
    BY <1>8, <2>1 DEF Push, W, S, InHand
  <2>3. timeouts' = timeouts /\ timeouts' + Waits' = timeouts + Waits
    BY <1>6, <1>8 DEF Receiver
  <2>4. InHand' + InRing' <= InHand + InRing /\ InHand' \in Nat /\ InRing' \in Nat
    <3>1. CASE PushCopy(hand) /\ hand' = hand
      <4>1. pushing'.step # "no" /\ pushing'.cnt = cnt_ /\ pushing.step = "no"
        BY <3>1 DEF PushCopy
      <4> QED BY <1>0, <3>1, <4>1 DEF InHand, InRing
    <3>2. CASE PushHead /\ hand' = hand
      <4>1. pushing'.step # "no" /\ pushing'.cnt = pushing.cnt /\ pushing.step # "no"
        BY <3>2 DEF TypeOK, QueueTypeOK, PushHead
      <4> QED BY <1>0, <3>2, <4>1 DEF InHand, InRing
    <3>3. CASE PushCnt /\ hand' = Blank
      <4>1. pushing'.step = "no" /\ pushing.step # "no" /\ cnt_' \in {pushing.cnt + 1, cnt_ + 1}
        BY <3>3 DEF PushCnt, NotPushing
      <4>2. cnt_ <= pushing.cnt
        BY <4>1 DEF PushInv
      <4>3. InHand' = 0 /\ InRing' = cnt_' /\ InRing = pushing.cnt
        BY <3>3, <4>1 DEF InHand, InRing
      <4>4. cnt_' \in Nat /\ cnt_' <= pushing.cnt + 1
        BY <1>0, <4>1, <4>2
      <4> QED BY <1>0, <2>2, <4>3, <4>4
    <3> QED BY <1>8, <3>1, <3>2, <3>3 DEF Push
  <2>5. W' + S' + InHand' + InRing' <= timeouts' + Waits'
    <3>1. PICK h \in Nat, r \in Nat : h = InHand' /\ r = InRing'
      BY <2>4
    <3>2. h + r <= InHand + InRing
      BY <2>4, <3>1
    <3>3. W + S + h + r <= timeouts + Waits
      BY <1>0, <3>2
    <3> QED BY <2>2, <2>3, <3>1, <3>3
  <2> QED BY <1>8, <2>1, <2>5, <2>3 DEF FramesInv, PortSurvives, W, S
<1>9. CASE GiveUp
  <2>1. UNCHANGED <<queueVars, wire, stream>> /\ W' = W /\ S' = S
    BY <1>9 DEF GiveUp, W, S
  <2>2. InHand = 1 /\ InHand' = 0 /\ InRing' = InRing /\ InRing >= Total
    BY <1>9, <2>1 DEF GiveUp, InHand, InRing, IsFull, queueVars
  <2>3. W' + S' + InHand' + InRing' <= timeouts' + Waits'
    BY <1>0, <1>6, <1>9, <2>1, <2>2 DEF Receiver
  <2>4. timeouts' >= Total
    BY <1>0, <1>6, <1>9, <2>2 DEF Receiver
  <2> QED BY <2>3, <2>4 DEF FramesInv, PortSurvives, W, S
<1>10. ASSUME NEW answers \in BOOLEAN, Handles(answers) PROVE FramesInv'
  <2>1. UNCHANGED <<queueVars, lost, hand, state_>> /\ W' = W - 1
    BY <1>10, InSeqHeadTail DEF TypeOK, Handles, W
  <2>2. S' \in {S, S + 1}
    <3>1. Head(wire) \in Frames
      BY <1>10, InSeqHeadTail DEF TypeOK, Handles
    <3>2. Len(Append(stream, Head(wire))) = S + 1
      BY <3>1 DEF TypeOK, S
    <3> QED BY <1>10, <3>2 DEF Handles, S
  <2>3. InHand' = InHand /\ InRing' = InRing
    BY <2>1 DEF InHand, InRing, queueVars
  <2>4. W' + S' + InHand' + InRing' <= timeouts' + Waits'
    BY <1>0, <1>6, <1>10, <2>1, <2>2, <2>3 DEF Controller
  <2> QED BY <1>6, <1>10, <2>1, <2>4 DEF FramesInv, PortSurvives, W, S, Controller
<1>11. CASE UNCHANGED vars
  BY <1>6, <1>11 DEF FramesInv, PortSurvives, InHand, InRing, vars, queueVars
<1>12. CASE RecvFails \/ ConnectionEnds
  <2>1. UNCHANGED <<queueVars, hand, wire, stream>> /\ lost'
    BY <1>12 DEF RecvFails, ConnectionEnds
  <2>2. W' = W /\ S' = S /\ InHand' = InHand /\ InRing' = InRing
    BY <2>1 DEF W, S, InHand, InRing, queueVars
  <2>3. W' + S' + InHand' + InRing' <= timeouts' + Waits'
    BY <1>0, <1>6, <1>12, <2>2 DEF Receiver
  <2> QED BY <2>1, <2>3 DEF FramesInv, PortSurvives, W, S
<1> QED BY <1>1, <1>2, <1>3, <1>4, <1>5, <1>7, <1>8, <1>9, <1>10, <1>11, <1>12
        DEF Next, Running, Receiver, Controller

-----------------------------------------------------------------------------
(* The ids of the frames that were not taken. *)

\* What the steps of the receiver and of the controller, and those of a client
\* but for a write, add to the frames on their way and to those in the ring.
LEMMA OnItsWayShrinks ==
  ASSUME TypeOK, PushInv,
         \/ Receiver \/ Controller \/ ConnectionEnds \/ UNCHANGED vars
  PROVE  /\ OnItsWay' \subseteq OnItsWay \cup {Blank}
         /\ InBuf' \subseteq InBuf \cup OnItsWay
<1>1. CASE TakeFrame
  <2>1. InSeq(stream)' \subseteq InSeq(stream) /\ hand' \in InSeq(stream) /\ wire' = wire
    BY <1>1, InSeqHeadTail DEF TypeOK, TakeFrame, InSeq
  <2>2. OnItsWay' \subseteq OnItsWay
    BY <2>1 DEF OnItsWay, InSeq
  <2>3. InBuf' = InBuf
    BY <1>1 DEF TakeFrame, InBuf, queueVars
  <2> QED BY <2>2, <2>3
<1>2. CASE Push
  <2>1. UNCHANGED <<wire, stream>> /\ hand' \in {hand, Blank}
    BY <1>2 DEF Push
  <2>2. OnItsWay' \subseteq OnItsWay \cup {Blank}
    BY <2>1 DEF OnItsWay
  <2>3. InBuf' \subseteq InBuf \cup {hand}
    <3>1. \/ buf_' = buf_
          \/ buf_' = [buf_ EXCEPT ![Wrapped(head_)] = hand]
      BY <1>2 DEF Push, PushCopy, PushHead, PushCnt
    <3>2. \A i \in Nodes : buf_'[i] \in {buf_[i], hand}
      BY <3>1 DEF TypeOK, QueueTypeOK
    <3> QED BY <3>2 DEF InBuf
  <2> QED BY <2>2, <2>3 DEF OnItsWay
<1>3. CASE GiveUp
  <2>1. UNCHANGED <<wire, stream, buf_>> /\ hand' = Blank
    BY <1>3 DEF GiveUp, queueVars
  <2> QED BY <2>1 DEF OnItsWay, InBuf
<1>4. ASSUME NEW answers \in BOOLEAN, Handles(answers)
      PROVE  OnItsWay' \subseteq OnItsWay /\ InBuf' = InBuf
  <2>1. /\ InSeq(wire)' \subseteq InSeq(wire) /\ Head(wire) \in InSeq(wire)
        /\ Head(wire) \in Frames
    BY <1>4, InSeqHeadTail DEF TypeOK, Handles
  <2>2. InSeq(stream)' \subseteq InSeq(stream) \cup {Head(wire)}
    <3>1. stream \in Seq(Frames)
      BY DEF TypeOK
    <3>2. InSeq(Append(stream, Head(wire))) \subseteq InSeq(stream) \cup {Head(wire)}
      BY <2>1, <3>1, InSeqAppend
    <3>3. stream' \in {stream, Append(stream, Head(wire))}
      BY <1>4 DEF Handles
    <3>4. InSeq(stream)' = InSeq(stream')
      BY DEF InSeq
    <3> QED BY <3>2, <3>3, <3>4
  <2>3. hand' = hand /\ buf_' = buf_
    BY <1>4 DEF Handles, queueVars
  <2>4. OnItsWay' \subseteq OnItsWay
    BY <2>1, <2>2, <2>3 DEF OnItsWay, InSeq
  <2> QED BY <2>3, <2>4 DEF InBuf
<1>5. CASE UNCHANGED vars
  BY <1>5 DEF OnItsWay, InBuf, vars, queueVars
<1>6. CASE RecvFails \/ ConnectionEnds
  BY <1>6 DEF RecvFails, ConnectionEnds, OnItsWay, InBuf, queueVars
<1> QED BY <1>1, <1>2, <1>3, <1>4, <1>5, <1>6 DEF Receiver, Controller

\* A client's step adds its request to the frames on their way, and a flush leaves
\* no more in the ring than a part of the frame that is pushed meanwhile.
LEMMA ClientFrames ==
  ASSUME TypeOK, TypeOK', PushInv, NEW c \in Clients, Running(c)
  PROVE  /\ OnItsWay' \subseteq OnItsWay \cup {sent'[c]}
         /\ ~ Write(c) => OnItsWay' = OnItsWay
         /\ pc[c] # "flush_buf" => InBuf' = InBuf
         /\ pc[c] = "flush_buf" => \A f \in InBuf' : f.id \in {0, hand.id}
<1>1. CASE Write(c)
  <2>1. wire \in Seq(Frames) /\ sent'[c] \in Frames
    BY DEF TypeOK
  <2>2. InSeq(Append(wire, sent'[c])) \subseteq InSeq(wire) \cup {sent'[c]}
    BY <2>1, InSeqAppend
  <2>3. wire' = Append(wire, sent'[c]) /\ stream' = stream /\ hand' = hand /\ buf_' = buf_
    BY <1>1 DEF Write, queueVars
  <2>4. InSeq(wire)' \subseteq InSeq(wire) \cup {sent'[c]}
    BY <2>2, <2>3 DEF InSeq
  <2>5. pc[c] = "write"
    BY <1>1 DEF Write, Goes
  <2> QED BY <1>1, <2>3, <2>4, <2>5 DEF OnItsWay, InSeq, InBuf
<1>2. CASE ~ Write(c)
  <2>1. UNCHANGED <<wire, stream, hand>>
    BY <1>2 DEF Running, NextRequest, Unlock, FlushStep, WriteFails, Receive, TimesOut
  <2>2. OnItsWay' = OnItsWay
    BY <2>1 DEF OnItsWay
  <2>3. CASE pc[c] # "flush_buf"
    <3>1. buf_' = buf_
      BY <1>2, <2>3 DEF Running, NextRequest, Unlock, FlushStep, WriteFails, Receive, TimesOut,
           Goes, FlushCnt, FlushHead, FlushTail, Pop, queueVars
    <3> QED BY <2>2, <2>3, <3>1 DEF InBuf
  <2>4. CASE pc[c] = "flush_buf"
    <3>1. FlushBuf
      BY <1>2, <2>4 DEF Running, NextRequest, Unlock, FlushStep, WriteFails, Receive, TimesOut, Goes
    <3>2. \A i \in Nodes : buf_'[i].id \in {0, hand.id}
      <4>1. \A i \in Nodes : Zeros[i].id = 0
        BY DEF Zeros, Blank
      <4>2. CASE pushing.step = "copied"
        <5>1. PICK node \in {Blank, buf_[pushing.at], [buf_[pushing.at] EXCEPT !.whole = FALSE]} :
                buf_' = [Zeros EXCEPT ![pushing.at] = node]
          BY <3>1, <4>2 DEF FlushBuf
        <5>2. pushing.at \in Nodes /\ buf_[pushing.at] \in Frames
          BY DEF TypeOK, QueueTypeOK
        <5>3. node.id \in {0, buf_[pushing.at].id}
          BY <5>2 DEF Blank, Frames
        <5>4. buf_[pushing.at].id \in {0, hand.id}
          BY <4>2 DEF PushInv
        <5>5. \A i \in Nodes : buf_'[i] = IF i = pushing.at THEN node ELSE Zeros[i]
          BY <5>1 DEF Zeros
        <5> QED BY <4>1, <5>3, <5>4, <5>5
      <4>3. CASE pushing.step # "copied"
        BY <3>1, <4>1, <4>3 DEF FlushBuf
      <4> QED BY <4>2, <4>3
    <3> QED BY <1>2, <2>2, <2>4, <3>2 DEF InBuf
  <2> QED BY <1>2, <2>2, <2>3, <2>4
<1> QED BY <1>1, <1>2

\* The id of a request is on no frame that was there before it, and the ids of
\* the requests that a command has left stay free.
LEMMA IdsStep ==
  /\ TypeOK /\ TypeOK' /\ HolderInv /\ TodoInv /\ PushInv /\ IdsInv
  /\ [Next]_vars
  => IdsInv'
<1> SUFFICES ASSUME TypeOK, TypeOK', HolderInv, TodoInv, PushInv, IdsInv, [Next]_vars
             PROVE  IdsInv'
  OBVIOUS
<1>0. \A n : NextIds(n) = FromOn(transaction_id_, n)
  BY DEF NextIds, FromOn
<1>1. ASSUME NEW c \in Clients, NEW work \in Works, Lock(c, work) PROVE IdsInv'
  <2>1. \A d \in Clients : pc'[d] = IF d = c THEN "next" ELSE "idle"
    BY <1>1, BusAssumption DEF TypeOK, Lock, Goes, HolderInv
  <2>2. Left(c)' = Len(work)
    BY <1>1, <2>1 DEF TypeOK, Left, Lock
  <2>3. UNCHANGED <<transaction_id_, wire, stream, hand>> /\ IdsFree(Len(work))
    BY <1>1 DEF Lock
  <2>4. OnItsWay' = OnItsWay /\ NextIds(Left(c))' = NextIds(Len(work))
    BY <2>2, <2>3 DEF OnItsWay, NextIds
  <2>5. \A f \in OnItsWay' : f.id \notin NextIds(Left(c))'
    BY <2>3, <2>4 DEF IdsFree
  <2> QED BY <2>1, <2>5 DEF IdsInv
<1>2. ASSUME NEW c \in Clients, Running(c) PROVE IdsInv'
  <2>1. pc[c] # "idle" /\ \A d \in Clients : d # c => pc'[d] = "idle"
    BY <1>2, RunningMoves, OthersIdle DEF TypeOK
  <2>2. Left(c) \in 0 .. 3 /\ Left(c)' \in 0 .. 3
    BY <1>2, CountsMove
  <2>3. /\ \A f \in OnItsWay : f.id \notin NextIds(Left(c))
        /\ pc[c] = "write" => \A f \in InBuf : f.id \notin NextIds(Left(c))
        /\ pc[c] = "recv" =>
             /\ sent[c].id \in Ids
             /\ \A f \in OnItsWay \cup InBuf : f.id = sent[c].id => f = sent[c]
    BY <2>1 DEF IdsInv
  <2>4. transaction_id_ \in Ids
    BY DEF TypeOK
  <2>5. CASE Write(c)
    <3>1. /\ pc[c] = "write" /\ pc'[c] = "recv" /\ sent'[c].id = transaction_id_
          /\ transaction_id_' = After(transaction_id_)
      BY <2>5 DEF TypeOK, Write, Goes, After
    <3>2. Left(c) \in 1 .. 3 /\ Left(c)' = Left(c) - 1
      <4>1. Left(c)' = Left(c) - 1
        <5>1. ~ Receive(c)
          BY <3>1 DEF Receive, Goes
        <5> QED BY <1>2, <2>5, <5>1, CountsMove
      <4> QED BY <2>2, <4>1
    <3>3. /\ transaction_id_ \in NextIds(Left(c))
          /\ NextIds(Left(c))' \subseteq NextIds(Left(c)) \ {transaction_id_}
      <4>1. NextIds(Left(c))' = FromOn(After(transaction_id_), Left(c) - 1)
        BY <3>1, <3>2 DEF NextIds, FromOn
      <4> QED BY <1>0, <2>4, <3>2, <4>1, IdsFromOn
    <3>4. OnItsWay' \subseteq OnItsWay \cup {sent'[c]} /\ InBuf' = InBuf
      BY <1>2, <3>1, ClientFrames
    <3>5. \A f \in OnItsWay' : f.id \notin NextIds(Left(c))'
      BY <2>3, <3>1, <3>3, <3>4
    <3>6. \A f \in OnItsWay' \cup InBuf' : f.id = sent'[c].id => f = sent'[c]
      BY <2>3, <3>1, <3>3, <3>4
    <3> QED BY <2>1, <2>4, <3>1, <3>5, <3>6 DEF IdsInv
  <2>6. CASE ~ Write(c)
    <3>1. transaction_id_' = transaction_id_ /\ OnItsWay' = OnItsWay /\ Left(c)' <= Left(c)
      <4>1. transaction_id_' = transaction_id_
        BY <1>2, <2>6 DEF Running, NextRequest, Unlock, FlushStep, WriteFails, Receive, TimesOut
      <4>2. Left(c)' <= Left(c)
        BY <1>2, <2>2, <2>6, CountsMove
      <4> QED BY <1>2, <2>6, <4>1, <4>2, ClientFrames
    <3>2. NextIds(Left(c))' \subseteq NextIds(Left(c)) /\ 0 \notin NextIds(Left(c))
      <4>1. NextIds(Left(c))' = FromOn(transaction_id_, Left(c)')
        BY <3>1 DEF NextIds, FromOn
      <4>2. 0 \notin Ids
        BY BusAssumption DEF Ids
      <4> QED BY <1>0, <2>2, <2>4, <3>1, <4>1, <4>2, FewerIds
    <3>3. \A f \in OnItsWay' : f.id \notin NextIds(Left(c))'
      BY <2>3, <3>1, <3>2
    <3>4. ASSUME pc'[c] = "write" PROVE \A f \in InBuf' : f.id \notin NextIds(Left(c))'
      <4>1. pc[c] = "flush_buf"
        BY <1>2, <2>6, <3>4 DEF TypeOK, Running, NextRequest, Unlock, FlushStep, WriteFails, Receive,
             TimesOut, Goes
      <4>2. \A f \in InBuf' : f.id \in {0, hand.id}
        BY <1>2, <4>1, ClientFrames
      <4>3. hand.id \notin NextIds(Left(c))
        BY <2>3 DEF OnItsWay
      <4> QED BY <3>2, <4>2, <4>3
    <3>5. ASSUME pc'[c] = "recv"
          PROVE  /\ sent'[c].id \in Ids
                 /\ \A f \in OnItsWay' \cup InBuf' : f.id = sent'[c].id => f = sent'[c]
      <4>1. pc[c] = "recv" /\ sent' = sent
        BY <1>2, <2>6, <3>5 DEF TypeOK, Running, NextRequest, Unlock, FlushStep, WriteFails, Receive,
             TimesOut, Goes
      <4>2. InBuf' = InBuf
        BY <1>2, <4>1, ClientFrames
      <4> QED BY <2>3, <3>1, <4>1, <4>2
    <3> QED BY <2>1, <3>3, <3>4, <3>5 DEF IdsInv
  <2> QED BY <2>5, <2>6
<1>3. CASE Receiver \/ Controller \/ ConnectionEnds \/ UNCHANGED vars
  <2>1. UNCHANGED <<pc, todo, sent, transaction_id_>>
    BY <1>3, OthersStay DEF clientVars
  <2>2. OnItsWay' \subseteq OnItsWay \cup {Blank} /\ InBuf' \subseteq InBuf \cup OnItsWay
    BY <1>3, OnItsWayShrinks
  <2>3. Blank.id = 0 /\ 0 \notin Ids
    BY BusAssumption DEF Blank, Ids
  <2> SUFFICES ASSUME NEW c \in Clients, pc[c] # "idle"
               PROVE  /\ \A f \in OnItsWay' : f.id \notin NextIds(Left(c))'
                      /\ pc[c] = "write" => \A f \in InBuf' : f.id \notin NextIds(Left(c))'
                      /\ pc[c] = "recv" =>
                           /\ sent[c].id \in Ids
                           /\ \A f \in OnItsWay' \cup InBuf' : f.id = sent[c].id => f = sent[c]
    BY <2>1 DEF IdsInv
  <2>4. NextIds(Left(c))' = NextIds(Left(c))
    BY <2>1 DEF NextIds, Left
  <2>5. 0 \notin NextIds(Left(c))
    <3>1. Left(c) \in 0 .. 3
      <4>1. Len(todo[c]) \in 0 .. 3 /\ (pc[c] = "recv" => Len(todo[c]) \in 1 .. 3)
        BY RestsType DEF TodoInv
      <4> QED BY <4>1 DEF Left
    <3>2. transaction_id_ \in Ids
      BY DEF TypeOK
    <3> QED BY <1>0, <2>3, <3>1, <3>2, FewerIds
  <2>6. \A f \in OnItsWay' : f.id \notin NextIds(Left(c))'
    BY <2>2, <2>3, <2>4, <2>5 DEF IdsInv
  <2>7. ASSUME pc[c] = "write" PROVE \A f \in InBuf' : f.id \notin NextIds(Left(c))'
    BY <2>2, <2>4, <2>7 DEF IdsInv
  <2>8. ASSUME pc[c] = "recv"
        PROVE  /\ sent[c].id \in Ids
               /\ \A f \in OnItsWay' \cup InBuf' : f.id = sent[c].id => f = sent[c]
    BY <2>2, <2>3, <2>8 DEF IdsInv
  <2> QED BY <2>6, <2>7, <2>8
<1> QED BY <1>1, <1>2, <1>3 DEF Next

-----------------------------------------------------------------------------
(* Answers and feedback keys. *)

\* A popped frame with the id of the request is the answer to it.
LEMMA OwnStep ==
  TypeOK /\ HolderInv /\ IdsInv /\ OwnAnswer /\ [Next]_vars => OwnAnswer'
<1> SUFFICES ASSUME TypeOK, HolderInv, IdsInv, OwnAnswer, [Next]_vars PROVE OwnAnswer'
  OBVIOUS
<1>1. CASE UNCHANGED <<sent, answer>>
  BY <1>1 DEF OwnAnswer
<1>2. ASSUME NEW c \in Clients, Unlock(c) \/ Write(c) PROVE OwnAnswer'
  <2>1. answer' = [answer EXCEPT ![c] = Blank] /\ \A d \in Clients : d # c => sent'[d] = sent[d]
    BY <1>2 DEF TypeOK, Unlock, Write
  <2> QED BY <2>1 DEF TypeOK, OwnAnswer
<1>3. ASSUME NEW c \in Clients, Receive(c), Front.id = sent[c].id PROVE OwnAnswer'
  <2>1. pc[c] = "recv" /\ sent' = sent /\ answer' = [answer EXCEPT ![c] = Front]
    BY <1>3 DEF Receive, Goes
  <2>2. Front \in InBuf
    <3>1. Wrapped(tail_) \in Nodes
      BY TotalAssumption DEF TypeOK, QueueTypeOK, Wrapped, Nodes
    <3> QED BY <3>1 DEF Front, InBuf
  <2>3. Front = sent[c]
    BY <1>3, <2>1, <2>2 DEF IdsInv
  <2> QED BY <2>1, <2>3 DEF TypeOK, OwnAnswer
<1>4. CASE Receiver \/ Controller \/ ConnectionEnds \/ UNCHANGED vars
  BY <1>1, <1>4, OthersStay DEF clientVars
<1>5. \/ UNCHANGED <<sent, answer>>
      \/ \E c \in Clients : Unlock(c) \/ Write(c) \/ (Receive(c) /\ Front.id = sent[c].id)
      \/ Receiver \/ Controller \/ ConnectionEnds
  BY DEF Next, Running, Lock, NextRequest, FlushStep, WriteFails, Receive, TimesOut, vars, clientVars
<1> QED BY <1>1, <1>2, <1>3, <1>4, <1>5

\* The key of a command is filed before its request takes the id, and nothing of
\* the same thread takes it in between.
LEMMA FiledStep ==
  /\ TypeOK /\ HolderInv /\ TodoInv /\ FiledInv /\ FiledUnderOwnId
  /\ [Next]_vars
  => FiledInv' /\ FiledUnderOwnId'
<1> SUFFICES ASSUME TypeOK, HolderInv, TodoInv, FiledInv, FiledUnderOwnId, [Next]_vars
             PROVE  FiledInv' /\ FiledUnderOwnId'
  OBVIOUS
<1>0. \A c \in Clients :
        /\ todo[c] # <<>> /\ Head(todo[c]) \notin {"type", "filed"} => todo[c] = <<"plain">>
        /\ todo[c] = <<"plain">> => Head(todo[c]) = "plain"
        /\ todo[c] # <<>> => Tail(todo[c]) # <<"plain">>
        /\ pc[c] \in Flush \cup {"write", "recv"} => todo[c] # <<>>
  <2> SUFFICES ASSUME NEW c \in Clients
               PROVE  /\ todo[c] # <<>> /\ Head(todo[c]) \notin {"type", "filed"} => todo[c] = <<"plain">>
                      /\ todo[c] = <<"plain">> => Head(todo[c]) = "plain"
                      /\ todo[c] # <<>> => Tail(todo[c]) # <<"plain">>
                      /\ pc[c] \in Flush \cup {"write", "recv"} => todo[c] # <<>>
    OBVIOUS
  <2>1. todo[c] \in Rests
    BY DEF TodoInv
  <2>2. todo[c] # <<>> => Head(todo[c]) \in {"type", "filed", "plain"}
    BY InSeqHeadTail DEF TypeOK
  <2>3. Head(<<"plain">>) = "plain"
    OBVIOUS
  <2> QED BY <2>1, <2>2, <2>3, RestsType DEF TodoInv
<1>1. ASSUME NEW c \in Clients, NEW work \in Works, Lock(c, work)
      PROVE  FiledInv' /\ FiledUnderOwnId'
  <2>1. \A d \in Clients : pc[d] = "idle" /\ pc'[d] \in {"idle", "next"}
    BY <1>1, BusAssumption DEF TypeOK, Lock, Goes, HolderInv
  <2>2. \A d \in Clients : filed'[d] = 0
    BY <1>1, <2>1 DEF FiledInv, Lock
  <2> QED BY <2>1, <2>2 DEF FiledInv, FiledUnderOwnId, Flush
<1>2. ASSUME NEW c \in Clients, Running(c) PROVE FiledInv' /\ FiledUnderOwnId'
  <2>1. \A d \in Clients : d # c => /\ pc[d] = "idle" /\ pc'[d] = "idle"
                                   /\ filed[d] = 0 /\ filed'[d] = 0
    <3>1. \A d \in Clients : d # c => pc[d] = "idle" /\ pc'[d] = "idle"
      BY <1>2, RunningMoves, OthersIdle DEF TypeOK
    <3>2. \A d \in Clients : d # c => filed'[d] = filed[d]
      BY <1>2 DEF TypeOK, Running, NextRequest, Unlock, FlushStep, Write, WriteFails, Receive, TimesOut
    <3> QED BY <3>1, <3>2 DEF FiledInv
  <2> SUFFICES /\ pc'[c] = "idle" \/ todo'[c] = <<"plain">> => filed'[c] = 0
               /\ pc'[c] \in Flush \cup {"write"} /\ Head(todo'[c]) # "type" /\ filed'[c] # 0
                    => filed'[c] = transaction_id_'
               /\ pc'[c] = "recv" /\ Head(todo'[c]) # "type" /\ filed'[c] # 0
                    => filed'[c] = sent'[c].id
    BY <2>1 DEF FiledInv, FiledUnderOwnId, Flush
  <2>2. CASE NextRequest(c)
    <3>1. pc'[c] = "flush_cnt" /\ todo' = todo /\ transaction_id_' = transaction_id_ /\ todo[c] # <<>>
      BY <2>2 DEF TypeOK, NextRequest, Goes
    <3>2. CASE Head(todo[c]) = "filed"
      <4>1. filed'[c] = transaction_id_ /\ todo[c] # <<"plain">>
        BY <1>0, <2>2, <3>2 DEF TypeOK, NextRequest
      <4> QED BY <3>1, <4>1
    <3>3. CASE Head(todo[c]) # "filed"
      <4>1. filed'[c] = filed[c]
        BY <2>2, <3>3 DEF NextRequest
      <4>2. Head(todo[c]) # "type" => todo[c] = <<"plain">>
        BY <1>0, <3>1, <3>3
      <4> QED BY <3>1, <4>1, <4>2 DEF FiledInv
    <3> QED BY <3>2, <3>3
  <2>3. CASE Unlock(c)
    BY <2>3 DEF TypeOK, Unlock, Goes, Flush
  <2>4. CASE FlushStep(c)
    <3>1. pc[c] \in Flush /\ pc'[c] \in Flush \cup {"write"}
      BY <2>4 DEF TypeOK, FlushStep, Goes, Flush
    <3> QED BY <2>4, <3>1 DEF FlushStep, FiledInv, Flush
  <2>5. CASE Write(c)
    <3>1. pc[c] = "write" /\ pc'[c] = "recv" /\ sent'[c].id = transaction_id_
      BY <2>5 DEF TypeOK, Write, Goes
    <3> QED BY <2>5, <3>1 DEF Write, FiledInv, Flush
  <2>6. CASE WriteFails(c) \/ TimesOut(c) \/ (Receive(c) /\ Front.id = sent[c].id)
    <3>1. /\ pc'[c] = "next" /\ filed' = filed /\ pc[c] \in {"write", "recv"}
          /\ todo'[c] \in {Tail(todo[c]), <<>>}
      BY <2>6 DEF TypeOK, WriteFails, TimesOut, Receive, Goes
    <3>2. todo'[c] # <<"plain">>
      <4>1. todo[c] # <<>> /\ Tail(todo[c]) # <<"plain">>
        BY <1>0, <3>1
      <4>2. <<>> # <<"plain">>
        OBVIOUS
      <4> QED BY <3>1, <4>1, <4>2
    <3> QED BY <3>1, <3>2 DEF Flush
  <2>7. CASE Receive(c) /\ Front.id # sent[c].id
    BY <2>7 DEF Receive, FiledInv, FiledUnderOwnId
  <2> QED BY <1>2, <2>2, <2>3, <2>4, <2>5, <2>6, <2>7 DEF Running
<1>3. CASE Receiver \/ Controller \/ ConnectionEnds \/ UNCHANGED vars
  BY <1>3, OthersStay DEF FiledInv, FiledUnderOwnId, clientVars
<1> QED BY <1>1, <1>2, <1>3 DEF Next

-----------------------------------------------------------------------------
(* The ring. *)

\* Where the places of the ring are.
LEMMA Slots ==
  /\ \A i \in 0 .. 2 * Total :
       Slot(i) = IF i < Total THEN i ELSE IF i < 2 * Total THEN i - Total ELSE 0
  /\ \A i \in 0 .. Total : Wrapped(i) = Slot(i) /\ Wrapped(i) \in Nodes
<1>0. Total \in Nat \ {0}
  BY TotalAssumption
<1>1. ASSUME NEW i \in 0 .. 2 * Total - 1 PROVE Slot(i) = IF i < Total THEN i ELSE i - Total
  BY <1>0, ModOnce DEF Slot
<1>2. Slot(2 * Total) = 0
  <2>1. (2 * Total) % Total = 0
    BY <1>0
  <2> QED BY <2>1 DEF Slot
<1>3. ASSUME NEW i \in 0 .. 2 * Total
      PROVE  Slot(i) = IF i < Total THEN i ELSE IF i < 2 * Total THEN i - Total ELSE 0
  <2>1. CASE i \in 0 .. 2 * Total - 1
    BY <1>0, <1>1, <2>1
  <2>2. CASE i = 2 * Total
    BY <1>0, <1>2, <2>2
  <2> QED BY <1>0, <2>1, <2>2
<1>4. ASSUME NEW i \in 0 .. Total PROVE Wrapped(i) = Slot(i) /\ Wrapped(i) \in Nodes
  <2>1. i \in 0 .. 2 * Total - 1
    BY <1>0
  <2> QED BY <1>0, <1>1, <2>1 DEF Wrapped, Nodes
<1> QED BY <1>3, <1>4

\* How the places shift when the oldest frame is popped, when one is pushed, and
\* that a full turn apart is the least that two of them have to be.
LEMMA SlotShifts ==
  ASSUME NEW t \in 0 .. Total, NEW i \in 0 .. Total
  PROVE  /\ Slot(t + i) \in Nodes
         /\ Slot(Wrapped(t) + i) = Slot(t + i)
         /\ i < Total => Wrapped(Slot(t + i) + 1) = Slot(t + i + 1)
         /\ \A j \in 0 .. i : j < i /\ i < Total => Slot(t + j) # Slot(t + i)
<1>0. Total \in Nat \ {0}
  BY TotalAssumption
<1> DEFINE v(x) == IF x < Total THEN x ELSE IF x < 2 * Total THEN x - Total ELSE 0
<1>1. \A x \in 0 .. 2 * Total : Slot(x) = v(x)
  BY Slots
<1>2. Slot(t + i) = v(t + i)
  <2>1. t + i \in 0 .. 2 * Total
    BY <1>0
  <2> QED BY <1>1, <2>1
<1>3. Slot(t + i) \in Nodes
  BY <1>0, <1>2 DEF Nodes
<1>4. Slot(Wrapped(t) + i) = Slot(t + i)
  <2>1. CASE t < Total
    BY <1>0, <2>1 DEF Wrapped
  <2>2. CASE t = Total
    <3>1. Wrapped(t) + i = i /\ i \in 0 .. 2 * Total
      BY <1>0, <2>2 DEF Wrapped
    <3>2. Slot(i) = v(i) /\ v(i) = v(Total + i)
      BY <1>0, <1>1, <3>1
    <3> QED BY <1>2, <2>2, <3>1, <3>2
  <2> QED BY <1>0, <2>1, <2>2
<1>5. ASSUME i < Total PROVE Wrapped(Slot(t + i) + 1) = Slot(t + i + 1)
  <2>1. t + i + 1 \in 0 .. 2 * Total
    BY <1>0, <1>5
  <2>2. Slot(t + i + 1) = v(t + i + 1)
    BY <1>1, <2>1
  <2>3. Wrapped(v(t + i) + 1) = v(t + i + 1)
    BY <1>0, <1>5 DEF Wrapped
  <2> QED BY <1>2, <2>2, <2>3
<1>6. ASSUME NEW j \in 0 .. i, j < i, i < Total PROVE Slot(t + j) # Slot(t + i)
  <2>1. t + j \in 0 .. 2 * Total
    BY <1>0, <1>6
  <2>2. Slot(t + j) = v(t + j)
    BY <1>1, <2>1
  <2>3. v(t + j) # v(t + i)
    BY <1>0, <1>6
  <2> QED BY <1>2, <2>2, <2>3
<1> QED BY <1>3, <1>4, <1>5, <1>6

\* What pop does to a ring that holds s: the rest stays, and so does its end.
LEMMA PopHolds ==
  ASSUME NEW S, NEW s \in Seq(S), NEW buf, NEW t \in 0 .. Total, NEW n \in 1 .. Total,
         Holds(buf, t, n, s)
  PROVE  /\ s # <<>>
         /\ Holds(buf, Wrapped(t) + 1, n - 1, Tail(s))
         /\ Slot(Wrapped(t) + 1 + (n - 1)) = Slot(t + n)
<1>0. Total \in Nat \ {0}
  BY TotalAssumption
<1>1. Len(s) = n /\ s # <<>>
  BY DEF Holds
<1>2. /\ Len(Tail(s)) = n - 1
      /\ \A i \in 1 .. n - 1 : Tail(s)[i] = s[i + 1]
  BY <1>1
<1>3. Wrapped(t) \in Nodes
  BY Slots
<1>4. ASSUME NEW i \in 1 .. n PROVE Slot(Wrapped(t) + 1 + i - 1) = Slot(t + i)
  <2>1. i \in 0 .. Total /\ Wrapped(t) + 1 + i - 1 = Wrapped(t) + i
    BY <1>0, <1>3 DEF Nodes
  <2> QED BY <2>1, SlotShifts
<1>5. ASSUME NEW i \in 1 .. n - 1 PROVE buf[Slot(Wrapped(t) + 1 + i - 1)] = Tail(s)[i]
  <2>1. i \in 1 .. n /\ i + 1 \in 1 .. n /\ t + (i + 1) - 1 = t + i
    BY <1>0
  <2>2. buf[Slot(t + i)] = s[i + 1]
    BY <2>1 DEF Holds
  <2> QED BY <1>2, <1>4, <2>1, <2>2
<1>6. Slot(Wrapped(t) + 1 + (n - 1)) = Slot(t + n)
  <2>1. Wrapped(t) + 1 + (n - 1) = Wrapped(t) + n /\ n \in 0 .. Total
    BY <1>0, <1>3 DEF Nodes
  <2> QED BY <2>1, SlotShifts
<1> QED BY <1>1, <1>2, <1>5, <1>6 DEF Holds

\* A push writes behind the frames that are in the ring, and counts its own.
LEMMA PushHolds ==
  ASSUME NEW S, NEW s \in Seq(S), NEW f \in S, NEW buf \in [Nodes -> S],
         NEW t \in 0 .. Total, NEW n \in 0 .. Total - 1, Holds(buf, t, n, s)
  PROVE  /\ Holds([buf EXCEPT ![Slot(t + n)] = f], t, n, s)
         /\ buf[Slot(t + n)] = f => Holds(buf, t, n + 1, Append(s, f))
<1>0. Total \in Nat \ {0}
  BY TotalAssumption
<1>1. /\ n \in 0 .. Total /\ n < Total /\ Len(s) = n
      /\ \A i \in 1 .. n : i - 1 \in 0 .. n /\ i - 1 < n /\ i - 1 \in 0 .. Total
  BY <1>0 DEF Holds
<1>2. ASSUME NEW i \in 1 .. n
      PROVE  Slot(t + i - 1) # Slot(t + n) /\ Slot(t + i - 1) \in Nodes
  <2>1. t + i - 1 = t + (i - 1)
    BY <1>0
  <2> QED BY <1>1, <2>1, SlotShifts
<1>3. Holds([buf EXCEPT ![Slot(t + n)] = f], t, n, s)
  BY <1>2 DEF Holds
<1>4. ASSUME buf[Slot(t + n)] = f PROVE Holds(buf, t, n + 1, Append(s, f))
  <2>1. /\ Len(Append(s, f)) = n + 1 /\ Append(s, f)[n + 1] = f
        /\ \A i \in 1 .. n : Append(s, f)[i] = s[i]
    BY <1>1
  <2>2. ASSUME NEW i \in 1 .. n + 1 PROVE buf[Slot(t + i - 1)] = Append(s, f)[i]
    <3>1. CASE i = n + 1
      <4>1. t + i - 1 = t + n
        BY <1>0, <3>1
      <4>2. buf[Slot(t + i - 1)] = f
        BY <1>4, <4>1
      <4> QED BY <2>1, <3>1, <4>2
    <3>2. CASE i \in 1 .. n
      BY <2>1, <3>2 DEF Holds
    <3>3. i = n + 1 \/ i \in 1 .. n
      BY <1>0
    <3> QED BY <3>1, <3>2, <3>3
  <2> QED BY <2>1, <2>2 DEF Holds
<1> QED BY <1>3, <1>4

\* Where nobody flushes, a ring that held fifo holds it; a flush that no push
\* overlaps leaves it empty.
LEMMA RingStep ==
  TypeOK /\ HolderInv /\ PushInv /\ RingInv /\ [Next]_vars => RingInv'
<1> SUFFICES ASSUME TypeOK, HolderInv, PushInv, RingInv, [Next]_vars, ~ raced'
             PROVE  RingInv'
  BY DEF RingInv
<1>0. /\ Total \in Nat \ {0} /\ fifo \in Seq(Frames) /\ hand \in Frames
      /\ buf_ \in [Nodes -> Frames] /\ pushing.at \in Nodes
      /\ cnt_ \in 0 .. Total /\ tail_ \in 0 .. Total /\ head_ \in 0 .. Total
  BY TotalAssumption DEF TypeOK, QueueTypeOK
<1>1. ASSUME UNCHANGED <<queueVars, fifo, raced>>,
             hand' = hand \/ pushing.step = "no",
             Flushing' = Flushing,
             \A c \in Clients : pc'[c] \in {"flush_tail", "flush_buf"} => pc'[c] = pc[c]
      PROVE  RingInv'
  BY <1>1 DEF RingInv, queueVars, Holds
<1>2. ASSUME NEW c \in Clients, NEW work \in Works, Lock(c, work) PROVE RingInv'
  <2>1. \A d \in Clients : pc'[d] = pc[d] \/ (pc'[d] = "next" /\ pc[d] = "idle")
    BY <1>2 DEF TypeOK, Lock, Goes
  <2>2. Flushing' = Flushing
    BY <2>1 DEF Flushing, Flush
  <2> QED BY <1>1, <1>2, <2>1, <2>2 DEF Lock
<1>3. ASSUME NEW c \in Clients, Running(c)
      PROVE  /\ Flushing  <=> pc[c] \in Flush \ {"flush_cnt"}
             /\ Flushing' <=> pc'[c] \in Flush \ {"flush_cnt"}
             /\ \A d \in Clients : d # c => pc[d] = "idle" /\ pc'[d] = "idle"
  <2>1. \A d \in Clients : d # c => pc[d] = "idle" /\ pc'[d] = "idle"
    BY <1>3, RunningMoves, OthersIdle DEF TypeOK
  <2> QED BY <2>1 DEF Flushing, Flush
<1>4. ASSUME NEW c \in Clients, NextRequest(c) \/ Unlock(c) \/ Write(c) \/ WriteFails(c) \/ TimesOut(c)
      PROVE  RingInv'
  <2>1. /\ pc[c] \in {"next", "write", "recv"} /\ pc'[c] \in {"idle", "next", "flush_cnt", "recv"}
        /\ \A d \in Clients : d # c => pc'[d] = pc[d]
    BY <1>4 DEF TypeOK, NextRequest, Unlock, Write, WriteFails, TimesOut, Goes
  <2>2. Flushing' = Flushing
    BY <2>1 DEF Flushing, Flush
  <2>3. UNCHANGED <<queueVars, hand, fifo, raced>>
    BY <1>4, QueueRests
  <2> QED BY <1>1, <2>1, <2>2, <2>3
<1>5. ASSUME NEW c \in Clients, FlushStep(c) PROVE RingInv'
  <2>1. /\ pushing.step = "no" /\ pushing' = pushing /\ fifo' = <<>>
        /\ pc[c] # "flush_cnt" => ~ raced
    BY <1>5 DEF FlushStep, FlushCnt, FlushHead, FlushTail, FlushBuf
  <2>2. /\ Flushing  <=> pc[c] \in Flush \ {"flush_cnt"}
        /\ Flushing' <=> pc'[c] \in Flush \ {"flush_cnt"}
        /\ \A d \in Clients : d # c => pc[d] = "idle" /\ pc'[d] = "idle"
    BY <1>3, <1>5 DEF Running
  <2>3. CASE pc[c] = "flush_cnt"
    <3>1. pc'[c] = "flush_head" /\ cnt_' = 0
      BY <1>5, <2>3 DEF TypeOK, FlushStep, Goes, FlushCnt
    <3> QED BY <2>1, <2>2, <3>1 DEF RingInv, Flush
  <2>4. CASE pc[c] = "flush_head"
    <3>1. pc'[c] = "flush_tail" /\ head_' = 0 /\ cnt_' = cnt_
      BY <1>5, <2>4 DEF TypeOK, FlushStep, Goes, FlushHead
    <3>2. cnt_ = 0
      BY <2>1, <2>2, <2>4 DEF RingInv, Flush
    <3> QED BY <2>1, <2>2, <3>1, <3>2 DEF RingInv, Flush
  <2>5. CASE pc[c] = "flush_tail"
    <3>1. pc'[c] = "flush_buf" /\ tail_' = 0 /\ cnt_' = cnt_ /\ head_' = head_
      BY <1>5, <2>5 DEF TypeOK, FlushStep, Goes, FlushTail
    <3>2. cnt_ = 0 /\ head_ = 0
      BY <2>1, <2>2, <2>5 DEF RingInv, Flush
    <3> QED BY <2>1, <2>2, <3>1, <3>2 DEF RingInv, Flush
  <2>6. CASE pc[c] = "flush_buf"
    <3>1. pc'[c] = "write" /\ tail_' = tail_ /\ cnt_' = cnt_ /\ head_' = head_
      BY <1>5, <2>6 DEF TypeOK, FlushStep, Goes, FlushBuf
    <3>2. cnt_ = 0 /\ head_ = 0 /\ tail_ = 0
      BY <2>1, <2>2, <2>6 DEF RingInv, Flush
    <3>3. Holds(buf_', 0, 0, <<>>)
      BY DEF Holds
    <3>4. Wrapped(0) = Slot(0 + 0)
      BY <1>0, Slots
    <3> QED BY <2>1, <2>2, <3>1, <3>2, <3>3, <3>4 DEF RingInv, Flush
  <2> QED BY <1>5, <2>3, <2>4, <2>5, <2>6 DEF FlushStep, Goes
<1>6. ASSUME NEW c \in Clients, Receive(c) PROVE RingInv'
  <2>1. /\ pc[c] = "recv" /\ pc'[c] \in {"recv", "next"} /\ raced' = raced /\ hand' = hand
        /\ fifo' = IF fifo = <<>> THEN <<>> ELSE Tail(fifo)
    BY <1>6 DEF TypeOK, Receive, Goes
  <2>2. /\ pushing.step = "no" /\ cnt_ > 0 /\ tail_' = Wrapped(tail_) + 1 /\ cnt_' = cnt_ - 1
        /\ UNCHANGED <<buf_, head_, pushing>>
    BY <1>6 DEF Receive, Pop
  <2>3. ~ Flushing /\ ~ Flushing' /\ \A d \in Clients : d # c => pc'[d] = "idle"
    BY <1>3, <1>6, <2>1 DEF Running, Flush
  <2>4. Holds(buf_, tail_, cnt_, fifo) /\ Wrapped(head_) = Slot(tail_ + cnt_)
    BY <2>1, <2>2, <2>3 DEF RingInv
  <2>5. cnt_ \in 1 .. Total
    BY <1>0, <2>2
  <2>6. /\ fifo # <<>> /\ Holds(buf_, Wrapped(tail_) + 1, cnt_ - 1, Tail(fifo))
        /\ Slot(Wrapped(tail_) + 1 + (cnt_ - 1)) = Slot(tail_ + cnt_)
    BY <1>0, <2>4, <2>5, PopHolds
  <2>7. Holds(buf_, tail_, cnt_, fifo)' /\ (Wrapped(head_) = Slot(tail_ + cnt_))'
    BY <2>1, <2>2, <2>4, <2>6 DEF Holds
  <2> QED BY <2>1, <2>2, <2>3, <2>7 DEF RingInv
<1>7. ASSUME Receiver \/ Controller \/ ConnectionEnds \/ UNCHANGED vars
      PROVE  pc' = pc /\ Flushing' = Flushing
  BY <1>7, OthersStay DEF clientVars, Flushing
<1>8. CASE TakeFrame \/ RecvFails \/ GiveUp \/ Controller \/ ConnectionEnds \/ UNCHANGED vars
  <2>1. UNCHANGED <<queueVars, fifo, raced>> /\ (hand' = hand \/ pushing.step = "no")
    BY <1>8 DEF TakeFrame, RecvFails, GiveUp, Controller, Handles, ConnectionEnds, PushInv, vars
  <2> QED BY <1>1, <1>7, <1>8, <2>1 DEF Receiver
<1>9. CASE Push
  <2>1. /\ pc' = pc /\ Flushing' = Flushing
        /\ ~ Flushing => \A c \in Clients : pc[c] \notin {"flush_tail", "flush_buf"}
    BY <1>7, <1>9 DEF Receiver, Flushing, Flush
  <2>2. tail_' = tail_ /\ ~ raced /\ ~ Flushing
    <3>1. \/ PushCopy(hand) /\ raced' = (raced \/ Flushing)
          \/ pushing.step # "no" /\ raced' = raced
      BY <1>9 DEF Push, PushHead, PushCnt
    <3>2. ~ raced /\ (~ Flushing \/ pushing.step # "no")
      <4>1. CASE raced' = (raced \/ Flushing)
        <5>1. ~ (raced \/ Flushing)
          BY <4>1
        <5> QED BY <5>1
      <4>2. CASE pushing.step # "no" /\ raced' = raced
        <5>1. ~ raced
          BY <4>2
        <5> QED BY <4>2, <5>1
      <4> QED BY <3>1, <4>1, <4>2
    <3>3. tail_' = tail_
      BY <1>9 DEF Push, PushCopy, PushHead, PushCnt
    <3> QED BY <3>2, <3>3 DEF RingInv
  <2>3. /\ Holds(buf_, tail_, cnt_, fifo)
        /\ pushing.step = "no" => Wrapped(head_) = Slot(tail_ + cnt_)
        /\ pushing.step # "no" =>
             /\ cnt_ = pushing.cnt /\ cnt_ < Total /\ pushing.at = Slot(tail_ + cnt_)
             /\ buf_[pushing.at] = hand
             /\ head_ = IF pushing.step = "copied" THEN pushing.at ELSE pushing.at + 1
    BY <2>2 DEF RingInv, PushInv
  <2>4. CASE PushCopy(hand) /\ UNCHANGED <<hand, fifo>>
    <3>1. /\ pushing.step = "no" /\ cnt_ < Total /\ cnt_' = cnt_ /\ head_' = Wrapped(head_)
          /\ buf_' = [buf_ EXCEPT ![Slot(tail_ + cnt_)] = hand]
          /\ pushing' = [step |-> "copied", at |-> Slot(tail_ + cnt_), cnt |-> cnt_]
      BY <1>0, <2>3, <2>4 DEF PushCopy, IsFull
    <3>2. cnt_ \in 0 .. Total - 1 /\ Slot(tail_ + cnt_) \in Nodes
      <4>1. cnt_ \in 0 .. Total - 1
        BY <1>0, <3>1
      <4>2. tail_ \in 0 .. Total /\ cnt_ \in 0 .. Total
        BY <1>0
      <4> QED BY <4>1, <4>2, SlotShifts
    <3>3. Holds([buf_ EXCEPT ![Slot(tail_ + cnt_)] = hand], tail_, cnt_, fifo)
      BY <1>0, <2>3, <3>2, PushHolds
    <3>4. buf_'[Slot(tail_ + cnt_)] = hand
      BY <1>0, <3>1, <3>2
    <3>5. Holds(buf_, tail_, cnt_, fifo)'
      BY <2>2, <2>4, <3>1, <3>3 DEF Holds
    <3>6. (/\ cnt_ = pushing.cnt /\ pushing.at = Slot(tail_ + cnt_) /\ buf_[pushing.at] = hand
           /\ pushing.step = "copied" /\ head_ = pushing.at)'
      BY <2>2, <2>3, <2>4, <3>1, <3>4 DEF Slot
    <3> QED BY <2>1, <2>2, <3>5, <3>6 DEF RingInv
  <2>5. CASE PushHead /\ UNCHANGED <<hand, fifo>>
    <3>1. /\ pushing.step = "copied" /\ UNCHANGED <<buf_, cnt_>>
          /\ pushing'.step = "moved" /\ pushing'.at = pushing.at /\ pushing'.cnt = pushing.cnt
      BY <2>5 DEF TypeOK, QueueTypeOK, PushHead
    <3>2. head_' = pushing.at + 1
      BY <2>3, <2>5, <3>1 DEF PushHead
    <3>3. Holds(buf_, tail_, cnt_, fifo)'
      BY <2>2, <2>3, <2>5, <3>1 DEF Holds
    <3>4. (/\ cnt_ = pushing.cnt /\ pushing.at = Slot(tail_ + cnt_) /\ buf_[pushing.at] = hand
           /\ pushing.step = "moved" /\ head_ = pushing.at + 1)'
      BY <2>2, <2>3, <2>5, <3>1, <3>2 DEF Slot
    <3> QED BY <2>1, <2>2, <3>3, <3>4 DEF RingInv
  <2>6. CASE PushCnt /\ fifo' = Append(fifo, hand)
    <3>1. /\ pushing.step = "moved" /\ UNCHANGED <<buf_, head_>> /\ pushing'.step = "no"
          /\ cnt_' \in {pushing.cnt + 1, cnt_ + 1}
      BY <2>6 DEF PushCnt, NotPushing
    <3>2. cnt_' = cnt_ + 1 /\ cnt_ \in 0 .. Total - 1 /\ head_ = Slot(tail_ + cnt_) + 1
      BY <1>0, <2>3, <3>1
    <3>3. Holds(buf_, tail_, cnt_ + 1, Append(fifo, hand))
      <4>1. buf_[Slot(tail_ + cnt_)] = hand
        BY <2>3, <3>1
      <4> QED BY <1>0, <2>3, <3>2, <4>1, PushHolds
    <3>4. Wrapped(head_) = Slot(tail_ + cnt_ + 1)
      <4>1. cnt_ \in 0 .. Total /\ cnt_ < Total
        BY <1>0, <3>2
      <4> QED BY <1>0, <3>2, <4>1, SlotShifts
    <3>5. Holds(buf_, tail_, cnt_, fifo)' /\ (Wrapped(head_) = Slot(tail_ + cnt_))'
      <4>1. tail_ + cnt_ + 1 = tail_ + (cnt_ + 1)
        BY <1>0
      <4> QED BY <2>2, <2>6, <3>1, <3>2, <3>3, <3>4, <4>1 DEF Holds, Slot, Wrapped
    <3> QED BY <2>1, <2>2, <3>1, <3>5 DEF RingInv
  <2> QED BY <1>9, <2>4, <2>5, <2>6 DEF Push
<1> QED BY <1>2, <1>4, <1>5, <1>6, <1>8, <1>9 DEF Next, Running, Receiver

-----------------------------------------------------------------------------
(* The invariant, and what follows from it. *)

\* Before the first command.
LEMMA BInit ==
  Init => BInv
<1> SUFFICES ASSUME Init PROVE BInv
  OBVIOUS
<1>0. MaxId \in Nat /\ MaxId > 2 /\ MaxRequests \in Nat /\ Total \in Nat \ {0} /\ NoOne \notin Clients
  BY BusAssumption, TotalAssumption
<1>1. /\ pc = [c \in Clients |-> "idle"] /\ mutex_ = NoOne
      /\ todo = [c \in Clients |-> <<>>] /\ filed = [c \in Clients |-> 0]
      /\ sent = [c \in Clients |-> Blank] /\ answer = [c \in Clients |-> Blank]
  BY DEF Init
<1>2. /\ buf_ = Zeros /\ cnt_ = 0 /\ head_ = 0 /\ tail_ = 0 /\ pushing = NotPushing
      /\ wire = <<>> /\ stream = <<>> /\ hand = Blank /\ fifo = <<>>
      /\ requests = 0 /\ timeouts = 0 /\ state_ = 0 /\ lost = FALSE /\ transaction_id_ = 1 /\ raced = FALSE
  BY DEF Init, QueueInit
<1>3. TypeOK
  <2>1. Blank \in Frames
    BY <1>0 DEF Blank, Frames
  <2>2. 0 \in Nodes /\ 0 \in 0 .. Total
    BY <1>0 DEF Nodes
  <2>3. QueueTypeOK(Frames)
    BY <1>2, <2>1, <2>2 DEF QueueTypeOK, Zeros, NotPushing
  <2>4. <<>> \in Seq(Frames) /\ <<>> \in Seq({"type", "filed", "plain"})
    OBVIOUS
  <2>5. 1 \in Ids /\ 0 \in 0 .. MaxId /\ 0 \in 0 .. MaxRequests
    BY <1>0 DEF Ids
  <2>6. /\ pc \in [Clients -> Pc] /\ todo \in [Clients -> Seq({"type", "filed", "plain"})]
        /\ filed \in [Clients -> 0 .. MaxId]
    BY <1>1, <2>4, <2>5 DEF Pc
  <2>7. sent \in [Clients -> Frames] /\ answer \in [Clients -> Frames]
    BY <1>1, <2>1
  <2> QED BY <1>1, <1>2, <2>1, <2>3, <2>4, <2>5, <2>6, <2>7 DEF TypeOK
<1>4. HolderInv /\ TodoInv /\ PushInv
  BY <1>0, <1>1, <1>2 DEF HolderInv, TodoInv, PushInv, Rests, Flush, NotPushing
<1>5. CountInv /\ FramesInv
  <2>1. Waits = 0 /\ InHand = 0 /\ InRing = 0 /\ Len(<<>>) = 0
    BY <1>1, <1>2 DEF Waits, InHand, InRing, NotPushing
  <2> QED BY <1>1, <1>2, <2>1 DEF CountInv, FramesInv, PortSurvives
<1>6. IdsInv /\ OwnAnswer /\ FiledInv /\ FiledUnderOwnId
  BY <1>1 DEF IdsInv, OwnAnswer, FiledInv, FiledUnderOwnId, Flush
<1>7. RingInv
  <2>1. ~ Flushing /\ \A c \in Clients : pc[c] \notin {"flush_tail", "flush_buf"}
    BY <1>1 DEF Flushing, Flush
  <2>2. Holds(buf_, 0, 0, <<>>) /\ Wrapped(0) = Slot(0 + 0)
    BY <1>0, Slots DEF Holds
  <2> QED BY <1>2, <2>1, <2>2 DEF RingInv, NotPushing
<1> QED BY <1>3, <1>4, <1>5, <1>6, <1>7 DEF BInv

\* The invariant holds for ever.
THEOREM BusInvariant ==
  Spec => []BInv
<1>1. Init => BInv
  BY BInit
<1>2. BInv /\ [Next]_vars => BInv'
  <2> SUFFICES ASSUME BInv, [Next]_vars PROVE BInv'
    OBVIOUS
  <2>1. /\ TypeOK /\ HolderInv /\ TodoInv /\ CountInv /\ PushInv /\ FramesInv /\ IdsInv
        /\ OwnAnswer /\ FiledInv /\ FiledUnderOwnId /\ RingInv
    BY DEF BInv
  <2>2. TypeOK'
    BY <2>1, TypeStep
  <2>3. HolderInv' /\ TodoInv' /\ CountInv' /\ PushInv'
    BY <2>1, HolderStep, TodoStep, CountStep, PushStep
  <2>4. FramesInv'
    BY <2>1, FramesStep
  <2>5. IdsInv'
    BY <2>1, <2>2, IdsStep
  <2>6. OwnAnswer' /\ FiledInv' /\ FiledUnderOwnId'
    BY <2>1, OwnStep, FiledStep
  <2>7. RingInv'
    BY <2>1, RingStep
  <2> QED BY <2>2, <2>3, <2>4, <2>5, <2>6, <2>7 DEF BInv
<1> QED BY <1>1, <1>2, PTL DEF Spec

\* Every variable of the bus stays in its type: no request is sent beyond those a
\* command announced, no index of the ring leaves it.
THEOREM BusTypeCorrect ==
  Spec => []TypeOK
<1>1. BInv => TypeOK
  BY DEF BInv
<1> QED BY <1>1, BusInvariant, PTL

\* What a command takes for its answer is the answer to its own request
\* (UxbusCmdTcp::_recv_modbus_response), whatever comes late, and whatever a flush cuts.
THEOREM OwnAnswerHolds ==
  Spec => []OwnAnswer
<1>1. BInv => OwnAnswer
  BY DEF BInv
<1> QED BY <1>1, BusInvariant, PTL

\* The feedback of a command is filed under the id that the command is sent with
\* (UxbusCmd::_set_nu8 and its kin), also when the request before it was given up.
THEOREM FiledUnderOwnIdHolds ==
  Spec => []FiledUnderOwnId
<1>1. BInv => FiledUnderOwnId
  BY DEF BInv
<1> QED BY <1>1, BusInvariant, PTL

\* As long as no push overlapped a flush, pop returns the frames in the order
\* they were pushed (QueueMemcpy), also across the end of the buffer.
THEOREM RingIsFifoHolds ==
  Spec => []RingIsFifo
<1>1. BInv => RingIsFifo
  <2> SUFFICES ASSUME BInv, ~ raced, pushing.step = "no", ~ Flushing PROVE Contents = fifo
    BY DEF RingIsFifo
  <2>1. Holds(buf_, tail_, cnt_, fifo) /\ fifo \in Seq(Frames)
    BY DEF BInv, RingInv, TypeOK
  <2>2. fifo = [i \in 1 .. cnt_ |-> fifo[i]]
    BY <2>1 DEF Holds
  <2>3. \A i \in 1 .. cnt_ : buf_[(tail_ + i - 1) % Total] = fifo[i]
    BY <2>1 DEF Holds, Slot
  <2> QED BY <2>2, <2>3 DEF Contents
<1> QED BY <1>1, BusInvariant, PTL

\* While the connection stands, the receiver closes the port (recv_proc after 1500
\* tries) only when as many requests were given up as the queue holds.
THEOREM PortSurvivesHolds ==
  Spec => []PortSurvives
<1>1. BInv => PortSurvives
  BY DEF BInv, FramesInv
<1> QED BY <1>1, BusInvariant, PTL
=============================================================================
