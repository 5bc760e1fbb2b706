-------------------------- MODULE LaunchServiceProofs --------------------------
(***************************************************************************)
(* Proofs about LaunchService, for launches of any file with any arguments *)
(* and any number of faults.                                               *)
(***************************************************************************)
EXTENDS LaunchFilesProofs, WellFoundedInduction

-----------------------------------------------------------------------------
(* What the handlers of an event do, one list after the other. *)

\* Induction over the natural numbers, for a set.
LEMMA SetInduction ==
  ASSUME NEW S, 0 \in S, \A n \in Nat : n \in S => n + 1 \in S
  PROVE  \A n \in Nat : n \in S
<1> SUFFICES ASSUME Nat \ S # {} PROVE FALSE
  OBVIOUS
<1> DEFINE R == OpToRel(<, Nat)
<1>1. \E x \in Nat \ S : \A y \in Nat \ S : ~ (<<y, x>> \in R)
  <2>1. IsWellFoundedOn(R, Nat)
    BY NatLessThanWellFounded
  <2>2. Nat \ S \subseteq Nat
    OBVIOUS
  <2> HIDE DEF R
  <2> QED BY <2>1, <2>2, WFMin
<1>2. PICK x \in Nat \ S : \A y \in Nat \ S : ~ (<<y, x>> \in R)
  BY <1>1
<1>3. \A y \in Nat : y < x => <<y, x>> \in R
  BY DEF OpToRel
<1>4. x # 0 /\ x - 1 \in Nat /\ x - 1 < x /\ x - 1 + 1 = x
  OBVIOUS
<1> HIDE DEF R
<1>5. x - 1 \in S
  BY <1>2, <1>3, <1>4
<1> QED BY <1>4, <1>5

\* The recursive function that FlattenSeq evaluates exists,
Flattens(f, ss, n) == f = [i \in 1 .. n |-> IF i = 1 THEN ss[i] ELSE f[i - 1] \o ss[i]]
\* for a list of any length,
LEMMA FlattenExists ==
  ASSUME NEW ss, NEW n \in Nat
  PROVE  \E f : Flattens(f, ss, n)
<1> DEFINE S == {k \in Nat : \E f : Flattens(f, ss, k)}
<1>1. 0 \in S
  <2> DEFINE f == [i \in {} |-> 0]
  <2>1. Flattens(f, ss, 0)
    <3>1. 1 .. 0 = {}
      OBVIOUS
    <3> QED BY <3>1 DEF Flattens
  <2> QED BY <2>1
<1>2. ASSUME NEW k \in Nat, k \in S
      PROVE  k + 1 \in S
  <2>1. PICK f : Flattens(f, ss, k)
    BY <1>2
  <2> DEFINE g == [i \in 1 .. k + 1 |-> IF i = 1 THEN ss[i] ELSE f[i - 1] \o ss[i]]
  <2>2. \A i \in 1 .. k : f[i] = g[i]
    <3>1. f = [i \in 1 .. k |-> IF i = 1 THEN ss[i] ELSE f[i - 1] \o ss[i]]
      BY <2>1 DEF Flattens
    <3> DEFINE step(i) == IF i = 1 THEN ss[i] ELSE f[i - 1] \o ss[i]
    <3> SUFFICES ASSUME NEW i \in 1 .. k PROVE f[i] = g[i]
      OBVIOUS
    <3>2. f = [j \in 1 .. k |-> step(j)]
      BY <3>1
    <3>3. g = [j \in 1 .. k + 1 |-> step(j)]
      OBVIOUS
    <3>4. i \in 1 .. k + 1
      OBVIOUS
    <3> HIDE DEF step, g
    <3>5. f[i] = step(i) /\ g[i] = step(i)
      BY <3>2, <3>3, <3>4
    <3> QED BY <3>5
  <2>3. \A i \in 1 .. k + 1 : i # 1 => i - 1 \in 1 .. k
    OBVIOUS
  <2>4. \A i \in 1 .. k + 1 : (IF i = 1 THEN ss[i] ELSE f[i - 1] \o ss[i])
                            = (IF i = 1 THEN ss[i] ELSE g[i - 1] \o ss[i])
    <3> HIDE DEF g
    <3> QED BY <2>2, <2>3
  <2>5. g = [i \in 1 .. k + 1 |-> IF i = 1 THEN ss[i] ELSE f[i - 1] \o ss[i]]
    OBVIOUS
  <2> HIDE DEF g
  <2>6. g = [i \in 1 .. k + 1 |-> IF i = 1 THEN ss[i] ELSE g[i - 1] \o ss[i]]
    BY <2>4, <2>5
  <2>7. Flattens(g, ss, k + 1)
    BY <2>6 DEF Flattens
  <2> QED BY <2>7
<1> HIDE DEF S
<1>3. n \in S
  BY <1>1, <1>2, SetInduction
<1> QED BY <1>3 DEF S

\* and what it returns is made of elements of the lists.
LEMMA FlattenSeqMade ==
  ASSUME NEW U, NEW ss \in Seq(Seq(U))
  PROVE  FlattenSeq(ss) \in Seq(U)
<1>1. PICK n \in Nat : n = Len(ss) /\ ss \in [1 .. n -> Seq(U)]
  OBVIOUS
<1>2. CASE n = 0
  <2>1. ss \in Seq(U)
    BY <1>1, <1>2
  <2> QED BY <1>1, <1>2, <2>1 DEF FlattenSeq
<1>3. CASE n # 0
  <2> DEFINE f == CHOOSE f : Flattens(f, ss, n)
             S == {k \in Nat : k + 1 \in 1 .. n => f[k + 1] \in Seq(U)}
  <2>1. FlattenSeq(ss) = f[n]
    BY <1>1, <1>3 DEF FlattenSeq, Flattens
  <2>2. f = [i \in 1 .. n |-> IF i = 1 THEN ss[i] ELSE f[i - 1] \o ss[i]]
    <3>1. Flattens(f, ss, n)
      BY FlattenExists
    <3> HIDE DEF f
    <3> QED BY <3>1 DEF Flattens
  <2> HIDE DEF f
  <2>3. \A i \in 1 .. n : f[i] = IF i = 1 THEN ss[i] ELSE f[i - 1] \o ss[i]
    BY <2>2
  <2>4. 0 \in S
    BY <1>1, <1>3, <2>3
  <2>5. ASSUME NEW k \in Nat, k \in S
        PROVE  k + 1 \in S
    <3> SUFFICES ASSUME k + 2 \in 1 .. n PROVE f[k + 2] \in Seq(U)
      OBVIOUS
    <3>1. f[k + 1] \in Seq(U) /\ ss[k + 2] \in Seq(U)
      BY <1>1, <2>5
    <3>2. PICK j \in 1 .. n : j = k + 2
      OBVIOUS
    <3>3. j # 1 /\ j - 1 = k + 1
      BY <3>2
    <3>4. f[j] = f[j - 1] \o ss[j]
      BY <2>3, <3>3
    <3> QED BY <3>1, <3>2, <3>3, <3>4
  <2>6. n - 1 \in S
    <3> HIDE DEF S
    <3>1. n - 1 \in Nat
      BY <1>3
    <3> QED BY <2>4, <2>5, <3>1, SetInduction
  <2> QED BY <1>3, <2>1, <2>6
<1> QED BY <1>2, <1>3
-----------------------------------------------------------------------------
(* The invariant. *)

\* The first state: nothing was visited yet.
LEMMA InitInv == Init => LaunchInv
<1> SUFFICES ASSUME Init PROVE LaunchInv
  OBVIOUS
<1>1. launch.file \in Launchable /\ Plain(launch.args)
  BY LaunchesAssumption DEF Init
<1>2. 0 \in 0 .. MaxFaults
  BY MaxFaultsAssumption
<1> DEFINE e == Include(launch.file, launch.args)
<1>3. todo = <<e>> /\ e.kind = "include" /\ e.file = launch.file /\ e.args = launch.args
  BY DEF Init, Include
<1> HIDE DEF e
<1>4. Head(todo) = e /\ todo # <<>>
  BY <1>3
<1>5. Fresh
  BY <1>1, <1>3, <1>4 DEF Fresh, Up, Init, e
<1> QED BY <1>2, <1>5 DEF LaunchInv, Init

\* The lists of a launch as it goes on.
LEMMA GoodFit ==
  ASSUME NEW m, NEW s, Good(s, m)
  PROVE  AllFit(s, m)
BY DEF Good, Listing, AllFit, Opens

\* two in a row,
LEMMA ConcatFit ==
  ASSUME NEW m, NEW s, NEW t, AllFit(s, m), AllFit(t, m)
  PROVE  /\ AllFit(s \o t, m)
         /\ \A i \in 1 .. Len(s \o t) :
              \/ \E j \in 1 .. Len(s) : (s \o t)[i] = s[j]
              \/ \E j \in 1 .. Len(t) : (s \o t)[i] = t[j]
<1> DEFINE S == {s[i] : i \in 1 .. Len(s)}
           T == {t[i] : i \in 1 .. Len(t)}
           st == s \o t
<1>1. s \in Seq(S \cup T) /\ t \in Seq(S \cup T)
  <2>1. s \in Seq(S) /\ t \in Seq(T)
    BY DEF AllFit
  <2> HIDE DEF S, T
  <2> QED BY <2>1
<1>2. \A x \in S \cup T : Fits(x, m)
  BY DEF AllFit
<1>3. \A x \in S \cup T : \/ \E j \in 1 .. Len(s) : x = s[j]
                          \/ \E j \in 1 .. Len(t) : x = t[j]
  OBVIOUS
<1> HIDE DEF S, T
<1>4. st \in Seq(S \cup T)
  BY <1>1
<1> HIDE DEF st
<1>5. Listing(st) /\ \A i \in 1 .. Len(st) : st[i] \in S \cup T
  BY <1>4, ListingSeq
<1> QED BY <1>2, <1>3, <1>5 DEF AllFit, Listing, st

\* the rest of one,
LEMMA TailFit ==
  ASSUME NEW m, NEW s, AllFit(s, m), s # <<>>
  PROVE  /\ AllFit(Tail(s), m) /\ Fits(Head(s), m)
         /\ \E j \in 1 .. Len(s) : Head(s) = s[j]
         /\ \A i \in 1 .. Len(Tail(s)) : \E j \in 1 .. Len(s) : Tail(s)[i] = s[j]
<1> DEFINE S == {s[i] : i \in 1 .. Len(s)}
           t == Tail(s)
<1>1. s \in Seq(S)
  BY DEF AllFit
<1>2. \A x \in S : Fits(x, m) /\ \E j \in 1 .. Len(s) : x = s[j]
  BY DEF AllFit
<1> HIDE DEF S
<1>3. t \in Seq(S) /\ Head(s) \in S
  BY <1>1
<1> HIDE DEF t
<1>4. Listing(t) /\ \A i \in 1 .. Len(t) : t[i] \in S
  BY <1>3, ListingSeq
<1> QED BY <1>2, <1>3, <1>4 DEF AllFit, Listing, t

\* the events but the first,
LEMMA TailEvents ==
  ASSUME NEW p, NEW s, EventsFit(s, p), s # <<>>
  PROVE  /\ EventsFit(Tail(s), p)
         /\ \A i \in 1 .. Len(Tail(s)) : \E j \in 1 .. Len(s) : Tail(s)[i] = s[j]
         /\ \E j \in 1 .. Len(s) : Head(s) = s[j]
<1> DEFINE S == {s[i] : i \in 1 .. Len(s)}
           t == Tail(s)
<1>1. s \in Seq(S)
  BY DEF EventsFit
<1>2. \A x \in S : \E j \in 1 .. Len(s) : x = s[j]
  OBVIOUS
<1> HIDE DEF S
<1>3. t \in Seq(S) /\ Head(s) \in S
  BY <1>1
<1> HIDE DEF t
<1>4. Listing(t) /\ \A i \in 1 .. Len(t) : t[i] \in S
  BY <1>3, ListingSeq
<1>5. \A i \in 1 .. Len(t) : \E j \in 1 .. Len(s) : t[i] = s[j]
  BY <1>2, <1>4
<1>6. \A i \in 1 .. Len(t) : \E j \in 1 .. Len(p) : t[i].id = p[j].id
  <2> SUFFICES ASSUME NEW i \in 1 .. Len(t) PROVE \E j \in 1 .. Len(p) : t[i].id = p[j].id
    OBVIOUS
  <2>1. PICK j \in 1 .. Len(s) : t[i] = s[j]
    BY <1>5
  <2> QED BY <2>1 DEF EventsFit
<1>7. EventsFit(t, p)
  BY <1>4, <1>6 DEF EventsFit, Listing
<1> QED BY <1>2, <1>3, <1>5, <1>7 DEF t

\* one with an element more.
LEMMA AppendSeq ==
  ASSUME NEW s, s \in Seq({s[i] : i \in 1 .. Len(s)}), NEW x
  PROVE  /\ Len(Append(s, x)) = Len(s) + 1 /\ Len(s) \in Nat
         /\ \A i \in 1 .. Len(s) : Append(s, x)[i] = s[i]
         /\ Append(s, x)[Len(s) + 1] = x
         /\ Append(s, x) \in Seq({Append(s, x)[i] : i \in 1 .. Len(Append(s, x))})
<1> DEFINE S == {s[i] : i \in 1 .. Len(s)}
           t == Append(s, x)
<1> HIDE DEF S
<1>1. s \in Seq(S)
  BY DEF S
<1>2. s \in Seq(S \cup {x})
  BY <1>1
<1>3. t \in Seq(S \cup {x})
  BY <1>2
<1>4. /\ Len(t) = Len(s) + 1 /\ Len(s) \in Nat
      /\ \A i \in 1 .. Len(s) : t[i] = s[i]
      /\ t[Len(s) + 1] = x
  BY <1>2
<1> HIDE DEF t
<1>5. Listing(t)
  BY <1>3, ListingSeq
<1> QED BY <1>4, <1>5 DEF Listing, t

\* A process that is added, one that ends, and all that are stopped.
LEMMA AppendProcs ==
  ASSUME NEW m, NEW s, ProcsFit(s, m), NEW id, NEW data, NEW state \in States,
         NodeFits([id |-> id, data |-> data], m)
  PROVE  ProcsFit(Append(s, [id |-> id, data |-> data, state |-> state]), m)
<1> DEFINE x == [id |-> id, data |-> data, state |-> state]
           t == Append(s, x)
<1>1. /\ x = [id |-> x.id, data |-> x.data, state |-> x.state]
      /\ x.state \in States /\ NodeFits(x, m)
  BY DEF NodeFits
<1> HIDE DEF x
<1>2. /\ Len(t) = Len(s) + 1 /\ Len(s) \in Nat
      /\ \A i \in 1 .. Len(s) : t[i] = s[i]
      /\ t[Len(s) + 1] = x
      /\ t \in Seq({t[i] : i \in 1 .. Len(t)})
  BY AppendSeq DEF ProcsFit
<1> HIDE DEF t
<1>3. \A i \in 1 .. Len(t) : i \in 1 .. Len(s) \/ i = Len(s) + 1
  BY <1>2
<1>4. ProcsFit(t, m)
  BY <1>1, <1>2, <1>3 DEF ProcsFit
<1> QED BY <1>4 DEF t, x

\* The event of a known process,
LEMMA AppendEvents ==
  ASSUME NEW s, NEW p, EventsFit(s, p), NEW on, NEW id, \E j \in 1 .. Len(p) : id = p[j].id
  PROVE  EventsFit(Append(s, [on |-> on, id |-> id]), p)
<1> DEFINE x == [on |-> on, id |-> id]
           t == Append(s, x)
<1>1. x.id = id
  OBVIOUS
<1> HIDE DEF x
<1>2. /\ Len(t) = Len(s) + 1 /\ Len(s) \in Nat
      /\ \A i \in 1 .. Len(s) : t[i] = s[i]
      /\ t[Len(s) + 1] = x
      /\ t \in Seq({t[i] : i \in 1 .. Len(t)})
  BY AppendSeq DEF EventsFit
<1> HIDE DEF t
<1>3. \A i \in 1 .. Len(t) : i \in 1 .. Len(s) \/ i = Len(s) + 1
  BY <1>2
<1>4. EventsFit(t, p)
  BY <1>1, <1>2, <1>3 DEF EventsFit
<1> QED BY <1>4 DEF t, x

\* The same processes, some in another state.
Kept(new, old) ==
  /\ Len(new) = Len(old)
  /\ \A i \in 1 .. Len(old) : new[i].id = old[i].id /\ new[i].data = old[i].data
\* which stays known.
LEMMA EarlierEvents ==
  ASSUME NEW s, NEW old, NEW new, EventsFit(s, old),
         \A i \in 1 .. Len(old) : i \in 1 .. Len(new) /\ new[i].id = old[i].id
  PROVE  EventsFit(s, new)
<1> SUFFICES ASSUME NEW i \in 1 .. Len(s) PROVE \E j \in 1 .. Len(new) : s[i].id = new[j].id
  BY DEF EventsFit
<1>1. PICK j \in 1 .. Len(old) : s[i].id = old[j].id
  BY DEF EventsFit
<1> QED BY <1>1

\* A node fits by its program and its data alone.
LEMMA SameNodeFits ==
  ASSUME NEW m, NEW a, NEW b, a.id = b.id, a.data = b.data, NodeFits(a, m)
  PROVE  NodeFits(b, m)
BY DEF NodeFits

\* A list that is given by its indices.
LEMMA IndexedSeq ==
  ASSUME NEW n \in Nat, NEW S, NEW t \in [1 .. n -> S]
  PROVE  t \in Seq(S) /\ Len(t) = n
OBVIOUS

Ended(new, old, i, state) ==
  \A j \in 1 .. Len(old) : new[j].state = IF j = i THEN state ELSE old[j].state
\* A process that ends,
LEMMA ExitKeeps ==
  ASSUME NEW m, NEW s, ProcsFit(s, m), NEW i \in 1 .. Len(s), NEW state \in States, NEW t,
         t = [s EXCEPT ![i].state = state]
  PROVE  Kept(t, s) /\ ProcsFit(t, m) /\ Ended(t, s, i, state)
<1>1. PICK n \in Nat : n = Len(s) /\ s \in [1 .. n -> {s[j] : j \in 1 .. n}] /\ DOMAIN s = 1 .. n
  BY DEF ProcsFit
<1>2. /\ DOMAIN t = 1 .. n
      /\ \A j \in 1 .. n : t[j] = IF j = i THEN [s[i] EXCEPT !.state = state] ELSE s[j]
      /\ t = [j \in 1 .. n |-> t[j]]
  BY <1>1
<1>3. [s[i] EXCEPT !.state = state] = [id |-> s[i].id, data |-> s[i].data, state |-> state]
  <2> DEFINE p == s[i]
  <2>1. p = [id |-> p.id, data |-> p.data, state |-> p.state]
    BY DEF ProcsFit
  <2> HIDE DEF p
  <2>2. [p EXCEPT !.state = state] = [id |-> p.id, data |-> p.data, state |-> state]
    BY <2>1
  <2> QED BY <2>2 DEF p
<1>4. ASSUME NEW j \in 1 .. n
      PROVE  /\ t[j] = [id |-> t[j].id, data |-> t[j].data, state |-> t[j].state]
             /\ t[j].id = s[j].id /\ t[j].data = s[j].data
             /\ t[j].state = IF j = i THEN state ELSE s[j].state
  BY <1>1, <1>2, <1>3 DEF ProcsFit
<1>5. t \in Seq({t[j] : j \in 1 .. n}) /\ Len(t) = n
  <2>1. t \in [1 .. n -> {t[j] : j \in 1 .. n}]
    BY <1>2
  <2> QED BY <2>1, IndexedSeq
<1>6. Kept(t, s)
  BY <1>1, <1>4, <1>5 DEF Kept
<1>7. \A j \in 1 .. n : t[j].state \in States /\ NodeFits(t[j], m)
  <2>1. \A j \in 1 .. n : s[j].state \in States /\ NodeFits(s[j], m)
    BY <1>1 DEF ProcsFit
  <2>2. \A j \in 1 .. n : t[j].state \in States
    BY <1>4, <2>1
  <2>3. \A j \in 1 .. n : NodeFits(t[j], m)
    BY <1>4, <2>1, SameNodeFits
  <2> QED BY <2>2, <2>3
<1>8. ProcsFit(t, m)
  BY <1>4, <1>5, <1>7 DEF ProcsFit
<1> QED BY <1>1, <1>4, <1>6, <1>8 DEF Ended

\* and all of them stopped, keep what they were started with.
LEMMA StopKeeps ==
  ASSUME NEW m, NEW s, ProcsFit(s, m), NEW t,
         t = [i \in 1 .. Len(s) |-> [s[i] EXCEPT !.state = IF @ = "runs" THEN "done" ELSE @]]
  PROVE  /\ Kept(t, s) /\ ProcsFit(t, m)
         /\ \A j \in 1 .. Len(s) : t[j].state # "runs"
<1>1. PICK n \in Nat : n = Len(s)
  BY DEF ProcsFit
<1> DEFINE over(j) == IF s[j].state = "runs" THEN "done" ELSE s[j].state
<1>2. ASSUME NEW j \in 1 .. n
      PROVE  t[j] = [id |-> s[j].id, data |-> s[j].data, state |-> over(j)]
  <2> DEFINE p == s[j]
  <2>1. p = [id |-> p.id, data |-> p.data, state |-> p.state]
    BY <1>1 DEF ProcsFit
  <2>2. t[j] = [p EXCEPT !.state = over(j)]
    BY <1>1
  <2> HIDE DEF p, over
  <2>3. [p EXCEPT !.state = over(j)] = [id |-> p.id, data |-> p.data, state |-> over(j)]
    BY <2>1
  <2> QED BY <2>2, <2>3 DEF p
<1>3. \A j \in 1 .. n : over(j) \in States /\ over(j) # "runs"
  BY <1>1 DEF ProcsFit, States
<1> HIDE DEF over
<1>4. ASSUME NEW j \in 1 .. n
      PROVE  /\ t[j] = [id |-> t[j].id, data |-> t[j].data, state |-> t[j].state]
             /\ t[j].id = s[j].id /\ t[j].data = s[j].data
             /\ t[j].state \in States /\ t[j].state # "runs"
  <2>1. t[j] = [id |-> s[j].id, data |-> s[j].data, state |-> over(j)]
    BY <1>2
  <2>2. over(j) \in States /\ over(j) # "runs"
    BY <1>3
  <2>3. t[j].id = s[j].id /\ t[j].data = s[j].data /\ t[j].state = over(j)
    BY <2>1
  <2> QED BY <2>1, <2>2, <2>3
<1>5. t \in Seq({t[j] : j \in 1 .. n}) /\ Len(t) = n
  <2>1. t \in [1 .. n -> {t[j] : j \in 1 .. n}] /\ DOMAIN t = 1 .. n
    BY <1>1
  <2> QED BY <1>1, <2>1, IndexedSeq
<1>6. Kept(t, s)
  BY <1>1, <1>4, <1>5 DEF Kept
<1>7. \A j \in 1 .. n : NodeFits(t[j], m)
  <2>1. \A j \in 1 .. n : NodeFits(s[j], m)
    BY <1>1 DEF ProcsFit
  <2> QED BY <1>4, <2>1, SameNodeFits
<1>8. ProcsFit(t, m)
  BY <1>4, <1>5, <1>7 DEF ProcsFit
<1> QED BY <1>1, <1>4, <1>6, <1>8

\* The simulator's controller manager stays when nothing goes wrong.
LEMMA SimulatedStays ==
  ASSUME NEW old, NEW new, Len(old) \in Nat, Len(new) \in Nat, Len(old) <= Len(new),
         \A i \in 1 .. Len(old) :
           /\ new[i].id = old[i].id
           /\ old[i].id.exe = "gazebo" /\ old[i].state = "runs" => new[i].state = "runs"
           /\ old[i].state = "done" => new[i].state = "done",
         Simulated(old)
  PROVE  Simulated(new)
<1>1. \A i \in 1 .. Len(old) : i \in 1 .. Len(new)
  OBVIOUS
<1> QED BY <1>1 DEF Simulated

-----------------------------------------------------------------------------
(* The steps of a launch whose own file was not visited yet: the visit. *)

\* The first step visits the launch's own file; a wrapper's leaves it fresh.
LEMMA FreshStep ==
  ASSUME LaunchInv, Fresh, [Next]_vars
  PROVE  LaunchInv'
<1>1. CASE VisitInclude
  <2> DEFINE e == Head(todo)
             new == Updated(cfg, e.args)
             s == Entities(e.file, new)
  <2>1. e.file \in Launchable /\ Plain(e.args) /\ Plain(cfg) /\ Tail(todo) = <<>>
    <3> DEFINE x == Include(Head(todo).file, Head(todo).args)
    <3>1. todo = <<x>>
      BY DEF Fresh
    <3> HIDE DEF x
    <3>2. Tail(todo) = <<>>
      BY <3>1
    <3> QED BY <3>2 DEF Fresh
  <2>2. Plain(new) /\ Known(new)
    BY <2>1 DEF Plain, Known, Updated
  <2>3. /\ UNCHANGED <<launch, service, handlers, events, procs, active, faults>>
        /\ cfg' = new /\ todo' = s \o <<>>
    BY <1>1, <2>1 DEF VisitInclude
  <2>4. Opened(s, new) \/ Passes(s)
    BY <2>1, <2>2, FileOpened
  <2>5. /\ procs = <<>> /\ handlers = <<>> /\ events = <<>> /\ active = {} /\ Up
    BY DEF Fresh
  <2> HIDE DEF e, new, s
  <2>6. CASE Passes(s)
    <3>1. PICK file, args : file \in Launchable /\ Plain(args) /\ s = <<Include(file, args)>>
      BY <2>6 DEF Passes
    <3> DEFINE x == Include(file, args)
    <3>2. x.file = file /\ x.args = args /\ x.kind = "include"
      BY DEF Include
    <3>3. todo' = <<x>>
      BY <2>3, <3>1
    <3>4. x = Include(x.file, x.args)
      BY DEF Include
    <3> HIDE DEF x
    <3>5. Head(todo') = x /\ todo' # <<>>
      BY <3>3
    <3>6. Fresh'
      BY <2>2, <2>3, <2>5, <3>1, <3>2, <3>3, <3>4, <3>5 DEF Fresh, Up
    <3> QED BY <2>3, <3>6 DEF LaunchInv
  <2>7. CASE Opened(s, new)
    <3>1. PICK m : IsMode(m) /\ m.arm = Arm(new) /\ Good(s, m)
      BY <2>7 DEF Opened
    <3>2. AllFit(s, m) /\ s \o <<>> = s
      <4>1. s \in Seq({s[i] : i \in 1 .. Len(s)}) /\ AllFit(s, m)
        BY <3>1, GoodFit DEF Good, Listing
      <4> QED BY <4>1
    <3>3. HandlersFit(handlers', m) /\ ProcsFit(procs', m) /\ EventsFit(events', procs')
      BY <2>3, <2>5 DEF HandlersFit, ProcsFit, EventsFit
    <3>4. SpawningInv(m)'
      BY <2>3, <2>5, <3>1, <3>2 DEF SpawningInv, Spawning, Good, Opens, IsMode
    <3>5. Follows(m)'
      BY <2>2, <2>3, <3>1, <3>2, <3>3, <3>4 DEF Follows, Known
    <3> QED BY <2>3, <3>5 DEF LaunchInv
  <2> QED BY <2>4, <2>6, <2>7
<1>2. CASE UNCHANGED vars
  BY <1>2 DEF LaunchInv, Fresh, Up, vars, serviceVars
<1>3. ~(VisitNode \/ VisitHandler \/ VisitShutdown \/ VisitRaise \/ ProcessEvent)
  BY DEF Fresh, VisitNode, VisitHandler, VisitShutdown, VisitRaise, ProcessEvent, NextIs, Visited
<1>4. \A exe : Procs(exe) = {}
  BY DEF Fresh, Procs
<1> QED BY <1>1, <1>2, <1>3, <1>4 DEF Next, Visit, Work

-----------------------------------------------------------------------------
(* The steps of a launch that follows its files. *)

\* Visiting an include,
LEMMA FollowsInclude ==
  ASSUME NEW m, Follows(m), VisitInclude
  PROVE  Follows(m)'
<1> DEFINE e == Head(todo)
           new == Updated(cfg, e.args)
           s == Entities(e.file, new)
           t == Tail(todo)
<1>1. AllFit(t, m) /\ Fits(e, m) /\ e.kind = "include"
  BY TailFit DEF Follows, VisitInclude, NextIs
<1>2. IncludeFits(e, m)
  BY <1>1 DEF Fits
<1>3. m.arm = Arm(new) /\ Known(new) /\ Good(s, m)
  BY <1>2, IncludedGood DEF Follows, Known
<1>4. cfg' = new /\ todo' = s \o t /\ UNCHANGED <<handlers, events, procs, faults>>
  BY DEF VisitInclude
<1>5. \A i \in 1 .. Len(t) : \E j \in 1 .. Len(todo) : t[i] = todo[j]
  BY TailFit DEF Follows, VisitInclude, NextIs
<1> HIDE DEF e, new, s, t
<1>6. /\ AllFit(todo', m)
      /\ \A i \in 1 .. Len(todo') : \/ \E j \in 1 .. Len(s) : todo'[i] = s[j]
                                   \/ \E j \in 1 .. Len(t) : todo'[i] = t[j]
  BY <1>1, <1>3, <1>4, GoodFit, ConcatFit
<1>7. m.sim /\ Spawning(todo', events, procs) => Spawning(todo, events, procs)
  <2> SUFFICES ASSUME m.sim, NEW i \in 1 .. Len(todo'), IsSpawner(todo'[i])
               PROVE  \E j \in 1 .. Len(todo) : IsSpawner(todo[j])
    BY DEF Spawning
  <2>1. CASE \E j \in 1 .. Len(s) : todo'[i] = s[j]
    <3>1. PICK j \in 1 .. Len(s) : todo'[i] = s[j]
      BY <2>1
    <3> QED BY <1>3, <3>1 DEF Good, Opens
  <2>2. CASE \E j \in 1 .. Len(t) : todo'[i] = t[j]
    <3>1. PICK j \in 1 .. Len(t) : todo'[i] = t[j]
      BY <2>2
    <3>2. PICK k \in 1 .. Len(todo) : t[j] = todo[k]
      BY <1>5
    <3> QED BY <3>1, <3>2
  <2> QED BY <1>6, <2>1, <2>2
<1>8. SpawningInv(m)'
  BY <1>4, <1>7 DEF SpawningInv, Follows
<1> QED BY <1>3, <1>4, <1>6, <1>8 DEF Follows, Known

\* a node,
LEMMA FollowsNode ==
  ASSUME NEW m, Follows(m), VisitNode
  PROVE  Follows(m)'
<1> DEFINE e == Head(todo)
           t == Tail(todo)
           p == [id |-> e.id, data |-> e.data, state |-> "runs"]
<1>1. /\ AllFit(t, m) /\ Fits(e, m) /\ e.kind = "node"
      /\ \E j \in 1 .. Len(todo) : e = todo[j]
      /\ \A i \in 1 .. Len(t) : \E j \in 1 .. Len(todo) : t[i] = todo[j]
  BY TailFit DEF Follows, VisitNode, NextIs
<1>2. NodeFits([id |-> e.id, data |-> e.data], m)
  <2>1. NodeFits(e, m)
    BY <1>1 DEF Fits
  <2> HIDE DEF e
  <2> DEFINE r == [id |-> e.id, data |-> e.data]
  <2>2. r.id = e.id /\ r.data = e.data
    OBVIOUS
  <2> HIDE DEF r
  <2>3. NodeFits(r, m)
    BY <2>1, <2>2, SameNodeFits
  <2> QED BY <2>3 DEF r
<1>3. /\ procs' = Append(procs, p) /\ events' = Notice("started", e.id) /\ todo' = t
      /\ UNCHANGED <<cfg, handlers, faults>>
  BY DEF VisitNode
<1>4. ProcsFit(procs', m)
  <2>1. "runs" \in States
    BY DEF States
  <2> HIDE DEF e
  <2> QED BY <1>2, <1>3, <2>1, AppendProcs DEF Follows
<1>5. p.id = e.id /\ p.state = "runs"
  OBVIOUS
<1> HIDE DEF e, t, p
<1>6. /\ Len(procs') = Len(procs) + 1 /\ Len(procs) \in Nat
      /\ \A i \in 1 .. Len(procs) : procs'[i] = procs[i]
      /\ procs'[Len(procs) + 1] = p
  BY <1>3, AppendSeq DEF Follows, ProcsFit
<1>7. EventsFit(events, procs')
  <2>1. \A i \in 1 .. Len(procs) : i \in 1 .. Len(procs') /\ procs'[i].id = procs[i].id
    BY <1>6
  <2> QED BY <2>1, EarlierEvents DEF Follows
<1>8. /\ EventsFit(events', procs')
      /\ \A i \in 1 .. Len(events') : \/ \E j \in 1 .. Len(events) : events'[i] = events[j]
                                     \/ events'[i].on = "started"
  <2>1. CASE e.id.exe \in Watched
    <3> DEFINE x == [on |-> "started", id |-> e.id]
    <3>1. events' = Append(events, x)
      BY <1>3, <2>1 DEF Notice
    <3>2. \E j \in 1 .. Len(procs') : e.id = procs'[j].id
      BY <1>5, <1>6
    <3>3. EventsFit(events', procs')
      BY <1>7, <3>1, <3>2, AppendEvents
    <3>4. x.on = "started"
      OBVIOUS
    <3> HIDE DEF x
    <3>5. /\ Len(events') = Len(events) + 1 /\ Len(events) \in Nat
          /\ \A i \in 1 .. Len(events) : events'[i] = events[i]
          /\ events'[Len(events) + 1] = x
      BY <3>1, AppendSeq DEF Follows, EventsFit
    <3>6. \A i \in 1 .. Len(events') : i \in 1 .. Len(events) \/ i = Len(events) + 1
      BY <3>5
    <3> QED BY <3>3, <3>4, <3>5, <3>6
  <2>2. CASE e.id.exe \notin Watched
    BY <1>3, <1>7, <2>2 DEF Notice
  <2> QED BY <2>1, <2>2
<1>9. Spawning(todo', events', procs') => Spawning(todo, events, procs)
  <2>1. ASSUME NEW i \in 1 .. Len(todo'), IsSpawner(todo'[i])
        PROVE  \E j \in 1 .. Len(todo) : IsSpawner(todo[j])
    <3>1. PICK j \in 1 .. Len(todo) : todo'[i] = todo[j]
      BY <1>1, <1>3
    <3> QED BY <2>1, <3>1
  <2>2. ASSUME NEW i \in 1 .. Len(events'), events'[i].on = "exited" /\ events'[i].id.exe = "create"
        PROVE  \E j \in 1 .. Len(events) : events[j].on = "exited" /\ events[j].id.exe = "create"
    <3>1. PICK j \in 1 .. Len(events) : events'[i] = events[j]
      BY <1>8, <2>2
    <3> QED BY <2>2, <3>1
  <2>3. ASSUME NEW i \in 1 .. Len(procs'), procs'[i].id.exe = "spawner" /\ procs'[i].state = "runs"
        PROVE  \/ \E j \in 1 .. Len(todo) : IsSpawner(todo[j])
               \/ \E j \in 1 .. Len(procs) : procs[j].id.exe = "spawner" /\ procs[j].state = "runs"
    <3>1. CASE i \in 1 .. Len(procs)
      BY <1>6, <2>3, <3>1
    <3>2. CASE i = Len(procs) + 1
      <4>1. IsSpawner(e)
        BY <1>1, <1>5, <1>6, <2>3, <3>2 DEF IsSpawner
      <4> QED BY <1>1, <4>1
    <3> QED BY <1>6, <3>1, <3>2
  <2> QED BY <2>1, <2>2, <2>3 DEF Spawning
<1>10. Simulated(procs) => Simulated(procs')
  <2>1. Len(procs') \in Nat /\ Len(procs) <= Len(procs')
    BY <1>6
  <2> QED BY <1>6, <2>1, SimulatedStays
<1>11. SpawningInv(m)'
  BY <1>3, <1>9, <1>10 DEF SpawningInv, Follows
<1> QED BY <1>1, <1>3, <1>4, <1>8, <1>11 DEF Follows

\* a handler.
LEMMA FollowsHandler ==
  ASSUME NEW m, Follows(m), VisitHandler
  PROVE  Follows(m)'
<1> DEFINE e == Head(todo)
           t == Tail(todo)
           S == {handlers[i] : i \in 1 .. Len(handlers)}
<1>1. /\ AllFit(t, m) /\ Fits(e, m) /\ e.kind = "handler"
      /\ \A i \in 1 .. Len(t) : \E j \in 1 .. Len(todo) : t[i] = todo[j]
  BY TailFit DEF Follows, VisitHandler, NextIs
<1>2. HandlerFits(e, m)
  BY <1>1 DEF Fits
<1>3. /\ handlers' = <<e>> \o handlers /\ todo' = t
      /\ UNCHANGED <<cfg, events, procs, faults>>
  BY DEF VisitHandler
<1>4. HandlersFit(handlers', m)
  <2>1. \A x \in S \cup {e} : x.kind = "handler" /\ HandlerFits(x, m)
    BY <1>1, <1>2 DEF Follows, HandlersFit
  <2>2. handlers \in Seq(S)
    BY DEF Follows, HandlersFit
  <2> HIDE DEF e, S
  <2>3. handlers \in Seq(S \cup {e}) /\ <<e>> \in Seq(S \cup {e})
    BY <2>2
  <2>4. handlers' \in Seq(S \cup {e})
    BY <1>3, <2>3
  <2>5. Listing(handlers') /\ \A i \in 1 .. Len(handlers') : handlers'[i] \in S \cup {e}
    BY <2>4, ListingSeq
  <2> QED BY <2>1, <2>5 DEF HandlersFit, Listing
<1> HIDE DEF t
<1>5. Spawning(todo', events, procs) => Spawning(todo, events, procs)
  <2>1. ASSUME NEW i \in 1 .. Len(todo'), IsSpawner(todo'[i])
        PROVE  \E j \in 1 .. Len(todo) : IsSpawner(todo[j])
    <3>1. PICK j \in 1 .. Len(todo) : todo'[i] = todo[j]
      BY <1>1, <1>3
    <3> QED BY <2>1, <3>1
  <2> QED BY <2>1 DEF Spawning
<1>6. SpawningInv(m)'
  BY <1>3, <1>5 DEF SpawningInv, Follows
<1> QED BY <1>1, <1>3, <1>4, <1>6 DEF Follows

\* The end of the launch, by a shutdown or by what a file raises.
LEMMA FollowsStop ==
  ASSUME NEW m, Follows(m), NEW how, Stop(how)
  PROVE  Follows(m)'
<1>1. Kept(procs', procs) /\ ProcsFit(procs', m) /\ \A i \in 1 .. Len(procs) : procs'[i].state # "runs"
  BY StopKeeps DEF Stop, Follows
<1>2. todo' = <<>> /\ events' = <<>> /\ UNCHANGED <<cfg, handlers, faults>>
  BY DEF Stop
<1>3. AllFit(todo', m) /\ EventsFit(events', procs')
  BY <1>2 DEF AllFit, EventsFit
<1>4. ~ Spawning(todo', events', procs')
  BY <1>1, <1>2 DEF Spawning, Kept
<1> QED BY <1>1, <1>2, <1>3, <1>4 DEF Follows, SpawningInv

\* What a handler does for an event.
Does(h, e) == IF h.on = e.on /\ h.target = e.id THEN h.do ELSE <<>>
\* A handler does what fits, or nothing.
LEMMA DoesFits ==
  ASSUME NEW m, NEW h, HandlerFits(h, m), NEW e
  PROVE  /\ Listing(Does(h, e))
         /\ \A k \in 1 .. Len(Does(h, e)) :
              /\ Fits(Does(h, e)[k], m)
              /\ IsSpawner(Does(h, e)[k]) /\ m.sim => e.on = "exited" /\ e.id.exe = "create"
<1>1. CASE h.on = e.on /\ h.target = e.id
  <2>1. Does(h, e) = h.do
    BY <1>1 DEF Does
  <2>2. Listing(h.do)
    BY DEF HandlerFits, Listing
  <2>3. \A k \in 1 .. Len(h.do) :
          /\ Fits(h.do[k], m)
          /\ IsSpawner(h.do[k]) /\ m.sim => e.on = "exited" /\ e.id.exe = "create"
    BY <1>1 DEF HandlerFits, Fits
  <2> QED BY <2>1, <2>2, <2>3
<1>2. CASE ~(h.on = e.on /\ h.target = e.id)
  <2>1. Does(h, e) = <<>>
    BY <1>2 DEF Does
  <2>2. Listing(<<>>) /\ 1 .. Len(<<>>) = {}
    BY DEF Listing
  <2> QED BY <2>1, <2>2
<1> QED BY <1>1, <1>2

\* An event: its handlers' entities are to be visited.  With a simulator, the
\* spawners among them are the insertion's.
LEMMA FollowsEvent ==
  ASSUME NEW m, Follows(m), ProcessEvent
  PROVE  Follows(m)'
<1> DEFINE e == Head(events)
           t == Tail(events)
           n == Len(handlers)
           U == UNION {{Does(handlers[i], e)[k] : k \in 1 .. Len(Does(handlers[i], e))} : i \in 1 .. n}
           ss == [i \in 1 .. n |-> Does(handlers[i], e)]
<1>1. /\ EventsFit(t, procs)
      /\ \A i \in 1 .. Len(t) : \E j \in 1 .. Len(events) : t[i] = events[j]
      /\ \E j \in 1 .. Len(events) : e = events[j]
  BY TailEvents DEF Follows, ProcessEvent
<1>2. /\ todo' = FlattenSeq(ss) /\ events' = t
      /\ UNCHANGED <<cfg, handlers, procs, faults>>
  BY DEF ProcessEvent, Does
<1>3. ASSUME NEW i \in 1 .. n
      PROVE  /\ Listing(Does(handlers[i], e))
             /\ \A k \in 1 .. Len(Does(handlers[i], e)) :
                  /\ Fits(Does(handlers[i], e)[k], m)
                  /\ IsSpawner(Does(handlers[i], e)[k]) /\ m.sim
                       => e.on = "exited" /\ e.id.exe = "create"
  <2>1. HandlerFits(handlers[i], m)
    BY DEF Follows, HandlersFit
  <2> HIDE DEF e
  <2> QED BY <2>1, DoesFits
<1> HIDE DEF e
<1>4. ss \in Seq(Seq(U)) /\ n \in Nat
  <2>1. n \in Nat
    BY DEF Follows, HandlersFit
  <2>2. \A i \in 1 .. n : Does(handlers[i], e) \in Seq(U)
    <3> SUFFICES ASSUME NEW i \in 1 .. n PROVE Does(handlers[i], e) \in Seq(U)
      OBVIOUS
    <3> DEFINE V == {Does(handlers[i], e)[k] : k \in 1 .. Len(Does(handlers[i], e))}
    <3>1. Does(handlers[i], e) \in Seq(V)
      BY <1>3 DEF Listing
    <3>2. V \subseteq U
      OBVIOUS
    <3> HIDE DEF V, U
    <3> QED BY <3>1, <3>2
  <2> HIDE DEF U, n
  <2>3. ss \in [1 .. n -> Seq(U)]
    BY <2>2
  <2> QED BY <2>1, <2>3, IndexedSeq
<1>5. \A x \in U : /\ Fits(x, m)
                   /\ IsSpawner(x) /\ m.sim => e.on = "exited" /\ e.id.exe = "create"
  <2> SUFFICES ASSUME NEW i \in 1 .. n, NEW k \in 1 .. Len(Does(handlers[i], e))
               PROVE  LET x == Does(handlers[i], e)[k]
                      IN  /\ Fits(x, m)
                          /\ IsSpawner(x) /\ m.sim => e.on = "exited" /\ e.id.exe = "create"
    OBVIOUS
  <2> QED BY <1>3
<1> HIDE DEF U, t, ss
<1>6. Listing(todo') /\ \A i \in 1 .. Len(todo') : todo'[i] \in U
  <2>1. todo' \in Seq(U)
    BY <1>2, <1>4, FlattenSeqMade
  <2> QED BY <2>1, ListingSeq
<1>7. AllFit(todo', m)
  BY <1>5, <1>6 DEF AllFit, Listing
<1>8. m.sim /\ Spawning(todo', t, procs) => Spawning(todo, events, procs)
  <2>1. ASSUME NEW i \in 1 .. Len(todo'), IsSpawner(todo'[i]), m.sim
        PROVE  \E j \in 1 .. Len(events) : events[j].on = "exited" /\ events[j].id.exe = "create"
    <3>1. e.on = "exited" /\ e.id.exe = "create"
      BY <1>5, <1>6, <2>1
    <3> QED BY <1>1, <3>1
  <2>2. ASSUME NEW i \in 1 .. Len(t), t[i].on = "exited" /\ t[i].id.exe = "create"
        PROVE  \E j \in 1 .. Len(events) : events[j].on = "exited" /\ events[j].id.exe = "create"
    <3>1. PICK j \in 1 .. Len(events) : t[i] = events[j]
      BY <1>1
    <3> QED BY <2>2, <3>1
  <2> QED BY <2>1, <2>2 DEF Spawning
<1>9. SpawningInv(m)'
  BY <1>2, <1>8 DEF SpawningInv, Follows
<1> QED BY <1>1, <1>2, <1>7, <1>9 DEF Follows

\* A process that exits, of whatever program.
LEMMA FollowsExit ==
  ASSUME NEW m, Follows(m), NEW i \in 1 .. Len(procs), NEW state \in States, Exit(i, state),
         UNCHANGED <<cfg, todo, handlers>>, SpawningInv(m)'
  PROVE  Follows(m)'
<1>1. Kept(procs', procs) /\ ProcsFit(procs', m)
  <2>1. procs' = [procs EXCEPT ![i].state = state]
    BY DEF Exit
  <2> QED BY <2>1, ExitKeeps DEF Follows
<1>2. EventsFit(events, procs')
  <2>1. \A j \in 1 .. Len(procs) : j \in 1 .. Len(procs') /\ procs'[j].id = procs[j].id
    BY <1>1 DEF Kept
  <2> QED BY <2>1, EarlierEvents DEF Follows
<1>3. EventsFit(events', procs')
  <2> DEFINE id == procs[i].id
  <2>1. events' = IF id.exe \in Watched THEN Append(events, [on |-> "exited", id |-> id]) ELSE events
    BY DEF Exit, Notice
  <2>2. \E j \in 1 .. Len(procs') : id = procs'[j].id
    BY <1>1 DEF Kept
  <2> HIDE DEF id
  <2> QED BY <1>2, <2>1, <2>2, AppendEvents
<1> QED BY <1>1, <1>3 DEF Follows

\* While nothing goes wrong, the exits keep the manager the spawners find.
LEMMA ExitSpawning ==
  ASSUME NEW m, Follows(m), NEW i \in 1 .. Len(procs), NEW state \in States, Exit(i, state),
         Runs(i), procs[i].id.exe \notin {"gazebo"}, state # "runs", UNCHANGED todo,
         UNCHANGED faults,
         procs[i].id.exe = "create" => Simulated(procs')
  PROVE  SpawningInv(m)'
<1>1. /\ Kept(procs', procs)
      /\ \A j \in 1 .. Len(procs) : procs'[j].state = IF j = i THEN state ELSE procs[j].state
      /\ Len(procs) \in Nat
  <2>1. procs' = [procs EXCEPT ![i].state = state]
    BY DEF Exit
  <2>2. ProcsFit(procs, m)
    BY DEF Follows
  <2>3. Len(procs) \in Nat
    BY <2>2 DEF ProcsFit
  <2>4. Kept(procs', procs) /\ Ended(procs', procs, i, state)
    BY <2>1, <2>2, ExitKeeps
  <2> QED BY <2>3, <2>4 DEF Ended
<1>2. Simulated(procs) => Simulated(procs')
  <2>1. ASSUME NEW j \in 1 .. Len(procs)
        PROVE  /\ procs'[j].id = procs[j].id
               /\ procs[j].id.exe = "gazebo" /\ procs[j].state = "runs" => procs'[j].state = "runs"
               /\ procs[j].state = "done" => procs'[j].state = "done"
    BY <1>1, <2>1 DEF Kept, Runs
  <2>2. Len(procs') \in Nat /\ Len(procs) <= Len(procs')
    BY <1>1 DEF Kept
  <2> QED BY <1>1, <2>1, <2>2, SimulatedStays
<1>3. procs[i].id.exe # "create" /\ Spawning(todo, events', procs') => Spawning(todo, events, procs)
  <2> SUFFICES ASSUME procs[i].id.exe # "create" PROVE Spawning(todo, events', procs') => Spawning(todo, events, procs)
    OBVIOUS
  <2>1. ASSUME NEW j \in 1 .. Len(events'), events'[j].on = "exited" /\ events'[j].id.exe = "create"
        PROVE  \E k \in 1 .. Len(events) : events[k].on = "exited" /\ events[k].id.exe = "create"
    <3> DEFINE x == [on |-> "exited", id |-> procs[i].id]
    <3>1. events' = Append(events, x) \/ events' = events
      BY DEF Exit, Notice
    <3>2. x.id.exe # "create"
      OBVIOUS
    <3> HIDE DEF x
    <3>3. CASE events' = Append(events, x)
      <4>1. /\ Len(events') = Len(events) + 1 /\ Len(events) \in Nat
            /\ \A k \in 1 .. Len(events) : events'[k] = events[k]
            /\ events'[Len(events) + 1] = x
        BY <3>3, AppendSeq DEF Follows, EventsFit
      <4>2. j \in 1 .. Len(events) \/ j = Len(events) + 1
        BY <4>1
      <4> QED BY <2>1, <3>2, <4>1, <4>2
    <3> QED BY <2>1, <3>1, <3>3
  <2>2. ASSUME NEW j \in 1 .. Len(procs'), procs'[j].id.exe = "spawner" /\ procs'[j].state = "runs"
        PROVE  \E k \in 1 .. Len(procs) : procs[k].id.exe = "spawner" /\ procs[k].state = "runs"
    BY <1>1, <2>2 DEF Kept
  <2> QED BY <2>1, <2>2 DEF Spawning
<1> QED BY <1>2, <1>3 DEF SpawningInv, Follows

\* Every step keeps the launch's mode.
LEMMA FollowsStep ==
  ASSUME NEW m, Follows(m), faults \in 0 .. MaxFaults, [Next]_vars
  PROVE  Follows(m)' /\ launch' = launch /\ (service' \in {service, "shutdown", "raised"})
         /\ faults' \in 0 .. MaxFaults
<1>1. {"done", "failed", "refused"} \subseteq States
  BY DEF States
<1>2. CASE VisitInclude
  BY <1>2, FollowsInclude DEF VisitInclude
<1>3. CASE VisitNode
  BY <1>3, FollowsNode DEF VisitNode
<1>4. CASE VisitHandler
  BY <1>4, FollowsHandler DEF VisitHandler
<1>5. CASE VisitShutdown \/ VisitRaise
  <2>1. PICK how \in {"shutdown", "raised"} : Stop(how)
    BY <1>5 DEF VisitShutdown, VisitRaise
  <2> QED BY <2>1, FollowsStop DEF Stop
<1>6. CASE ProcessEvent
  BY <1>6, FollowsEvent DEF ProcessEvent
<1>7. CASE \E i \in Procs("spawner") : Spawn(i) \/ SpawnerTimesOut(i)
  <2>1. PICK i \in Procs("spawner") : Spawn(i) \/ SpawnerTimesOut(i)
    BY <1>7
  <2>2. i \in 1 .. Len(procs) /\ procs[i].id.exe = "spawner"
    BY DEF Procs
  <2>3. PICK state \in {"done", "failed", "refused"} : Exit(i, state)
    BY <2>1 DEF Spawn, SpawnerTimesOut
  <2>4. Runs(i) /\ UNCHANGED <<launch, service, cfg, todo, handlers, faults>>
    BY <2>1 DEF Spawn, SpawnerTimesOut, serviceVars
  <2>5. SpawningInv(m)'
    BY <1>1, <2>2, <2>3, <2>4, ExitSpawning
  <2> QED BY <1>1, <2>2, <2>3, <2>4, <2>5, FollowsExit
<1>8. CASE \E i \in Procs("create") : InsertRobot(i)
  <2>1. PICK i \in Procs("create") : InsertRobot(i)
    BY <1>8
  <2>2. i \in 1 .. Len(procs) /\ procs[i].id.exe = "create"
    BY DEF Procs
  <2>3. /\ Exit(i, "done") /\ Runs(i)
        /\ UNCHANGED <<launch, service, cfg, todo, handlers, faults>>
    BY <2>1 DEF InsertRobot, serviceVars
  <2>4. PICK j \in 1 .. Len(procs), k \in 1 .. Len(procs) :
          /\ procs[j].id.exe = "robot_state_publisher"
          /\ procs[k].id.exe = "gazebo" /\ procs[k].state = "runs"
    BY <2>1 DEF InsertRobot, Procs, Runs
  <2>5. Simulated(procs')
    <3>1. /\ Kept(procs', procs)
          /\ \A l \in 1 .. Len(procs) : procs'[l].state = IF l = i THEN "done" ELSE procs[l].state
      <4>1. ProcsFit(procs, m) /\ "done" \in States
        BY <1>1 DEF Follows
      <4>2. procs' = [procs EXCEPT ![i].state = "done"]
        BY <2>3 DEF Exit
      <4>3. Kept(procs', procs) /\ Ended(procs', procs, i, "done")
        BY <2>2, <4>1, <4>2, ExitKeeps
      <4> QED BY <4>3 DEF Ended
    <3>2. k # i
      BY <2>2, <2>4
    <3>3. /\ procs'[j].id.exe = "robot_state_publisher"
          /\ procs'[k].id.exe = "gazebo" /\ procs'[k].state = "runs"
          /\ procs'[i].id.exe = "create" /\ procs'[i].state = "done"
          /\ j \in 1 .. Len(procs') /\ k \in 1 .. Len(procs') /\ i \in 1 .. Len(procs')
      BY <2>2, <2>4, <3>1, <3>2 DEF Kept
    <3> QED BY <3>3 DEF Simulated
  <2>6. SpawningInv(m)'
    <3>1. "done" \in States /\ procs[i].id.exe \notin {"gazebo"} /\ "done" # "runs"
      BY <1>1, <2>2
    <3> QED BY <2>2, <2>3, <2>5, <3>1, ExitSpawning
  <2> QED BY <1>1, <2>2, <2>3, <2>6, FollowsExit
<1>9. CASE \/ \E i \in Procs("create") : InsertFails(i)
           \/ \E i \in Procs("ros2_control_node") \cup Procs("gazebo") : ManagerDies(i)
  <2>1. PICK i \in 1 .. Len(procs) : InsertFails(i) \/ ManagerDies(i)
    BY <1>9 DEF Procs
  <2>2. Exit(i, "failed") /\ Fault /\ UNCHANGED <<launch, service, cfg, todo, handlers>>
    BY <2>1 DEF InsertFails, ManagerDies, serviceVars
  <2>3. faults' \in 0 .. MaxFaults /\ faults' # 0
    BY <2>2, MaxFaultsAssumption DEF Fault
  <2>4. SpawningInv(m)'
    BY <2>3 DEF SpawningInv
  <2> QED BY <1>1, <2>2, <2>3, <2>4, FollowsExit
<1>10. CASE \E i \in Procs("rviz2") : CloseRviz(i)
  <2>1. PICK i \in Procs("rviz2") : CloseRviz(i)
    BY <1>10
  <2>2. i \in 1 .. Len(procs) /\ procs[i].id.exe = "rviz2"
    BY DEF Procs
  <2>3. /\ Exit(i, "done") /\ Runs(i)
        /\ UNCHANGED <<launch, service, cfg, todo, handlers, faults>>
    BY <2>1 DEF CloseRviz, serviceVars
  <2>4. SpawningInv(m)'
    <3>1. "done" \in States /\ procs[i].id.exe \notin {"gazebo"} /\ procs[i].id.exe # "create"
      BY <1>1, <2>2
    <3> QED BY <2>2, <2>3, <3>1, ExitSpawning
  <2> QED BY <1>1, <2>2, <2>3, <2>4, FollowsExit
<1>11. CASE UNCHANGED vars
  BY <1>11 DEF vars, serviceVars, Follows, SpawningInv
<1> QED
  BY <1>2, <1>3, <1>4, <1>5, <1>6, <1>7, <1>8, <1>9, <1>10, <1>11 DEF Next, Visit, Work

\* The invariant is inductive,
LEMMA NextInv == LaunchInv /\ [Next]_vars => LaunchInv'
<1> SUFFICES ASSUME LaunchInv, [Next]_vars PROVE LaunchInv'
  OBVIOUS
<1>1. CASE Fresh
  BY <1>1, FreshStep
<1>2. CASE \E m : Follows(m)
  <2>1. PICK m : Follows(m)
    BY <1>2
  <2>2. /\ Follows(m)' /\ launch' = launch /\ service' \in {service, "shutdown", "raised"}
        /\ faults' \in 0 .. MaxFaults
    BY <2>1, FollowsStep DEF LaunchInv
  <2> QED BY <2>2 DEF LaunchInv
<1> QED BY <1>1, <1>2 DEF LaunchInv

\* so it holds of every launch.
LEMMA InvHolds == Spec => []LaunchInv
BY InitInv, NextInv, PTL DEF Spec

-----------------------------------------------------------------------------
(* What the invariant says of the launches. *)

\* Nothing runs before the first file was visited.
LEMMA FreshEmpty ==
  ASSUME Fresh
  PROVE  procs = <<>> /\ handlers = <<>> /\ events = <<>> /\ \A exe : Procs(exe) = {}
BY DEF Fresh, Procs

(* The service keeps to its states, and an event is a known process's. *)
THEOREM LaunchTypeCorrect == Spec => []TypeOK
<1>1. LaunchInv => TypeOK
  <2> SUFFICES ASSUME LaunchInv PROVE TypeOK
    OBVIOUS
  <2>1. CASE Fresh
    BY <2>1, FreshEmpty DEF LaunchInv, TypeOK
  <2>2. CASE \E m : Follows(m)
    <3>1. PICK m : Follows(m)
      BY <2>2
    <3>2. \A i \in 1 .. Len(procs) : procs[i].state \in States
      BY <3>1 DEF Follows, ProcsFit
    <3>3. \A i \in 1 .. Len(handlers) : handlers[i].on \in {"started", "exited"}
      BY <3>1 DEF Follows, HandlersFit, HandlerFits
    <3>4. \A i \in 1 .. Len(events) : \E j \in 1 .. Len(procs) : events[i].id = procs[j].id
      BY <3>1 DEF Follows, EventsFit
    <3> QED BY <3>2, <3>3, <3>4 DEF LaunchInv, TypeOK, States
  <2> QED BY <2>1, <2>2 DEF LaunchInv
<1> QED BY <1>1, InvHolds, PTL

\* What move_group, the managers and the state publishers of a launch are given.
LEMMA MoveGroupGiven ==
  ASSUME NEW m, Follows(m), NEW i \in Procs("move_group")
  PROVE  /\ m.moveit # Nothing /\ procs[i].data = m.moveit
         /\ Single(m.moveit) \/ Dual(m.moveit)
BY DEF Follows, ProcsFit, NodeFits, Procs, IsMode

\* The state publisher has the description of that configuration,
LEMMA PublisherGiven ==
  ASSUME NEW m, Follows(m), m.moveit # Nothing, NEW i \in Procs("robot_state_publisher")
  PROVE  procs[i].data = m.moveit.description
BY DEF Follows, ProcsFit, NodeFits, Procs

\* ros2_control_node its parameters,
LEMMA ControlGivenDriver ==
  ASSUME NEW m, Follows(m), m.moveit # Nothing, NEW i \in Procs("ros2_control_node")
  PROVE  procs[i].data = Driver(m.moveit.description)
BY DEF Follows, ProcsFit, NodeFits, Procs

\* and so a controller manager, whichever runs.
LEMMA ManagerGiven ==
  ASSUME NEW m, Follows(m), m.moveit # Nothing, NEW manager \in Manager
  PROVE  manager = Driver(m.moveit.description)
<1>1. CASE manager \in ControlNode
  <2>1. PICK i \in Procs("ros2_control_node") : manager = procs[i].data
    BY <1>1 DEF ControlNode
  <2> QED BY <2>1, ControlGivenDriver
<1>2. CASE manager \in SimulatorPlugin
  <2>1. PICK i \in Procs("robot_state_publisher") :
          manager = [params |-> procs[i].data.params, description |-> procs[i].data]
    BY <1>2 DEF SimulatorPlugin
  <2> QED BY <2>1, PublisherGiven DEF Driver
<1> QED BY <1>1, <1>2 DEF Manager

(* However the description reaches them - as an argument of an include, in  *)
(* the dump of the configuration, or as a launch configuration left over -   *)
(* the state publisher, move_group and the controller manager of a launch    *)
(* have the same one.                                                        *)
THEOREM DescriptionsAgreeAlways == Spec => []DescriptionsAgree
<1>1. LaunchInv => DescriptionsAgree
  <2> SUFFICES ASSUME LaunchInv PROVE DescriptionsAgree
    OBVIOUS
  <2>1. CASE Fresh
    BY <2>1, FreshEmpty DEF DescriptionsAgree
  <2>2. CASE \E m : Follows(m)
    <3>1. PICK m : Follows(m)
      BY <2>2
    <3> SUFFICES ASSUME NEW i \in Procs("move_group")
                 PROVE  /\ \A j \in Procs("robot_state_publisher") :
                             procs[j].data = procs[i].data.description
                        /\ \A manager \in Manager :
                             manager.description = procs[i].data.description
                        /\ \A j \in Procs("ros2_control_node") :
                             procs[j].data.params = procs[i].data.description.params
      BY DEF DescriptionsAgree
    <3>2. m.moveit # Nothing /\ procs[i].data = m.moveit
      BY <3>1, MoveGroupGiven
    <3> DEFINE description == m.moveit.description
    <3>3. Driver(description).description = description
          /\ Driver(description).params = description.params
      BY DEF Driver
    <3>4. \A j \in Procs("robot_state_publisher") : procs[j].data = description
      BY <3>1, <3>2, PublisherGiven
    <3>5. \A manager \in Manager : manager = Driver(description)
      BY <3>1, <3>2, ManagerGiven
    <3>6. \A j \in Procs("ros2_control_node") : procs[j].data = Driver(description)
      BY <3>1, <3>2, ControlGivenDriver
    <3> HIDE DEF description
    <3>7. procs[i].data.description = description
      BY <3>2 DEF description
    <3> QED BY <3>3, <3>4, <3>5, <3>6, <3>7
  <2> QED BY <2>1, <2>2 DEF LaunchInv
<1> QED BY <1>1, InvHolds, PTL

(* With a simulator a spawner only runs once the robot was inserted in it:   *)
(* the spawners are started by the end of the insertion alone.               *)
THEOREM SpawnersFindManagerAlways == Spec => []SpawnersFindManager
<1>1. LaunchInv => SpawnersFindManager
  <2> SUFFICES ASSUME LaunchInv, NEW g \in Procs("gazebo"), faults = 0,
                      NEW i \in Procs("spawner"), Runs(i)
               PROVE  Manager # {}
    BY DEF SpawnersFindManager
  <2>1. PICK m : Follows(m)
    BY FreshEmpty DEF LaunchInv
  <2>2. m.sim
    BY <2>1 DEF Follows, ProcsFit, NodeFits, Procs
  <2>3. Spawning(todo, events, procs)
    BY DEF Spawning, Procs, Runs
  <2>4. PICK j \in 1 .. Len(procs), k \in 1 .. Len(procs), l \in 1 .. Len(procs) :
          /\ procs[j].id.exe = "robot_state_publisher"
          /\ procs[k].id.exe = "gazebo" /\ procs[k].state = "runs"
          /\ procs[l].id.exe = "create" /\ procs[l].state = "done"
    BY <2>1, <2>2, <2>3 DEF Follows, SpawningInv, Simulated
  <2>5. /\ j \in Procs("robot_state_publisher")
        /\ k \in Procs("gazebo") /\ Runs(k)
        /\ l \in Procs("create")
    BY <2>4 DEF Procs, Runs
  <2>6. [params |-> procs[j].data.params, description |-> procs[j].data] \in SimulatorPlugin
    BY <2>4, <2>5 DEF SimulatorPlugin
  <2> QED BY <2>6 DEF Manager
<1> QED BY <1>1, InvHolds, PTL

(* A gripper planner node is started for a group of the SRDF only, but for   *)
(* the two cases the property names.                                         *)
THEOREM GripperPlannersHaveGroupsAlways == Spec => []GripperPlannersHaveGroups
<1>1. LaunchInv => GripperPlannersHaveGroups
  <2> SUFFICES ASSUME LaunchInv, NEW i \in Procs("xarm_gripper_planner_node")
               PROVE  \/ procs[i].id.name \in procs[i].data.semantic
                      \/ procs[i].id.file = "_robot_planner" /\ Arm(cfg).prefix # ""
                      \/ procs[i].id.name[2] = "xarm7_mirror"
    BY DEF GripperPlannersHaveGroups
  <2>1. PICK m : Follows(m)
    BY FreshEmpty DEF LaunchInv
  <2>2. GripperFits(procs[i].id, procs[i].data, m.arm) /\ m.arm = Arm(cfg)
    BY <2>1 DEF Follows, ProcsFit, NodeFits, Procs
  <2> QED BY <2>2 DEF GripperFits
<1> QED BY <1>1, InvHolds, PTL

-----------------------------------------------------------------------------
(* The data of a configuration.  Names, first. *)

IsName(k) == k = <<"", k[2], k[3], k[4]>>
\* The parts of a name,
LEMMA NameIs ==
  ASSUME NEW type, NEW dof, NEW kind
  PROVE  /\ IsName(Name(type, dof, kind))
         /\ Name(type, dof, kind)[2] = type
         /\ Name(type, dof, kind)[3] = dof
         /\ Name(type, dof, kind)[4] = kind
BY DEF IsName, Name

\* which a prefix does not change,
LEMMA PrefixedBack ==
  ASSUME NEW prefix, NEW k, IsName(k)
  PROVE  Prefixed("", Prefixed(prefix, k)) = k
<1> DEFINE n == Prefixed(prefix, k)
<1>1. n = <<prefix, k[2], k[3], k[4]>>
  BY DEF Prefixed
<1> HIDE DEF n
<1>2. n[2] = k[2] /\ n[3] = k[3] /\ n[4] = k[4]
  BY <1>1
<1>3. Prefixed("", n) = <<"", k[2], k[3], k[4]>>
  BY <1>2 DEF Prefixed
<1> QED BY <1>3 DEF IsName, n

\* so that equal prefixed names have equal prefixes and equal names.
LEMMA PrefixedSame ==
  ASSUME NEW p, NEW q, NEW k, IsName(k), NEW l, IsName(l), Prefixed(p, k) = Prefixed(q, l)
  PROVE  p = q /\ k = l
<1>1. <<p, k[2], k[3], k[4]>> = <<q, l[2], l[3], l[4]>>
  BY DEF Prefixed
<1>2. p = q /\ k[2] = l[2] /\ k[3] = l[3] /\ k[4] = l[4]
  BY <1>1
<1> QED BY <1>2 DEF IsName

\* More names, more prefixed names.
LEMMA PrefixedSubset ==
  ASSUME NEW prefix, NEW S, NEW T, S \subseteq T
  PROVE  PrefixedAll(prefix, S) \subseteq PrefixedAll(prefix, T)
BY DEF PrefixedAll

\* A dictionary whose keys got the prefix.
LEMMA PrefixedKeysAt ==
  ASSUME NEW prefix, NEW dict, \A k \in DOMAIN dict : IsName(k), NEW n \in DOMAIN PrefixedKeys(prefix, dict)
  PROVE  \E k \in DOMAIN dict : n = Prefixed(prefix, k) /\ PrefixedKeys(prefix, dict)[n] = dict[k]
<1>1. n \in PrefixedAll(prefix, DOMAIN dict)
  BY DEF PrefixedKeys
<1>2. PICK k \in DOMAIN dict : n = Prefixed(prefix, k)
  BY <1>1 DEF PrefixedAll
<1>3. PrefixedKeys(prefix, dict)[n] = dict[Prefixed("", n)]
  BY <1>1 DEF PrefixedKeys
<1>4. Prefixed("", n) = k
  BY <1>2, PrefixedBack
<1> QED BY <1>2, <1>3, <1>4

\* Every entry is still there.
LEMMA PrefixedKeysOf ==
  ASSUME NEW prefix, NEW dict, \A k \in DOMAIN dict : IsName(k), NEW k \in DOMAIN dict
  PROVE  /\ Prefixed(prefix, k) \in DOMAIN PrefixedKeys(prefix, dict)
         /\ PrefixedKeys(prefix, dict)[Prefixed(prefix, k)] = dict[k]
<1> DEFINE n == Prefixed(prefix, k)
<1>1. n \in PrefixedAll(prefix, DOMAIN dict)
  BY DEF PrefixedAll
<1>2. Prefixed("", n) = k
  BY PrefixedBack
<1> HIDE DEF n
<1>3. n \in DOMAIN PrefixedKeys(prefix, dict) /\ PrefixedKeys(prefix, dict)[n] = dict[Prefixed("", n)]
  BY <1>1 DEF PrefixedKeys
<1> QED BY <1>2, <1>3 DEF n

\* A dictionary with one entry.
LEMMA EntryAt ==
  ASSUME NEW key, NEW value
  PROVE  DOMAIN Entry(key, value) = {key} /\ Entry(key, value)[key] = value
BY DEF Entry

\* The directories of an arm that has a configuration.
Configured(arm) ==
  XArmType(arm) \in DOMAIN Axes /\ ArmDirs(arm, arm.type) \subseteq ConfigDirs
\* Both ways of naming the robot agree: a lite is a lite 6.
LEMMA RobotDir ==
  ASSUME NEW arm, XArmType(arm) \in DOMAIN Axes
  PROVE  RobotName(arm) = XArmType(arm) /\ arm.type \in {"xarm", "lite", "uf850", "xarm7_mirror"}
<1>1. XArmType(arm) = <<arm.type, IF arm.type \in {"xarm", "lite"} THEN arm.dof ELSE "">>
  BY DEF XArmType
<1>2. RobotName(arm) = <<arm.type, IF arm.type = "xarm" THEN arm.dof ELSE IF arm.type = "lite" THEN "6" ELSE "">>
  BY DEF RobotName
<1> DEFINE dof == IF arm.type \in {"xarm", "lite"} THEN arm.dof ELSE ""
<1> HIDE DEF dof
<1>3. <<arm.type, dof>> \in {<<"xarm", "5">>, <<"xarm", "6">>, <<"xarm", "7">>,
                             <<"lite", "6">>, <<"uf850", "">>, <<"xarm7_mirror", "">>}
  BY <1>1, Robots DEF dof
<1>4. /\ arm.type \in {"xarm", "lite", "uf850", "xarm7_mirror"}
      /\ arm.type = "lite" => dof = "6"
  BY <1>3
<1> QED BY <1>1, <1>2, <1>4 DEF dof

\* An arm reads the robot's directory and that of the gripper it is fitted with.
LEMMA ArmDirIs ==
  ASSUME NEW arm, NEW type, NEW dir \in ArmDirs(arm, type)
  PROVE  \/ dir = RobotName(arm)
         \/ HasGripper(arm) /\ dir = GripperDir(type)
         \/ HasBioGripper(arm) /\ ~HasGripper(arm) /\ dir = BioGripper
BY DEF ArmDirs

\* The controllers MoveIt sends to: one for each directory of an arm, with the
\* arm's prefix.
ControllerName(dir, file) ==
  IF dir \in DOMAIN Axes THEN Name(dir[1], dir[2], "_traj_controller")
  ELSE IF file = "fake_controllers" THEN Name(dir[1], "", "_gripper_traj_controller")
  ELSE Name(IF dir = BioGripper THEN "bio" ELSE "xarm", "", "_gripper")
ControllerAction(dir, file) ==
  IF dir \in DOMAIN Axes \/ file = "fake_controllers" THEN "follow_joint_trajectory"
  ELSE "gripper_action"
ControllerJoints(dir) == IF dir \in DOMAIN Axes THEN ArmJoints(dir) ELSE {DrivenJoint(dir)}
Sent(dir, file) == Serves(ControllerAction(dir, file), ControllerJoints(dir))

\* A file has one controller,
LEMMA ControllersFileIs ==
  ASSUME NEW dir, NEW file
  PROVE  ControllersFile(dir, file) = Entry(ControllerName(dir, file), Sent(dir, file))
<1>1. CASE dir \in DOMAIN Axes
  BY <1>1 DEF ControllersFile, ControllerName, ControllerAction, ControllerJoints, Sent
<1>2. CASE dir \notin DOMAIN Axes /\ file = "fake_controllers"
  BY <1>2 DEF ControllersFile, ControllerName, ControllerAction, ControllerJoints, Sent
<1>3. CASE dir \notin DOMAIN Axes /\ file # "fake_controllers"
  BY <1>3 DEF ControllersFile, ControllerName, ControllerAction, ControllerJoints, Sent
<1> QED BY <1>1, <1>2, <1>3

\* whose name has no prefix yet.
LEMMA ControllerNameIs ==
  ASSUME NEW dir, NEW file
  PROVE  IsName(ControllerName(dir, file))
BY NameIs DEF ControllerName

Merged(file, dirs) ==
  [k \in UNION {DOMAIN ControllersFile(d, file) : d \in dirs} |->
     ControllersFile(CHOOSE d \in dirs : k \in DOMAIN ControllersFile(d, file), file)[k]]
\* The merged files have the controller of each directory and no other;
LEMMA MergedIs ==
  ASSUME NEW file, NEW dirs
  PROVE  /\ \A k \in DOMAIN Merged(file, dirs) : \E d \in dirs :
              k = ControllerName(d, file) /\ Merged(file, dirs)[k] = Sent(d, file)
         /\ \A d \in dirs : ControllerName(d, file) \in DOMAIN Merged(file, dirs)
<1>1. \A d : DOMAIN ControllersFile(d, file) = {ControllerName(d, file)}
             /\ ControllersFile(d, file)[ControllerName(d, file)] = Sent(d, file)
  BY ControllersFileIs, EntryAt
<1>2. ASSUME NEW k \in DOMAIN Merged(file, dirs)
      PROVE  \E d \in dirs : k = ControllerName(d, file) /\ Merged(file, dirs)[k] = Sent(d, file)
  <2> DEFINE d == CHOOSE d \in dirs : k \in DOMAIN ControllersFile(d, file)
  <2>1. \E x \in dirs : k \in DOMAIN ControllersFile(x, file)
    BY DEF Merged
  <2>2. d \in dirs /\ k \in DOMAIN ControllersFile(d, file)
    BY <2>1
  <2>3. Merged(file, dirs)[k] = ControllersFile(d, file)[k]
    BY DEF Merged
  <2> HIDE DEF d
  <2>4. k = ControllerName(d, file)
    BY <1>1, <2>2
  <2> QED BY <1>1, <2>2, <2>3, <2>4
<1>3. ASSUME NEW d \in dirs
      PROVE  ControllerName(d, file) \in DOMAIN Merged(file, dirs)
  <2>1. ControllerName(d, file) \in DOMAIN ControllersFile(d, file)
    BY <1>1
  <2> QED BY <2>1 DEF Merged
<1> QED BY <1>2, <1>3

ControllersIn(arm, dirs, file) ==
  LET yaml == PrefixedKeys(arm.prefix, Merged(file, dirs))
  IN  [n \in DOMAIN yaml |-> [yaml[n] EXCEPT !.joints = PrefixedAll(arm.prefix, @)]]
\* they are what the builder prefixes.
LEMMA ControllersOfIs ==
  ASSUME NEW arm, NEW type, NEW file
  PROVE  ControllersOf(arm, type, file) = ControllersIn(arm, ArmDirs(arm, type), file)
BY DEF ControllersOf, ControllersIn, MergedFiles, Merged

\* So each controller of an arm comes from one of its directories.
LEMMA ControllerFrom ==
  ASSUME NEW arm, NEW type, NEW file, NEW n \in DOMAIN ControllersOf(arm, type, file)
  PROVE  \E d \in ArmDirs(arm, type) :
           /\ n = Prefixed(arm.prefix, ControllerName(d, file))
           /\ ControllersOf(arm, type, file)[n].action = ControllerAction(d, file)
           /\ ControllersOf(arm, type, file)[n].joints = PrefixedAll(arm.prefix, ControllerJoints(d))
<1> DEFINE dirs == ArmDirs(arm, type)
           merged == Merged(file, dirs)
           yaml == PrefixedKeys(arm.prefix, merged)
           all == ControllersOf(arm, type, file)
<1>1. all = [k \in DOMAIN yaml |-> [yaml[k] EXCEPT !.joints = PrefixedAll(arm.prefix, @)]]
  BY ControllersOfIs DEF ControllersIn
<1>2. \A k \in DOMAIN merged : IsName(k)
  BY MergedIs, ControllerNameIs
<1> HIDE DEF merged
<1>3. n \in DOMAIN yaml
  BY <1>1
<1>4. PICK k \in DOMAIN merged : n = Prefixed(arm.prefix, k) /\ yaml[n] = merged[k]
  BY <1>2, <1>3, PrefixedKeysAt
<1>5. PICK d \in dirs : k = ControllerName(d, file) /\ merged[k] = Sent(d, file)
  BY MergedIs DEF merged
<1>6. yaml[n] = [action |-> ControllerAction(d, file), joints |-> ControllerJoints(d)]
  BY <1>4, <1>5 DEF Sent, Serves
<1> HIDE DEF all, yaml, dirs
<1>7. all[n] = [yaml[n] EXCEPT !.joints = PrefixedAll(arm.prefix, @)]
  BY <1>1, <1>3
<1>8. /\ all[n].action = ControllerAction(d, file)
      /\ all[n].joints = PrefixedAll(arm.prefix, ControllerJoints(d))
  BY <1>6, <1>7
<1> QED BY <1>4, <1>5, <1>8 DEF all, dirs

\* The configurations, spelt out.
SingleIs(M, arm) ==
  LET plugin == M.description.plugin
      params == M.description.params
      file   == ServoFile(plugin)
  IN  /\ Configured(arm)
      /\ M.description.arms = <<arm>> /\ Len(M.description.arms) = 1
      /\ params = GenerateRos2ControlParams(XArmType(arm), arm)
      /\ M.semantic = SemanticGroups(arm)
      /\ M.kinematics = PrefixedAll(arm.prefix, KinematicsFile(RobotName(arm)))
      /\ M.pipelines.names = {"ompl"}
      /\ M.pipelines.default = DefaultPipeline({"ompl"})
      /\ M.pipelines.groups = GroupsOf(arm)
      /\ M.controllers = ControllersOf(arm, arm.type, file)
      /\ M.limits = LimitsOf(arm, arm.type)
\* What Single says of a configuration, field by field.
LEMMA SingleSpelt ==
  ASSUME NEW M, Single(M)
  PROVE  SingleIs(M, M.description.arms[1])
<1> DEFINE arms   == M.description.arms
           arm    == arms[1]
           plugin == M.description.plugin
           file   == ServoFile(plugin)
           params == GenerateRos2ControlParams(XArmType(arm), arm)
<1>1. /\ Len(arms) = 1 /\ arms = <<arm>> /\ params # Nothing
      /\ ArmDirs(arm, arm.type) \subseteq ConfigDirs
      /\ M = ToMoveItConfigs(arm, file, plugin, params)
  BY DEF Single
<1>2. XArmType(arm) \in DOMAIN Axes
  BY <1>1 DEF GenerateRos2ControlParams
<1> HIDE DEF arm, plugin, file, params
<1> DEFINE new == [description |-> [arms |-> <<arm>>, plugin |-> plugin, params |-> params],
                   semantic    |-> SemanticGroups(arm),
                   kinematics  |-> PrefixedAll(arm.prefix, KinematicsFile(RobotName(arm))),
                   pipelines   |-> [names |-> {"ompl"}, default |-> DefaultPipeline({"ompl"}),
                                    groups |-> GroupsOf(arm)],
                   controllers |-> ControllersOf(arm, arm.type, file),
                   limits      |-> LimitsOf(arm, arm.type)]
<1>3. M = new
  BY <1>1 DEF ToMoveItConfigs, RobotDescription, RobotDescriptionSemantic,
              RobotDescriptionKinematics, PlanningPipelines, Pipelines, TrajectoryExecution, JointLimits
<1>4. /\ new.description.params = params /\ new.description.plugin = plugin
      /\ new.semantic = SemanticGroups(arm)
      /\ new.kinematics = PrefixedAll(arm.prefix, KinematicsFile(RobotName(arm)))
      /\ new.pipelines.names = {"ompl"} /\ new.pipelines.default = DefaultPipeline({"ompl"})
      /\ new.pipelines.groups = GroupsOf(arm)
      /\ new.controllers = ControllersOf(arm, arm.type, file)
      /\ new.limits = LimitsOf(arm, arm.type)
  OBVIOUS
<1> HIDE DEF new
<1> QED BY <1>1, <1>2, <1>3, <1>4 DEF SingleIs, Configured, arm, plugin, file, params

DualIs(M, a, b) ==
  LET plugin == M.description.plugin
      params == M.description.params
      file   == ServoFile(plugin)
      arms   == M.description.arms
  IN  /\ Configured(a) /\ Configured(b) /\ ArmDirs(b, a.type) \subseteq ConfigDirs
      /\ arms = <<a, b>> /\ Len(arms) = 2
      /\ params = MergeControllers(GenerateRos2ControlParams(XArmType(a), a),
                                   GenerateRos2ControlParams(XArmType(b), b))
      /\ M.semantic = SemanticGroups(a) \cup SemanticGroups(b)
      /\ M.kinematics = PrefixedAll(a.prefix, KinematicsFile(RobotName(a)))
                        \cup PrefixedAll(b.prefix, KinematicsFile(RobotName(b)))
      /\ M.pipelines.names = {"ompl"}
      /\ M.pipelines.default = DefaultPipeline({"ompl"})
      /\ M.pipelines.groups = GroupsOf(a) \cup GroupsOf(b)
      /\ M.controllers = Updated(ControllersOf(a, a.type, file), ControllersOf(b, b.type, file))
      /\ M.limits = LimitsOf(a, a.type) \cup LimitsOf(b, a.type)
\* What Dual says of one.
LEMMA DualSpelt ==
  ASSUME NEW M, Dual(M)
  PROVE  DualIs(M, M.description.arms[1], M.description.arms[2])
<1> DEFINE arms   == M.description.arms
           a      == arms[1]
           b      == arms[2]
           plugin == M.description.plugin
           file   == ServoFile(plugin)
           params == GenerateDualRos2ControlParams(XArmTypes(arms), arms)
           first  == GenerateRos2ControlParams(XArmType(a), a)
           second == GenerateRos2ControlParams(XArmType(b), b)
<1>1. /\ Len(arms) = 2 /\ arms = <<a, b>> /\ params # Nothing
      /\ ArmDirs(a, a.type) \subseteq ConfigDirs /\ ArmDirs(b, b.type) \subseteq ConfigDirs
      /\ ArmDirs(b, a.type) \subseteq ConfigDirs
      /\ M = DualToMoveItConfigs(arms, file, plugin, params)
  BY DEF Dual
<1>2. first # Nothing /\ second # Nothing /\ params = MergeControllers(first, second)
  <2> DEFINE two == [k \in 1 .. 2 |-> GenerateRos2ControlParams(XArmTypes(arms)[k], arms[k])]
  <2>1. XArmTypes(arms)[1] = XArmType(a) /\ XArmTypes(arms)[2] = XArmType(b)
    BY DEF XArmTypes
  <2>2. two[1] = first /\ two[2] = second
    BY <2>1
  <2>3. params = IF \E k \in 1 .. 2 : two[k] = Nothing THEN Nothing ELSE MergeControllers(two[1], two[2])
    BY DEF GenerateDualRos2ControlParams
  <2> HIDE DEF params, first, second, two, arms
  <2>4. \A k \in 1 .. 2 : two[k] # Nothing
    BY <1>1, <2>3
  <2> QED BY <2>2, <2>3, <2>4
<1>3. XArmType(a) \in DOMAIN Axes /\ XArmType(b) \in DOMAIN Axes
  BY <1>2 DEF GenerateRos2ControlParams
<1> HIDE DEF arms, a, b, plugin, file, params, first, second
<1> DEFINE kin(x) == PrefixedAll(x.prefix, KinematicsFile(RobotName(x)))
           new == [description |-> [arms |-> arms, plugin |-> plugin, params |-> params],
                   semantic    |-> SemanticGroups(a) \cup SemanticGroups(b),
                   kinematics  |-> UNION {kin(x) : x \in {a, b}},
                   pipelines   |-> [names |-> {"ompl"} \cup {"ompl"},
                                    default |-> DefaultPipeline({"ompl"} \cup {"ompl"}),
                                    groups |-> GroupsOf(a) \cup GroupsOf(b)],
                   controllers |-> Updated(ControllersOf(a, a.type, file), ControllersOf(b, b.type, file)),
                   limits      |-> LimitsOf(a, a.type) \cup LimitsOf(b, a.type)]
<1>4. M = new
  BY <1>1 DEF DualToMoveItConfigs, DualRobotDescription, DualRobotDescriptionSemantic, a, b,
              DualRobotDescriptionKinematics, DualPlanningPipelines, Pipelines,
              DualTrajectoryExecution, DualJointLimits
<1>5. UNION {kin(x) : x \in {a, b}} = kin(a) \cup kin(b) /\ {"ompl"} \cup {"ompl"} = {"ompl"}
  OBVIOUS
<1>6. /\ new.description.params = params /\ new.description.plugin = plugin
      /\ new.semantic = SemanticGroups(a) \cup SemanticGroups(b)
      /\ new.kinematics = kin(a) \cup kin(b)
      /\ new.pipelines.names = {"ompl"} /\ new.pipelines.default = DefaultPipeline({"ompl"})
      /\ new.pipelines.groups = GroupsOf(a) \cup GroupsOf(b)
      /\ new.controllers = Updated(ControllersOf(a, a.type, file), ControllersOf(b, b.type, file))
      /\ new.limits = LimitsOf(a, a.type) \cup LimitsOf(b, a.type)
  BY <1>5
<1> HIDE DEF new
<1> QED BY <1>1, <1>2, <1>3, <1>4, <1>6 DEF DualIs, Configured, arms, a, b, plugin, file, params, first, second

\* Without a gripper it does not matter which type one would be looked up under.
LEMMA UngrippedSame ==
  ASSUME NEW arm, NEW s, NEW t, HasGripper(arm) => s = t, NEW file
  PROVE  /\ LimitsOf(arm, s) = LimitsOf(arm, t)
         /\ ControllersOf(arm, s, file) = ControllersOf(arm, t, file)
<1>1. ArmDirs(arm, s) = ArmDirs(arm, t)
  BY DEF ArmDirs
<1> QED BY <1>1, ControllersOfIs DEF LimitsOf

(* A launch file that generates its parameters with the substitutions loads   *)
(* what the builder loads for the same arm, or arms: kinematics, limits,     *)
(* controllers and planning groups.                                          *)
THEOREM SubstitutionsAgreeAlways == Spec => []SubstitutionsAgree
<1>1. LaunchInv => SubstitutionsAgree
  <2> SUFFICES ASSUME LaunchInv, NEW i \in Procs("move_group")
               PROVE  LET moveit == procs[i].data
                          arms == moveit.description.arms
                          file == ServoFile(moveit.description.plugin)
                      IN  IF Len(arms) = 1
                          THEN /\ KinematicsYAML(arms[1]) = moveit.kinematics
                               /\ JointLimitsYAML(arms[1]) = moveit.limits
                               /\ ControllersYAML(arms[1], file) = moveit.controllers
                               /\ PlanningPipelinesYAML(arms[1]) = moveit.pipelines.groups
                          ELSE (HasGripper(arms[2]) => arms[1].type = arms[2].type)
                               => /\ DualKinematicsYAML(arms) = moveit.kinematics
                                  /\ DualJointLimitsYAML(arms) = moveit.limits
                                  /\ DualControllersYAML(arms, file) = moveit.controllers
                                  /\ DualPlanningPipelinesYAML(arms) = moveit.pipelines.groups
    BY DEF SubstitutionsAgree
  <2>1. PICK m : Follows(m)
    BY FreshEmpty DEF LaunchInv
  <2> DEFINE M == procs[i].data
             arms == M.description.arms
             file == ServoFile(M.description.plugin)
             a == arms[1]
             b == arms[2]
  <2>2. Single(M) \/ Dual(M)
    BY <2>1, MoveGroupGiven
  <2>3. CASE Single(M)
    <3>1. SingleIs(M, a)
      BY <2>3, SingleSpelt
    <3>2. /\ Len(arms) = 1
          /\ M.kinematics = KinematicsYAML(a) /\ M.limits = JointLimitsYAML(a)
          /\ M.controllers = ControllersYAML(a, file)
          /\ M.pipelines.groups = PlanningPipelinesYAML(a)
      BY <3>1 DEF SingleIs, KinematicsYAML, JointLimitsYAML, ControllersYAML, PlanningPipelinesYAML
    <3> QED BY <3>2
  <2>4. CASE Dual(M)
    <3>1. DualIs(M, a, b)
      BY <2>4, DualSpelt
    <3>2. /\ Len(arms) = 2
          /\ M.kinematics = DualKinematicsYAML(arms)
          /\ M.pipelines.groups = DualPlanningPipelinesYAML(arms)
      BY <3>1 DEF DualIs, KinematicsYAML, DualKinematicsYAML, DualPlanningPipelinesYAML
    <3>3. ASSUME HasGripper(b) => a.type = b.type
          PROVE  M.limits = DualJointLimitsYAML(arms) /\ M.controllers = DualControllersYAML(arms, file)
      <4>1. /\ LimitsOf(b, a.type) = LimitsOf(b, b.type)
            /\ ControllersOf(b, a.type, file) = ControllersOf(b, b.type, file)
        BY <3>3, UngrippedSame
      <4>2. /\ M.limits = LimitsOf(a, a.type) \cup LimitsOf(b, a.type)
            /\ M.controllers = Updated(ControllersOf(a, a.type, file), ControllersOf(b, b.type, file))
        BY <3>1 DEF DualIs
      <4>3. /\ DualJointLimitsYAML(arms) = LimitsOf(a, a.type) \cup LimitsOf(b, b.type)
            /\ DualControllersYAML(arms, file)
                 = Updated(ControllersOf(a, a.type, file), ControllersOf(b, a.type, file))
        BY DEF DualJointLimitsYAML, DualControllersYAML
      <4> HIDE DEF a, b, file, M, arms
      <4> QED BY <4>1, <4>2, <4>3
    <3> QED BY <3>2, <3>3
  <2> QED BY <2>2, <2>3, <2>4
<1> QED BY <1>1, InvHolds, PTL
-----------------------------------------------------------------------------
(* What move_group plans with and what it executes with. *)

\* The directories of a configured arm are of three different kinds.
LEMMA RobotFinger ==
  ASSUME NEW arm, Configured(arm)
  PROVE  /\ RobotName(arm) \in DOMAIN Axes
         /\ HasGripper(arm) => GripperDir(arm.type) \in FingerGrippers
                               /\ GripperDir(arm.type) \notin DOMAIN Axes
                               /\ GripperDir(arm.type) # BioGripper
         /\ BioGripper \notin DOMAIN Axes
<1>1. RobotName(arm) \in DOMAIN Axes
  BY RobotDir DEF Configured
<1>2. ASSUME HasGripper(arm)
      PROVE  GripperDir(arm.type) \in FingerGrippers /\ GripperDir(arm.type) # BioGripper
  <2>1. arm.type \in {"xarm", "uf850", "xarm7_mirror"}
    BY <1>2, GripperTypes DEF Configured
  <2>2. BioGripper = <<"bio", "_gripper">> /\ GripperDir(arm.type) = <<arm.type, "_gripper">>
    BY Grippers DEF GripperDir
  <2>3. GripperDir(arm.type) \in FingerGrippers
    BY <2>1 DEF FingerGrippers
  <2>4. GripperDir(arm.type) # BioGripper
    BY <2>1, <2>2
  <2> QED BY <2>3, <2>4
<1>3. BioGripper \notin DOMAIN Axes
  BY GripperNotRobot DEF BioGripper
<1> QED BY <1>1, <1>2, <1>3, GripperNotRobot

\* Every joint an arm's controllers command has limits, though the second
\* arm's gripper is looked up under the first arm's type for them.
LEMMA JointsLimited ==
  ASSUME NEW arm, Configured(arm), NEW type, ArmDirs(arm, type) \subseteq ConfigDirs,
         type \in {"xarm", "lite", "uf850", "xarm7_mirror"},
         NEW file, NEW n \in DOMAIN ControllersOf(arm, arm.type, file)
  PROVE  ControllersOf(arm, arm.type, file)[n].joints \subseteq LimitsOf(arm, type)
<1>1. PICK d \in ArmDirs(arm, arm.type) :
        ControllersOf(arm, arm.type, file)[n].joints = PrefixedAll(arm.prefix, ControllerJoints(d))
  BY ControllerFrom
<1>2. \E x \in ArmDirs(arm, type) : ControllerJoints(d) \subseteq JointLimitsFile(x)
  <2>1. CASE d = RobotName(arm)
    <3>1. d \in ArmDirs(arm, type) /\ d \in DOMAIN Axes
      BY <2>1, RobotFinger DEF ArmDirs
    <3> QED BY <3>1 DEF ControllerJoints, JointLimitsFile
  <2>2. CASE HasGripper(arm) /\ d = GripperDir(arm.type)
    <3>1. GripperDir(type) \in ArmDirs(arm, type)
      BY <2>2 DEF ArmDirs
    <3>2. GripperDir(type) \notin DOMAIN Axes /\ d \notin DOMAIN Axes /\ d # BioGripper
      BY <2>2, RobotFinger, GripperNotRobot
    <3>3. GripperDir(type) # BioGripper
      <4>1. BioGripper = <<"bio", "_gripper">> /\ GripperDir(type) = <<type, "_gripper">>
        BY Grippers DEF GripperDir
      <4> QED BY <4>1
    <3>4. ControllerJoints(d) = {Joint("drive_joint")}
      BY <3>2 DEF ControllerJoints, DrivenJoint
    <3>5. Joint("drive_joint") \in JointLimitsFile(GripperDir(type))
      BY <3>2, <3>3 DEF JointLimitsFile
    <3> QED BY <3>1, <3>4, <3>5
  <2>3. CASE HasBioGripper(arm) /\ ~HasGripper(arm) /\ d = BioGripper
    <3>1. d \in ArmDirs(arm, type) /\ d \notin DOMAIN Axes
      BY <2>3, RobotFinger DEF ArmDirs
    <3>2. ControllerJoints(d) = {Joint("right_finger_joint")}
      BY <2>3, <3>1 DEF ControllerJoints, DrivenJoint
    <3>3. Joint("right_finger_joint") \in JointLimitsFile(d)
      BY <2>3, <3>1 DEF JointLimitsFile
    <3> QED BY <3>1, <3>2, <3>3
  <2> QED BY <2>1, <2>2, <2>3, ArmDirIs
<1>3. ControllerJoints(d) \subseteq UNION {JointLimitsFile(x) : x \in ArmDirs(arm, type)}
  BY <1>2
<1> QED BY <1>1, <1>3, PrefixedSubset DEF LimitsOf

\* The groups of an arm are in the SRDF, but for the bio gripper's.
Bios == Name("bios", "", "_gripper")
\* A group of an arm that is planned for is in its SRDF,
LEMMA GroupsPlanned ==
  ASSUME NEW arm, Configured(arm), NEW g \in GroupsOf(arm), Prefixed("", g) # Bios
  PROVE  g \in SemanticGroups(arm)
<1>0. \E d \in ArmDirs(arm, arm.type) : \E k \in OmplPlanningFile(d) : g = Prefixed(arm.prefix, k)
  BY DEF GroupsOf, PrefixedAll
<1>1. PICK d, k : /\ d \in ArmDirs(arm, arm.type) /\ k \in OmplPlanningFile(d)
                  /\ g = Prefixed(arm.prefix, k)
  BY <1>0
<1>2. CASE d = RobotName(arm)
  <2>1. k \in KinematicsFile(RobotName(arm))
    BY <1>1, <1>2, RobotFinger DEF OmplPlanningFile
  <2> QED BY <1>1, <2>1 DEF SemanticGroups, PrefixedAll
<1>3. CASE HasGripper(arm) /\ d = GripperDir(arm.type)
  BY <1>1, <1>3 DEF SemanticGroups, PrefixedAll
<1>4. CASE d = BioGripper
  <2>1. k = Bios
    BY <1>1, <1>4, RobotFinger DEF OmplPlanningFile, Bios
  <2>2. IsName(k)
    BY <2>1, NameIs DEF Bios
  <2>3. Prefixed("", g) = k
    BY <1>1, <2>2, PrefixedBack
  <2> QED BY <2>1, <2>3
<1> QED BY <1>1, <1>2, <1>3, <1>4, ArmDirIs

\* and so is each with a solver.
LEMMA KinematicsPlanned ==
  ASSUME NEW arm
  PROVE  PrefixedAll(arm.prefix, KinematicsFile(RobotName(arm))) \subseteq SemanticGroups(arm)
BY DEF SemanticGroups, PrefixedAll

\* The pipeline that is the default is among the pipelines.
LEMMA OmplFirst == DefaultPipeline({"ompl"}) = "ompl"
BY DEF DefaultPipeline

(* Every joint move_group commands has limits, and the groups it has a       *)
(* solver or a planner for are in the SRDF, whatever the arms are fitted     *)
(* with: but for the bio gripper's, which the property leaves out.           *)
THEOREM PlanningConfiguredAlways == Spec => []PlanningConfigured
<1>1. LaunchInv => PlanningConfigured
  <2> SUFFICES ASSUME LaunchInv, NEW i \in Procs("move_group")
               PROVE  LET M == procs[i].data
                          planned == {g \in M.pipelines.groups : Prefixed("", g) # Bios}
                      IN  /\ \A n \in DOMAIN M.controllers : M.controllers[n].joints \subseteq M.limits
                          /\ M.kinematics \cup planned \subseteq M.semantic
                          /\ M.pipelines.default \in M.pipelines.names
    BY DEF PlanningConfigured, Bios
  <2>1. PICK m : Follows(m)
    BY FreshEmpty DEF LaunchInv
  <2> DEFINE M == procs[i].data
             arms == M.description.arms
             file == ServoFile(M.description.plugin)
             a == arms[1]
             b == arms[2]
             C(x) == ControllersOf(x, x.type, file)
  <2>2. Single(M) \/ Dual(M)
    BY <2>1, MoveGroupGiven
  <2>3. \A x : Configured(x) =>
          /\ \A g \in GroupsOf(x) : Prefixed("", g) # Bios => g \in SemanticGroups(x)
          /\ PrefixedAll(x.prefix, KinematicsFile(RobotName(x))) \subseteq SemanticGroups(x)
    BY GroupsPlanned, KinematicsPlanned
  <2>4. CASE Single(M)
    <3>1. SingleIs(M, a)
      BY <2>4, SingleSpelt
    <3> HIDE DEF M, a
    <3>2. /\ Configured(a) /\ M.controllers = ControllersOf(a, a.type, ServoFile(M.description.plugin))
          /\ M.limits = LimitsOf(a, a.type)
          /\ M.kinematics = PrefixedAll(a.prefix, KinematicsFile(RobotName(a)))
          /\ M.pipelines.groups = GroupsOf(a) /\ M.semantic = SemanticGroups(a)
          /\ M.pipelines.default \in M.pipelines.names
      BY <3>1, OmplFirst DEF SingleIs
    <3>3. XArmType(a) \in DOMAIN Axes /\ ArmDirs(a, a.type) \subseteq ConfigDirs
      BY <3>2 DEF Configured
    <3>4. a.type \in {"xarm", "lite", "uf850", "xarm7_mirror"}
      BY <3>3, RobotDir
    <3>5. \A n \in DOMAIN M.controllers : M.controllers[n].joints \subseteq M.limits
      BY <3>2, <3>3, <3>4, JointsLimited
    <3> QED BY <2>3, <3>2, <3>5 DEF M
  <2>5. CASE Dual(M)
    <3>1. DualIs(M, a, b)
      BY <2>5, DualSpelt
    <3> HIDE DEF M, a, b, file
    <3>2. /\ Configured(a) /\ Configured(b) /\ ArmDirs(b, a.type) \subseteq ConfigDirs
          /\ M.controllers = Updated(C(a), C(b))
          /\ M.limits = LimitsOf(a, a.type) \cup LimitsOf(b, a.type)
          /\ M.kinematics = PrefixedAll(a.prefix, KinematicsFile(RobotName(a)))
                            \cup PrefixedAll(b.prefix, KinematicsFile(RobotName(b)))
          /\ M.pipelines.groups = GroupsOf(a) \cup GroupsOf(b)
          /\ M.semantic = SemanticGroups(a) \cup SemanticGroups(b)
          /\ M.pipelines.default \in M.pipelines.names
      BY <3>1, OmplFirst DEF DualIs, file
    <3>3. XArmType(a) \in DOMAIN Axes /\ ArmDirs(a, a.type) \subseteq ConfigDirs
      BY <3>2 DEF Configured
    <3>4. a.type \in {"xarm", "lite", "uf850", "xarm7_mirror"}
      BY <3>3, RobotDir
    <3>5. \A n \in DOMAIN C(a) : C(a)[n].joints \subseteq LimitsOf(a, a.type)
      BY <3>2, <3>3, <3>4, JointsLimited
    <3>6. \A n \in DOMAIN C(b) : C(b)[n].joints \subseteq LimitsOf(b, a.type)
      BY <3>2, <3>4, JointsLimited
    <3>7. \A n \in DOMAIN M.controllers : M.controllers[n].joints \subseteq M.limits
      <4> HIDE DEF C
      <4> QED BY <3>2, <3>5, <3>6 DEF Updated
    <3> QED BY <2>3, <3>2, <3>7 DEF M
  <2> QED BY <2>2, <2>4, <2>5
<1> QED BY <1>1, InvHolds, PTL

\* The sections of the controller manager's parameters: one for each directory
\* of xarm_controller/config that is merged for an arm.
Sections(arm) ==
  {RobotName(arm)} \cup (IF arm.gripper THEN FingerGrippers \cap {GripperDir(arm.type)}
                         ELSE IF arm.bio THEN {BioGripper} ELSE {})
ManagerName(dir) ==
  IF dir \in DOMAIN Axes THEN Name(dir[1], dir[2], "_traj_controller")
  ELSE Name(dir[1], "", "_gripper_traj_controller")

\* The name of a section has no prefix yet.
LEMMA ManagerNameIs ==
  ASSUME NEW dir
  PROVE  IsName(ManagerName(dir))
BY NameIs DEF ManagerName

\* A directory is a pair; a gripper's ends in _gripper.
LEMMA DirsArePairs ==
  ASSUME NEW d \in ConfigDirs
  PROVE  /\ d = <<d[1], d[2]>>
         /\ d \notin DOMAIN Axes => d[2] = "_gripper"
<1>1. d \in {<<"xarm", "5">>, <<"xarm", "6">>, <<"xarm", "7">>, <<"lite", "6">>,
             <<"uf850", "">>, <<"xarm7_mirror", "">>, <<"xarm", "_gripper">>,
             <<"uf850", "_gripper">>, <<"xarm7_mirror", "_gripper">>, <<"bio", "_gripper">>}
  BY Robots, Grippers DEF ConfigDirs
<1>2. d \notin DOMAIN Axes => d \in {<<"xarm", "_gripper">>, <<"uf850", "_gripper">>,
                                     <<"xarm7_mirror", "_gripper">>, <<"bio", "_gripper">>}
  BY Grippers DEF ConfigDirs
<1>3. d = <<d[1], d[2]>>
  <2>1. \E x, y : d = <<x, y>>
    BY <1>1
  <2>2. PICK x, y : d = <<x, y>>
    BY <2>1
  <2> QED BY <2>2
<1>4. d \notin DOMAIN Axes => d[2] = "_gripper"
  BY <1>2
<1> QED BY <1>3, <1>4

\* The parts of the name of a section.
LEMMA ManagerNameParts ==
  ASSUME NEW d
  PROVE  /\ ManagerName(d)[2] = d[1]
         /\ d \in DOMAIN Axes => ManagerName(d)[3] = d[2] /\ ManagerName(d)[4] = "_traj_controller"
         /\ d \notin DOMAIN Axes => ManagerName(d)[4] = "_gripper_traj_controller"
<1>1. CASE d \in DOMAIN Axes
  <2>1. ManagerName(d) = Name(d[1], d[2], "_traj_controller")
    BY <1>1 DEF ManagerName
  <2> QED BY <1>1, <2>1, NameIs
<1>2. CASE d \notin DOMAIN Axes
  <2>1. \E dof : ManagerName(d) = Name(d[1], dof, "_gripper_traj_controller")
    BY <1>2 DEF ManagerName
  <2>2. PICK dof : ManagerName(d) = Name(d[1], dof, "_gripper_traj_controller")
    BY <2>1
  <2> QED BY <1>2, <2>2, NameIs
<1> QED BY <1>1, <1>2

\* No two directories give a controller the same name.
LEMMA ManagerNamesApart ==
  ASSUME NEW d \in ConfigDirs, NEW e \in ConfigDirs, ManagerName(d) = ManagerName(e)
  PROVE  d = e
<1>1. ManagerName(d)[2] = d[1] /\ ManagerName(e)[2] = e[1]
  BY ManagerNameParts
<1>2. d[1] = e[1]
  BY <1>1
<1>3. /\ d \in DOMAIN Axes => ManagerName(d)[3] = d[2] /\ ManagerName(d)[4] = "_traj_controller"
      /\ e \in DOMAIN Axes => ManagerName(e)[3] = e[2] /\ ManagerName(e)[4] = "_traj_controller"
      /\ d \notin DOMAIN Axes => ManagerName(d)[4] = "_gripper_traj_controller"
      /\ e \notin DOMAIN Axes => ManagerName(e)[4] = "_gripper_traj_controller"
  BY ManagerNameParts
<1>4. "_traj_controller" # "_gripper_traj_controller"
  OBVIOUS
<1>5. CASE d \in DOMAIN Axes /\ e \in DOMAIN Axes
  <2>1. d[2] = e[2]
    BY <1>3, <1>5
  <2> QED BY <1>2, <2>1, DirsArePairs
<1>6. CASE d \notin DOMAIN Axes /\ e \notin DOMAIN Axes
  BY <1>2, <1>6, DirsArePairs
<1> QED BY <1>3, <1>4, <1>5, <1>6

\* Each directory MoveIt reads for an arm has a section.
LEMMA SectionsAre ==
  ASSUME NEW arm, Configured(arm)
  PROVE  /\ Sections(arm) \subseteq ConfigDirs
         /\ ArmDirs(arm, arm.type) \subseteq Sections(arm)
<1>1. RobotName(arm) \in ConfigDirs
  BY RobotFinger DEF ConfigDirs
<1>2. Sections(arm) \subseteq ConfigDirs
  BY <1>1 DEF Sections, ConfigDirs
<1>3. ASSUME NEW d \in ArmDirs(arm, arm.type)
      PROVE  d \in Sections(arm)
  <2>1. CASE d = RobotName(arm)
    BY <2>1 DEF Sections
  <2>2. CASE HasGripper(arm) /\ d = GripperDir(arm.type)
    BY <2>2, RobotFinger DEF Sections, HasGripper
  <2>3. CASE HasBioGripper(arm) /\ ~HasGripper(arm) /\ d = BioGripper
    BY <2>3 DEF Sections, HasBioGripper
  <2> QED BY <2>1, <2>2, <2>3, ArmDirIs
<1> QED BY <1>2, <1>3

\* The manager's parameters of an arm, before they get the prefix.
Unprefixed(arm) == MergeControllers(RobotControllersFile(RobotName(arm)), GripperControllers(arm))
\* The robot's section,
LEMMA RobotSection ==
  ASSUME NEW r \in DOMAIN Axes
  PROVE  /\ ManagerName(r) \in RobotControllersFile(r).types
         /\ DOMAIN RobotControllersFile(r).joints = {ManagerName(r)}
         /\ RobotControllersFile(r).joints[ManagerName(r)] = ControllerJoints(r)
<1>1. ManagerName(r) = Name(r[1], r[2], "_traj_controller") /\ ControllerJoints(r) = ArmJoints(r)
  BY DEF ManagerName, ControllerJoints
<1> DEFINE name == Name(r[1], r[2], "_traj_controller")
           entry == Entry(name, ArmJoints(r))
<1>2. RobotControllersFile(r) = [types |-> {Broadcaster, name}, joints |-> entry]
  BY DEF RobotControllersFile
<1>3. DOMAIN entry = {name} /\ entry[name] = ArmJoints(r)
  BY EntryAt
<1> HIDE DEF name, entry
<1>4. RobotControllersFile(r).types = {Broadcaster, name} /\ RobotControllersFile(r).joints = entry
  BY <1>2
<1> QED BY <1>1, <1>3, <1>4 DEF name

\* a gripper's,
LEMMA GripperSection ==
  ASSUME NEW g, g \notin DOMAIN Axes
  PROVE  /\ ManagerName(g) \in GripperControllersFile(g).types
         /\ DOMAIN GripperControllersFile(g).joints = {ManagerName(g)}
         /\ GripperControllersFile(g).joints[ManagerName(g)] = ControllerJoints(g)
<1> DEFINE name == ManagerName(g)
           entry == Entry(name, {DrivenJoint(g)})
<1>1. name = Name(g[1], "", "_gripper_traj_controller") /\ ControllerJoints(g) = {DrivenJoint(g)}
  BY DEF ManagerName, ControllerJoints
<1>2. GripperControllersFile(g) = [types |-> {name}, joints |-> entry]
  BY <1>1 DEF GripperControllersFile
<1>3. DOMAIN entry = {name} /\ entry[name] = {DrivenJoint(g)}
  BY EntryAt
<1>4. ControllerJoints(g) = {DrivenJoint(g)}
  BY <1>1
<1> HIDE DEF name, entry
<1>5. GripperControllersFile(g).types = {name} /\ GripperControllersFile(g).joints = entry
  BY <1>2
<1> QED BY <1>3, <1>4, <1>5 DEF name

\* and the merged ones: one for each directory, none overwritten.
LEMMA SectionsMerged ==
  ASSUME NEW arm, Configured(arm)
  PROVE  /\ \A k \in DOMAIN Unprefixed(arm).joints : \E d \in Sections(arm) :
              k = ManagerName(d) /\ Unprefixed(arm).joints[k] = ControllerJoints(d)
         /\ \A d \in Sections(arm) :
              ManagerName(d) \in DOMAIN Unprefixed(arm).joints /\ ManagerName(d) \in Unprefixed(arm).types
<1> DEFINE r == RobotName(arm)
           own == RobotControllersFile(r)
           extra == GripperControllers(arm)
           yaml == Unprefixed(arm)
<1>1. r \in DOMAIN Axes
  BY RobotFinger
<1>2. /\ ManagerName(r) \in own.types /\ DOMAIN own.joints = {ManagerName(r)}
      /\ own.joints[ManagerName(r)] = ControllerJoints(r)
  BY <1>1, RobotSection
<1>3. yaml = [types |-> own.types \cup extra.types, joints |-> Updated(own.joints, extra.joints)]
  BY DEF Unprefixed, MergeControllers
<1> HIDE DEF r, own, extra, yaml
<1>4. /\ yaml.types = own.types \cup extra.types
      /\ DOMAIN yaml.joints = DOMAIN own.joints \cup DOMAIN extra.joints
      /\ \A k \in DOMAIN yaml.joints :
           yaml.joints[k] = IF k \in DOMAIN extra.joints THEN extra.joints[k] ELSE own.joints[k]
  BY <1>3 DEF Updated
<1>5. \/ Sections(arm) = {r} /\ extra = NoControllers
      \/ \E g : Sections(arm) = {r, g} /\ g \notin DOMAIN Axes /\ extra = GripperControllersFile(g)
  <2>1. CASE arm.gripper /\ GripperDir(arm.type) \in FingerGrippers
    <3>1. Sections(arm) = {r, GripperDir(arm.type)}
      BY <2>1 DEF Sections, r
    <3>2. extra = GripperControllersFile(GripperDir(arm.type))
      BY <2>1 DEF GripperControllers, extra
    <3> QED BY <3>1, <3>2, GripperNotRobot
  <2>2. CASE arm.gripper /\ GripperDir(arm.type) \notin FingerGrippers
    BY <2>2 DEF Sections, GripperControllers, r, extra
  <2>3. CASE ~arm.gripper /\ arm.bio
    <3>1. Sections(arm) = {r, BioGripper}
      BY <2>3 DEF Sections, r
    <3>2. extra = GripperControllersFile(BioGripper)
      BY <2>3 DEF GripperControllers, extra
    <3> QED BY <3>1, <3>2, GripperNotRobot DEF BioGripper
  <2>4. CASE ~arm.gripper /\ ~arm.bio
    BY <2>4 DEF Sections, GripperControllers, r, extra
  <2> QED BY <2>1, <2>2, <2>3, <2>4
<1>6. CASE Sections(arm) = {r} /\ extra = NoControllers
  <2>1. DOMAIN extra.joints = {}
    BY <1>6 DEF NoControllers
  <2>2. DOMAIN yaml.joints = {ManagerName(r)} /\ yaml.joints[ManagerName(r)] = ControllerJoints(r)
        /\ ManagerName(r) \in yaml.types
    BY <1>2, <1>4, <2>1
  <2> QED BY <1>6, <2>2 DEF yaml
<1>7. CASE \E g : Sections(arm) = {r, g} /\ g \notin DOMAIN Axes /\ extra = GripperControllersFile(g)
  <2>1. PICK g : Sections(arm) = {r, g} /\ g \notin DOMAIN Axes /\ extra = GripperControllersFile(g)
    BY <1>7
  <2>2. /\ ManagerName(g) \in extra.types /\ DOMAIN extra.joints = {ManagerName(g)}
        /\ extra.joints[ManagerName(g)] = ControllerJoints(g)
    BY <2>1, GripperSection
  <2>3. r \in ConfigDirs /\ g \in ConfigDirs /\ r # g
    BY <1>1, <2>1, SectionsAre
  <2>4. ManagerName(r) # ManagerName(g)
    BY <2>3, ManagerNamesApart
  <2>5. /\ DOMAIN yaml.joints = {ManagerName(r), ManagerName(g)}
        /\ yaml.joints[ManagerName(r)] = ControllerJoints(r)
        /\ yaml.joints[ManagerName(g)] = ControllerJoints(g)
        /\ ManagerName(r) \in yaml.types /\ ManagerName(g) \in yaml.types
    BY <1>2, <1>4, <2>2, <2>4
  <2> QED BY <2>1, <2>5 DEF yaml
<1> QED BY <1>5, <1>6, <1>7

\* The manager's parameters of an arm.
Params(arm) == GenerateRos2ControlParams(XArmType(arm), arm)
\* They get the prefix, and their joints do.
LEMMA ParamsAre ==
  ASSUME NEW arm, Configured(arm)
  PROVE  /\ \A n \in DOMAIN Params(arm).joints : \E d \in Sections(arm) :
              /\ n = Prefixed(arm.prefix, ManagerName(d))
              /\ Params(arm).joints[n] = PrefixedAll(arm.prefix, ControllerJoints(d))
         /\ \A d \in Sections(arm) :
              /\ Prefixed(arm.prefix, ManagerName(d)) \in DOMAIN Params(arm).joints
              /\ Prefixed(arm.prefix, ManagerName(d)) \in Params(arm).types
<1> DEFINE yaml == Unprefixed(arm)
           own == DOMAIN yaml.joints
           keys == PrefixedKeys(arm.prefix, yaml.joints)
           types == (yaml.types \ own) \cup PrefixedAll(arm.prefix, yaml.types \cap own)
           joints == [n \in DOMAIN keys |-> PrefixedAll(arm.prefix, keys[n])]
           params == Params(arm)
<1>1. XArmType(arm) \in DOMAIN Axes /\ RobotName(arm) = XArmType(arm)
  BY RobotDir DEF Configured
<1>2. params = [types |-> types, joints |-> joints]
  BY <1>1 DEF Params, GenerateRos2ControlParams, AddPrefixToRos2ControlParams, Unprefixed
<1>3. /\ \A k \in own : \E d \in Sections(arm) : k = ManagerName(d) /\ yaml.joints[k] = ControllerJoints(d)
      /\ \A d \in Sections(arm) : ManagerName(d) \in own /\ ManagerName(d) \in yaml.types
  BY SectionsMerged
<1>4. \A k \in own : IsName(k)
  BY <1>3, ManagerNameIs
<1> HIDE DEF yaml
<1>5. \A n \in DOMAIN keys : \E k \in own : n = Prefixed(arm.prefix, k) /\ keys[n] = yaml.joints[k]
  BY <1>4, PrefixedKeysAt
<1>6. \A k \in own : Prefixed(arm.prefix, k) \in DOMAIN keys
  BY <1>4, PrefixedKeysOf
<1>7. DOMAIN joints = DOMAIN keys /\ \A n \in DOMAIN keys : joints[n] = PrefixedAll(arm.prefix, keys[n])
  OBVIOUS
<1>8. \A k \in yaml.types \cap own : Prefixed(arm.prefix, k) \in types
  BY DEF PrefixedAll
<1> HIDE DEF keys, types, joints, own
<1>9. params.types = types /\ params.joints = joints
  BY <1>2
<1>10. ASSUME NEW n \in DOMAIN joints
       PROVE  \E d \in Sections(arm) : /\ n = Prefixed(arm.prefix, ManagerName(d))
                                       /\ joints[n] = PrefixedAll(arm.prefix, ControllerJoints(d))
  BY <1>3, <1>5, <1>7
<1>11. ASSUME NEW d \in Sections(arm)
       PROVE  /\ Prefixed(arm.prefix, ManagerName(d)) \in DOMAIN joints
              /\ Prefixed(arm.prefix, ManagerName(d)) \in types
  BY <1>3, <1>6, <1>7, <1>8
<1> HIDE DEF params
<1>12. /\ \A n \in DOMAIN params.joints : \E d \in Sections(arm) :
            /\ n = Prefixed(arm.prefix, ManagerName(d))
            /\ params.joints[n] = PrefixedAll(arm.prefix, ControllerJoints(d))
       /\ \A d \in Sections(arm) :
            /\ Prefixed(arm.prefix, ManagerName(d)) \in DOMAIN params.joints
            /\ Prefixed(arm.prefix, ManagerName(d)) \in params.types
  BY <1>9, <1>10, <1>11
<1> QED BY <1>12 DEF params

\* What MoveIt sends to a controller of the arm: the manager's section of that
\* name, or an action of the driver.
LEMMA Receiver ==
  ASSUME NEW arm, Configured(arm), NEW file, NEW n \in DOMAIN ControllersOf(arm, arm.type, file)
  PROVE  LET c == ControllersOf(arm, arm.type, file)[n]
         IN  \/ /\ c.action = "follow_joint_trajectory"
                /\ n \in DOMAIN Params(arm).joints /\ n \in Params(arm).types
             \/ /\ c.action = "gripper_action"
                /\ file # "fake_controllers" /\ n \in DriverActions(arm)
<1> DEFINE all == ControllersOf(arm, arm.type, file)
<1>1. PICK d \in ArmDirs(arm, arm.type) :
        /\ n = Prefixed(arm.prefix, ControllerName(d, file))
        /\ all[n].action = ControllerAction(d, file)
  BY ControllerFrom
<1>2. d \in Sections(arm)
  BY SectionsAre
<1>3. /\ Prefixed(arm.prefix, ManagerName(d)) \in DOMAIN Params(arm).joints
      /\ Prefixed(arm.prefix, ManagerName(d)) \in Params(arm).types
  BY <1>2, ParamsAre
<1> HIDE DEF all
<1>4. CASE d \in DOMAIN Axes \/ file = "fake_controllers"
  <2>1. ControllerAction(d, file) = "follow_joint_trajectory"
    BY <1>4 DEF ControllerAction
  <2>2. ControllerName(d, file) = ManagerName(d)
    BY <1>4 DEF ControllerName, ManagerName
  <2> QED BY <1>1, <1>3, <2>1, <2>2 DEF all
<1>5. CASE d \notin DOMAIN Axes /\ file # "fake_controllers"
  <2>1. ControllerAction(d, file) = "gripper_action"
    BY <1>5 DEF ControllerAction
  <2>2. ControllerName(d, file) \in {Name("xarm", "", "_gripper"), Name("bio", "", "_gripper")}
    BY <1>5 DEF ControllerName
  <2>3. n \in DriverActions(arm)
    BY <1>1, <2>2 DEF DriverActions, PrefixedAll
  <2> QED BY <1>1, <1>5, <2>1, <2>3 DEF all
<1> QED BY <1>4, <1>5

\* A name that another arm's section has, too, stands for the same joints.
LEMMA SameJoints ==
  ASSUME NEW a, Configured(a), NEW b, Configured(b), NEW file,
         NEW n \in DOMAIN ControllersOf(a, a.type, file), n \in DOMAIN Params(b).joints,
         ControllersOf(a, a.type, file)[n].action = "follow_joint_trajectory"
  PROVE  Params(b).joints[n] = ControllersOf(a, a.type, file)[n].joints
<1> DEFINE all == ControllersOf(a, a.type, file)
<1>1. PICK d \in ArmDirs(a, a.type) :
        /\ n = Prefixed(a.prefix, ControllerName(d, file))
        /\ all[n].action = ControllerAction(d, file)
        /\ all[n].joints = PrefixedAll(a.prefix, ControllerJoints(d))
  BY ControllerFrom
<1>2. PICK e \in Sections(b) : /\ n = Prefixed(b.prefix, ManagerName(e))
                               /\ Params(b).joints[n] = PrefixedAll(b.prefix, ControllerJoints(e))
  BY ParamsAre
<1>3. ControllerName(d, file) = ManagerName(d)
  <2>1. ControllerAction(d, file) = "follow_joint_trajectory"
    BY <1>1
  <2>2. d \in DOMAIN Axes \/ file = "fake_controllers"
    BY <2>1 DEF ControllerAction
  <2> QED BY <2>2 DEF ControllerName, ManagerName
<1>4. d \in ConfigDirs /\ e \in ConfigDirs
  BY SectionsAre
<1>5. IsName(ManagerName(d)) /\ IsName(ManagerName(e))
  BY ManagerNameIs
<1> HIDE DEF all
<1>6. Prefixed(a.prefix, ManagerName(d)) = Prefixed(b.prefix, ManagerName(e))
  BY <1>1, <1>2, <1>3
<1>7. a.prefix = b.prefix /\ ManagerName(d) = ManagerName(e)
  BY <1>5, <1>6, PrefixedSame
<1>8. d = e
  BY <1>4, <1>7, ManagerNamesApart
<1> QED BY <1>1, <1>2, <1>7, <1>8 DEF all

\* The driver's actions go with the real arm's plugin.
LEMMA ServoFileIs ==
  ASSUME NEW plugin, ServoFile(plugin) # "fake_controllers"
  PROVE  plugin = RealPlugin
BY DEF ServoFile

\* One arm,
LEMMA SingleReceived ==
  ASSUME NEW M, Single(M), NEW n \in DOMAIN M.controllers
  PROVE  Received(n, M.controllers[n], Driver(M.description))
<1> DEFINE a == M.description.arms[1]
           file == ServoFile(M.description.plugin)
           manager == Driver(M.description)
           c == M.controllers[n]
<1>1. SingleIs(M, a)
  BY SingleSpelt
<1>2. /\ Configured(a) /\ M.description.params = Params(a)
      /\ M.controllers = ControllersOf(a, a.type, file) /\ Len(M.description.arms) = 1
  BY <1>1 DEF SingleIs, Params
<1>3. manager.params = M.description.params /\ manager.description = M.description
  BY DEF Driver
<1>4. \/ /\ c.action = "follow_joint_trajectory"
         /\ n \in DOMAIN Params(a).joints /\ n \in Params(a).types
      \/ /\ c.action = "gripper_action"
         /\ file # "fake_controllers" /\ n \in DriverActions(a)
  BY <1>2, Receiver
<1>5. CASE c.action = "follow_joint_trajectory"
  <2>1. n \in DOMAIN Params(a).joints /\ n \in Params(a).types
    BY <1>4, <1>5
  <2>2. Params(a).joints[n] = c.joints
    BY <1>2, <1>5, <2>1, SameJoints
  <2>3. JointsOf(n, manager) = c.joints /\ n \in manager.params.types
    <3> HIDE DEF c, manager, a
    <3> QED BY <1>2, <1>3, <2>1, <2>2 DEF JointsOf
  <2> HIDE DEF c, manager
  <2>4. Received(n, c, manager)
    BY <1>5, <2>3 DEF Received
  <2> QED BY <2>4 DEF c, manager
<1>6. CASE c.action # "follow_joint_trajectory"
  <2>1. M.description.plugin = RealPlugin /\ n \in DriverActions(a)
    BY <1>4, <1>6, ServoFileIs
  <2>2. /\ manager.description.plugin = RealPlugin
        /\ \E k \in 1 .. Len(manager.description.arms) : n \in DriverActions(manager.description.arms[k])
    <3>1. 1 \in 1 .. Len(M.description.arms)
      BY <1>2
    <3> HIDE DEF manager
    <3> QED BY <1>3, <2>1, <3>1
  <2> HIDE DEF c, manager
  <2>3. Received(n, c, manager)
    BY <1>6, <2>2 DEF Received
  <2> QED BY <2>3 DEF c, manager
<1> QED BY <1>5, <1>6

\* and two, whose sections are merged.
LEMMA DualReceived ==
  ASSUME NEW M, Dual(M), NEW n \in DOMAIN M.controllers
  PROVE  Received(n, M.controllers[n], Driver(M.description))
<1> DEFINE a == M.description.arms[1]
           b == M.description.arms[2]
           file == ServoFile(M.description.plugin)
           manager == Driver(M.description)
           c == M.controllers[n]
           C(x) == ControllersOf(x, x.type, file)
<1>1. DualIs(M, a, b)
  BY DualSpelt
<1>2. /\ Configured(a) /\ Configured(b)
      /\ M.description.params = MergeControllers(Params(a), Params(b))
      /\ M.controllers = Updated(C(a), C(b)) /\ Len(M.description.arms) = 2
  BY <1>1 DEF DualIs, Params
<1>3. manager.params = M.description.params /\ manager.description = M.description
  BY DEF Driver
<1> DEFINE p == M.description.params
           joints == Updated(Params(a).joints, Params(b).joints)
<1>4. p.types = Params(a).types \cup Params(b).types /\ p.joints = joints
  BY <1>2 DEF MergeControllers
<1>5. /\ DOMAIN joints = DOMAIN Params(a).joints \cup DOMAIN Params(b).joints
      /\ \A k \in DOMAIN joints :
           joints[k] = IF k \in DOMAIN Params(b).joints THEN Params(b).joints[k] ELSE Params(a).joints[k]
  BY DEF Updated
<1>6. \E k \in 1 .. 2 : LET x == M.description.arms[k] IN n \in DOMAIN C(x) /\ c = C(x)[n]
  <2>1. CASE n \in DOMAIN C(b)
    <3>1. c = C(b)[n]
      BY <1>2, <2>1 DEF Updated
    <3> QED BY <2>1, <3>1
  <2>2. CASE n \notin DOMAIN C(b)
    <3>1. n \in DOMAIN C(a) /\ c = C(a)[n]
      BY <1>2, <2>2 DEF Updated
    <3> QED BY <3>1
  <2> QED BY <2>1, <2>2
<1> HIDE DEF p, joints
<1>7. PICK k \in 1 .. 2 : n \in DOMAIN C(M.description.arms[k]) /\ c = C(M.description.arms[k])[n]
  BY <1>6
<1> DEFINE x == M.description.arms[k]
<1>8. Configured(x) /\ (x = a \/ x = b)
  BY <1>2
<1>9. \/ /\ c.action = "follow_joint_trajectory"
         /\ n \in DOMAIN Params(x).joints /\ n \in Params(x).types
      \/ /\ c.action = "gripper_action"
         /\ file # "fake_controllers" /\ n \in DriverActions(x)
  BY <1>7, <1>8, Receiver
<1>10. CASE c.action = "follow_joint_trajectory"
  <2>1. n \in DOMAIN Params(x).joints /\ n \in Params(x).types
    BY <1>9, <1>10
  <2>2. /\ n \in DOMAIN Params(a).joints => Params(a).joints[n] = c.joints
        /\ n \in DOMAIN Params(b).joints => Params(b).joints[n] = c.joints
    BY <1>2, <1>7, <1>8, <1>10, SameJoints
  <2> HIDE DEF a, b, c, x, C
  <2>3. n \in p.types /\ n \in DOMAIN p.joints /\ p.joints[n] = c.joints
    BY <1>4, <1>5, <1>8, <2>1, <2>2
  <2> HIDE DEF manager
  <2>4. JointsOf(n, manager) = c.joints /\ n \in manager.params.types
    BY <1>3, <2>3 DEF JointsOf, p
  <2>5. Received(n, c, manager)
    BY <1>10, <2>4 DEF Received
  <2> QED BY <2>5 DEF c, manager
<1>11. CASE c.action # "follow_joint_trajectory"
  <2>1. M.description.plugin = RealPlugin /\ n \in DriverActions(x)
    BY <1>9, <1>11, ServoFileIs
  <2>2. /\ manager.description.plugin = RealPlugin
        /\ \E l \in 1 .. Len(manager.description.arms) : n \in DriverActions(manager.description.arms[l])
    <3>1. k \in 1 .. Len(M.description.arms)
      BY <1>2
    <3> HIDE DEF manager
    <3> QED BY <1>3, <2>1, <3>1
  <2> HIDE DEF c, manager
  <2>3. Received(n, c, manager)
    BY <1>11, <2>2 DEF Received
  <2> QED BY <2>3 DEF c, manager
<1> QED BY <1>10, <1>11

(* Whatever move_group is configured to send to a controller has a receiver: *)
(* MoveIt's files and the manager's are read, prefixed and merged by         *)
(* different functions, and they agree for any arms that have a              *)
(* configuration, two that share a prefix included.                          *)
THEOREM EndpointsMatchAlways == Spec => []EndpointsMatch
<1>1. LaunchInv => EndpointsMatch
  <2> SUFFICES ASSUME LaunchInv, NEW i \in Procs("move_group"), NEW manager \in Manager,
                      NEW n \in DOMAIN procs[i].data.controllers
               PROVE  Received(n, procs[i].data.controllers[n], manager)
    BY DEF EndpointsMatch
  <2>1. PICK m : Follows(m)
    BY FreshEmpty DEF LaunchInv
  <2> DEFINE M == procs[i].data
  <2>2. m.moveit # Nothing /\ M = m.moveit /\ (Single(M) \/ Dual(M))
    BY <2>1, MoveGroupGiven
  <2>3. manager = Driver(M.description)
    BY <2>1, <2>2, ManagerGiven
  <2> HIDE DEF M
  <2>4. n \in DOMAIN M.controllers
    BY DEF M
  <2>5. Received(n, M.controllers[n], Driver(M.description))
    BY <2>2, <2>4, SingleReceived, DualReceived
  <2> QED BY <2>3, <2>5 DEF M
<1> QED BY <1>1, InvHolds, PTL
=============================================================================
