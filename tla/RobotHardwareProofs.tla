------------------------ MODULE RobotHardwareProofs ------------------------
(***************************************************************************)
(* Proofs about RobotHardware, for any number of arms and controllers and  *)
(* any positions.                                                          *)
(***************************************************************************)
EXTENDS RobotHardware, TLAPS

\* The arm was read in this turn and is still to be written.
ToWrite(a) ==
  \/ rt.at = "read" /\ rt.arm > a
  \/ rt.at = "update"
  \/ rt.at = "write" /\ rt.arm = a
  \/ rt.at \notin {"read", "update", "exit"} /\ rt.arm < a

\* From its read to its write an arm that is not initialised has the position
\* just read as its command, unless a controller wrote one.
SyncInv ==
  \A a \in Arms :
    ToWrite(a) /\ ~initialized_[a] /\ read_ready_[a] /\ read_code_[a] /\ ~touched[a]
      => position_cmds_[a] = joint_state_msg_[a]

\* Only spawned controllers are listed, asked for and active.  An arm comes to
\* the request to switch off without its indicator, and to the one to switch on
\* with it; where the indicator is set there is something to switch on.
SwitchInv ==
  /\ listed \subseteq spawned /\ active \subseteq spawned
  /\ \A i \in 1 .. Len(requests) : requests[i].of \subseteq spawned
  /\ \A a \in Arms : reactivate_controller_later_[a] => spawned # {}
  /\ rt.at \in {"list_off", "off"} => ~reactivate_controller_later_[rt.arm]
  /\ rt.at \in {"list_on", "on"} => reactivate_controller_later_[rt.arm]
  /\ rt.at = "off" => spawned # {}

\* If no call failed, the last request of an arm says what its indicator says.
Latest(i) ==
  /\ requests[i].by # Spawner
  /\ \A m \in i + 1 .. Len(requests) : requests[m].by # requests[i].by
LatestInv ==
  ~missed => \A i \in 1 .. Len(requests) :
    Latest(i) => requests[i].on # reactivate_controller_later_[requests[i].by]

HInv ==
  /\ TypeOK /\ SyncInv /\ FirstCommandHolds
  /\ SwitchInv /\ LatestInv /\ RequestsAlternate
-----------------------------------------------------------------------------
\* The thread stays with an arm there is.
LEMMA AdvanceType ==
  ASSUME TypeOK, NEW phase \in Phases, NEW then \in Phases, Advance(phase, then)
  PROVE  rt' \in [at : Phases, arm : Arms]
BY HardwareAssumption DEF Advance, TypeOK, Arms

\* Every step keeps every variable in its type.
LEMMA TypeStep == TypeOK /\ [Next]_vars => TypeOK'
<1> SUFFICES ASSUME TypeOK, [Next]_vars PROVE TypeOK'
  OBVIOUS
<1> USE DEF TypeOK, dataVars, flagVars, managerVars, historyVars
<1>0. 1 \in Arms /\ \A p \in {"read", "update", "write", "list_off", "off", "list_on", "on",
                             "send", "exit"} : p \in Phases
  BY HardwareAssumption DEF Arms, Phases
<1>1. ASSUME NEW a \in Arms, Read(a) PROVE TypeOK'
  <2>1. rt' \in [at : Phases, arm : Arms]
    BY <1>0, <1>1, AdvanceType DEF Read
  <2>2. robot[a].pos \in Positions
    OBVIOUS
  <2> QED
    BY <1>1, <2>1, <2>2 DEF Read
<1>2. ASSUME NEW a \in Arms, ReadFails(a) PROVE TypeOK'
  <2>1. rt' \in [at : Phases, arm : Arms]
    BY <1>0, <1>2, AdvanceType DEF ReadFails
  <2>2. changes' \in 0 .. MaxChanges
    BY <1>2, HardwareAssumption DEF ReadFails
  <2> QED
    BY <1>2, <2>1, <2>2 DEF ReadFails
<1>3. ASSUME NEW a \in Arms, ReadDisconnected(a) PROVE TypeOK'
  <2>1. changes' \in 0 .. MaxChanges
    BY <1>3, HardwareAssumption DEF ReadDisconnected
  <2> QED
    BY <1>0, <1>3, <2>1 DEF ReadDisconnected, Goes
<1>4. ASSUME Update PROVE TypeOK'
  <2>1. position_cmds_' \in [Arms -> Positions]
    BY <1>4 DEF Update
  <2>2. touched' \in [Arms -> BOOLEAN]
    BY <1>4 DEF Update, Controlled
  <2> QED
    BY <1>0, <1>4, <2>1, <2>2 DEF Update
<1>5. ASSUME NEW a \in Arms, WriteReset(a) PROVE TypeOK'
  <2>1. rt' \in [at : Phases, arm : Arms]
    BY <1>0, <1>5, AdvanceType DEF WriteReset, Goes
  <2> QED
    BY <1>5, <2>1 DEF WriteReset
<1>6. ASSUME NEW a \in Arms, WriteReady(a) PROVE TypeOK'
  BY <1>0, <1>6 DEF WriteReady, Goes
<1>7. ASSUME NEW a \in Arms, ListOff(a) \/ ListOffFails(a) PROVE TypeOK'
  <2>1. rt' \in [at : Phases, arm : Arms]
    BY <1>0, <1>7, AdvanceType DEF ListOff, ListOffFails, Goes
  <2> QED
    BY <1>7, <2>1 DEF ListOff, ListOffFails
<1>8. ASSUME NEW a \in Arms, NEW on \in BOOLEAN, NEW sent \in BOOLEAN, Switch(a, on, sent)
     PROVE  /\ requests' \in Seq(Requests)
            /\ UNCHANGED <<spawned, active>> /\ listed' = {} /\ missed' \in BOOLEAN
  <2>1. [on |-> on, of |-> listed, by |-> a] \in Requests
    BY DEF Requests
  <2> QED
    BY <1>8, <2>1 DEF Switch
<1>9. ASSUME NEW a \in Arms, NEW sent \in BOOLEAN, SwitchOff(a, sent) PROVE TypeOK'
  <2>1. rt' \in [at : Phases, arm : Arms]
    BY <1>0, <1>9, AdvanceType DEF SwitchOff
  <2> QED
    BY <1>8, <1>9, <2>1 DEF SwitchOff
<1>10. ASSUME NEW a \in Arms, ListOn(a) \/ ListOnFails(a) PROVE TypeOK'
  BY <1>0, <1>10 DEF ListOn, ListOnFails, Goes
<1>11. ASSUME NEW a \in Arms, NEW sent \in BOOLEAN, SwitchOn(a, sent) PROVE TypeOK'
  BY <1>0, <1>8, <1>11 DEF SwitchOn, Goes
<1>12. ASSUME NEW a \in Arms, Send(a) PROVE TypeOK'
  <2>1. rt' \in [at : Phases, arm : Arms]
    BY <1>0, <1>12, AdvanceType DEF Send
  <2>2. robot' \in [Arms -> [is : Conditions, pos : Positions]]
    BY <1>12 DEF Send
  <2> QED
    BY <1>12, <2>1, <2>2 DEF Send
<1>13. ASSUME Reports PROVE TypeOK'
  <2>1. CASE \E a \in Arms : Report(a)
    BY <1>13, <2>1 DEF Report
  <2>2. CASE \E a \in Arms : ReportTorn(a)
    <3>0. PICK a \in Arms : ReportTorn(a)
      BY <2>2
    <3>1. PICK c \in Mixtures(curr[a], robot[a].is) :
            /\ c = "ready" => changes < MaxChanges
            /\ changes' = IF c = "ready" THEN changes + 1 ELSE changes
            /\ curr' = [curr EXCEPT ![a] = c]
            /\ UNCHANGED <<rt, dataVars, flagVars, managerVars, historyVars, robot, listed>>
      BY <3>0 DEF ReportTorn
    <3>2. c \in Conditions
      BY DEF Mixtures, Conditions
    <3>3. changes' \in 0 .. MaxChanges
      BY <3>1, HardwareAssumption
    <3> QED BY <3>1, <3>2, <3>3
  <2> QED BY <1>13, <2>1, <2>2 DEF Reports
<1>14. ASSUME NEW a \in Arms, NEW is \in Conditions, Becomes(a, is) PROVE TypeOK'
  <2>1. changes' \in 0 .. MaxChanges
    BY <1>14, HardwareAssumption DEF Becomes
  <2> QED
    BY <1>14, <2>1 DEF Becomes
<1>15. ASSUME NEW a \in Arms, NEW p \in Positions, IsMoved(a, p) PROVE TypeOK'
  BY <1>15 DEF IsMoved
<1>16. ASSUME NEW c \in Controllers, Spawn(c) PROVE TypeOK'
  <2>1. requests' \in Seq(Requests)
    BY <1>16 DEF Spawn, Requests
  <2> QED
    BY <1>16, <2>1 DEF Spawn
<1>17. ASSUME Carry PROVE TypeOK'
  <2>1. Head(requests) \in Requests /\ Tail(requests) \in Seq(Requests)
    BY <1>17 DEF Carry
  <2> QED
    BY <1>17, <2>1 DEF Carry, Requests
<1>18. CASE UNCHANGED vars
  BY <1>18 DEF vars
<1> QED
  BY <1>1, <1>2, <1>3, <1>4, <1>5, <1>6, <1>7, <1>9, <1>10, <1>11, <1>12, <1>13, <1>14,
     <1>15, <1>16, <1>17, <1>18
     DEF Next, RealTime

\* Who is still to be written when the thread turns to the next arm, or goes on
\* with the same one.
LEMMA ReadAdvance ==
  ASSUME TypeOK, NEW a \in Arms, rt.at = "read", Advance("read", "update"), ToWrite(a)'
  PROVE  rt.arm = a \/ ToWrite(a)
BY HardwareAssumption DEF TypeOK, Advance, ToWrite, Arms

LEMMA WriteAdvance ==
  ASSUME TypeOK, NEW a \in Arms, rt.at \notin {"read", "update", "exit"},
         Advance("write", "read"), ToWrite(a)'
  PROVE  ToWrite(a) /\ rt.arm # a
BY HardwareAssumption DEF TypeOK, Advance, ToWrite, Arms

LEMMA WriteGoes ==
  ASSUME TypeOK, NEW a \in Arms, rt.at \notin {"read", "update", "exit"},
         NEW to \in {"list_off", "off", "list_on", "on", "send"}, Goes(to), ToWrite(a)'
  PROVE  ToWrite(a) /\ rt.arm # a
<1>1. rt'.at = to /\ rt'.arm = rt.arm
  BY DEF TypeOK, Goes
<1> QED
  BY <1>1 DEF ToWrite, TypeOK, Arms

\* What a read left in the commands of an arm stays there until its write.
LEMMA SyncStep == TypeOK /\ SyncInv /\ [Next]_vars => SyncInv'
<1> SUFFICES ASSUME TypeOK, SyncInv, [Next]_vars, NEW a \in Arms, ToWrite(a)',
                    ~initialized_'[a], read_ready_'[a], read_code_'[a], ~touched'[a]
             PROVE  position_cmds_'[a] = joint_state_msg_'[a]
  BY DEF SyncInv
<1> USE DEF dataVars, flagVars, managerVars, historyVars
<1>1. ASSUME ToWrite(a), position_cmds_'[a] = position_cmds_[a],
             joint_state_msg_'[a] = joint_state_msg_[a], initialized_'[a] = initialized_[a],
             read_ready_'[a] = read_ready_[a], read_code_'[a] = read_code_[a],
             touched'[a] = touched[a]
      PROVE  position_cmds_'[a] = joint_state_msg_'[a]
  BY <1>1 DEF SyncInv
<1>2. ASSUME NEW b \in Arms, Read(b) PROVE position_cmds_'[a] = joint_state_msg_'[a]
  <2>1. CASE a = b
    BY <1>2, <2>1 DEF Read, TypeOK
  <2>2. CASE a # b
    <3>1. ToWrite(a)
      BY <1>2, <2>2, ReadAdvance DEF Read, At
    <3> QED
      BY <1>1, <1>2, <2>2, <3>1 DEF Read, TypeOK
  <2> QED
    BY <2>1, <2>2
<1>3. ASSUME NEW b \in Arms, ReadFails(b) PROVE position_cmds_'[a] = joint_state_msg_'[a]
  <2>1. a # b
    BY <1>3 DEF ReadFails, TypeOK
  <2>2. ToWrite(a)
    BY <1>3, <2>1, ReadAdvance DEF ReadFails, At
  <2> QED
    BY <1>1, <1>3, <2>1, <2>2 DEF ReadFails, TypeOK
<1>4. ASSUME NEW b \in Arms, ReadDisconnected(b) PROVE FALSE
  BY <1>4 DEF ReadDisconnected, Goes, ToWrite, TypeOK
<1>5. ASSUME Update PROVE position_cmds_'[a] = joint_state_msg_'[a]
  <2>1. ToWrite(a)
    BY <1>5 DEF Update, At, ToWrite
  <2>2. ~touched[a] /\ ~Controlled(a)
    BY <1>5 DEF Update
  <2> QED
    BY <1>1, <1>5, <2>1, <2>2 DEF Update, TypeOK
<1>6. ASSUME NEW b \in Arms, WriteReset(b)
      PROVE  position_cmds_'[a] = joint_state_msg_'[a]
  <2>1. ToWrite(a) /\ a # b
    BY <1>6, WriteAdvance, WriteGoes DEF WriteReset, At
  <2> QED
    BY <1>1, <1>6, <2>1 DEF WriteReset, TypeOK
<1>7. ASSUME NEW b \in Arms, WriteReady(b)
      PROVE  position_cmds_'[a] = joint_state_msg_'[a]
  <2>1. ToWrite(a) /\ a # b
    BY <1>7, WriteGoes DEF WriteReady, At
  <2> QED
    BY <1>1, <1>7, <2>1 DEF WriteReady, TypeOK
<1>8. ASSUME NEW b \in Arms, ListOff(b)
     PROVE  position_cmds_'[a] = joint_state_msg_'[a]
  <2>1. ToWrite(a)
    BY <1>8, WriteAdvance, WriteGoes DEF ListOff, At
  <2> QED
    BY <1>1, <1>8, <2>1 DEF ListOff
<1>9. ASSUME NEW b \in Arms, ListOffFails(b)
     PROVE  position_cmds_'[a] = joint_state_msg_'[a]
  <2>1. ToWrite(a)
    BY <1>9, WriteAdvance DEF ListOffFails, At
  <2> QED
    BY <1>1, <1>9, <2>1 DEF ListOffFails
<1>10. ASSUME NEW b \in Arms, NEW sent \in BOOLEAN, SwitchOff(b, sent)
     PROVE  position_cmds_'[a] = joint_state_msg_'[a]
  <2>1. ToWrite(a)
    BY <1>10, WriteAdvance DEF SwitchOff, At
  <2> QED
    BY <1>1, <1>10, <2>1 DEF SwitchOff
<1>11. ASSUME NEW b \in Arms, ListOn(b)
     PROVE  position_cmds_'[a] = joint_state_msg_'[a]
  <2>1. ToWrite(a)
    BY <1>11, WriteGoes DEF ListOn, At
  <2> QED
    BY <1>1, <1>11, <2>1 DEF ListOn
<1>12. ASSUME NEW b \in Arms, ListOnFails(b)
     PROVE  position_cmds_'[a] = joint_state_msg_'[a]
  <2>1. ToWrite(a)
    BY <1>12, WriteGoes DEF ListOnFails, At
  <2> QED
    BY <1>1, <1>12, <2>1 DEF ListOnFails
<1>13. ASSUME NEW b \in Arms, NEW sent \in BOOLEAN, SwitchOn(b, sent)
     PROVE  position_cmds_'[a] = joint_state_msg_'[a]
  <2>1. ToWrite(a)
    BY <1>13, WriteGoes DEF SwitchOn, At
  <2> QED
    BY <1>1, <1>13, <2>1 DEF SwitchOn
<1>14. ASSUME NEW b \in Arms, Send(b) PROVE position_cmds_'[a] = joint_state_msg_'[a]
  <2>1. ToWrite(a)
    BY <1>14, WriteAdvance DEF Send, At
  <2> QED
    BY <1>1, <1>14, <2>1 DEF Send
<1>15. ASSUME UNCHANGED <<rt, dataVars, flagVars, touched>>
       PROVE  position_cmds_'[a] = joint_state_msg_'[a]
  BY <1>15 DEF SyncInv, ToWrite
<1> QED
  BY <1>2, <1>3, <1>4, <1>5, <1>6, <1>7, <1>8, <1>9, <1>10, <1>11, <1>12, <1>13,
     <1>14, <1>15
     DEF Next, RealTime, Reports, Report, ReportTorn, Becomes, IsMoved, Spawn, Carry, vars

\* The first write of an arm takes the commands over from its read.
LEMMA FirstStep == HInv /\ [Next]_vars => FirstCommandHolds'
<1> SUFFICES ASSUME HInv, [Next]_vars, NEW a \in Arms, rt'.at \in Writing, rt'.arm = a,
                    first'[a], ~touched'[a]
             PROVE  position_cmds_'[a] = joint_state_msg_'[a]
  BY DEF FirstCommandHolds
<1> USE DEF HInv, TypeOK, FirstCommandHolds, Writing, dataVars, flagVars, managerVars,
            historyVars
<1>1. ASSUME NEW b \in Arms,
             \/ Read(b) \/ ReadFails(b) \/ ReadDisconnected(b) \/ WriteReset(b)
             \/ ListOff(b) \/ ListOffFails(b) \/ Send(b)
             \/ \E sent \in BOOLEAN : SwitchOff(b, sent)
      PROVE  FALSE
  <2>1. rt'.at \in {"read", "update", "write", "list_off", "off", "exit"}
    <3>1. Advance("read", "update") \/ Advance("write", "read")
            => rt'.at \in {"read", "update", "write"}
      BY DEF Advance
    <3>2. Goes("exit") \/ Goes("list_off") \/ Goes("off")
            => rt'.at \in {"list_off", "off", "exit"}
      BY DEF Goes
    <3> QED
      BY <1>1, <3>1, <3>2
         DEF Read, ReadFails, ReadDisconnected, WriteReset, ListOff, ListOffFails, Send,
             SwitchOff
  <2> QED
    BY <2>1
<1>2. ASSUME Update PROVE FALSE
  BY <1>2 DEF Update
<1>3. ASSUME NEW b \in Arms, WriteReady(b)
      PROVE  position_cmds_'[a] = joint_state_msg_'[a]
  <2>1. b = a /\ ~initialized_[a] /\ read_ready_[a] /\ read_code_[a] /\ ~touched[a]
    BY <1>3 DEF WriteReady, NeedReset, At, Goes
  <2>2. ToWrite(a)
    BY <1>3, <2>1 DEF WriteReady, At, ToWrite
  <2> QED
    BY <1>3, <2>1, <2>2 DEF WriteReady, SyncInv
<1>4. ASSUME NEW b \in Arms,
             \/ ListOn(b) \/ ListOnFails(b)
             \/ \E sent \in BOOLEAN : SwitchOn(b, sent)
      PROVE  position_cmds_'[a] = joint_state_msg_'[a]
  <2>1. UNCHANGED <<dataVars, first, touched>>
    BY <1>4 DEF ListOn, ListOnFails, SwitchOn
  <2>2. rt.at \in {"list_on", "on"} /\ (Goes("on") \/ Goes("send"))
    <3>1. ASSUME At("list_on", b) \/ At("on", b) PROVE rt.at \in {"list_on", "on"}
      BY <3>1 DEF At
    <3> QED
      BY <1>4, <3>1 DEF ListOn, ListOnFails, SwitchOn
  <2>3. rt.arm = a
    BY <2>2 DEF Goes
  <2> QED
    BY <2>1, <2>2, <2>3
<1>5. ASSUME UNCHANGED <<rt, dataVars, first, touched>>
      PROVE  position_cmds_'[a] = joint_state_msg_'[a]
  BY <1>5
<1> QED
  BY <1>1, <1>2, <1>3, <1>4, <1>5
     DEF Next, RealTime, Reports, Report, ReportTorn, Becomes, IsMoved, Spawn, Carry, vars

\* The places of the list of requests after one is added.
LEMMA AddedRequest ==
  ASSUME TypeOK, NEW r \in Requests, requests' = Append(requests, r)
  PROVE  /\ Len(requests) \in Nat /\ Len(requests') = Len(requests) + 1
         /\ \A i \in 1 .. Len(requests) : i \in 1 .. Len(requests') /\ requests'[i] = requests[i]
         /\ Len(requests') \in 1 .. Len(requests') /\ requests'[Len(requests')] = r
         /\ \A i \in 1 .. Len(requests') : i \in 1 .. Len(requests) \/ i = Len(requests')
<1>1. requests \in Seq(Requests)
  BY DEF TypeOK
<1>2. /\ Len(requests) \in Nat /\ Len(requests') = Len(requests) + 1
      /\ \A i \in 1 .. Len(requests) : requests'[i] = requests[i]
      /\ requests'[Len(requests) + 1] = r
  BY <1>1
<1>3. PICK n \in Nat : n = Len(requests)
  BY <1>2
<1>4. PICK k \in Nat : k = Len(requests') /\ k = n + 1
  BY <1>2, <1>3
<1> QED BY <1>2, <1>3, <1>4

\* The places of the list of requests after the first one is carried out.
LEMMA CarriedRequest ==
  ASSUME TypeOK, requests # <<>>, requests' = Tail(requests)
  PROVE  /\ Len(requests) \in Nat \ {0} /\ Len(requests') = Len(requests) - 1
         /\ \A i \in 1 .. Len(requests') :
              i + 1 \in 1 .. Len(requests) /\ requests'[i] = requests[i + 1]
         /\ Head(requests) = requests[1] /\ 1 \in 1 .. Len(requests)
<1>1. requests \in Seq(Requests)
  BY DEF TypeOK
<1>2. /\ Len(requests) \in Nat \ {0} /\ Len(requests') = Len(requests) - 1
      /\ \A i \in 1 .. Len(requests) - 1 : requests'[i] = requests[i + 1]
      /\ Head(requests) = requests[1]
  BY <1>1
<1>3. Len(requests) \in Nat \ {0}
  BY <1>2
<1>4. PICK n \in Nat \ {0} : n = Len(requests)
  BY <1>3
<1>5. 1 .. Len(requests') = 1 .. n - 1 /\ 1 \in 1 .. n
  BY <1>2, <1>4
<1>6. \A i \in 1 .. n - 1 : i + 1 \in 1 .. n /\ requests'[i] = requests[i + 1]
  BY <1>2, <1>4
<1> QED BY <1>2, <1>4, <1>5, <1>6

\* What is listed, asked for and active was spawned, and an arm asks for what its
\* indicator calls for.
LEMMA SwitchStep == TypeOK /\ SwitchInv /\ [Next]_vars => SwitchInv'
<1> SUFFICES ASSUME TypeOK, SwitchInv, [Next]_vars PROVE SwitchInv'
  OBVIOUS
<1> DEFINE Between == rt'.at \in {"read", "update", "write", "send", "exit"}
<1>a. ASSUME NEW p \in {"read", "write"}, NEW t \in {"read", "update"}, Advance(p, t) PROVE Between
  BY <1>a DEF Advance
<1>b. ASSUME NEW a \in Arms, NEW p, At(p, a), NEW t, Goes(t)
      PROVE  rt.at = p /\ rt.arm = a /\ rt'.at = t /\ rt'.arm = a
  BY <1>b DEF At, Goes
<1> HIDE DEF Between
<1>c. ASSUME Between, UNCHANGED <<managerVars, listed, reactivate_controller_later_>>
      PROVE  SwitchInv'
  BY <1>c DEF SwitchInv, managerVars, Between
<1>1. ASSUME NEW a \in Arms, Read(a) \/ ReadFails(a) PROVE SwitchInv'
  BY <1>1, <1>a, <1>c DEF Read, ReadFails
<1>2. ASSUME NEW a \in Arms, ReadDisconnected(a) PROVE SwitchInv'
  BY <1>2, <1>b, <1>c DEF ReadDisconnected, flagVars, Between
<1>3. CASE Update
  BY <1>3, <1>c DEF Update, flagVars, Between
<1>4. ASSUME NEW a \in Arms, WriteReset(a) PROVE SwitchInv'
  <2>1. CASE reactivate_controller_later_[a]
    BY <1>4, <2>1, <1>a, <1>c DEF WriteReset
  <2>2. CASE ~reactivate_controller_later_[a]
    <3>1. rt'.at = "list_off" /\ rt'.arm = a
      BY <1>4, <2>2, <1>b DEF WriteReset
    <3> QED BY <1>4, <2>2, <3>1 DEF WriteReset, SwitchInv, managerVars
  <2> QED BY <2>1, <2>2
<1>5. ASSUME NEW a \in Arms, WriteReady(a) PROVE SwitchInv'
  <2>1. CASE reactivate_controller_later_[a]
    <3>1. rt'.at = "list_on" /\ rt'.arm = a
      BY <1>5, <2>1, <1>b DEF WriteReady
    <3> QED BY <1>5, <2>1, <3>1 DEF WriteReady, SwitchInv, managerVars
  <2>2. CASE ~reactivate_controller_later_[a]
    <3>1. rt'.at = "send"
      BY <1>5, <2>2, <1>b DEF WriteReady
    <3> QED BY <1>5, <3>1, <1>c DEF WriteReady, Between
  <2> QED BY <2>1, <2>2
<1>6. ASSUME NEW a \in Arms, ListOff(a) PROVE SwitchInv'
  <2>1. CASE active # {}
    <3>1. rt.at = "list_off" /\ rt.arm = a /\ rt'.at = "off" /\ rt'.arm = a
      BY <1>6, <2>1, <1>b DEF ListOff
    <3> QED BY <1>6, <2>1, <3>1 DEF ListOff, SwitchInv, managerVars, flagVars
  <2>2. CASE active = {}
    BY <1>6, <2>2, <1>a, <1>c DEF ListOff, flagVars
  <2> QED BY <2>1, <2>2
<1>7. ASSUME NEW a \in Arms, ListOffFails(a) PROVE SwitchInv'
  BY <1>7, <1>a, <1>c DEF ListOffFails, flagVars
<1>8. ASSUME NEW a \in Arms, NEW on \in BOOLEAN, NEW sent \in BOOLEAN, Switch(a, on, sent), Between,
             NEW later \in BOOLEAN, later => spawned # {},
             reactivate_controller_later_' = [reactivate_controller_later_ EXCEPT ![a] = later]
      PROVE  SwitchInv'
  <2>1. \A i \in 1 .. Len(requests') : requests'[i].of \subseteq spawned
    <3>1. CASE sent
      <4> DEFINE r == [on |-> on, of |-> listed, by |-> a]
      <4>1. r \in Requests /\ r.of \subseteq spawned
        BY DEF TypeOK, Requests, SwitchInv
      <4>2. requests' = Append(requests, r)
        BY <1>8, <3>1 DEF Switch
      <4> HIDE DEF r
      <4>3. \A i \in 1 .. Len(requests') :
               (i \in 1 .. Len(requests) /\ requests'[i] = requests[i]) \/ requests'[i] = r
        BY <4>1, <4>2, AddedRequest
      <4> QED BY <4>1, <4>3 DEF SwitchInv
    <3>2. CASE ~sent
      BY <1>8, <3>2 DEF Switch, SwitchInv
    <3> QED BY <3>1, <3>2
  <2>2. \A b \in Arms : reactivate_controller_later_'[b] => spawned # {}
    BY <1>8 DEF SwitchInv, TypeOK
  <2> QED BY <1>8, <2>1, <2>2 DEF Switch, SwitchInv, Between
<1>9. ASSUME NEW a \in Arms, NEW sent \in BOOLEAN, SwitchOff(a, sent) PROVE SwitchInv'
  <2>1. spawned # {}
    BY <1>9 DEF SwitchOff, At, SwitchInv
  <2> QED BY <1>8, <1>9, <2>1, <1>a DEF SwitchOff
<1>10. ASSUME NEW a \in Arms, ListOn(a) PROVE SwitchInv'
  <2>1. rt.at = "list_on" /\ rt.arm = a /\ rt'.arm = a
    BY <1>10, <1>b DEF ListOn
  <2>2. spawned # {}
    BY <2>1 DEF SwitchInv
  <2>3. rt'.at = "on" /\ listed' = spawned
    BY <1>10, <2>2, <1>b DEF ListOn
  <2> QED BY <1>10, <2>1, <2>2, <2>3 DEF ListOn, SwitchInv, managerVars
<1>11. ASSUME NEW a \in Arms, ListOnFails(a) PROVE SwitchInv'
  <2>1. rt'.at = "send"
    BY <1>11, <1>b DEF ListOnFails
  <2> QED BY <1>11, <2>1 DEF ListOnFails, SwitchInv, managerVars, TypeOK
<1>12. ASSUME NEW a \in Arms, NEW sent \in BOOLEAN, SwitchOn(a, sent) PROVE SwitchInv'
  <2>1. rt'.at = "send"
    BY <1>12, <1>b DEF SwitchOn
  <2> QED BY <1>8, <1>12, <2>1 DEF SwitchOn, Between
<1>13. ASSUME NEW a \in Arms, Send(a) PROVE SwitchInv'
  BY <1>13, <1>a, <1>c DEF Send, flagVars
<1>14. ASSUME NEW c \in Controllers, Spawn(c) PROVE SwitchInv'
  <2> DEFINE r == [on |-> TRUE, of |-> {c}, by |-> Spawner]
  <2>1. r \in Requests /\ r.of = {c}
    BY DEF Requests
  <2>2. requests' = Append(requests, r) /\ spawned' = spawned \cup {c}
    BY <1>14 DEF Spawn
  <2> HIDE DEF r
  <2>3. \A i \in 1 .. Len(requests') :
           (i \in 1 .. Len(requests) /\ requests'[i] = requests[i]) \/ requests'[i] = r
    BY <2>1, <2>2, AddedRequest
  <2>4. \A i \in 1 .. Len(requests') : requests'[i].of \subseteq spawned'
    BY <2>1, <2>2, <2>3 DEF SwitchInv
  <2> QED BY <1>14, <2>2, <2>4 DEF Spawn, SwitchInv, flagVars
<1>15. CASE Carry
  <2>1. /\ \A i \in 1 .. Len(requests') :
               i + 1 \in 1 .. Len(requests) /\ requests'[i] = requests[i + 1]
        /\ Head(requests) = requests[1] /\ 1 \in 1 .. Len(requests)
    BY <1>15, CarriedRequest DEF Carry
  <2>2. active' \subseteq spawned
    BY <1>15, <2>1 DEF Carry, SwitchInv
  <2>3. \A i \in 1 .. Len(requests') : requests'[i].of \subseteq spawned
    BY <2>1 DEF SwitchInv
  <2> QED BY <1>15, <2>2, <2>3 DEF Carry, SwitchInv, flagVars
<1>16. CASE UNCHANGED <<rt, managerVars, flagVars, listed>>
  BY <1>16 DEF SwitchInv, managerVars, flagVars
<1> QED
  BY <1>1, <1>2, <1>3, <1>4, <1>5, <1>6, <1>7, <1>9, <1>10, <1>11, <1>12, <1>13, <1>14, <1>15,
     <1>16
     DEF Next, RealTime, Reports, Report, ReportTorn, Becomes, IsMoved, vars

\* A request of an arm that turns its indicator keeps the order.
LEMMA ArmAsks ==
  ASSUME TypeOK, LatestInv, RequestsAlternate, NEW a \in Arms, NEW r \in Requests,
         r.by = a, requests' = Append(requests, r), missed' = missed,
         r.on = reactivate_controller_later_[a],
         r.on # reactivate_controller_later_'[a],
         \A b \in Arms \ {a} : reactivate_controller_later_'[b] = reactivate_controller_later_[b]
  PROVE  LatestInv' /\ RequestsAlternate'
<1> SUFFICES ASSUME ~missed PROVE LatestInv' /\ RequestsAlternate'
  BY DEF LatestInv, RequestsAlternate
<1>1. /\ Len(requests) \in Nat /\ Len(requests') = Len(requests) + 1
      /\ \A i \in 1 .. Len(requests) : i \in 1 .. Len(requests') /\ requests'[i] = requests[i]
      /\ Len(requests') \in 1 .. Len(requests') /\ requests'[Len(requests')] = r
      /\ \A i \in 1 .. Len(requests') : i \in 1 .. Len(requests) \/ i = Len(requests')
  BY AddedRequest
<1>2. a # Spawner /\ a \in Arms
  BY HardwareAssumption DEF Arms, Spawner
<1>3. PICK n \in Nat : n = Len(requests) /\ Len(requests') = n + 1
  BY <1>1
<1>4. \A i \in 1 .. n : requests'[i] = requests[i] /\ requests[i] \in Requests
  BY <1>1, <1>3 DEF TypeOK
<1>5. requests'[n + 1] = r
  BY <1>1, <1>3
<1>a. \A i \in 1 .. n + 1 : i \in 1 .. n \/ i = n + 1
  OBVIOUS
<1>6. LatestInv'
  <2> SUFFICES ASSUME NEW i \in 1 .. n + 1, Latest(i)'
               PROVE  requests'[i].on # reactivate_controller_later_'[requests'[i].by]
    BY <1>3 DEF LatestInv
  <2>1. CASE i = n + 1
    <3>1. r.on # reactivate_controller_later_'[a]
      OBVIOUS
    <3> QED BY <1>5, <2>1, <3>1
  <2>2. CASE i \in 1 .. n
    <3>1. \A m \in i + 1 .. n + 1 : requests'[m].by # requests'[i].by
      BY <1>3 DEF Latest
    <3>2. requests[i].by # a
      <4>1. n + 1 \in i + 1 .. n + 1
        BY <2>2
      <4> QED BY <1>4, <1>5, <2>2, <3>1, <4>1
    <3>3. Latest(i)
      BY <1>3, <1>4, <2>2, <3>1 DEF Latest
    <3>4. requests[i].by \in Arms \ {a}
      BY <1>4, <2>2, <3>2, <3>3 DEF Latest, Requests
    <3> QED BY <1>3, <1>4, <2>2, <3>3, <3>4 DEF LatestInv
  <2> QED BY <1>a, <2>1, <2>2
<1>7. RequestsAlternate'
  <2> SUFFICES ASSUME NEW i \in 1 .. n + 1, NEW k \in 1 .. n + 1, Successive(i, k)'
               PROVE  requests'[i].on # requests'[k].on
    BY <1>3 DEF RequestsAlternate
  <2>1. /\ i < k /\ requests'[i].by # Spawner /\ requests'[k].by = requests'[i].by
        /\ \A m \in i + 1 .. k - 1 : requests'[m].by # requests'[i].by
    BY DEF Successive
  <2>2. i \in 1 .. n
    BY <2>1
  <2>3. CASE k = n + 1
    <3>1. requests[i].by = a
      BY <1>4, <1>5, <2>1, <2>2, <2>3
    <3>2. Latest(i)
      BY <1>2, <1>3, <1>4, <2>1, <2>2, <2>3, <3>1 DEF Latest
    <3>3. requests[i].on # reactivate_controller_later_[a]
      BY <1>3, <2>2, <3>1, <3>2 DEF LatestInv
    <3> QED BY <1>4, <1>5, <2>2, <2>3, <3>3
  <2>4. CASE k \in 1 .. n
    <3>1. Successive(i, k)
      <4>1. i + 1 .. k - 1 \subseteq 1 .. n
        BY <2>2, <2>4
      <4> QED BY <1>4, <2>1, <2>2, <2>4, <4>1 DEF Successive
    <3> QED BY <1>3, <1>4, <2>2, <2>4, <3>1 DEF RequestsAlternate
  <2> QED BY <1>a, <2>3, <2>4
<1> QED BY <1>6, <1>7

\* A spawner's request does not come between.
LEMMA SpawnerAsks ==
  ASSUME TypeOK, LatestInv, RequestsAlternate, NEW c \in Controllers, Spawn(c)
  PROVE  LatestInv' /\ RequestsAlternate'
<1> SUFFICES ASSUME ~missed PROVE LatestInv' /\ RequestsAlternate'
  BY DEF Spawn, historyVars, LatestInv, RequestsAlternate
<1> DEFINE r == [on |-> TRUE, of |-> {c}, by |-> Spawner]
<1>0. /\ r \in Requests /\ r.by = Spawner /\ requests' = Append(requests, r)
      /\ UNCHANGED reactivate_controller_later_
  BY DEF Requests, Spawn, flagVars
<1> HIDE DEF r
<1>1. /\ Len(requests) \in Nat /\ Len(requests') = Len(requests) + 1
      /\ \A i \in 1 .. Len(requests) : i \in 1 .. Len(requests') /\ requests'[i] = requests[i]
      /\ Len(requests') \in 1 .. Len(requests') /\ requests'[Len(requests')] = r
      /\ \A i \in 1 .. Len(requests') : i \in 1 .. Len(requests) \/ i = Len(requests')
  BY <1>0, AddedRequest
<1>2. PICK n \in Nat : n = Len(requests) /\ Len(requests') = n + 1
  BY <1>1
<1>3. (\A i \in 1 .. n : requests'[i] = requests[i]) /\ requests'[n + 1].by = Spawner
  BY <1>0, <1>1, <1>2
<1>4. LatestInv'
  <2> SUFFICES ASSUME NEW i \in 1 .. n + 1, Latest(i)'
               PROVE  requests'[i].on # reactivate_controller_later_'[requests'[i].by]
    BY <1>2 DEF LatestInv
  <2>1. i \in 1 .. n
    BY <1>3 DEF Latest
  <2>2. \A m \in i + 1 .. n + 1 : requests'[m].by # requests'[i].by
    BY <1>2 DEF Latest
  <2>3. Latest(i)
    BY <1>2, <1>3, <2>1, <2>2 DEF Latest
  <2> QED BY <1>0, <1>2, <1>3, <2>1, <2>3 DEF LatestInv
<1>5. RequestsAlternate'
  <2> SUFFICES ASSUME NEW i \in 1 .. n + 1, NEW k \in 1 .. n + 1, Successive(i, k)'
               PROVE  requests'[i].on # requests'[k].on
    BY <1>2 DEF RequestsAlternate
  <2>1. /\ i < k /\ requests'[i].by # Spawner /\ requests'[k].by = requests'[i].by
        /\ \A m \in i + 1 .. k - 1 : requests'[m].by # requests'[i].by
    BY DEF Successive
  <2>2. i \in 1 .. n /\ k \in 1 .. n
    BY <1>3, <2>1
  <2>3. Successive(i, k)
    BY <1>3, <2>1, <2>2 DEF Successive
  <2> QED BY <1>2, <1>3, <2>2, <2>3 DEF RequestsAlternate
<1> QED BY <1>4, <1>5

\* What is carried out is the oldest request.
LEMMA CarryKeepsOrder ==
  ASSUME TypeOK, LatestInv, RequestsAlternate, Carry
  PROVE  LatestInv' /\ RequestsAlternate'
<1> SUFFICES ASSUME ~missed PROVE LatestInv' /\ RequestsAlternate'
  BY DEF Carry, LatestInv, RequestsAlternate
<1>1. /\ Len(requests) \in Nat \ {0} /\ Len(requests') = Len(requests) - 1
      /\ \A i \in 1 .. Len(requests') :
           i + 1 \in 1 .. Len(requests) /\ requests'[i] = requests[i + 1]
      /\ UNCHANGED reactivate_controller_later_
  BY CarriedRequest DEF Carry, flagVars
<1>2. PICK n \in Nat : Len(requests) = n + 1 /\ Len(requests') = n
  <2>1. PICK k \in Nat \ {0} : k = Len(requests)
    BY <1>1
  <2>2. k - 1 \in Nat /\ k = (k - 1) + 1
    BY <2>1
  <2> QED BY <1>1, <2>1, <2>2
<1>3. \A i \in 1 .. n : requests'[i] = requests[i + 1]
  BY <1>1, <1>2
<1>4. LatestInv'
  <2> SUFFICES ASSUME NEW i \in 1 .. n, Latest(i)'
               PROVE  requests'[i].on # reactivate_controller_later_'[requests'[i].by]
    BY <1>2 DEF LatestInv
  <2>1. requests[i + 1].by # Spawner /\ \A m \in i + 1 .. n : requests[m + 1].by # requests[i + 1].by
    <3>1. requests'[i].by # Spawner /\ \A m \in i + 1 .. n : requests'[m].by # requests'[i].by
      BY <1>2 DEF Latest
    <3>2. \A m \in i + 1 .. n : m \in 1 .. n
      OBVIOUS
    <3> QED BY <1>3, <3>1, <3>2
  <2>2. ASSUME NEW m \in (i + 1) + 1 .. n + 1 PROVE requests[m].by # requests[i + 1].by
    <3>1. m - 1 \in i + 1 .. n /\ (m - 1) + 1 = m
      OBVIOUS
    <3> QED BY <2>1, <3>1
  <2>3. Latest(i + 1)
    BY <1>2, <2>1, <2>2 DEF Latest
  <2>4. i + 1 \in 1 .. n + 1
    OBVIOUS
  <2> QED BY <1>1, <1>2, <1>3, <2>3, <2>4 DEF LatestInv
<1>5. RequestsAlternate'
  <2> SUFFICES ASSUME NEW i \in 1 .. n, NEW k \in 1 .. n, Successive(i, k)'
               PROVE  requests'[i].on # requests'[k].on
    BY <1>2 DEF RequestsAlternate
  <2>1. /\ i < k /\ requests[i + 1].by # Spawner /\ requests[k + 1].by = requests[i + 1].by
        /\ \A m \in i + 1 .. k - 1 : requests[m + 1].by # requests[i + 1].by
    BY <1>3 DEF Successive
  <2>2. ASSUME NEW m \in (i + 1) + 1 .. (k + 1) - 1 PROVE requests[m].by # requests[i + 1].by
    <3>1. m - 1 \in i + 1 .. k - 1 /\ (m - 1) + 1 = m
      OBVIOUS
    <3> QED BY <2>1, <3>1
  <2>3. Successive(i + 1, k + 1)
    BY <2>1, <2>2 DEF Successive
  <2>4. i + 1 \in 1 .. n + 1 /\ k + 1 \in 1 .. n + 1
    OBVIOUS
  <2> QED BY <1>2, <1>3, <2>3, <2>4 DEF RequestsAlternate
<1> QED BY <1>4, <1>5

\* The order of an arm's requests, step by step.
LEMMA AlternateStep ==
  TypeOK /\ SwitchInv /\ LatestInv /\ RequestsAlternate /\ [Next]_vars
    => LatestInv' /\ RequestsAlternate'
<1> SUFFICES ASSUME TypeOK, SwitchInv, LatestInv, RequestsAlternate, [Next]_vars
             PROVE  LatestInv' /\ RequestsAlternate'
  OBVIOUS
<1> USE DEF managerVars, historyVars, flagVars
<1>1. ASSUME requests' = requests,
             missed' = missed /\ reactivate_controller_later_' = reactivate_controller_later_
      PROVE  LatestInv' /\ RequestsAlternate'
  BY <1>1 DEF LatestInv, Latest, RequestsAlternate, Successive
<1>2. ASSUME missed' PROVE LatestInv' /\ RequestsAlternate'
  BY <1>2 DEF LatestInv, RequestsAlternate
<1>3. ASSUME NEW a \in Arms,
             \/ Read(a) \/ ReadFails(a) \/ ReadDisconnected(a) \/ WriteReset(a) \/ WriteReady(a)
             \/ ListOff(a) \/ ListOffFails(a) \/ Send(a)
      PROVE  LatestInv' /\ RequestsAlternate'
  BY <1>1, <1>3
     DEF Read, ReadFails, ReadDisconnected, WriteReset, WriteReady, ListOff, ListOffFails, Send
<1>4. ASSUME NEW a \in Arms, NEW sent \in BOOLEAN, SwitchOff(a, sent)
      PROVE  LatestInv' /\ RequestsAlternate'
  <2>1. CASE ~sent
    BY <1>2, <1>4, <2>1 DEF SwitchOff, Switch
  <2>2. CASE sent
    <3> DEFINE r == [on |-> FALSE, of |-> listed, by |-> a]
    <3>1. r \in Requests /\ r.by = a /\ r.on = FALSE
      BY DEF Requests, TypeOK
    <3>2. requests' = Append(requests, r) /\ missed' = missed
      BY <1>4, <2>2 DEF SwitchOff, Switch, TypeOK
    <3>3. reactivate_controller_later_[a] = FALSE
      BY <1>4 DEF SwitchOff, At, SwitchInv, TypeOK
    <3>4. /\ reactivate_controller_later_'[a] = TRUE
          /\ \A b \in Arms \ {a} : reactivate_controller_later_'[b] = reactivate_controller_later_[b]
      BY <1>4 DEF SwitchOff, TypeOK
    <3> HIDE DEF r
    <3> QED BY <3>1, <3>2, <3>3, <3>4, ArmAsks
  <2> QED BY <2>1, <2>2
<1>5. ASSUME NEW a \in Arms, ListOn(a) PROVE LatestInv' /\ RequestsAlternate'
  <2>1. spawned # {}
    BY <1>5 DEF ListOn, At, SwitchInv
  <2> QED BY <1>1, <1>5, <2>1 DEF ListOn
<1>6. ASSUME NEW a \in Arms, ListOnFails(a) PROVE LatestInv' /\ RequestsAlternate'
  BY <1>2, <1>6 DEF ListOnFails
<1>7. ASSUME NEW a \in Arms, NEW sent \in BOOLEAN, SwitchOn(a, sent)
      PROVE  LatestInv' /\ RequestsAlternate'
  <2>1. CASE ~sent
    BY <1>2, <1>7, <2>1 DEF SwitchOn, Switch
  <2>2. CASE sent
    <3> DEFINE r == [on |-> TRUE, of |-> listed, by |-> a]
    <3>1. r \in Requests /\ r.by = a /\ r.on = TRUE
      BY DEF Requests, TypeOK
    <3>2. requests' = Append(requests, r) /\ missed' = missed
      BY <1>7, <2>2 DEF SwitchOn, Switch, TypeOK
    <3>3. reactivate_controller_later_[a] = TRUE
      BY <1>7 DEF SwitchOn, At, SwitchInv, TypeOK
    <3>4. /\ reactivate_controller_later_'[a] = FALSE
          /\ \A b \in Arms \ {a} : reactivate_controller_later_'[b] = reactivate_controller_later_[b]
      BY <1>7 DEF SwitchOn, TypeOK
    <3> HIDE DEF r
    <3> QED BY <3>1, <3>2, <3>3, <3>4, ArmAsks
  <2> QED BY <2>1, <2>2
<1>8. ASSUME NEW c \in Controllers, Spawn(c) PROVE LatestInv' /\ RequestsAlternate'
  BY <1>8, SpawnerAsks
<1>9. CASE Carry
  BY <1>9, CarryKeepsOrder
<1>10. CASE Update \/ UNCHANGED <<managerVars, flagVars, missed>>
  BY <1>1, <1>10 DEF Update
<1> QED
  BY <1>3, <1>4, <1>5, <1>6, <1>7, <1>8, <1>9, <1>10
     DEF Next, RealTime, Reports, Report, ReportTorn, Becomes, IsMoved, vars

\* The invariant from which the theorems follow.
LEMMA HInductive == Spec => []HInv
<1>1. Init => HInv
  <2> SUFFICES ASSUME Init PROVE HInv
    OBVIOUS
  <2>1. rt \in [at : Phases, arm : Arms] /\ requests \in Seq(Requests)
    BY HardwareAssumption DEF Init, Arms, Phases
  <2>2. changes \in 0 .. MaxChanges /\ curr \in [Arms -> Conditions]
    BY HardwareAssumption DEF Init, Conditions
  <2>3. TypeOK
    BY <2>1, <2>2, HardwareAssumption DEF Init, TypeOK
  <2>4. SyncInv /\ FirstCommandHolds
    BY DEF Init, SyncInv, FirstCommandHolds
  <2>5. SwitchInv /\ LatestInv /\ RequestsAlternate
    <3>1. requests = <<>> /\ Len(<<>>) = 0 /\ 1 .. 0 = {}
      BY DEF Init
    <3>2. \A i \in 1 .. Len(requests) : FALSE
      BY <3>1
    <3> QED BY <3>2 DEF Init, SwitchInv, LatestInv, RequestsAlternate
  <2> QED
    BY <2>3, <2>4, <2>5 DEF HInv
<1>2. HInv /\ [Next]_vars => HInv'
  BY TypeStep, SyncStep, FirstStep, SwitchStep, AlternateStep DEF HInv
<1> QED
  BY <1>1, <1>2, PTL DEF Spec

\* Every variable keeps its type.
THEOREM HardwareTypeCorrect == Spec => []TypeOK
<1>1. HInv => TypeOK
  BY DEF HInv
<1> QED
  BY <1>1, HInductive, PTL

\* However faults, reports, failing calls and other arms interleave with the
\* turns, the first command of an arm after a reset is where it stands.
THEOREM FirstCommandHoldsAlways == Spec => []FirstCommandHolds
<1>1. HInv => FirstCommandHolds
  BY DEF HInv
<1> QED
  BY <1>1, HInductive, PTL

\* However many turns an arm stays in its condition, and however late the
\* controller manager switches, no arm asks twice in a row for the same switch.
THEOREM RequestsAlternateAlways == Spec => []RequestsAlternate
<1>1. HInv => RequestsAlternate
  BY DEF HInv
<1> QED
  BY <1>1, HInductive, PTL
=============================================================================
