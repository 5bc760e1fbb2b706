--------------------------- MODULE RobotHardware ---------------------------
(***************************************************************************)
(* The ros2_control hardware of uf_robot_system_hardware.cpp.  One real-   *)
(* time thread reads every arm, lets the active controllers update the     *)
(* commands and writes every arm.  An arm that is not ready is not written *)
(* to, and its write asks the controller manager to switch all controllers *)
(* off; the first write after that switches all of them on again.  The     *)
(* controller manager (external) switches in the order of the requests,    *)
(* between two writes, since write itself runs in its thread.              *)
(***************************************************************************)
EXTENDS Integers, Sequences

CONSTANTS
  NArms,       \* hardware components of the controller manager
  Controllers, \* the controllers that the launch file spawns
  Owner,       \* the arm whose commands a controller writes, or 0
  Positions,   \* joint positions
  Zero,        \* the position of zeros
  MaxChanges   \* bound: condition changes, failing reads, reports torn to "ready"

Arms == 1 .. NArms

ASSUME HardwareAssumption ==
  /\ NArms \in Nat \ {0}
  /\ Owner \in [Controllers -> Arms \cup {0}]
  /\ Zero \in Positions
  /\ MaxChanges \in Nat

VARIABLES
  rt,              \* the real-time thread: where it is, and with which arm
  position_states_, position_cmds_,
  read_ready_, read_code_,
  initialized_, reactivate_controller_later_,
  joint_state_msg_,\* the positions the driver got in the last read
  curr,            \* what the report thread of the driver last stored
  robot,           \* per arm: its condition and position
  spawned, active, \* controllers that are listed, and those that run
  listed,          \* the answer of list_controllers in hand
  requests,        \* switches the controller manager still has to make
  changes,
  first,           \* history: this write is the arm's first since a reset
  touched,         \* history: a controller wrote the commands since the read
  missed           \* history: a call failed, or a controller came too late

dataVars    == <<position_states_, position_cmds_, joint_state_msg_>>
flagVars    == <<read_ready_, read_code_, initialized_, reactivate_controller_later_>>
managerVars == <<spawned, active, requests>>
historyVars == <<first, touched, missed>>
vars == <<rt, dataVars, flagVars, managerVars, historyVars, curr, robot, listed, changes>>

\* "fault": an error code; "held": no error, but stopped or in another mode.
Conditions == {"ready", "held", "fault"}
Phases     == {"read", "update", "write", "list_off", "off", "list_on", "on", "send", "exit"}
Spawner    == 0
Requests   == [on : BOOLEAN, of : SUBSET Controllers, by : Arms \cup {Spawner}]

TypeOK ==
  /\ rt \in [at : Phases, arm : Arms]
  /\ position_states_ \in [Arms -> Positions]
  /\ position_cmds_ \in [Arms -> Positions]
  /\ joint_state_msg_ \in [Arms -> Positions]
  /\ read_ready_ \in [Arms -> BOOLEAN]
  /\ read_code_ \in [Arms -> BOOLEAN]
  /\ initialized_ \in [Arms -> BOOLEAN]
  /\ reactivate_controller_later_ \in [Arms -> BOOLEAN]
  /\ curr \in [Arms -> Conditions]
  /\ robot \in [Arms -> [is : Conditions, pos : Positions]]
  /\ spawned \subseteq Controllers
  /\ active \subseteq Controllers
  /\ listed \subseteq Controllers
  /\ requests \in Seq(Requests)
  /\ changes \in 0 .. MaxChanges
  /\ first \in [Arms -> BOOLEAN]
  /\ touched \in [Arms -> BOOLEAN]
  /\ missed \in BOOLEAN

\* After on_init and on_activate: nothing was read, so the states and the
\* commands are zeros; the driver has no report yet, which counts as stopped.
Init ==
  /\ rt = [at |-> "read", arm |-> 1]
  /\ position_states_ = [a \in Arms |-> Zero]
  /\ position_cmds_ = [a \in Arms |-> Zero]
  /\ joint_state_msg_ = [a \in Arms |-> Zero]
  /\ read_ready_ = [a \in Arms |-> FALSE]
  /\ read_code_ = [a \in Arms |-> TRUE]
  /\ initialized_ = [a \in Arms |-> FALSE]
  /\ reactivate_controller_later_ = [a \in Arms |-> FALSE]
  /\ curr = [a \in Arms |-> "held"]
  /\ robot \in [Arms -> [is : Conditions, pos : Positions]]
  /\ spawned = {}
  /\ active = {}
  /\ listed = {}
  /\ requests = <<>>
  /\ changes = 0
  /\ first = [a \in Arms |-> FALSE]
  /\ touched = [a \in Arms |-> FALSE]
  /\ missed = FALSE

-----------------------------------------------------------------------------
(* The real-time thread. *)

At(phase, a)  == rt = [at |-> phase, arm |-> a]
Goes(to)      == rt' = [rt EXCEPT !.at = to]

\* Mutant: the last arm is not noticed.
AdvancePast(phase, then) ==
  rt' = IF rt.arm <= NArms THEN [at |-> phase, arm |-> rt.arm + 1]
        ELSE [at |-> then, arm |-> 1]

\* The same phase of the next arm, or the first arm's next phase.
Advance(phase, then) ==
  rt' = IF rt.arm < NArms THEN [at |-> phase, arm |-> rt.arm + 1]
        ELSE [at |-> then, arm |-> 1]

\* read() when the controller box answers.
Read(a) ==
  /\ At("read", a)
  /\ read_ready_' = [read_ready_ EXCEPT ![a] = curr[a] # "fault"]
  /\ read_code_' = [read_code_ EXCEPT ![a] = TRUE]
  /\ joint_state_msg_' = [joint_state_msg_ EXCEPT ![a] = robot[a].pos]
  /\ position_states_' = [position_states_ EXCEPT ![a] = IF read_ready_'[a]
                                                        THEN robot[a].pos ELSE @]
  /\ position_cmds_' = [position_cmds_ EXCEPT ![a] = IF read_ready_'[a] /\ ~initialized_[a]
                                                    THEN robot[a].pos ELSE @]
  /\ touched' = [touched EXCEPT ![a] = FALSE]
  /\ Advance("read", "update")
  /\ UNCHANGED <<initialized_, reactivate_controller_later_, managerVars,
                 first, missed, curr, robot, listed, changes>>

\* read() when it does not: the states and the commands stay.
ReadFails(a) ==
  /\ At("read", a)
  /\ changes < MaxChanges
  /\ changes' = changes + 1
  /\ read_ready_' = [read_ready_ EXCEPT ![a] = curr[a] # "fault"]
  /\ read_code_' = [read_code_ EXCEPT ![a] = FALSE]
  /\ touched' = [touched EXCEPT ![a] = FALSE]
  /\ Advance("read", "update")
  /\ UNCHANGED <<dataVars, initialized_, reactivate_controller_later_, managerVars, first,
                 missed, curr, robot, listed>>

\* read() over a closed connection ends the process.
ReadDisconnected(a) ==
  /\ At("read", a)
  /\ changes < MaxChanges
  /\ changes' = changes + 1
  /\ Goes("exit")
  /\ UNCHANGED <<dataVars, flagVars, managerVars, historyVars, curr, robot, listed>>

\* The active controllers write what commands they like.
Controlled(a) == \E c \in active : Owner[c] = a

Update ==
  /\ At("update", 1)
  /\ \E cmds \in [Arms -> Positions] :
       position_cmds_' = [a \in Arms |-> IF Controlled(a) THEN cmds[a] ELSE position_cmds_[a]]
  /\ touched' = [a \in Arms |-> touched[a] \/ Controlled(a)]
  /\ rt' = [at |-> "write", arm |-> 1]
  /\ UNCHANGED <<position_states_, joint_state_msg_, flagVars, managerVars,
                 first, missed, curr, robot, listed, changes>>

\* Mutant: the error code that the last read saw is not looked at.
NeedResetNotRead(a) == curr[a] # "ready" \/ ~read_code_[a]

\* _need_reset; write_code_ is never set, so it plays no part.
NeedReset(a) == curr[a] # "ready" \/ ~read_code_[a] \/ ~read_ready_[a]

\* Mutant: the controllers are switched off only in the first turn of a reset.
WriteResetOnce(a) ==
  /\ At("write", a)
  /\ NeedReset(a)
  /\ initialized_' = [initialized_ EXCEPT ![a] = FALSE]
  /\ IF ~initialized_[a] \/ reactivate_controller_later_[a] THEN Advance("write", "read")
     ELSE Goes("list_off")
  /\ UNCHANGED <<dataVars, read_ready_, read_code_, reactivate_controller_later_, managerVars,
                 historyVars, curr, robot, listed, changes>>

\* write() of an arm that needs a reset.
WriteReset(a) ==
  /\ At("write", a)
  /\ NeedReset(a)
  /\ initialized_' = [initialized_ EXCEPT ![a] = FALSE]
  /\ IF reactivate_controller_later_[a] THEN Advance("write", "read") ELSE Goes("list_off")
  /\ UNCHANGED <<dataVars, read_ready_, read_code_, reactivate_controller_later_, managerVars,
                 historyVars, curr, robot, listed, changes>>

\* write() of an arm that does not.
WriteReady(a) ==
  /\ At("write", a)
  /\ ~NeedReset(a)
  /\ initialized_' = [initialized_ EXCEPT ![a] = TRUE]
  /\ first' = [first EXCEPT ![a] = ~initialized_[a]]
  /\ Goes(IF reactivate_controller_later_[a] THEN "list_on" ELSE "send")
  /\ UNCHANGED <<dataVars, read_ready_, read_code_, reactivate_controller_later_, managerVars,
                 touched, missed, curr, robot, listed, changes>>

\* list_controllers answers _deactivate_controller: there is something to
\* switch off only if a controller is active.
ListOff(a) ==
  /\ At("list_off", a)
  /\ IF active # {} THEN listed' = spawned /\ Goes("off")
     ELSE UNCHANGED listed /\ Advance("write", "read")
  /\ UNCHANGED <<dataVars, flagVars, managerVars, historyVars, curr, robot, changes>>

ListOffFails(a) ==
  /\ At("list_off", a)
  /\ Advance("write", "read")
  /\ UNCHANGED <<dataVars, flagVars, managerVars, historyVars, curr, robot, listed, changes>>

\* A switch_controller request; the answer is not looked at, so it makes no
\* difference whether it comes in time.
Switch(a, on, sent) ==
  /\ requests' = IF sent THEN Append(requests, [on |-> on, of |-> listed, by |-> a])
                 ELSE requests
  /\ missed' = (missed \/ ~sent)
  /\ listed' = {}
  /\ UNCHANGED <<spawned, active>>

\* Mutant: the indicator is not set.
SwitchOffNoIndicator(a, sent) ==
  /\ At("off", a)
  /\ Switch(a, FALSE, sent)
  /\ Advance("write", "read")
  /\ UNCHANGED <<dataVars, flagVars, first, touched, curr, robot, changes>>

\* The end of _deactivate_controller.
SwitchOff(a, sent) ==
  /\ At("off", a)
  /\ Switch(a, FALSE, sent)
  /\ reactivate_controller_later_' = [reactivate_controller_later_ EXCEPT ![a] = TRUE]
  /\ Advance("write", "read")
  /\ UNCHANGED <<dataVars, read_ready_, read_code_, initialized_, first, touched, curr, robot,
                 changes>>

\* list_controllers answers _activate_controller.
ListOn(a) ==
  /\ At("list_on", a)
  /\ listed' = spawned
  /\ IF spawned # {} THEN Goes("on") /\ UNCHANGED reactivate_controller_later_
     ELSE Goes("send") /\ reactivate_controller_later_' = [reactivate_controller_later_
                                                             EXCEPT ![a] = FALSE]
  /\ UNCHANGED <<dataVars, read_ready_, read_code_, initialized_, managerVars, historyVars,
                 curr, robot, changes>>

\* ... or does not: the indicator is reset all the same.
ListOnFails(a) ==
  /\ At("list_on", a)
  /\ reactivate_controller_later_' = [reactivate_controller_later_ EXCEPT ![a] = FALSE]
  /\ missed' = TRUE
  /\ Goes("send")
  /\ UNCHANGED <<dataVars, read_ready_, read_code_, initialized_, managerVars, first, touched,
                 curr, robot, listed, changes>>

\* Mutant: the controllers are listed but not switched on.
SwitchOnForgotten(a, sent) ==
  /\ At("on", a)
  /\ reactivate_controller_later_' = [reactivate_controller_later_ EXCEPT ![a] = FALSE]
  /\ Goes("send")
  /\ UNCHANGED <<dataVars, read_ready_, read_code_, initialized_, managerVars, historyVars,
                 curr, robot, listed, changes>>

\* The end of _activate_controller: all listed controllers, whether they ran
\* before or not.
SwitchOn(a, sent) ==
  /\ At("on", a)
  /\ Switch(a, TRUE, sent)
  /\ reactivate_controller_later_' = [reactivate_controller_later_ EXCEPT ![a] = FALSE]
  /\ Goes("send")
  /\ UNCHANGED <<dataVars, read_ready_, read_code_, initialized_, first, touched, curr, robot,
                 changes>>

\* The rest of write(): the command goes out when it changed or a second has
\* passed.  An arm that is ready moves; one that is not refuses.
Send(a) ==
  /\ At("send", a)
  /\ \/ robot[a].is = "ready" /\ robot' = [robot EXCEPT ![a].pos = position_cmds_[a]]
     \/ UNCHANGED robot
  /\ Advance("write", "read")
  /\ UNCHANGED <<dataVars, flagVars, managerVars, historyVars, curr, listed, changes>>

-----------------------------------------------------------------------------
(* The arms, the report thread and the controller manager. *)

\* An error, a stop, a change of mode, or the recovery from one.
Becomes(a, is) ==
  /\ changes < MaxChanges
  /\ robot[a].is # is
  /\ changes' = changes + 1
  /\ robot' = [robot EXCEPT ![a].is = is]
  /\ UNCHANGED <<rt, dataVars, flagVars, managerVars, historyVars, curr, listed>>

\* An arm that is not ready may be moved by hand.
IsMoved(a, p) ==
  /\ robot[a].is # "ready"
  /\ robot[a].pos # p
  /\ robot' = [robot EXCEPT ![a].pos = p]
  /\ UNCHANGED <<rt, dataVars, flagVars, managerVars, historyVars, curr, listed, changes>>

\* A report arrives.
Report(a) ==
  /\ curr[a] # robot[a].is
  /\ curr' = [curr EXCEPT ![a] = robot[a].is]
  /\ UNCHANGED <<rt, dataVars, flagVars, managerVars, historyVars, robot, listed, changes>>

\* What besides the two may be read of two reports while the state, the error
\* and the mode are stored one after another, without a lock: that an arm is
\* ready which was stopped in one and is in another mode in the other, or is
\* not between an error and readiness.
Mixtures(old, new) == IF old = new /\ old # "held" THEN {} ELSE {"ready", "held"} \ {old, new}

ReportTorn(a) ==
  \E c \in Mixtures(curr[a], robot[a].is) :
    /\ c = "ready" => changes < MaxChanges
    /\ changes' = IF c = "ready" THEN changes + 1 ELSE changes
    /\ curr' = [curr EXCEPT ![a] = c]
    /\ UNCHANGED <<rt, dataVars, flagVars, managerVars, historyVars, robot, listed>>

\* A spawner loads its controller and asks for it to be switched on.
Spawn(c) ==
  /\ c \notin spawned
  /\ spawned' = spawned \cup {c}
  /\ requests' = Append(requests, [on |-> TRUE, of |-> {c}, by |-> Spawner])
  /\ UNCHANGED <<rt, dataVars, flagVars, active, historyVars, curr, robot, listed, changes>>

\* The oldest request is carried out.
Carry ==
  /\ rt.at = "update"
  /\ requests # <<>>
  /\ LET r == Head(requests)
     IN /\ active' = IF r.on THEN active \cup r.of ELSE active \ r.of
        /\ missed' = (missed \/ (r.by = Spawner /\ \E a \in Arms : reactivate_controller_later_[a]))
  /\ requests' = Tail(requests)
  /\ UNCHANGED <<rt, dataVars, flagVars, spawned, first, touched, curr, robot, listed, changes>>

-----------------------------------------------------------------------------
Answered == \E a \in Arms : ListOff(a)

RealTime ==
  \/ Update
  \/ \E a \in Arms :
       \/ Read(a)
       \/ ReadFails(a)
       \/ ReadDisconnected(a)
       \/ WriteReset(a)
       \/ WriteReady(a)
       \/ ListOff(a)
       \/ ListOffFails(a)
       \/ \E sent \in BOOLEAN : SwitchOff(a, sent)
       \/ ListOn(a)
       \/ ListOnFails(a)
       \/ \E sent \in BOOLEAN : SwitchOn(a, sent)
       \/ Send(a)

Reports == \E a \in Arms : Report(a) \/ ReportTorn(a)

Next ==
  \/ RealTime
  \/ Reports
  \/ \E a \in Arms, is \in Conditions : Becomes(a, is)
  \/ \E a \in Arms, p \in Positions : IsMoved(a, p)
  \/ \E c \in Controllers : Spawn(c)
  \/ Carry

\* The loop turns, reports come, the launch file spawns, and the controller
\* manager lists and switches again and again.
Spec ==
  /\ Init /\ [][Next]_vars
  /\ WF_vars(RealTime)
  /\ WF_vars(Reports)
  /\ \A c \in Controllers : WF_vars(Spawn(c))
  /\ SF_vars(Carry)
  /\ SF_vars(Answered)

-----------------------------------------------------------------------------
(* Properties *)

Writing == {"list_on", "on", "send"}

\* The first command after a reset, if no controller ran, is the position read
\* in the same turn: the arm does not jump back to where it stood before it was
\* stopped, nor, at the start, to the zeros of on_activate.
FirstCommandHolds ==
  \A a \in Arms : rt.at \in Writing /\ rt.arm = a /\ first[a] /\ ~touched[a]
    => position_cmds_[a] = joint_state_msg_[a]

\* The off and on requests of an arm alternate, although write() runs 150 times
\* a second and the manager may carry out a request many turns later.
Successive(i, k) ==
  /\ i < k /\ requests[i].by # Spawner /\ requests[k].by = requests[i].by
  /\ \A m \in i + 1 .. k - 1 : requests[m].by # requests[i].by
RequestsAlternate ==
  ~missed => \A i, k \in 1 .. Len(requests) :
    Successive(i, k) => requests[i].on # requests[k].on

\* While an arm stays not ready, no controller stays active.
HeldDisables ==
  <>[](\A a \in Arms : curr[a] # "ready") => <>[](active = {} \/ missed \/ rt.at = "exit")

\* Once the arms stay ready, every controller runs again.
ControllersComeBack ==
  <>[](\A a \in Arms : curr[a] = "ready") =>
    <>[](active = Controllers \/ missed \/ rt.at = "exit")

\* Where the indicator is set, the controllers are disabled, or will be as soon
\* as what was asked for is carried out: the comment in _deactivate_controller,
\* "Not setting this indicator until activated controller disabled!".
IndicatorMeansDisabled ==
  \A a \in Arms : reactivate_controller_later_[a] /\ requests = <<>> /\ rt.at # "on"
    => active = {}
=============================================================================
