---------------------------- MODULE ShapeService ----------------------------
(***************************************************************************)
(* What the shape listener promises to those who command it, without any   *)
(* of its threads: drawings are made one at a time, each is finished once, *)
(* and once a drawing is cancelled the arm begins at most one more segment *)
(* of it.  EmerPlanner implements this specification.                      *)
(***************************************************************************)
EXTENDS Naturals

CONSTANT MaxJobs    \* bound: drawings accepted in a behaviour

Jobs == 1 .. MaxJobs
None == 0

VARIABLES
  current,    \* the drawing under way, or None
  cancelled,  \* it was cancelled
  late,       \* segments begun since it was cancelled
  finished    \* the drawings that are over

vars == <<current, cancelled, late, finished>>

Init ==
  /\ current = None
  /\ cancelled = FALSE
  /\ late = 0
  /\ finished = {}

Accept ==
  /\ current = None
  /\ current' \in Jobs \ finished
  /\ UNCHANGED <<cancelled, late, finished>>

\* The arm begins a segment of the drawing.
Move ==
  /\ current # None
  /\ cancelled
  /\ late = 0
  /\ late' = 1
  /\ UNCHANGED <<current, cancelled, finished>>

Cancel ==
  /\ current # None
  /\ ~cancelled
  /\ cancelled' = TRUE
  /\ UNCHANGED <<current, late, finished>>

Finish ==
  /\ current # None
  /\ finished' = finished \cup {current}
  /\ current' = None
  /\ cancelled' = FALSE
  /\ late' = 0

Next == Accept \/ Move \/ Cancel \/ Finish

Spec == Init /\ [][Next]_vars /\ WF_vars(Finish)
=============================================================================
