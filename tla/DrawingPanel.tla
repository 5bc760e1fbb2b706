---------------------------- MODULE DrawingPanel ----------------------------
(***************************************************************************)
(* The drawing canvas of the GUI: the mouse appends points, "Send Path"    *)
(* discretizes them and publishes the poses that emer_planner draws.       *)
(*                                                                         *)
(* Points are pixels.  A segment between two of them runs along an axis,   *)
(* so that distances and the points made on it are integers (bound).       *)
(***************************************************************************)
EXTENDS Integers, Sequences, SequencesExt

CONSTANTS Width, Height,   \* of the canvas
          Step,            \* of discretize_path, in pixels
          MaxPoints        \* bound: points drawn

VARIABLES
  points,     \* of the panel
  held,       \* the first mouse button
  published   \* the last PoseArray on /xarm/drawing_path

vars == <<points, held, published>>

Pixels == (0 .. Width) \X (0 .. Height)

AbsDiff(a, b) == IF a < b THEN b - a ELSE a - b
Distance(p, q) == AbsDiff(p[1], q[1]) + AbsDiff(p[2], q[2])
Toward(a, b, n) == IF a = b THEN a ELSE IF a < b THEN a + n ELSE a - n

\* One segment: at most one point is made, and the next segment starts afresh.
Discretize(so_far, p, q) ==
  LET dist == Distance(p, q)
      n    == Step - so_far.acc
  IN IF dist + so_far.acc < Step
     THEN [so_far EXCEPT !.acc = @ + dist]
     ELSE [made |-> Append(so_far.made, <<Toward(p[1], q[1], n), Toward(p[2], q[2], n)>>),
           acc |-> 0]

DiscretizePath(drawn) ==
  IF Len(drawn) < 2 THEN <<>>
  ELSE FoldLeft(LAMBDA so_far, i : Discretize(so_far, drawn[i], drawn[i + 1]),
                [made |-> <<Head(drawn)>>, acc |-> 0],
                [i \in 1 .. Len(drawn) - 1 |-> i]).made

\* send_path turns and shifts the canvas into the robot's plane; the scale of
\* 0.4 mm a pixel and the height are the same for every pose.
ToPose(p) == [x |-> Height - p[2], y |-> Width - p[1]]
SendPath(path) == published' = [i \in DOMAIN path |-> ToPose(path[i])]

\* The bound on segments: along an axis from the last point.
InLine(p) == points # <<>> => (p[1] = Last(points)[1] \/ p[2] = Last(points)[2])

Init == points = <<>> /\ held = FALSE /\ published = <<>>

Start ==
  /\ ~held /\ held' = TRUE
  /\ Len(points) < MaxPoints
  /\ \E p \in Pixels : InLine(p) /\ points' = Append(points, p)
  /\ UNCHANGED published

\* Without a last point, after a Clear with the button held, the handler raises
\* and nothing is appended.
Draw ==
  /\ held /\ points # <<>>
  /\ Len(points) < MaxPoints
  /\ \E p \in Pixels : InLine(p) /\ points' = Append(points, p)
  /\ UNCHANGED <<held, published>>

Release == held /\ held' = FALSE /\ UNCHANGED <<points, published>>

Send ==
  /\ points # <<>>
  /\ SendPath(DiscretizePath(points))
  /\ UNCHANGED <<points, held>>

Clear == points' = <<>> /\ UNCHANGED <<held, published>>

Next == Start \/ Draw \/ Release \/ Send \/ Clear

Spec == Init /\ [][Next]_vars
-----------------------------------------------------------------------------
(* The docstring of discretize_path: the path is discretized every Step     *)
(* pixels, so no two neighbours are farther apart.                          *)
SpacedByStep ==
  \A i \in 1 .. Len(published) - 1 :
    LET p == published[i]  q == published[i + 1]
    IN AbsDiff(p.x, q.x) + AbsDiff(p.y, q.y) <= Step
=============================================================================
