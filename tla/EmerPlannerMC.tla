--------------------------- MODULE EmerPlannerMC ---------------------------
(* Small instances of EmerPlanner: figures of one or two corners. *)
EXTENDS EmerPlanner

CONSTANTS a, c   \* poses

Ring1     == <<a>>
Ring2     == <<a, c>>
Drawings  == {<<>>, <<c>>}
Drawings2 == {<<c>>}
=============================================================================
