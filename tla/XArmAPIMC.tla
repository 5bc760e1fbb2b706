----------------------------- MODULE XArmAPIMC -----------------------------
(* A small instance of XArmAPI. *)
EXTENDS XArmAPI

CONSTANTS c1, c2   \* callers

TwoCallers == {c1, c2}
TwoIds == 1 .. 2
=============================================================================
