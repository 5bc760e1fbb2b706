--------------------------- MODULE CommandBusMC ---------------------------
(* A small instance of CommandBus. *)
EXTENDS CommandBus

CONSTANTS c1, c2   \* clients

TwoClients == {c1, c2}
=============================================================================
