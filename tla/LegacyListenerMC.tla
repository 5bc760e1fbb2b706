------------------------- MODULE LegacyListenerMC -------------------------
(* A small instance of LegacyListener: shapes of two and three poses. *)
EXTENDS LegacyListener

CONSTANTS a, b, c   \* poses

Circle == <<a, b, a>>
Square == <<c, b>>
=============================================================================
