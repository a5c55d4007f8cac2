--------------------------- MODULE MCMiEventQueue ---------------------------
(* MiEventQueue on instances small enough for TLC. *)
EXTENDS MiEventQueue

CONSTANTS d1, d2

MCDevices == {d1, d2}
MCSizes == {2, 4}
MCOneTime == {1}
=============================================================================
