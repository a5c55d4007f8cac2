--------------------------- MODULE MCInputThread ---------------------------
(* InputThread on instances small enough for TLC. *)
EXTENDS InputThread

CONSTANTS f1, f2

MCTwoFds == {f1, f2}
=============================================================================
