------------------------------ MODULE MCTimers ------------------------------
(* Timers on instances small enough for TLC. *)
EXTENDS Timers

CONSTANTS t1, t2

TwoTimers == {t1, t2}
=============================================================================
