------------------------------ MODULE MCPresent -----------------------------
(* Present on instances small enough for TLC. *)
EXTENDS Present

CONSTANTS w1, w2

Flip(w) ==
    [window |-> w, pixmap |-> TRUE, copy |-> FALSE, async |-> {}, update |-> FALSE,
     fence |-> FALSE, ahead |-> 0, divisor |-> 0, remainder |-> 0]

\* A driver that can flip at once, but not so that it may tear.
MCCapabilities == {"async"}

MCRequests ==
    {Flip(w1),
     [Flip(w1) EXCEPT !.async = {"async"}, !.update = TRUE],
     [Flip(w1) EXCEPT !.copy = TRUE, !.async = {"async"}],
     [Flip(w1) EXCEPT !.ahead = 2],
     [Flip(w1) EXCEPT !.pixmap = FALSE, !.divisor = 2, !.remainder = 1],
     [Flip(w2) EXCEPT !.fence = TRUE, !.async = {"maytear"}]}

\* Flips that wait for a fence.
FenceRequests == {[Flip(w1) EXCEPT !.fence = TRUE]}

Willing == [check |-> TRUE, flip |-> TRUE, queue |-> TRUE, now |-> FALSE]

MCDrivers ==
    {Willing, [Willing EXCEPT !.check = FALSE], [Willing EXCEPT !.flip = FALSE],
     [Willing EXCEPT !.queue = FALSE], [Willing EXCEPT !.now = TRUE]}

FenceDrivers == {Willing}
=============================================================================
