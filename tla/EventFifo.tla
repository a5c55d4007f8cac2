----------------------------- MODULE EventFifo -----------------------------
(***************************************************************************)
(* What mi/mieq.c promises to the two sides of the server: a first-in,     *)
(* first-out queue between the threads that generate input events and the  *)
(* main thread that processes them.  The one liberty the queue may take is *)
(* to let a motion event replace the motion event of the same device that  *)
(* is still waiting at its end.  MiEventQueue implements this module with  *)
(* a circular buffer.                                                      *)
(***************************************************************************)
EXTENDS Sequences

CONSTANTS Event,    \* the set of events
          NoEvent   \* not an event: the main thread is processing nothing

VARIABLES q,        \* the events that wait, oldest first
          cur       \* the event the main thread is processing

vars == <<q, cur>>

Init == q = << >> /\ cur = NoEvent

\* A new event goes to the end of the queue.
Put(e) == q' = Append(q, e) /\ UNCHANGED cur

\* A motion event supersedes the motion of the same device at the end.
Supersede(e) ==
    /\ q # << >>
    /\ e.motion
    /\ q[Len(q)].motion
    /\ q[Len(q)].dev = e.dev
    /\ q' = [q EXCEPT ![Len(q)] = e]
    /\ UNCHANGED cur

\* The main thread takes the oldest event.
Take == /\ cur = NoEvent
        /\ q # << >>
        /\ cur' = Head(q)
        /\ q' = Tail(q)

\* The main thread is done with the event it took.
Finish == cur # NoEvent /\ cur' = NoEvent /\ UNCHANGED q

Next == \/ \E e \in Event : Put(e) \/ Supersede(e)
        \/ Take
        \/ Finish

Spec == Init /\ [][Next]_vars
=============================================================================
