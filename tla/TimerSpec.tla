------------------------------ MODULE TimerSpec ------------------------------
(***************************************************************************)
(* What the timers of os/WaitFor.c promise to their users, without the     *)
(* sorted list, the 32-bit clock and the poll that implement it.           *)
(*                                                                         *)
(* An armed timer counts down.  Its callback is called once for each time  *)
(* it is armed: when the count is used up, the one that is due first       *)
(* before the others, or, if the clock was set back, as soon as it would   *)
(* have to wait for longer than was asked for.  The users, the callbacks   *)
(* among them, set, disarm and force timers while it is their turn; while  *)
(* it is the timers' turn nothing but Expire touches one.  The server      *)
(* never sleeps while a timer is due.                                      *)
(***************************************************************************)
EXTENDS Integers, Sequences

CONSTANTS
    Timer,       \* the timers
    Near, Far,   \* delays in milliseconds; see Arm
    Slack,       \* how much longer than asked a timer may have to wait
    MaxSkew,     \* bound: by how much the clock is set back in all
    Off          \* not a record: the timer is not armed

VARIABLES
    armed,       \* the count left and the delay asked for, or Off
    running,     \* the callbacks that have begun, the innermost last
    turn,        \* the users', the timers', or the server is asleep
    skew         \* by how much the clock was set back so far

specVars == <<armed, running, turn, skew>>

Armed(t) == armed[t] # Off

SpecInit ==
    /\ armed = [t \in Timer |-> Off]
    /\ running = <<>>
    /\ turn = "users"
    /\ skew = 0

\* Setting a timer replaces what it was set to.  A delay that does not fit
\* into a signed 32-bit integer is over at once.
Arm(t, d, calls) ==
    \/ /\ d \in Near
       /\ armed' = [armed EXCEPT ![t] = [left |-> d, asked |-> d]]
       /\ running' = calls
    \/ /\ d \in Far
       /\ armed' = [armed EXCEPT ![t] = Off]
       /\ running' = Append(calls, t)

\* The server handles requests and input, or a callback runs.
Users == turn = "users" \/ running # <<>>

Set(t, d) ==
    /\ Users
    /\ Arm(t, d, running)
    /\ UNCHANGED <<turn, skew>>

Disarm(t) ==
    /\ Users
    /\ armed' = [armed EXCEPT ![t] = Off]
    /\ UNCHANGED <<running, turn, skew>>

Run(t) ==
    /\ armed' = [armed EXCEPT ![t] = Off]
    /\ running' = Append(running, t)
    /\ UNCHANGED <<turn, skew>>

Force(t) == Users /\ Armed(t) /\ Run(t)

\* The callback's result sets the timer again unless it is 0.
Return ==
    /\ running # <<>>
    /\ LET calls == SubSeq(running, 1, Len(running) - 1) IN
       \/ running' = calls /\ UNCHANGED armed
       \/ \E d \in Near \cup Far : Arm(running[Len(running)], d, calls)
    /\ UNCHANGED <<turn, skew>>

Overdue(t) == Armed(t) /\ armed[t].left <= 0

\* Something is due, or the clock was set back.
Look ==
    /\ turn = "users" /\ running = <<>>
    /\ \E t \in Timer :
          Overdue(t) \/ (Armed(t) /\ armed[t].left >= armed[t].asked + Slack)
    /\ turn' = "timers"
    /\ UNCHANGED <<armed, running, skew>>

\* Nothing is run early by more than the clock was set back, and nothing
\* overtakes what is due before it.
Expire(t) ==
    /\ turn = "timers" /\ running = <<>>
    /\ Armed(t)
    /\ \/ /\ armed[t].left <= skew
          /\ \A u \in Timer : Armed(u) => armed[t].left <= armed[u].left
       \/ armed[t].left > armed[t].asked + Slack
    /\ Run(t)

\* What became due while the timers had their turn is left for the next.
Sleep ==
    /\ running = <<>>
    /\ turn = "timers" \/ (turn = "users" /\ \A t \in Timer : ~Overdue(t))
    /\ turn' = "asleep"
    /\ UNCHANGED <<armed, running, skew>>

Wake ==
    /\ turn = "asleep"
    /\ turn' = "users"
    /\ UNCHANGED <<armed, running, skew>>

\* The clock moves by step, backwards if it is set back.
Clock(step) ==
    /\ armed' = [t \in Timer |->
                    IF Armed(t) THEN [armed[t] EXCEPT !.left = @ - step]
                                ELSE Off]
    /\ UNCHANGED <<running, turn>>

Pass == /\ turn = "asleep" => \A t \in Timer : ~Overdue(t)
        /\ Clock(1)
        /\ UNCHANGED skew

SetBack ==
    \E r \in 1 .. MaxSkew - skew : Clock(-r) /\ skew' = skew + r

SpecNext ==
    \/ \E t \in Timer :
          \/ \E d \in Near \cup Far : Set(t, d)
          \/ Disarm(t) \/ Force(t) \/ Expire(t)
    \/ Return \/ Look \/ Sleep \/ Wake \/ Pass \/ SetBack

TimerPromise == SpecInit /\ [][SpecNext]_specVars
=============================================================================
