------------------------------- MODULE Timers --------------------------------
(***************************************************************************)
(* os/WaitFor.c: the timers and the part of WaitForSomething that runs     *)
(* them.                                                                   *)
(*                                                                         *)
(* The timers that are set are kept in a list sorted by the value of the   *)
(* millisecond clock they expire at.  The clock is a CARD32 that wraps     *)
(* around; two of its values are compared by the sign of their difference, *)
(* so all of them have to lie within half of its range.  check_timers      *)
(* looks at the first timer only: it runs what is due (DoTimers), or lets  *)
(* the server sleep until the first timer is due, or, if that is later     *)
(* than its delay allows, concludes that the clock was set back and runs   *)
(* the timers that have too long to wait (CheckAllTimers).                 *)
(*                                                                         *)
(* Callbacks run between two steps of those loops.  They set, cancel, free *)
(* and force any timer, their own included, and their result sets their    *)
(* timer again.  A callback can make another one run (TimerForce, and a    *)
(* delay that is over at once), so there is a stack of them.               *)
(*                                                                         *)
(* Time moves by Tick; the real value of Half is 2^31 and of Slack 250.    *)
(* The flags TimerForceOld and TimerAbsolute have no user in the server    *)
(* and are left out.                                                       *)
(***************************************************************************)
EXTENDS Integers, Sequences, FiniteSets, SequencesExt

CONSTANTS
    Timer,       \* addresses of timers
    Half,        \* half of the clock's range
    MaxDelta,    \* bound: the longest delay that is not over at once
    FarDelays,   \* delays that are negative as a signed integer
    Slack,       \* the 250 ms that check_timers and CheckAllTimers allow
    MaxLag,      \* bound: how late the server is for a timer, how long a
                 \* round of DoTimers takes
    MaxSkew,     \* bound: by how much the clock is set back in all
    MaxDepth,    \* bound: callbacks within callbacks
    Off          \* the timer is not in the list

ASSUME TimersAssumption ==
    /\ {Half, MaxDelta, MaxLag, MaxDepth} \subseteq Nat \ {0}
    /\ {Slack, MaxSkew} \subseteq Nat
    /\ MaxDelta + MaxSkew + MaxLag < Half
    /\ MaxDelta + Slack < Half
    /\ FarDelays \subseteq Half .. 2 * Half - 1
    /\ Off \notin [expires : 0 .. 2 * Half - 1, delta : 1 .. MaxDelta]
    /\ Off \notin [left : Int, asked : Int]

VARIABLES
    timers,      \* the list, from the first timer
    rec,         \* expires and delta of a timer in the list
    live,        \* the timers that are allocated
    clock,       \* GetTimeInMillis()
    skew,        \* history: by how much the clock was set back so far
    pc,          \* where the server is
    now,         \* DoTimers: the time it was called with, 0 outside of it
    stack,       \* callbacks that have begun, the innermost last
    wait         \* ospoll_wait: time left until it returns, or Forever

vars == <<timers, rec, live, clock, skew, pc, now, stack, wait>>

Card32 == 0 .. 2 * Half - 1
Near == 1 .. MaxDelta
Forever == -1

Record == [expires : Card32, delta : Near]

-----------------------------------------------------------------------------
(* CARD32 arithmetic and the clock.                                        *)

Plus(a, b) == IF a + b < 2 * Half THEN a + b ELSE a + b - 2 * Half

Minus(a, b) == IF a >= b THEN a - b ELSE a - b + 2 * Half

\* The cast to int.
Signed(a) == IF a < Half THEN a ELSE a - 2 * Half

\* How long timer t has to wait at time m.
Wait(t, m) == Signed(Minus(rec[t].expires, m))

Pending(t) == rec[t] # Off

-----------------------------------------------------------------------------
(* The calls that the server and the callbacks make.                       *)

Calling == pc = "serve" \/ stack # <<>>

\* xorg_list_del: the one link of the timer leaves the list.
Unlinked(t) == RemoveFirst(timers, t)

LaterUnsigned(list, e) ==
    {i \in 1 .. Len(list) : rec[list[i]].expires > e}

\* Where a timer that expires at e goes: in front of the first one that
\* expires later.
Later(list, e) ==
    {i \in 1 .. Len(list) : Signed(Minus(rec[list[i]].expires, e)) > 0}

Sorted(list, t, e) ==
    LET later == Later(list, e)
    IN  IF later = {} THEN Append(list, t)
        ELSE InsertAt(list, Min(later), t)

\* TimerSet with a delay d: the timer leaves the list if it is in it.  A
\* delay whose sum with the clock is not in the future, as a signed
\* difference, makes DoTimer run it now.
SetTo(t, d, frames) ==
    LET e == Plus(clock, d) IN
    \/ /\ Signed(Minus(e, clock)) > 0
       /\ timers' = Sorted(Unlinked(t), t, e)
       /\ rec' = [rec EXCEPT ![t] = [expires |-> e, delta |-> d]]
       /\ stack' = frames
    \/ /\ Signed(Minus(e, clock)) <= 0
       /\ Len(frames) < MaxDepth
       /\ timers' = Unlinked(t)
       /\ rec' = [rec EXCEPT ![t] = Off]
       /\ stack' = Append(frames, t)

\* A timer that is not allocated stands for the NULL that makes TimerSet
\* allocate one.
TimerSet(t, d) ==
    /\ Calling
    /\ t \in live \/ ~Contains(stack, t)
    /\ live' = live \cup {t}
    /\ SetTo(t, d, stack)
    /\ UNCHANGED <<clock, skew, pc, now, wait>>

Unlink(t) ==
    /\ timers' = Unlinked(t)
    /\ rec' = [rec EXCEPT ![t] = Off]

\* TimerCancel, and TimerSet with a delay of 0.
TimerCancel(t) ==
    /\ Calling
    /\ t \in live
    /\ Unlink(t)
    /\ UNCHANGED <<live, clock, skew, pc, now, stack, wait>>

FreeLinked(t) ==
    /\ Calling
    /\ t \in live
    /\ live' = live \ {t}
    /\ UNCHANGED <<timers, rec, clock, skew, pc, now, stack, wait>>

TimerFree(t) ==
    /\ Calling
    /\ t \in live
    /\ Unlink(t)
    /\ live' = live \ {t}
    /\ UNCHANGED <<clock, skew, pc, now, stack, wait>>

\* DoTimer up to the call of the callback.
DoTimer(t) ==
    /\ Unlink(t)
    /\ stack' = Append(stack, t)

TimerForce(t) ==
    /\ Calling
    /\ t \in live /\ Pending(t)
    /\ Len(stack) < MaxDepth
    /\ DoTimer(t)
    /\ UNCHANGED <<live, clock, skew, pc, now, wait>>

\* DoTimer from the return of the callback: a result that is not 0 sets the
\* timer.  A callback that frees its own timer returns 0.
Return ==
    /\ stack # <<>>
    /\ LET t == Last(stack)
           frames == Front(stack)
       IN  \/ stack' = frames /\ UNCHANGED <<timers, rec>>
           \/ /\ t \in live
              /\ \E d \in Near \cup FarDelays : SetTo(t, d, frames)
    /\ UNCHANGED <<live, clock, skew, pc, now, wait>>

-----------------------------------------------------------------------------
(* WaitForSomething.                                                       *)

\* The comparison of CheckAllTimers is between unsigned numbers.
Affected(t) == Minus(rec[t].expires, clock) > rec[t].delta + Slack

FirstIsDue(m) == timers # <<>> /\ Wait(Head(timers), m) <= 0

\* check_timers returned ms; the block handlers and clients that are ready
\* can make the wait shorter (AdjustWaitForDelay).
GoToSleep(ms) ==
    /\ pc' = "sleep"
    /\ wait' \in IF ms = Forever THEN {Forever, 0} ELSE {0, ms}
    /\ now' = 0

CheckLast ==
    /\ pc = "serve" /\ stack = <<>>
    /\ \/ timers = <<>> /\ GoToSleep(Forever)
       \/ /\ timers # <<>>
          /\ GoToSleep(Wait(Last(timers), clock))
    /\ UNCHANGED <<timers, rec, live, clock, skew, stack>>

\* A negative timeout makes poll wait for ever.
CheckForever ==
    /\ pc = "serve" /\ stack = <<>>
    /\ \/ timers = <<>> /\ GoToSleep(Forever)
       \/ /\ timers # <<>>
          /\ LET left == Wait(Head(timers), clock)
             IN  GoToSleep(IF left <= 0 THEN Forever ELSE left)
    /\ UNCHANGED <<timers, rec, live, clock, skew, stack>>

check_timers ==
    /\ pc = "serve" /\ stack = <<>>
    /\ \/ timers = <<>> /\ GoToSleep(Forever)
       \/ /\ timers # <<>>
          /\ LET timeout == Wait(Head(timers), clock) IN
             \/ /\ timeout <= 0
                /\ pc' = "DoTimers"
                /\ now' = clock
                /\ UNCHANGED wait
             \/ /\ timeout > 0
                /\ timeout < rec[Head(timers)].delta + Slack
                /\ GoToSleep(timeout)
             \/ /\ timeout >= rec[Head(timers)].delta + Slack
                /\ pc' = "CheckAllTimers"
                /\ UNCHANGED <<now, wait>>
    /\ UNCHANGED <<timers, rec, live, clock, skew, stack>>

\* One round of the loop of DoTimers.
DoTimers ==
    /\ pc = "DoTimers" /\ stack = <<>>
    /\ \/ /\ FirstIsDue(now)
          /\ DoTimer(Head(timers))
          /\ UNCHANGED <<pc, now, wait>>
       \/ /\ ~FirstIsDue(now)
          /\ GoToSleep(0)
          /\ UNCHANGED <<timers, rec, stack>>
    /\ UNCHANGED <<live, clock, skew>>

\* It starts from the front of the list after every callback.
CheckAllTimers ==
    /\ pc = "CheckAllTimers" /\ stack = <<>>
    /\ LET affected == {i \in 1 .. Len(timers) : Affected(timers[i])} IN
       \/ /\ affected # {}
          /\ DoTimer(timers[Min(affected)])
          /\ UNCHANGED <<pc, now, wait>>
       \/ /\ affected = {}
          /\ GoToSleep(0)
          /\ UNCHANGED <<timers, rec, stack>>
    /\ UNCHANGED <<live, clock, skew>>

\* ospoll_wait returns: input, a request, a signal or the timeout.
Wakeup ==
    /\ pc = "sleep"
    /\ pc' = "serve"
    /\ wait' = 0
    /\ UNCHANGED <<timers, rec, live, clock, skew, now, stack>>

-----------------------------------------------------------------------------
(* Time.                                                                   *)

\* A millisecond passes.  The server is never MaxLag late for a timer and
\* DoTimers never takes longer than that.
Tick ==
    /\ \A t \in Timer : Pending(t) => Wait(t, clock) > -MaxLag
    /\ pc = "DoTimers" => Signed(Minus(clock, now)) < MaxLag
    /\ pc = "sleep" => wait # 0
    /\ clock' = Plus(clock, 1)
    /\ wait' = IF wait > 0 THEN wait - 1 ELSE wait
    /\ UNCHANGED <<timers, rec, live, skew, pc, now, stack>>

\* Without a monotonic clock GetTimeInMillis is the time of day, which can be
\* set back.
Rewind ==
    /\ \E r \in 1 .. MaxSkew - skew :
          /\ clock' = Minus(clock, r)
          /\ skew' = skew + r
    /\ UNCHANGED <<timers, rec, live, pc, now, stack, wait>>

-----------------------------------------------------------------------------
\* TimerInit leaves an empty list; the clock can have any value.
Init ==
    /\ timers = <<>>
    /\ rec = [t \in Timer |-> Off]
    /\ live = {}
    /\ clock = 0
    /\ skew = 0
    /\ pc = "serve"
    /\ now = 0
    /\ stack = <<>>
    /\ wait = 0

Next ==
    \/ \E t \in Timer :
          \/ \E d \in Near \cup FarDelays : TimerSet(t, d)
          \/ TimerCancel(t) \/ TimerFree(t) \/ TimerForce(t)
    \/ Return
    \/ check_timers \/ DoTimers \/ CheckAllTimers \/ Wakeup
    \/ Tick \/ Rewind

\* Callbacks return, and do not for ever return a delay that is over at once;
\* the server comes back to WaitForSomething; time passes.
Fairness ==
    /\ WF_vars(Return /\ Len(stack') < Len(stack))
    /\ SF_vars(Return /\ stack' = <<>>)
    /\ SF_vars(check_timers)
    /\ WF_vars(DoTimers) /\ WF_vars(CheckAllTimers)
    /\ WF_vars(Wakeup /\ wait = 0)
    /\ WF_vars(Tick)

Spec == Init /\ [][Next]_vars /\ Fairness

-----------------------------------------------------------------------------
(* Properties.                                                             *)

TypeOK ==
    /\ timers \in Seq(Timer)
    /\ rec \in [Timer -> Record \cup {Off}]
    /\ live \subseteq Timer
    /\ clock \in Card32 /\ now \in Card32
    /\ skew \in 0 .. MaxSkew
    /\ pc \in {"serve", "DoTimers", "CheckAllTimers", "sleep"}
    /\ stack \in Seq(Timer)
    /\ wait \in -1 .. MaxDelta + MaxSkew
    /\ pc = "sleep" => stack = <<>>

\* The list holds every timer that is set once, and no timer that is not set
\* or not allocated, whatever callbacks do to the timer that is being run.  It
\* is sorted by the time that is left, although the clock wraps around:
\* check_timers and DoTimers look at the first timer only.
ListIsExact ==
    /\ TypeOK
    /\ \A t \in Timer : Pending(t) <=> \E i \in 1 .. Len(timers) : timers[i] = t
    /\ \A i, j \in 1 .. Len(timers) : i < j =>
          timers[i] # timers[j] /\ Wait(timers[i], clock) <= Wait(timers[j], clock)
    /\ \A t \in Timer : Pending(t) => t \in live

\* Whose turn it is when the server is at pc.
Turn == IF pc = "serve" THEN "users"
        ELSE IF pc = "sleep" THEN "asleep" ELSE "timers"

Promise == INSTANCE TimerSpec WITH
    Far <- FarDelays,
    armed <- [t \in Timer |->
                 IF Pending(t)
                 THEN [left |-> Wait(t, clock), asked |-> rec[t].delta]
                 ELSE Off],
    running <- stack,
    turn <- Turn

\* Each call does to its own timer what the promise says, and nothing to the
\* others: none of them is lost when the list is changed around it.
CallsKeepPromise ==
    \A t \in Timer :
        /\ \A d \in Near \cup FarDelays : TimerSet(t, d) => Promise!Set(t, d)
        /\ TimerCancel(t) \/ TimerFree(t) => Promise!Disarm(t)
        /\ TimerForce(t) => Promise!Force(t)

\* The detailed specification implements the promise: a timer is run once
\* each time it is set, not before it is due unless it is forced or the clock
\* was set back, and in order; it goes away only when a call says so; and the
\* server does not sleep while one is due.
ImplementsPromise == Promise!TimerPromise /\ [][CallsKeepPromise]_vars

\* A round of DoTimers ends although callbacks set timers again; so does
\* CheckAllTimers, and a timer that is due does not stay in the list.
DueTimersRun ==
    \A t \in Timer : (Pending(t) /\ Wait(t, clock) <= 0) ~> (~Pending(t) \/ Wait(t, clock) > 0)
=============================================================================
