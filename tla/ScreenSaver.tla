---------------------------- MODULE ScreenSaver -----------------------------
(***************************************************************************)
(* The screen saver and the power saving modes of the display (DPMS): the  *)
(* timer that watches for the lack of input (os/WaitFor.c), what input     *)
(* does to a dark screen (mi/mieq.c), and the requests that clients make   *)
(* (dix/dispatch.c, Xext/dpms/dpms.c, Xext/saver/saver.c).                 *)
(*                                                                         *)
(* One timer serves both.  Its callback compares the time since the last   *)
(* input with the settings, darkens the screen and returns when it wants   *)
(* to be called again, which may be never: whoever lights the screen has   *)
(* to set the timer again.                                                 *)
(*                                                                         *)
(* The timer is a count, as TimerSpec promises.  Callbacks of other timers *)
(* run in the same round of DoTimers and can make input (the repetition of *)
(* keys and the keys that move the pointer do); the round's idea of the    *)
(* time was read when it began.                                            *)
(*                                                                         *)
(* Left out: windows that clients show as savers, blanking preferences,    *)
(* notifications and access control.                                       *)
(***************************************************************************)
EXTENDS Integers, FiniteSets, FiniteSetsExt

CONSTANTS
    Client,
    SaverTimes,         \* ScreenSaverTime: what clients set, 0 for never
    Intervals,          \* ScreenSaverInterval: what clients set
    DefaultTime,        \* defaultScreenSaverTime
    DefaultInterval,    \* defaultScreenSaverInterval
    PowerTimes,         \* times of standby, suspend and off: what clients set
    MaxTime,            \* bound: the longest of all those times
    MaxLag,             \* bound: how late a timer runs, how long a round takes
    MaxAge,             \* bound: how old an event is when it is processed
    MaxCalls,           \* bound: requests and input events
    Off                 \* the timer is not set

ASSUME SaverAssumption ==
    /\ {MaxTime, MaxLag, MaxCalls} \subseteq Nat \ {0}
    /\ MaxAge \in Nat
    /\ SaverTimes \cup Intervals \subseteq 0 .. MaxTime
    /\ {DefaultTime, DefaultInterval} \subseteq 0 .. MaxTime
    /\ PowerTimes \subseteq [1 .. 3 -> 0 .. MaxTime]
    /\ Off \notin Int

VARIABLES
    timer,       \* ScreenSaverTimer: time left, or Off
    saved,       \* screenIsSaved is SCREEN_SAVER_ON
    level,       \* DPMSPowerLevel: 0 On, 1 Standby, 2 Suspend, 3 Off
    enabled,     \* DPMSEnabled
    powerTime,   \* DPMSStandbyTime, DPMSSuspendTime and DPMSOffTime
    saverTime,   \* ScreenSaverTime
    interval,    \* ScreenSaverInterval
    suspends,    \* suspendingClients: the count of each client
    suspended,   \* screenSaverSuspended
    idle,        \* clock - LastEventTime(XIAllDevices), up to MaxIdle
    round,       \* the server is in DoTimers
    lag,         \* how long ago DoTimers read the clock, 0 outside of it
    calls,       \* how many requests and input events there were
    lapsed       \* history: see Lapse

settings == <<enabled, powerTime, saverTime, interval, suspends, suspended>>
vars == <<timer, saved, level, settings, idle, round, lag, calls, lapsed>>

Levels == 0 .. 3
MaxIdle == MaxTime + MaxLag + 1

-----------------------------------------------------------------------------
(* The timer.                                                              *)

\* The smaller of two times, where 0 stands for no time.
Sooner(a, b) == IF a = 0 THEN b ELSE IF b = 0 THEN a ELSE IF a < b THEN a ELSE b

\* The time of the lowest power saving mode that has one.
FirstPowerTime(times) ==
    LET set == {m \in 1 .. 3 : times[m] > 0}
    IN  IF set = {} THEN 0 ELSE times[Min(set)]

\* The value that SetScreenSaverTimer leaves in the timer.
SetScreenSaverTimer(on, times, saver, susp) ==
    LET timeout == Sooner(saver, IF on THEN FirstPowerTime(times) ELSE 0)
    IN  IF timeout > 0 /\ ~susp THEN timeout ELSE Off

Rearmed == SetScreenSaverTimer(enabled, powerTime, saverTime, suspended)

\* INT32 timeout, the time without input as DoTimers sees it.  It is compared
\* with CARD32 values, so it is converted to an unsigned number first.
timeout == idle - lag

Reached(time) == timeout < 0 \/ timeout >= time

DeepestByOrder(l) ==
    LET due == {m \in 1 .. 3 : m > l /\ Reached(powerTime[m])}
    IN  IF due = {} THEN l ELSE Max(due)

\* The last DPMS_CHECK_MODE that applies wins.
Deepest(l) ==
    LET due == {m \in 1 .. 3 : m > l /\ powerTime[m] > 0 /\ Reached(powerTime[m])}
    IN  IF due = {} THEN l ELSE Max(due)

NextOfAny(l) ==
    LET next == {m \in 1 .. 3 : m > l /\ powerTime[m] # timeout}
    IN  IF next = {} THEN 0 ELSE powerTime[Min(next)] - timeout

NextDPMSTimeout(l) ==
    LET next == {m \in 1 .. 3 : m > l /\ powerTime[m] > 0 /\ powerTime[m] # timeout}
    IN  IF next = {} THEN 0 ELSE powerTime[Min(next)] - timeout

AgainNever(ms) == Off

\* What DoTimer does with the callback's result.
Again(ms) == IF ms = 0 THEN Off ELSE ms

ScreenSaverTimeoutExpire ==
    LET newLevel == IF enabled THEN Deepest(level) ELSE level
        next == IF enabled THEN NextDPMSTimeout(newLevel) ELSE 0
    IN  /\ level' = newLevel
        /\ \/ /\ newLevel # 0
              /\ saved' = (saved \/ newLevel # level)     \* DPMSSet
              /\ timer' = Again(next)
           \/ /\ newLevel = 0 /\ saverTime = 0
              /\ timer' = Again(next)
              /\ UNCHANGED saved
           \/ /\ newLevel = 0 /\ saverTime > 0 /\ ~Reached(saverTime)
              /\ timer' = Sooner(saverTime - timeout, next)
              /\ UNCHANGED saved
           \/ /\ newLevel = 0 /\ saverTime > 0 /\ Reached(saverTime)
              /\ saved' = TRUE                            \* dixSaveScreens
              /\ timer' = Again(Sooner(interval, next))

\* DoTimers begins, for this timer or for others.
BeginRound ==
    /\ ~round
    /\ round' = TRUE
    /\ UNCHANGED <<timer, saved, level, settings, idle, lag, calls>>

\* The timer is due as of the time the round began.
Due == timer # Off /\ timer + lag <= 0

DoTimer ==
    /\ round /\ Due
    /\ ScreenSaverTimeoutExpire
    /\ UNCHANGED <<settings, idle, round, lag, calls>>

\* The callback of another timer that is due in this round makes input.
\* It is processed at once and without mieqProcessInputEvents.
RepeatKey ==
    /\ round
    /\ calls < MaxCalls
    /\ calls' = calls + 1
    /\ idle' = 0
    /\ UNCHANGED <<timer, saved, level, settings, round, lag>>

EndRound ==
    /\ round /\ ~Due
    /\ round' = FALSE
    /\ lag' = 0
    /\ UNCHANGED <<timer, saved, level, settings, idle, calls>>

\* A unit of time passes.
Tick ==
    /\ timer # Off => timer > -MaxLag
    /\ round => lag < MaxLag
    /\ timer' = IF timer = Off THEN Off ELSE timer - 1
    /\ idle' = IF idle < MaxIdle THEN idle + 1 ELSE idle
    /\ lag' = IF round THEN lag + 1 ELSE 0
    /\ UNCHANGED <<saved, level, settings, round, calls>>

-----------------------------------------------------------------------------
(* Input and requests, which are handled between the rounds.               *)

Call ==
    /\ ~round
    /\ calls < MaxCalls
    /\ calls' = calls + 1
    /\ UNCHANGED <<round, lag>>

\* mieqProcessInputEvents lights the screen, then processes the event, whose
\* time becomes the time of the last input.
Lit == /\ saved' = FALSE
       /\ level' = 0
       /\ timer' = IF saved \/ level # 0 THEN Rearmed ELSE timer

ProcessInput ==
    /\ Call
    /\ Lit
    /\ \E age \in 0 .. MaxAge : age <= idle /\ idle' = age
    /\ UNCHANGED settings

ProcSetScreenSaver(time, ival) ==
    /\ Call
    /\ saverTime' = time
    /\ interval' = ival
    /\ timer' = SetScreenSaverTimer(enabled, powerTime, time, suspended)
    /\ UNCHANGED <<saved, level, enabled, powerTime, suspends, suspended, idle>>

\* dixSaveScreens with SCREEN_SAVER_FORCER and ScreenSaverReset counts as
\* input.
ForceReset ==
    /\ Call
    /\ saved' = FALSE
    /\ idle' = 0
    /\ timer' = Rearmed
    /\ UNCHANGED <<level, settings>>

ForceActive ==
    /\ Call
    /\ saved' = TRUE
    /\ UNCHANGED <<timer, level, settings, idle>>

\* The client whose window is the saver goes away: the saver is reset and
\* activated again (ScreenSaverFreeAttr).
FreeSaverAttr ==
    /\ Call
    /\ saved
    /\ idle' = 0
    /\ timer' = Rearmed
    /\ UNCHANGED <<saved, level, settings>>

ProcDPMSSetTimeouts(times) ==
    /\ Call
    /\ times[3] # 0 => times[3] >= times[2]
    /\ times[2] # 0 => times[2] >= times[1]
    /\ powerTime' = times
    /\ timer' = SetScreenSaverTimer(enabled, times, saverTime, suspended)
    /\ UNCHANGED <<saved, level, enabled, saverTime, interval, suspends, suspended, idle>>

ProcDPMSEnable ==
    /\ Call
    /\ enabled' = TRUE
    /\ timer' = IF enabled THEN timer
                ELSE SetScreenSaverTimer(TRUE, powerTime, saverTime, suspended)
    /\ UNCHANGED <<saved, level, powerTime, saverTime, interval, suspends, suspended, idle>>

SetLevelOnly(l) ==
    /\ level' = l
    /\ saved' = (l # 0)
    /\ UNCHANGED timer

\* DPMSSet: leaving On activates the saver, and coming back to On resets it
\* if it is active.
DPMSSet(l) ==
    /\ level' = l
    /\ \/ /\ l # 0
          /\ saved' = TRUE
          /\ UNCHANGED timer
       \/ /\ l = 0 /\ saved
          /\ saved' = FALSE
          /\ timer' = Rearmed
       \/ /\ l = 0 /\ ~saved
          /\ UNCHANGED <<saved, timer>>

ProcDPMSDisable ==
    /\ Call
    /\ DPMSSet(0)
    /\ enabled' = FALSE
    /\ UNCHANGED <<powerTime, saverTime, interval, suspends, suspended, idle>>

ProcDPMSForceLevel(l) ==
    /\ Call
    /\ enabled
    /\ DPMSSet(l)
    /\ UNCHANGED <<settings, idle>>

\* A client counts how often it has suspended the saver; the first client
\* that does stops the timer.
Suspend(c) ==
    /\ Call
    /\ suspends' = [suspends EXCEPT ![c] = @ + 1]
    /\ suspended' = TRUE
    /\ timer' = IF suspended THEN timer ELSE Off
    /\ UNCHANGED <<saved, level, enabled, powerTime, saverTime, interval, idle>>

\* ScreenSaverFreeSuspend: the last one starts it again, unless the screen is
\* dark already, and counts as input.
Resume(counts) ==
    /\ suspends' = counts
    /\ suspended' = \E c \in Client : counts[c] > 0
    /\ IF suspended /\ ~suspended' /\ ~saved /\ level = 0
       THEN /\ idle' = 0
            /\ timer' = SetScreenSaverTimer(enabled, powerTime, saverTime, FALSE)
       ELSE UNCHANGED <<idle, timer>>

Unsuspend(c) ==
    /\ Call
    /\ suspends[c] > 0
    /\ Resume([suspends EXCEPT ![c] = @ - 1])
    /\ UNCHANGED <<saved, level, enabled, powerTime, saverTime, interval>>

CloseClient(c) ==
    /\ Call
    /\ suspends[c] > 0
    /\ Resume([suspends EXCEPT ![c] = 0])
    /\ UNCHANGED <<saved, level, enabled, powerTime, saverTime, interval>>

\* The last client is gone: the server resets and begins a new generation.
\* DPMS keeps its times; the timer is freed and set by the first
\* dixSaveScreens.
NextGeneration ==
    /\ Call
    /\ saved' = FALSE
    /\ level' = 0
    /\ enabled' = TRUE
    /\ saverTime' = DefaultTime
    /\ interval' = DefaultInterval
    /\ suspends' = [c \in Client |-> 0]
    /\ suspended' = FALSE
    /\ idle' = 0
    /\ timer' = SetScreenSaverTimer(TRUE, powerTime, DefaultTime, FALSE)
    /\ UNCHANGED powerTime

-----------------------------------------------------------------------------
\* The state after main's dixSaveScreens; before clients set them, the power
\* times are all equal to the saver's (DPMSExtensionInit).
Init ==
    /\ saved = FALSE
    /\ level = 0
    /\ enabled = TRUE
    /\ powerTime = [m \in 1 .. 3 |-> DefaultTime]
    /\ saverTime = DefaultTime
    /\ interval = DefaultInterval
    /\ suspends = [c \in Client |-> 0]
    /\ suspended = FALSE
    /\ idle = 0
    /\ timer = SetScreenSaverTimer(TRUE, powerTime, DefaultTime, FALSE)
    /\ round = FALSE
    /\ lag = 0
    /\ calls = 0
    /\ lapsed = FALSE

Request ==
    \/ \E time \in SaverTimes, ival \in Intervals : ProcSetScreenSaver(time, ival)
    \/ ForceReset \/ ForceActive \/ FreeSaverAttr
    \/ \E times \in PowerTimes : ProcDPMSSetTimeouts(times)
    \/ ProcDPMSEnable \/ ProcDPMSDisable
    \/ \E l \in Levels : ProcDPMSForceLevel(l)
    \/ \E c \in Client : Suspend(c) \/ Unsuspend(c) \/ CloseClient(c)
    \/ NextGeneration

Timers == BeginRound \/ DoTimer \/ RepeatKey \/ EndRound \/ Tick

\* The saver was reset while the display was in a power saving mode, which is
\* then not saved any more, and the display has not been on with the timer set
\* since.
Lapse ==
    lapsed' = ((ForceReset /\ level # 0) \/ (lapsed /\ (level' # 0 \/ timer' = Off)))

Next == (Request \/ ProcessInput \/ Timers) /\ Lapse

\* Time passes, and DoTimers is called when the timer is due and comes to an
\* end.
Fairness ==
    /\ WF_vars(Tick /\ Lapse)
    /\ WF_vars(BeginRound /\ Due /\ Lapse)
    /\ WF_vars(DoTimer /\ Lapse)
    /\ WF_vars(EndRound /\ Lapse)

Spec == Init /\ [][Next]_vars /\ Fairness

-----------------------------------------------------------------------------
(* Properties.                                                             *)

StateTypes ==
    /\ timer \in -MaxLag .. MaxTime + MaxLag \cup {Off}
    /\ saved \in BOOLEAN /\ enabled \in BOOLEAN /\ suspended \in BOOLEAN
    /\ level \in Levels
    /\ powerTime \in [1 .. 3 -> 0 .. MaxTime]
    /\ saverTime \in 0 .. MaxTime /\ interval \in 0 .. MaxTime
    /\ suspends \in [Client -> 0 .. MaxCalls]
    /\ idle \in 0 .. MaxIdle
    /\ round \in BOOLEAN
    /\ lag \in 0 .. MaxLag
    /\ calls \in 0 .. MaxCalls

\* Every variable has its type; in particular the time left is never below what
\* a late timer can have.
TypeOK == StateTypes /\ lapsed \in BOOLEAN

\* The saver is suspended as long as some client that is still connected has
\* not taken its last suspension back, and meanwhile no call sets the timer.
SuspensionHolds ==
    /\ suspended <=> \E c \in Client : suspends[c] > 0
    /\ suspended => timer = Off

\* Something is to happen to a screen that is lit.
Watched ==
    /\ ~suspended
    /\ saverTime > 0 \/ (enabled /\ \E m \in 1 .. 3 : powerTime[m] > 0)

ScreenLit == ~saved /\ level = 0

\* Whatever lit the screen, the timer that will darken it is set.
LitScreenIsWatched == ScreenLit /\ Watched => timer # Off

\* Both of them: the timer is set when it has to be and only then.  A saver that
\* is reset in a power saving mode is the exception: when the display is turned
\* on afterwards, DPMSSet finds nothing saved and does not set the timer.
TimerIsKept == SuspensionHolds /\ (lapsed \/ LitScreenIsWatched)

Deserved ==
    /\ level' > level => powerTime[level'] > 0 /\ idle >= powerTime[level']
    /\ saved' /\ ~saved /\ level' = level => saverTime > 0 /\ idle >= saverTime

\* The callback darkens the screen only after the time that is set for it has
\* passed without input, except in a round in which another callback makes input
\* after the time was read: the difference of the times is then negative and
\* compared as unsigned (ScreenSaverTimeoutExpire).
DarkOnlyWhenIdleBefore == [][DoTimer /\ idle >= lag => Deserved]_vars

\* When there is no more input and no more requests, the screen goes dark and
\* stays so, with the same exception.
IdleScreenGoesDark == <>[](Watched => ~ScreenLit \/ lapsed)
=============================================================================
