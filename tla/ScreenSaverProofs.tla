------------------------- MODULE ScreenSaverProofs --------------------------
(***************************************************************************)
(* Proofs about ScreenSaver, for any clients, times and number of calls:   *)
(* the timer is kept, if no client resets the saver while the display is   *)
(* in a power saving mode, and the screen goes dark only when it may.      *)
(***************************************************************************)
EXTENDS ScreenSaver, TLAPS

\* A client has suspended the saver at most as often as there were calls.
SuspendsAreCalls == \A c \in Client : suspends[c] <= calls

\* A display in a power saving mode counts as saved, so that lighting it goes
\* through the code that sets the timer (DPMSSet, mieqProcessInputEvents).
PowerSaveIsSaved == level # 0 => saved

SaverInv == StateTypes /\ SuspendsAreCalls /\ SuspensionHolds

WatchInv == SaverInv /\ (lapsed \/ (PowerSaveIsSaved /\ LitScreenIsWatched))

-----------------------------------------------------------------------------
(* The operators.                                                          *)

LEMMA SmallMin ==
    ASSUME NEW S \in SUBSET (1 .. 3), S # {}
    PROVE  Min(S) \in S /\ \A y \in S : Min(S) <= y
<1>1. \E x \in S : \A y \in S : x <= y
  <2>1. CASE 1 \in S
    BY <2>1
  <2>2. CASE 1 \notin S /\ 2 \in S
    BY <2>2
  <2>3. CASE 1 \notin S /\ 2 \notin S
    <3>1. PICK x \in S : TRUE
      OBVIOUS
    <3>2. \A y \in S : y = 3
      BY <2>3
    <3>3. \A y \in S : x <= y
      BY <3>1, <3>2
    <3> QED BY <3>1, <3>3
  <2> QED BY <2>1, <2>2, <2>3
<1> QED BY <1>1 DEF Min

LEMMA SmallMax ==
    ASSUME NEW S \in SUBSET (1 .. 3), S # {}
    PROVE  Max(S) \in S /\ \A y \in S : Max(S) >= y
<1>1. \E x \in S : \A y \in S : x >= y
  <2>1. CASE 3 \in S
    BY <2>1
  <2>2. CASE 3 \notin S /\ 2 \in S
    BY <2>2
  <2>3. CASE 3 \notin S /\ 2 \notin S
    <3>1. PICK x \in S : TRUE
      OBVIOUS
    <3>2. \A y \in S : y = 1
      BY <2>3
    <3>3. \A y \in S : x >= y
      BY <3>1, <3>2
    <3> QED BY <3>1, <3>3
  <2> QED BY <2>1, <2>2, <2>3
<1> QED BY <1>1 DEF Max

\* Setting the timer: it is off if the saver is suspended or nothing has a
\* time, and on otherwise.
LEMMA SetTimer ==
    ASSUME NEW on \in BOOLEAN, NEW times \in [1 .. 3 -> 0 .. MaxTime],
           NEW saver \in 0 .. MaxTime, NEW susp \in BOOLEAN
    PROVE  LET t == SetScreenSaverTimer(on, times, saver, susp) IN
           /\ t \in 0 .. MaxTime \cup {Off}
           /\ susp => t = Off
           /\ ~susp /\ (saver > 0 \/ (on /\ \E m \in 1 .. 3 : times[m] > 0)) => t # Off
<1> USE SaverAssumption
<1> DEFINE set == {m \in 1 .. 3 : times[m] > 0}
           first == FirstPowerTime(times)
<1>1. CASE set = {}
  <2>1. first = 0
    BY <1>1 DEF FirstPowerTime
  <2> QED BY <1>1, <2>1 DEF SetScreenSaverTimer, Sooner
<1>2. CASE set # {}
  <2>1. Min(set) \in set
    BY <1>2, SmallMin
  <2>2. first \in 1 .. MaxTime
    BY <1>2, <2>1 DEF FirstPowerTime
  <2> HIDE DEF first
  <2> QED BY <2>2 DEF SetScreenSaverTimer, Sooner, first
<1> QED BY <1>1, <1>2

\* The level after the three checks: it does not decrease, and what is deeper
\* has no time or a time that is still to come.
LEMMA DeepestLevel ==
    ASSUME StateTypes
    PROVE  LET l == Deepest(level) IN
           /\ l \in Levels /\ l >= level
           /\ l > level => powerTime[l] > 0 /\ Reached(powerTime[l])
           /\ \A m \in 1 .. 3 : m > l /\ powerTime[m] > 0 => ~Reached(powerTime[m])
<1> DEFINE due == {m \in 1 .. 3 : m > level /\ powerTime[m] > 0 /\ Reached(powerTime[m])}
<1>0. level \in Levels
  BY DEF StateTypes
<1>1. CASE due = {}
  BY <1>0, <1>1 DEF Deepest, Levels
<1>2. CASE due # {}
  <2>1. Max(due) \in due /\ \A y \in due : Max(due) >= y
    BY <1>2, SmallMax
  <2>2. Deepest(level) = Max(due)
    BY <1>2 DEF Deepest
  <2> HIDE DEF due
  <2>3. due = {m \in 1 .. 3 : m > level /\ powerTime[m] > 0 /\ Reached(powerTime[m])}
    BY DEF due
  <2>4. Deepest(level) \in 1 .. 3 /\ Deepest(level) > level
    BY <2>1, <2>2, <2>3
  <2>5. \A m \in 1 .. 3 : m > Deepest(level) /\ powerTime[m] > 0 => ~Reached(powerTime[m])
    BY <1>0, <2>1, <2>2, <2>3, <2>4 DEF Levels
  <2> QED BY <1>0, <2>1, <2>2, <2>3, <2>4, <2>5 DEF Levels
<1> QED BY <1>1, <1>2

\* The time to the next level is 0 if there is none.
LEMMA NextTime ==
    ASSUME StateTypes, NEW l \in Levels,
           \A m \in 1 .. 3 : m > l /\ powerTime[m] > 0 => ~Reached(powerTime[m])
    PROVE  /\ NextDPMSTimeout(l) \in 0 .. MaxTime
           /\ (\E m \in 1 .. 3 : m > l /\ powerTime[m] > 0) => NextDPMSTimeout(l) > 0
<1> USE SaverAssumption
<1> DEFINE next == {m \in 1 .. 3 : m > l /\ powerTime[m] > 0 /\ powerTime[m] # timeout}
<1>0. timeout \in Int /\ powerTime \in [1 .. 3 -> 0 .. MaxTime]
  BY DEF timeout, StateTypes, MaxIdle
<1>1. \A m \in 1 .. 3 : m > l /\ powerTime[m] > 0 =>
         m \in next /\ timeout >= 0 /\ powerTime[m] > timeout
  BY <1>0 DEF Reached
<1>2. CASE next = {}
  BY <1>1, <1>2 DEF NextDPMSTimeout
<1>3. CASE next # {}
  <2>1. Min(next) \in next
    BY <1>3, SmallMin
  <2>2. NextDPMSTimeout(l) = powerTime[Min(next)] - timeout
    BY <1>3 DEF NextDPMSTimeout
  <2>3. Min(next) \in 1 .. 3 /\ Min(next) > l /\ powerTime[Min(next)] > 0
    BY <2>1
  <2>4. timeout >= 0 /\ powerTime[Min(next)] > timeout
    BY <1>1, <2>3
  <2> QED BY <1>0, <2>2, <2>3, <2>4
<1> QED BY <1>2, <1>3

-----------------------------------------------------------------------------
(* The timer's steps.                                                      *)

\* What the callback leaves, as far as the invariant is concerned.
LEMMA Expired ==
    ASSUME StateTypes, ScreenSaverTimeoutExpire
    PROVE  /\ level' \in Levels /\ saved' \in BOOLEAN
           /\ timer' \in -MaxLag .. MaxTime + MaxLag \cup {Off}
           /\ level' > level => powerTime[level'] > 0 /\ Reached(powerTime[level'])
           /\ level' = level /\ saved' /\ ~saved => saverTime > 0 /\ Reached(saverTime)
           /\ level' # 0 => (saved' <=> saved \/ level' # level)
           /\ level' = 0 => level = 0
           /\ level' = 0 /\ ~saved'
                /\ (saverTime > 0 \/ (enabled /\ \E m \in 1 .. 3 : powerTime[m] > 0))
              => timer' # Off
<1> USE SaverAssumption
<1> DEFINE new == IF enabled THEN Deepest(level) ELSE level
           next == IF enabled THEN NextDPMSTimeout(new) ELSE 0
<1>t. /\ timeout \in Int /\ level \in Levels /\ saved \in BOOLEAN
      /\ saverTime \in 0 .. MaxTime /\ interval \in 0 .. MaxTime
      /\ enabled \in BOOLEAN
  BY DEF timeout, StateTypes, MaxIdle
<1>1. /\ new \in Levels /\ new >= level
      /\ new > level => powerTime[new] > 0 /\ Reached(powerTime[new])
      /\ enabled => \A m \in 1 .. 3 : m > new /\ powerTime[m] > 0 => ~Reached(powerTime[m])
  BY <1>t, DeepestLevel DEF Levels
<1>2. /\ next \in 0 .. MaxTime
      /\ enabled /\ (\E m \in 1 .. 3 : m > new /\ powerTime[m] > 0) => next > 0
  <2>1. CASE enabled
    BY <1>1, <2>1, NextTime
  <2>2. CASE ~enabled
    BY <2>2
  <2> QED BY <2>1, <2>2
<1>3. /\ level' = new
      /\ \/ /\ new # 0
            /\ saved' = (saved \/ new # level)
            /\ timer' = Again(next)
         \/ /\ new = 0 /\ saverTime = 0
            /\ timer' = Again(next)
            /\ UNCHANGED saved
         \/ /\ new = 0 /\ saverTime > 0 /\ ~Reached(saverTime)
            /\ timer' = Sooner(saverTime - timeout, next)
            /\ UNCHANGED saved
         \/ /\ new = 0 /\ saverTime > 0 /\ Reached(saverTime)
            /\ saved' = TRUE
            /\ timer' = Again(Sooner(interval, next))
  BY DEF ScreenSaverTimeoutExpire
<1> HIDE DEF new, next
<1>4. CASE new # 0
  <2>1. level' = new /\ saved' = (saved \/ new # level) /\ timer' = Again(next)
    BY <1>3, <1>4
  <2>2. timer' \in 1 .. MaxTime \cup {Off}
    BY <1>2, <2>1 DEF Again
  <2>3. saved' \in BOOLEAN /\ (saved' <=> saved \/ level' # level)
    BY <1>t, <2>1
  <2>4. level' \in Levels /\ timer' \in -MaxLag .. MaxTime + MaxLag \cup {Off}
    BY <1>1, <2>1, <2>2
  <2>5. level' > level => powerTime[level'] > 0 /\ Reached(powerTime[level'])
    BY <1>1, <2>1
  <2>6. level' # 0
    BY <1>4, <2>1
  <2> QED BY <2>3, <2>4, <2>5, <2>6
<1>5. CASE new = 0 /\ saverTime = 0
  <2>1. timer' = Again(next) /\ saved' = saved /\ level' = 0 /\ level = 0
    BY <1>t, <1>1, <1>3, <1>5 DEF Levels
  <2>2. timer' \in 1 .. MaxTime \cup {Off} /\ (next > 0 => timer' # Off)
    BY <1>2, <2>1 DEF Again
  <2>3. enabled /\ (\E m \in 1 .. 3 : powerTime[m] > 0) => next > 0
    BY <1>2, <1>5
  <2>4. /\ level' \in Levels /\ saved' \in BOOLEAN /\ ~ (level' > level)
        /\ timer' \in -MaxLag .. MaxTime + MaxLag \cup {Off}
    BY <1>t, <2>1, <2>2 DEF Levels
  <2>5. saved' <=> saved
    BY <2>1
  <2>6. ~ (saverTime > 0)
    BY <1>5
  <2> QED BY <2>1, <2>2, <2>3, <2>4, <2>5, <2>6
<1>6. CASE new = 0 /\ saverTime > 0 /\ ~Reached(saverTime)
  <2>1. saverTime - timeout \in 1 .. MaxTime
    BY <1>t, <1>6 DEF Reached
  <2>2. timer' = Sooner(saverTime - timeout, next)
    BY <1>3, <1>6
  <2>3. timer' \in 1 .. MaxTime
    BY <1>2, <2>1, <2>2 DEF Sooner
  <2> QED BY <1>t, <1>1, <1>3, <1>6, <2>3 DEF Levels
<1>7. CASE new = 0 /\ saverTime > 0 /\ Reached(saverTime)
  <2>1. timer' = Again(Sooner(interval, next)) /\ saved' = TRUE
    BY <1>3, <1>7
  <2>2. timer' \in 1 .. MaxTime \cup {Off}
    BY <1>t, <1>2, <2>1 DEF Again, Sooner
  <2> QED BY <1>t, <1>1, <1>3, <1>7, <2>1, <2>2 DEF Levels
<1> QED BY <1>t, <1>4, <1>5, <1>6, <1>7

LEMMA TimersStep ==
    ASSUME SaverInv, Timers
    PROVE  SaverInv' /\ (PowerSaveIsSaved /\ LitScreenIsWatched
                           => PowerSaveIsSaved' /\ LitScreenIsWatched')
<1> USE SaverAssumption
    DEF SaverInv, SuspendsAreCalls, SuspensionHolds, settings
<1>1. CASE BeginRound
  BY <1>1 DEF BeginRound, StateTypes, PowerSaveIsSaved, LitScreenIsWatched, ScreenLit, Watched
<1>2. CASE DoTimer
  <2>1. ~suspended /\ UNCHANGED <<settings, idle, round, lag, calls>>
    BY <1>2 DEF DoTimer, Due
  <2>2. StateTypes'
    BY <1>2, <2>1, Expired DEF DoTimer, StateTypes
  <2>3. SuspendsAreCalls' /\ SuspensionHolds'
    BY <2>1
  <2>4. ASSUME PowerSaveIsSaved
        PROVE  PowerSaveIsSaved' /\ LitScreenIsWatched'
    BY <1>2, <2>1, <2>4, Expired
    DEF DoTimer, PowerSaveIsSaved, LitScreenIsWatched, ScreenLit, Watched
  <2> QED BY <2>2, <2>3, <2>4
<1>3. CASE RepeatKey
  <2>1. StateTypes' /\ SuspendsAreCalls'
    BY <1>3 DEF RepeatKey, StateTypes, MaxIdle
  <2> QED BY <1>3, <2>1
          DEF RepeatKey, PowerSaveIsSaved, LitScreenIsWatched, ScreenLit, Watched
<1>4. CASE EndRound
  <2>0. 0 \in 0 .. MaxLag /\ FALSE \in BOOLEAN
    OBVIOUS
  <2>1. StateTypes'
    BY <1>4, <2>0 DEF EndRound, StateTypes
  <2> QED BY <1>4, <2>1
          DEF EndRound, PowerSaveIsSaved, LitScreenIsWatched, ScreenLit, Watched
<1>5. CASE Tick
  <2>1. StateTypes'
    BY <1>5 DEF Tick, StateTypes, MaxIdle
  <2>2. timer' = Off <=> timer = Off
    BY <1>5 DEF Tick, StateTypes
  <2> QED BY <1>5, <2>1, <2>2
          DEF Tick, PowerSaveIsSaved, LitScreenIsWatched, ScreenLit, Watched
<1> QED BY <1>1, <1>2, <1>3, <1>4, <1>5 DEF Timers

-----------------------------------------------------------------------------
(* Input and requests.                                                     *)

\* A call that leaves the suspensions alone and sets the timer afresh, or
\* leaves it and what it depends on.
LEMMA CallTypes ==
    ASSUME SaverInv, Call
    PROVE  /\ calls' \in 0 .. MaxCalls /\ calls' = calls + 1
           /\ round' \in BOOLEAN /\ lag' \in 0 .. MaxLag
           /\ UNCHANGED suspends => SuspendsAreCalls'
           /\ 0 \in 0 .. MaxIdle
<1> USE SaverAssumption
<1>1. calls \in 0 .. MaxCalls /\ suspends \in [Client -> 0 .. MaxCalls]
      /\ round \in BOOLEAN /\ lag \in 0 .. MaxLag
  BY DEF SaverInv, StateTypes
<1>2. calls' \in 0 .. MaxCalls /\ calls' = calls + 1
  BY <1>1 DEF Call
<1>3. UNCHANGED suspends => SuspendsAreCalls'
  BY <1>1, <1>2 DEF SaverInv, SuspendsAreCalls
<1> QED BY <1>1, <1>2, <1>3 DEF Call, MaxIdle

\* The timer as SetScreenSaverTimer leaves it for the settings of the next
\* state.
Afresh == timer' = SetScreenSaverTimer(enabled', powerTime', saverTime', suspended')

LEMMA AfreshIsKept ==
    ASSUME Afresh, enabled' \in BOOLEAN, powerTime' \in [1 .. 3 -> 0 .. MaxTime],
           saverTime' \in 0 .. MaxTime, suspended' \in BOOLEAN
    PROVE  /\ timer' \in -MaxLag .. MaxTime + MaxLag \cup {Off}
           /\ suspended' => timer' = Off
           /\ LitScreenIsWatched'
<1> USE SaverAssumption
<1>1. /\ timer' \in 0 .. MaxTime \cup {Off}
      /\ suspended' => timer' = Off
      /\ ~suspended' /\ (saverTime' > 0 \/ (enabled' /\ \E m \in 1 .. 3 : powerTime'[m] > 0))
         => timer' # Off
  BY SetTimer DEF Afresh
<1> QED BY <1>1 DEF LitScreenIsWatched, ScreenLit, Watched

\* A call after which the timer is afresh, and whose effects have their types.
LEMMA AfreshCall ==
    ASSUME SaverInv, Call, Afresh,
           UNCHANGED <<suspends, suspended>>,
           saved' \in BOOLEAN, level' \in Levels, enabled' \in BOOLEAN,
           powerTime' \in [1 .. 3 -> 0 .. MaxTime], saverTime' \in 0 .. MaxTime,
           interval' \in 0 .. MaxTime, idle' \in 0 .. MaxIdle
    PROVE  SaverInv' /\ LitScreenIsWatched'
<1>1. suspended' \in BOOLEAN /\ suspends' \in [Client -> 0 .. MaxCalls]
  BY DEF SaverInv, StateTypes
<1>2. /\ timer' \in -MaxLag .. MaxTime + MaxLag \cup {Off}
      /\ suspended' => timer' = Off /\ LitScreenIsWatched'
      /\ LitScreenIsWatched'
  BY <1>1, AfreshIsKept
<1>3. StateTypes'
  BY <1>1, <1>2, CallTypes DEF StateTypes
<1>4. SuspensionHolds'
  BY <1>2 DEF SuspensionHolds, SaverInv
<1> QED BY <1>2, <1>3, <1>4, CallTypes DEF SaverInv

\* A call that leaves the timer and its settings alone.
LEMMA QuietCall ==
    ASSUME SaverInv, Call, UNCHANGED <<timer, settings>>,
           saved' \in BOOLEAN, level' \in Levels, idle' \in 0 .. MaxIdle
    PROVE  /\ SaverInv'
           /\ LitScreenIsWatched /\ (ScreenLit' => ScreenLit) => LitScreenIsWatched'
<1> USE DEF settings
<1>1. StateTypes'
  BY CallTypes DEF StateTypes, SaverInv
<1>2. SuspensionHolds'
  BY DEF SuspensionHolds, SaverInv
<1>3. LitScreenIsWatched /\ (ScreenLit' => ScreenLit) => LitScreenIsWatched'
  BY DEF LitScreenIsWatched, Watched
<1> QED BY <1>1, <1>2, <1>3, CallTypes DEF SaverInv

LEMMA Known ==
    ASSUME SaverInv
    PROVE  /\ saved \in BOOLEAN /\ level \in Levels /\ enabled \in BOOLEAN
           /\ powerTime \in [1 .. 3 -> 0 .. MaxTime] /\ saverTime \in 0 .. MaxTime
           /\ interval \in 0 .. MaxTime /\ idle \in 0 .. MaxIdle
           /\ suspended \in BOOLEAN /\ 0 \in Levels /\ 0 \in 0 .. MaxIdle
BY SaverAssumption DEF SaverInv, StateTypes, Levels, MaxIdle

LEMMA InputStep ==
    ASSUME SaverInv, ProcessInput
    PROVE  SaverInv' /\ (PowerSaveIsSaved /\ LitScreenIsWatched
                           => PowerSaveIsSaved' /\ LitScreenIsWatched')
<1> USE SaverAssumption
<1>1. Call /\ Lit /\ UNCHANGED settings /\ idle' \in 0 .. MaxIdle
  BY Known DEF ProcessInput, MaxIdle
<1>2. CASE saved \/ level # 0
  BY <1>1, <1>2, Known, AfreshCall
  DEF Lit, Rearmed, Afresh, settings, PowerSaveIsSaved
<1>3. CASE ~ (saved \/ level # 0)
  BY <1>1, <1>3, Known, QuietCall DEF Lit, PowerSaveIsSaved, ScreenLit
<1> QED BY <1>2, <1>3

LEMMA SettingsStep ==
    ASSUME SaverInv,
           \/ \E time \in SaverTimes, ival \in Intervals : ProcSetScreenSaver(time, ival)
           \/ FreeSaverAttr
           \/ \E times \in PowerTimes : ProcDPMSSetTimeouts(times)
    PROVE  SaverInv' /\ (PowerSaveIsSaved => PowerSaveIsSaved') /\ LitScreenIsWatched'
<1> USE SaverAssumption
<1>1. ASSUME NEW time \in SaverTimes, NEW ival \in Intervals, ProcSetScreenSaver(time, ival)
      PROVE  SaverInv' /\ (PowerSaveIsSaved => PowerSaveIsSaved') /\ LitScreenIsWatched'
  BY <1>1, Known, AfreshCall DEF ProcSetScreenSaver, Afresh, PowerSaveIsSaved
<1>2. CASE FreeSaverAttr
  BY <1>2, Known, AfreshCall DEF FreeSaverAttr, Afresh, Rearmed, settings, PowerSaveIsSaved
<1>3. ASSUME NEW times \in PowerTimes, ProcDPMSSetTimeouts(times)
      PROVE  SaverInv' /\ (PowerSaveIsSaved => PowerSaveIsSaved') /\ LitScreenIsWatched'
  BY <1>3, Known, AfreshCall DEF ProcDPMSSetTimeouts, Afresh, PowerSaveIsSaved
<1> QED BY <1>1, <1>2, <1>3

\* The one step that can break PowerSaveIsSaved.
LEMMA ResetStep ==
    ASSUME SaverInv, ForceReset
    PROVE  SaverInv' /\ LitScreenIsWatched' /\ (level = 0 => PowerSaveIsSaved')
<1>1. SaverInv' /\ LitScreenIsWatched'
  BY Known, AfreshCall DEF ForceReset, Afresh, Rearmed, settings
<1> QED BY <1>1 DEF ForceReset, PowerSaveIsSaved

LEMMA ForceStep ==
    ASSUME SaverInv, ForceActive \/ ProcDPMSEnable
    PROVE  SaverInv' /\ (PowerSaveIsSaved /\ LitScreenIsWatched
                           => PowerSaveIsSaved' /\ LitScreenIsWatched')
<1>1. CASE ForceActive
  BY <1>1, Known, QuietCall DEF ForceActive, PowerSaveIsSaved, ScreenLit
<1>2. CASE ProcDPMSEnable /\ ~enabled
  BY <1>2, Known, AfreshCall DEF ProcDPMSEnable, Afresh, PowerSaveIsSaved
<1>3. CASE ProcDPMSEnable /\ enabled
  <2>1. UNCHANGED settings /\ UNCHANGED <<timer, saved, level, idle>> /\ Call
    BY <1>3, Known DEF ProcDPMSEnable, settings
  <2> QED BY <2>1, Known, QuietCall DEF PowerSaveIsSaved, ScreenLit
<1> QED BY <1>1, <1>2, <1>3

\* A display that comes back to On has its timer set because it was saved.
LEMMA LevelStep ==
    ASSUME SaverInv, NEW l \in Levels, Call, DPMSSet(l), enabled' \in {FALSE, enabled},
           UNCHANGED <<powerTime, saverTime, interval, suspends, suspended, idle>>,
           l # 0 => UNCHANGED enabled
    PROVE  SaverInv' /\ (PowerSaveIsSaved /\ LitScreenIsWatched
                           => PowerSaveIsSaved' /\ LitScreenIsWatched')
<1> USE SaverAssumption
<1>t. level' = l /\ saved' \in BOOLEAN /\ timer' \in {timer, Rearmed}
  BY Known DEF DPMSSet
<1>r. Rearmed \in -MaxLag .. MaxTime + MaxLag \cup {Off} /\ (suspended => Rearmed = Off)
      /\ (Watched => Rearmed # Off)
  <2>1. /\ Rearmed \in 0 .. MaxTime \cup {Off}
        /\ suspended => Rearmed = Off
        /\ ~suspended /\ (saverTime > 0 \/ (enabled /\ \E m \in 1 .. 3 : powerTime[m] > 0))
           => Rearmed # Off
    BY Known, SetTimer DEF Rearmed
  <2> QED BY <2>1 DEF Watched
<1>1. StateTypes'
  BY <1>t, <1>r, Known, CallTypes DEF StateTypes, SaverInv
<1>2. SuspensionHolds'
  BY <1>t, <1>r DEF SuspensionHolds, SaverInv
<1>3. Watched' => Watched
  BY Known DEF Watched
<1>4. ASSUME PowerSaveIsSaved, LitScreenIsWatched
      PROVE  PowerSaveIsSaved' /\ LitScreenIsWatched'
  <2>1. CASE l # 0
    BY <2>1 DEF DPMSSet, PowerSaveIsSaved, LitScreenIsWatched, ScreenLit
  <2>2. CASE l = 0 /\ saved
    BY <2>2, <1>r, <1>3 DEF DPMSSet, PowerSaveIsSaved, LitScreenIsWatched, ScreenLit
  <2>3. CASE l = 0 /\ ~saved
    BY <1>4, <2>3, <1>3 DEF DPMSSet, PowerSaveIsSaved, LitScreenIsWatched, ScreenLit
  <2> QED BY <2>1, <2>2, <2>3
<1> QED BY <1>1, <1>2, <1>4, CallTypes DEF SaverInv

\* Suspending stops the timer, and resuming starts it if the screen is lit.
LEMMA SuspendStep ==
    ASSUME SaverInv, NEW c \in Client, Suspend(c)
    PROVE  SaverInv' /\ (PowerSaveIsSaved => PowerSaveIsSaved') /\ LitScreenIsWatched'
<1> USE SaverAssumption
<1>0. /\ suspends \in [Client -> 0 .. MaxCalls] /\ calls \in 0 .. MaxCalls
      /\ suspends[c] <= calls /\ Call
      /\ timer \in -MaxLag .. MaxTime + MaxLag \cup {Off}
  BY DEF SaverInv, StateTypes, SuspendsAreCalls, Suspend
<1>1. /\ suspends' = [suspends EXCEPT ![c] = @ + 1] /\ suspended' = TRUE
      /\ UNCHANGED <<saved, level, enabled, powerTime, saverTime, interval, idle>>
      /\ timer' = Off
  BY DEF Suspend, SaverInv, SuspensionHolds
<1>2. /\ suspends' \in [Client -> 0 .. MaxCalls] /\ suspends'[c] > 0
      /\ \A d \in Client : suspends'[d] <= calls'
  BY <1>0, <1>1, CallTypes DEF SaverInv, SuspendsAreCalls
<1>3. StateTypes'
  BY <1>0, <1>1, <1>2, Known, CallTypes DEF StateTypes
<1> QED BY <1>1, <1>2, <1>3
        DEF SaverInv, SuspendsAreCalls, SuspensionHolds, PowerSaveIsSaved, LitScreenIsWatched,
            Watched

LEMMA ResumeStep ==
    ASSUME SaverInv, Call, NEW counts \in [Client -> 0 .. MaxCalls],
           \A d \in Client : counts[d] <= suspends[d],
           \E d \in Client : suspends[d] > 0,
           Resume(counts),
           UNCHANGED <<saved, level, enabled, powerTime, saverTime, interval>>
    PROVE  SaverInv' /\ (PowerSaveIsSaved => PowerSaveIsSaved')
           /\ (LitScreenIsWatched => LitScreenIsWatched')
<1> USE SaverAssumption
<1>0. /\ suspended /\ timer = Off
      /\ suspends' = counts /\ suspended' = \E d \in Client : counts[d] > 0
  BY DEF SaverInv, SuspensionHolds, Resume
<1>s. suspended' \in BOOLEAN /\ (suspended' <=> \E d \in Client : suspends'[d] > 0)
  BY <1>0
<1>c. SuspendsAreCalls'
  <2> SUFFICES ASSUME NEW d \in Client PROVE suspends'[d] <= calls'
    BY DEF SuspendsAreCalls
  <2>1. /\ suspends[d] <= calls /\ calls \in 0 .. MaxCalls /\ suspends[d] \in 0 .. MaxCalls
        /\ counts[d] <= suspends[d] /\ counts[d] \in 0 .. MaxCalls
    BY DEF SaverInv, SuspendsAreCalls, StateTypes
  <2> QED BY <1>0, <2>1, CallTypes
<1>1. CASE ~suspended' /\ ~saved /\ level = 0
  <2>1. idle' = 0 /\ timer' = SetScreenSaverTimer(enabled, powerTime, saverTime, FALSE)
    BY <1>0, <1>1 DEF Resume
  <2>2. Afresh
    BY <1>s, <1>1, <2>1 DEF Afresh
  <2>3. /\ timer' \in -MaxLag .. MaxTime + MaxLag \cup {Off} /\ LitScreenIsWatched'
    BY <1>s, <2>2, Known, AfreshIsKept
  <2>4. StateTypes'
    BY <1>0, <1>s, <2>1, <2>3, Known, CallTypes DEF StateTypes
  <2> QED BY <1>1, <1>s, <1>c, <2>3, <2>4 DEF SaverInv, SuspensionHolds, PowerSaveIsSaved
<1>2. CASE ~ (~suspended' /\ ~saved /\ level = 0)
  <2>1. UNCHANGED <<idle, timer>>
    BY <1>0, <1>2 DEF Resume
  <2>2. StateTypes'
    BY <1>0, <1>s, <2>1, Known, CallTypes DEF StateTypes
  <2>3. LitScreenIsWatched'
    BY <1>2 DEF LitScreenIsWatched, ScreenLit, Watched
  <2> QED BY <1>0, <1>s, <1>c, <2>1, <2>2, <2>3
          DEF SaverInv, SuspensionHolds, PowerSaveIsSaved
<1> QED BY <1>1, <1>2

LEMMA UnsuspendStep ==
    ASSUME SaverInv, NEW c \in Client, Unsuspend(c) \/ CloseClient(c)
    PROVE  SaverInv' /\ (PowerSaveIsSaved => PowerSaveIsSaved')
           /\ (LitScreenIsWatched => LitScreenIsWatched')
<1> USE SaverAssumption
<1>0. suspends \in [Client -> 0 .. MaxCalls]
  BY DEF SaverInv, StateTypes
<1>1. CASE Unsuspend(c)
  <2> DEFINE counts == [suspends EXCEPT ![c] = @ - 1]
  <2>1. /\ suspends[c] > 0 /\ counts \in [Client -> 0 .. MaxCalls]
        /\ \A d \in Client : counts[d] <= suspends[d]
    BY <1>0, <1>1 DEF Unsuspend
  <2> HIDE DEF counts
  <2>2. /\ Call /\ Resume(counts)
        /\ UNCHANGED <<saved, level, enabled, powerTime, saverTime, interval>>
    BY <1>1 DEF Unsuspend, counts
  <2> QED BY <2>1, <2>2, ResumeStep
<1>2. CASE CloseClient(c)
  <2> DEFINE counts == [suspends EXCEPT ![c] = 0]
  <2>1. /\ suspends[c] > 0 /\ counts \in [Client -> 0 .. MaxCalls]
        /\ \A d \in Client : counts[d] <= suspends[d]
    BY <1>0, <1>2 DEF CloseClient
  <2> HIDE DEF counts
  <2>2. /\ Call /\ Resume(counts)
        /\ UNCHANGED <<saved, level, enabled, powerTime, saverTime, interval>>
    BY <1>2 DEF CloseClient, counts
  <2> QED BY <2>1, <2>2, ResumeStep
<1> QED BY <1>1, <1>2

LEMMA GenerationStep ==
    ASSUME SaverInv, NextGeneration
    PROVE  SaverInv' /\ PowerSaveIsSaved' /\ LitScreenIsWatched'
<1> USE SaverAssumption
<1>0. /\ Call /\ suspends' = [c \in Client |-> 0] /\ suspended' = FALSE
      /\ saved' = FALSE /\ level' = 0 /\ idle' = 0 /\ enabled' = TRUE
      /\ UNCHANGED powerTime /\ saverTime' = DefaultTime /\ interval' = DefaultInterval
      /\ timer' = SetScreenSaverTimer(TRUE, powerTime, DefaultTime, FALSE)
  BY DEF NextGeneration
<1>1. Afresh
  BY <1>0 DEF Afresh
<1>2. timer' \in -MaxLag .. MaxTime + MaxLag \cup {Off} /\ LitScreenIsWatched'
  BY <1>0, <1>1, Known, AfreshIsKept
<1>f. suspends' \in [Client -> 0 .. MaxCalls] /\ \A c \in Client : suspends'[c] = 0
  BY <1>0
<1>g. \A c \in Client : ~ (suspends'[c] > 0)
  BY <1>f
<1>b. /\ suspended' \in BOOLEAN /\ ~suspended' /\ ~saved' /\ saved' \in BOOLEAN
      /\ enabled' \in BOOLEAN
  BY <1>0, Zenon
<1>s. /\ suspends' \in [Client -> 0 .. MaxCalls] /\ \A c \in Client : ~ (suspends'[c] > 0)
      /\ suspended' \in BOOLEAN /\ ~suspended' /\ ~saved' /\ saved' \in BOOLEAN
      /\ enabled' \in BOOLEAN
  BY <1>f, <1>g, <1>b
<1>d. saverTime' \in 0 .. MaxTime /\ interval' \in 0 .. MaxTime
  BY <1>0
<1>3. StateTypes'
  BY <1>0, <1>s, <1>d, <1>2, Known, CallTypes DEF StateTypes
<1>4. SuspendsAreCalls'
  <2>1. calls' \in Nat
    BY <1>0, CallTypes
  <2> QED BY <1>0, <2>1 DEF SuspendsAreCalls
<1> QED BY <1>0, <1>s, <1>2, <1>3, <1>4 DEF SaverInv, SuspensionHolds, PowerSaveIsSaved

LEMMA RequestStep ==
    ASSUME SaverInv, Request
    PROVE  SaverInv' /\ (PowerSaveIsSaved /\ LitScreenIsWatched /\ ~ (ForceReset /\ level # 0)
                           => PowerSaveIsSaved' /\ LitScreenIsWatched')
<1>1. CASE \/ \E time \in SaverTimes, ival \in Intervals : ProcSetScreenSaver(time, ival)
           \/ FreeSaverAttr
           \/ \E times \in PowerTimes : ProcDPMSSetTimeouts(times)
  BY <1>1, SettingsStep
<1>2. CASE ForceReset
  BY <1>2, ResetStep
<1>3. CASE ForceActive \/ ProcDPMSEnable
  BY <1>3, ForceStep
<1>4. CASE ProcDPMSDisable
  BY <1>4, LevelStep, Known DEF ProcDPMSDisable
<1>5. CASE \E l \in Levels : ProcDPMSForceLevel(l)
  BY <1>5, LevelStep DEF ProcDPMSForceLevel, settings
<1>6. CASE \E c \in Client : Suspend(c) \/ Unsuspend(c) \/ CloseClient(c)
  BY <1>6, SuspendStep, UnsuspendStep
<1>7. CASE NextGeneration
  BY <1>7, GenerationStep
<1> QED BY <1>1, <1>2, <1>3, <1>4, <1>5, <1>6, <1>7 DEF Request

-----------------------------------------------------------------------------
(* The results.                                                            *)

LEMMA SaverInit == Init => WatchInv
<1> SUFFICES ASSUME Init PROVE WatchInv
  OBVIOUS
<1>m. 0 .. MaxTime \subseteq -MaxLag .. MaxTime + MaxLag
  BY SaverAssumption
<1> USE SaverAssumption DEF Init
<1>1. powerTime \in [1 .. 3 -> 0 .. MaxTime]
  OBVIOUS
<1>2. /\ timer \in 0 .. MaxTime \cup {Off}
      /\ DefaultTime > 0 \/ (\E m \in 1 .. 3 : powerTime[m] > 0) => timer # Off
  BY <1>1, SetTimer
<1>f. suspends \in [Client -> 0 .. MaxCalls] /\ \A c \in Client : suspends[c] = 0
  OBVIOUS
<1>g. \A c \in Client : suspends[c] <= calls /\ ~ (suspends[c] > 0)
  BY <1>f
<1>b. /\ suspended \in BOOLEAN /\ ~suspended /\ saved \in BOOLEAN /\ ~saved
      /\ enabled \in BOOLEAN /\ round \in BOOLEAN
  BY Zenon
<1>s. /\ suspends \in [Client -> 0 .. MaxCalls]
      /\ \A c \in Client : suspends[c] <= calls /\ ~ (suspends[c] > 0)
      /\ suspended \in BOOLEAN /\ ~suspended /\ saved \in BOOLEAN /\ ~saved
      /\ enabled \in BOOLEAN /\ round \in BOOLEAN
  BY <1>f, <1>g, <1>b
<1>e. timer \in -MaxLag .. MaxTime + MaxLag \cup {Off}
  BY <1>m, <1>2, Zenon
<1>d. /\ level \in Levels /\ idle \in 0 .. MaxIdle /\ lag \in 0 .. MaxLag
      /\ calls \in 0 .. MaxCalls /\ saverTime \in 0 .. MaxTime /\ interval \in 0 .. MaxTime
  BY DEF Levels, MaxIdle
<1>3. StateTypes
  BY <1>1, <1>s, <1>e, <1>d DEF StateTypes
<1>4. SuspendsAreCalls /\ SuspensionHolds /\ PowerSaveIsSaved
  BY <1>s DEF SuspendsAreCalls, SuspensionHolds, PowerSaveIsSaved
<1>5. LitScreenIsWatched
  BY <1>2 DEF LitScreenIsWatched, Watched
<1> QED BY <1>3, <1>4, <1>5 DEF WatchInv, SaverInv

LEMMA SaverStutter ==
    ASSUME UNCHANGED vars
    PROVE  (SaverInv => SaverInv') /\ (WatchInv => WatchInv')
<1> USE DEF vars, settings
<1>1. SaverInv => SaverInv'
  BY DEF SaverInv, StateTypes, SuspendsAreCalls, SuspensionHolds
<1>2. PowerSaveIsSaved /\ LitScreenIsWatched => PowerSaveIsSaved' /\ LitScreenIsWatched'
  BY DEF PowerSaveIsSaved, LitScreenIsWatched, ScreenLit, Watched
<1> QED BY <1>1, <1>2 DEF WatchInv

\* SaverInv, with the types, is an invariant whatever clients do: the saver is
\* suspended exactly as long as somebody asks for it, and then no call sets the
\* timer (SetScreenSaverTimer, ScreenSaverFreeSuspend).
THEOREM SaverInvariant == Spec => []SaverInv
<1>1. Init => SaverInv
  BY SaverInit DEF WatchInv
<1>2. SaverInv /\ [Next]_vars => SaverInv'
  BY TimersStep, InputStep, RequestStep, SaverStutter DEF Next
<1> QED BY <1>1, <1>2, PTL DEF Spec

\* Every variable keeps its type, whatever clients do: in particular the
\* callback never asks to be called after a negative time.
THEOREM SaverTypes == Spec => []TypeOK
<1>1. Init => lapsed \in BOOLEAN
  BY DEF Init
<1>2. lapsed \in BOOLEAN /\ [Next]_vars => (lapsed \in BOOLEAN)'
  <2>1. CASE UNCHANGED vars
    BY <2>1 DEF vars
  <2>2. CASE Next
    BY <2>2, Zenon DEF Next, Lapse
  <2> QED BY <2>1, <2>2
<1>3. SaverInv /\ lapsed \in BOOLEAN => TypeOK
  BY DEF SaverInv, TypeOK
<1> QED BY <1>1, <1>2, <1>3, SaverInvariant, PTL DEF Spec

\* A lapse ends when the display is on and the timer is set.
LEMMA LapseEnds ==
    ASSUME SaverInv, Next, lapsed, ~lapsed'
    PROVE  PowerSaveIsSaved' /\ LitScreenIsWatched'
<1>1. level' = 0 /\ timer' # Off
  BY DEF Next, Lapse
<1> QED BY <1>1 DEF PowerSaveIsSaved, LitScreenIsWatched

\* A lit screen is always watched by the timer, except after the saver was reset
\* in a power saving mode, and a suspended saver never has one
\* (ScreenSaverTimeoutExpire, DPMSSet, dixSaveScreens).
THEOREM TimerStaysKept == Spec => []TimerIsKept
<1>1. Init => WatchInv
  BY SaverInit
<1>2. WatchInv /\ [Next]_vars => WatchInv'
  <2>1. CASE UNCHANGED vars
    BY <2>1, SaverStutter
  <2>2. ASSUME WatchInv, Next, ~lapsed' PROVE PowerSaveIsSaved' /\ LitScreenIsWatched'
    <3>1. ~ (ForceReset /\ level # 0)
      BY <2>2 DEF Next, Lapse
    <3>2. CASE lapsed
      BY <2>2, <3>2, LapseEnds DEF WatchInv
    <3>3. CASE ~lapsed
      BY <2>2, <3>1, <3>3, TimersStep, InputStep, RequestStep DEF Next, WatchInv
    <3> QED BY <3>2, <3>3
  <2>3. ASSUME WatchInv, Next PROVE SaverInv'
    BY <2>3, TimersStep, InputStep, RequestStep DEF Next, WatchInv
  <2> QED BY <2>1, <2>2, <2>3 DEF WatchInv
<1>3. WatchInv => TimerIsKept
  BY DEF WatchInv, SaverInv, TimerIsKept
<1> QED BY <1>1, <1>2, <1>3, PTL DEF Spec

\* The callback darkens the screen only after the time that is set for it
\* without input, unless input is newer than the time DoTimers read
\* (ScreenSaverTimeoutExpire).
THEOREM DarkOnlyWhenDeserved == Spec => DarkOnlyWhenIdleBefore
<1>1. SaverInv /\ [Next]_vars => [DoTimer /\ idle >= lag => Deserved]_vars
  <2> SUFFICES ASSUME SaverInv, DoTimer, idle >= lag PROVE Deserved
    OBVIOUS
  <2>1. /\ idle \in Int /\ lag \in Int /\ lag >= 0 /\ saverTime \in Int
        /\ powerTime \in [1 .. 3 -> 0 .. MaxTime] /\ level \in Levels /\ StateTypes
    BY SaverAssumption DEF SaverInv, StateTypes, MaxIdle
  <2>2. /\ level' \in Levels
        /\ level' > level => powerTime[level'] > 0 /\ Reached(powerTime[level'])
        /\ level' = level /\ saved' /\ ~saved => saverTime > 0 /\ Reached(saverTime)
    BY <2>1, Expired DEF DoTimer
  <2>3. \A x \in Int : Reached(x) => idle >= x
    BY <2>1 DEF Reached, timeout
  <2>4. level' > level => level' \in 1 .. 3
    BY <2>1, <2>2 DEF Levels
  <2>5. level' > level => powerTime[level'] > 0 /\ idle >= powerTime[level']
    BY <2>1, <2>2, <2>3, <2>4, SaverAssumption
  <2> QED BY <2>1, <2>2, <2>3, <2>5 DEF Deserved
<1> QED BY <1>1, SaverInvariant, PTL DEF Spec, DarkOnlyWhenIdleBefore
=============================================================================
