---------------------------- MODULE SyncCounters ----------------------------
(***************************************************************************)
(* Xext/sync/sync.c, miext/sync/misync.c: counters and fences, the alarms  *)
(* and Awaits that hang on them by their triggers, and the loops that go   *)
(* over the triggers of an object: SyncChangeCounter, miSyncTriggerFence   *)
(* and FreeCounter or miSyncDestroyFence.  A trigger that fires can remove *)
(* others from the list, also the one the loop means to look at next.      *)
(* While such a loop runs (doing), the server does nothing else.           *)
(*                                                                         *)
(* A trigger list is a set: its order is the order in which the clients    *)
(* happened to ask, so the loops may meet the triggers in any order.  A    *)
(* node whose pTrigger was set to NULL is no longer in the set.  Events    *)
(* are not recorded.  System counters are not among the counters.          *)
(***************************************************************************)
EXTENDS SyncTriggers, Sequences, FiniteSets

CONSTANTS
    Clients,        \* clients with a connection
    Closers,        \* those of them that close it
    Counters, Fences, Alarms,
    Owner,          \* the client that creates each counter, fence and alarm
    InitialValues,  \* of new counters
    SetValues,      \* what SetCounter asks for
    Increments,     \* what ChangeCounter asks for
    Awaits,         \* the lists of conditions clients wait for
    NewAlarms,      \* the attributes CreateAlarm asks for
    AlarmChanges,   \* the attributes ChangeAlarm asks for
    Keep,           \* an attribute that is not in the value mask
    None,           \* no counter
    Gone,           \* an object that does not exist
    NoAlarm, NoClient

Objects == Counters \cup Fences
ValueTypes == {"Absolute", "Relative"}

Condition == [obj : Objects, vtype : ValueTypes, wait : Int64,
              check : Tests \cup {"Fence"}]
Attributes == [obj : Counters \cup {None, Keep},
               vtype : ValueTypes \cup {"invalid", Keep},
               wait : Int64 \cup {Keep}, type : Tests \cup {"invalid", Keep},
               delta : Int64 \cup {Keep}]

ASSUME ObjectsAssumption == Counters \cap Fences = {} /\ None \notin Objects
ASSUME OwnerAssumption ==
    /\ Owner \in [Objects \cup Alarms -> Clients]
    /\ Closers \subseteq Clients /\ NoClient \notin Clients
ASSUME ValuesAssumption ==
    /\ InitialValues \cup SetValues \cup Increments \subseteq Int64
    /\ Gone \notin Int64
ASSUME RequestsAssumption ==
    /\ Awaits \subseteq Seq(Condition)
    /\ \A w \in Awaits :
          /\ w # <<>>
          /\ \A i \in DOMAIN w :
                /\ (w[i].obj \in Fences) = (w[i].check = "Fence")
                /\ w[i].obj \in Fences => w[i].vtype = "Absolute"
    /\ NewAlarms \cup AlarmChanges \subseteq Attributes
    /\ Keep \notin Objects \cup {None} /\ Keep \notin Int64
    /\ Keep \notin Tests \cup ValueTypes \cup {"invalid"}

\* SyncAlarm: the trigger, with the test type asked for (type) and the
\* function that was chosen for it (check), delta, and whether it is Active.
Alarm == [obj : Counters \cup {None}, vtype : ValueTypes \cup {"invalid"},
          wait : Int64, test : Int64, type : Tests \cup {"invalid"}, check : Tests,
          delta : Int64, active : BOOLEAN]

\* SyncAwait
Wait == [obj : Objects, test : Int64, check : Tests \cup {"Fence"}]

ASSUME NoAlarmAssumption == NoAlarm \notin Alarm

Items == UNION {DOMAIN w : w \in Awaits}

AlarmTrigger(a) == [kind |-> "alarm", who |-> a, item |-> 0]
AwaitTrigger(c, i) == [kind |-> "await", who |-> c, item |-> i]
NoTrigger == [kind |-> "none", who |-> None, item |-> 0]

Triggers == {AlarmTrigger(a) : a \in Alarms}
              \cup {AwaitTrigger(c, i) : c \in Clients, i \in Items}

\* The ids of clients and their resources have a width, and a request a length.
ASSUME FiniteAssumption ==
    /\ IsFiniteSet(Clients) /\ IsFiniteSet(Objects) /\ IsFiniteSet(Alarms)
    /\ IsFiniteSet(Triggers)

VARIABLES
    value,      \* of each counter and fence
    triglist,   \* the triggers on each counter and fence
    alarm,      \* the alarms
    await,      \* the conditions of each client's Await
    ignored,    \* IgnoreClient: the clients whose requests are not read
    running,    \* the clients that are not gone
    closing,    \* the client that FreeClientResources works for
    doing       \* the loop over a trigger list that is under way

vars == <<value, triglist, alarm, await, ignored, running, closing, doing>>
triggerVars == <<triglist, alarm, await, ignored>>
clientVars == <<running, closing>>

Nothing == [op |-> "none", obj |-> None, old |-> 0, todo |-> {},
            next |-> NoTrigger]

Idle == doing = Nothing /\ closing = NoClient

\* The server reads requests of the client.
Ready(c) == Idle /\ c \in running \ ignored

-----------------------------------------------------------------------------
(* Alarms.                                                                 *)

UpdateOnce(al, v) ==
    LET sum == al.test + al.delta
    IN  IF sum \in Int64 THEN [al EXCEPT !.test = sum]
        ELSE [al EXCEPT !.active = FALSE]

\* How often SyncAlarmTriggerFired adds delta: until the sum overflows or the
\* trigger is false.
Additions(al, v) ==
    {n \in 1..(MaxInt - MinInt + 1) :
        \/ al.test + n * al.delta \notin Int64
        \/ ~CheckTrigger([al EXCEPT !.test = al.test + n * al.delta], v, v)}

UpdateUnchecked(al, v) ==
    LET n == CHOOSE n \in Additions(al, v) :
                \A m \in Additions(al, v) : n <= m
    IN  [al EXCEPT !.test = al.test + n * al.delta]

Update(al, v) ==
    LET n == CHOOSE n \in Additions(al, v) :
                \A m \in Additions(al, v) : n <= m
        sum == al.test + n * al.delta
    IN  IF sum \in Int64 THEN [al EXCEPT !.test = sum]
        ELSE [al EXCEPT !.active = FALSE]

\* SyncAlarmTriggerFired
FiredAlarm(al, v) ==
    IF ~al.active THEN al
    ELSE IF al.obj = None \/ (al.delta = 0 /\ al.type \in Comparisons)
         THEN [al EXCEPT !.active = FALSE]
    ELSE Update(al, v)

\* The loop of SyncAlarmTriggerFired ends, for an alarm on a value.
Ends(al, v) ==
    \/ ~al.active
    \/ al.obj = None \/ (al.delta = 0 /\ al.type \in Comparisons)
    \/ Additions(al, v) # {}

Or(new, old) == IF new = Keep THEN old ELSE new

\* SyncInitTrigger for the attributes r, once they are in the alarm: the
\* errors that it finds, and the alarm it leaves behind either way.
BadObject(r) == r.obj \in Counters /\ value[r.obj] = Gone
NewObject(al, r) == Or(r.obj, al.obj)
ValueChanges(r) == r.vtype # Keep \/ r.wait # Keep
\* Only a request that gives the value type is refused for it: one that comes
\* later takes whatever that request stored, if not Absolute, for Relative.
BadValueType(r) == r.vtype = "invalid"
RelativeToNone(al, r) ==
    ValueChanges(r) /\ al.vtype # "Absolute" /\ NewObject(al, r) = None
RelativeOverflow(al, r) ==
    /\ ValueChanges(r) /\ al.vtype # "Absolute" /\ NewObject(al, r) # None
    /\ Overflows(value[NewObject(al, r)], al.wait)

InitFails(al, r) ==
    \/ BadObject(r) \/ BadValueType(r) \/ RelativeToNone(al, r)
    \/ RelativeOverflow(al, r)
    \/ r.type = "invalid"

WithValue(al, r) ==
    IF \/ BadObject(r) \/ BadValueType(r)
       \/ RelativeToNone(al, r) \/ ~ValueChanges(r) THEN al
    ELSE [al EXCEPT !.test =
            IF al.vtype = "Absolute" THEN al.wait
            ELSE Wrap(value[NewObject(al, r)] + al.wait)]

SyncInitTrigger(al, r) ==
    [WithValue(al, r) EXCEPT !.check = Or(r.type, @),
                             !.obj = NewObject(al, r)]

\* SyncChangeAlarmAttributes: the Match error, and what is stored before
\* SyncInitTrigger has looked at it.
BadDelta(al, r) ==
    /\ r.delta # Keep \/ r.type # Keep
    /\ LET type == Or(r.type, al.type)
           delta == Or(r.delta, al.delta)
       IN  (type \in PositiveTests /\ delta < 0)
             \/ (type \in NegativeTests /\ delta > 0)

Stored(al, r) ==
    [al EXCEPT !.vtype = Or(r.vtype, @), !.wait = Or(r.wait, @),
               !.type = Or(r.type, @), !.delta = Or(r.delta, @)]

Succeeds(al, r) == ~BadDelta(al, r) /\ ~InitFails(Stored(al, r), r)

Changed(al, r) ==
    [SyncInitTrigger(Stored(al, r), r) EXCEPT !.active = TRUE]

\* The trigger of an alarm moves to the list of its counter.
MoveTrigger(a, o) ==
    triglist' = [x \in Objects |->
                   IF x = o THEN triglist[x] \cup {AlarmTrigger(a)}
                   ELSE triglist[x] \ {AlarmTrigger(a)}]

DefaultAlarm ==
    [obj |-> None, vtype |-> "Absolute", wait |-> 0, test |-> 0,
     type |-> "PositiveComparison", check |-> "PositiveComparison",
     delta |-> 1, active |-> FALSE]

\* The alarm after its trigger was tried on the current value.
IsTrue(al) == CheckTrigger(al, value[al.obj], value[al.obj])

Tried(al) == IF IsTrue(al) THEN FiredAlarm(al, value[al.obj]) ELSE al

TrialEnds(al) == al.obj # None /\ IsTrue(al) => Ends(al, value[al.obj])

ProcSyncCreateAlarm(a, r) ==
    /\ Ready(Owner[a])
    /\ alarm[a] = NoAlarm
    /\ Succeeds(DefaultAlarm, r)
    /\ LET al == Changed(DefaultAlarm, r)
       IN  /\ TrialEnds(al)
           /\ alarm' = [alarm EXCEPT ![a] =
                          IF al.obj = None THEN [al EXCEPT !.active = FALSE]
                          ELSE Tried(al)]
           /\ MoveTrigger(a, al.obj)
    /\ UNCHANGED <<value, await, ignored, clientVars, doing>>

ProcSyncChangeAlarm(a, r) ==
    /\ \E c \in Clients : Ready(c)
    /\ alarm[a] # NoAlarm
    /\ Succeeds(alarm[a], r)
    /\ LET al == Changed(alarm[a], r)
       IN  /\ TrialEnds(al)
           /\ alarm' = [alarm EXCEPT ![a] =
                          IF al.obj = None THEN FiredAlarm(al, 0)
                          ELSE Tried(al)]
           /\ MoveTrigger(a, al.obj)
    /\ UNCHANGED <<value, await, ignored, clientVars, doing>>

\* The request returns an error.
ChangeAlarmFails(a, r) ==
    /\ \E c \in Clients : Ready(c)
    /\ alarm[a] # NoAlarm
    /\ ~Succeeds(alarm[a], r)
    /\ alarm' = [alarm EXCEPT ![a] =
                   IF BadDelta(@, r) THEN @
                   ELSE WithValue(Stored(@, r), r)]
    /\ UNCHANGED <<value, triglist, await, ignored, clientVars, doing>>

-----------------------------------------------------------------------------
(* Awaits.                                                                 *)

TriggersOf(c) == {AwaitTrigger(c, i) : i \in DOMAIN await[c]}

KeepDestroyed(c) ==
    triglist' = [o \in Objects |->
                   IF o = doing.obj /\ doing.op = "destroy" THEN triglist[o]
                   ELSE triglist[o] \ TriggersOf(c)]

\* FreeAwait: takes the triggers from the lists, or from under the nodes of
\* an object that is being destroyed.
FreeTriggers(c) ==
    triglist' = [o \in Objects |-> triglist[o] \ TriggersOf(c)]

\* SyncAwaitTriggerFired; AttendClient leaves a client alone that is gone.
AwaitFires(c) ==
    /\ FreeTriggers(c)
    /\ await' = [await EXCEPT ![c] = <<>>]
    /\ ignored' = ignored \ ({c} \cap running)

\* What ProcSyncAwait makes of the conditions, if none is an error.
Legal(w) ==
    \A i \in DOMAIN w :
        /\ value[w[i].obj] # Gone
        /\ w[i].vtype = "Relative" => ~Overflows(value[w[i].obj], w[i].wait)

Waits(w) ==
    [i \in DOMAIN w |->
       [obj |-> w[i].obj, check |-> w[i].check,
        test |-> IF w[i].vtype = "Absolute" THEN w[i].wait
                 ELSE Wrap(value[w[i].obj] + w[i].wait)]]

\* SyncAwaitEpilogue: the client is ignored, unless a condition is true.
ProcSyncAwait(c, w) ==
    /\ Ready(c)
    /\ Legal(w)
    /\ \A i \in DOMAIN w :
          ~CheckTrigger(Waits(w)[i], value[w[i].obj], value[w[i].obj])
    /\ await' = [await EXCEPT ![c] = Waits(w)]
    /\ triglist' = [o \in Objects |->
                      triglist[o] \cup
                        {AwaitTrigger(c, i) : i \in {j \in DOMAIN w :
                                                       w[j].obj = o}}]
    /\ ignored' = ignored \cup {c}
    /\ UNCHANGED <<value, alarm, clientVars, doing>>

-----------------------------------------------------------------------------
(* Counters and fences.                                                    *)

\* One of the nodes of a list that is not empty.
Nodes(s) == IF s = {} THEN {NoTrigger} ELSE s

Trigger(t) == IF t.kind = "alarm" THEN alarm[t.who] ELSE await[t.who][t.item]

\* ProcSyncCreateCounter, ProcSyncCreateFence
SyncCreate(o, v) ==
    /\ Ready(Owner[o])
    /\ value[o] = Gone
    /\ value' = [value EXCEPT ![o] = v]
    /\ UNCHANGED <<triggerVars, clientVars, doing>>

\* SyncChangeCounter begins.
SyncChangeCounter(k, v) ==
    /\ value[k] # Gone
    /\ value' = [value EXCEPT ![k] = v]
    /\ \E t \in Nodes(triglist[k]) :
          doing' = [op |-> "change", obj |-> k, old |-> value[k],
                    todo |-> triglist[k], next |-> t]
    /\ UNCHANGED <<triggerVars, clientVars>>

ProcSyncSetCounter(k, v) ==
    (\E c \in Clients : Ready(c)) /\ SyncChangeCounter(k, v)

ProcSyncChangeCounter(k, d) ==
    /\ \E c \in Clients : Ready(c)
    /\ value[k] # Gone /\ ~Overflows(d, value[k])
    /\ SyncChangeCounter(k, Wrap(d + value[k]))

Fires(t) == CheckTrigger(Trigger(t), doing.old, value[doing.obj])

\* The loop goes on to the next node.
WalkPast ==
    /\ doing.op = "change" /\ doing.next # NoTrigger
    /\ ~Fires(doing.next)
    /\ LET rest == doing.todo \ {doing.next}
       IN  \E p \in Nodes(rest) :
              doing' = [doing EXCEPT !.todo = rest, !.next = p]
    /\ UNCHANGED <<value, triggerVars, clientVars>>

StopIfFreed(rest, left) ==
    \E p \in Nodes(rest) :
        IF p = NoTrigger \/ p \in left
        THEN doing' = [doing EXCEPT !.todo = rest \cap left, !.next = p]
        ELSE doing' = [doing EXCEPT !.todo = {}, !.next = NoTrigger]

AlwaysRestart(rest, left) ==
    \E p \in Nodes(left) :
        doing' = [doing EXCEPT !.todo = left, !.next = p]

\* After a trigger fired: if it took the next node along, the loop starts
\* again at the head of what is left of the list.
GoOn(rest, left) ==
    \E p \in Nodes(rest) :
        IF p = NoTrigger \/ p \in left
        THEN doing' = [doing EXCEPT !.todo = rest \cap left, !.next = p]
        ELSE \E h \in Nodes(left) :
                doing' = [doing EXCEPT !.todo = left, !.next = h]

WalkFire ==
    /\ doing.op = "change" /\ doing.next # NoTrigger
    /\ Fires(doing.next)
    /\ LET t == doing.next
           v == value[doing.obj]
       IN  \/ /\ t.kind = "alarm" /\ Ends(alarm[t.who], v)
              /\ alarm' = [alarm EXCEPT ![t.who] = FiredAlarm(@, v)]
              /\ UNCHANGED <<triglist, await, ignored>>
           \/ /\ t.kind = "await"
              /\ AwaitFires(t.who)
              /\ UNCHANGED alarm
    /\ GoOn(doing.todo \ {doing.next}, triglist'[doing.obj])
    /\ UNCHANGED <<value, clientVars>>

WalkDone ==
    /\ doing.op = "change" /\ doing.next = NoTrigger
    /\ doing' = Nothing
    /\ UNCHANGED <<value, triggerVars, clientVars>>

\* miSyncTriggerFence: as long as there is a trigger, it fires.
ProcSyncTriggerFence(f) ==
    /\ \E c \in Clients : Ready(c)
    /\ value[f] # Gone
    /\ value' = [value EXCEPT ![f] = 1]
    /\ doing' = [Nothing EXCEPT !.op = "trigger", !.obj = f, !.old = value[f]]
    /\ UNCHANGED <<triggerVars, clientVars>>

FenceFires ==
    /\ doing.op = "trigger"
    /\ \E t \in triglist[doing.obj] : AwaitFires(t.who)
    /\ UNCHANGED <<value, alarm, clientVars, doing>>

FenceDone ==
    /\ doing.op = "trigger" /\ triglist[doing.obj] = {}
    /\ doing' = Nothing
    /\ UNCHANGED <<value, triggerVars, clientVars>>

ProcSyncResetFence(f) ==
    /\ \E c \in Clients : Ready(c)
    /\ value[f] = 1
    /\ value' = [value EXCEPT ![f] = 0]
    /\ UNCHANGED <<triggerVars, clientVars, doing>>

\* FreeCounter, miSyncDestroyFence: every trigger that is left on the list
\* is told.
Destroy(o) ==
    /\ doing = Nothing
    /\ value[o] # Gone
    /\ doing' = [Nothing EXCEPT !.op = "destroy", !.obj = o]
    /\ UNCHANGED <<value, triggerVars, clientVars>>

ProcSyncDestroy(o) == (\E c \in Clients : Ready(c)) /\ Destroy(o)

\* SyncAlarmCounterDestroyed, or SyncAwaitTriggerFired
TellTrigger ==
    /\ doing.op = "destroy"
    /\ \E t \in triglist[doing.obj] :
          \/ /\ t.kind = "alarm"
             /\ alarm' = [alarm EXCEPT ![t.who].active = FALSE,
                                       ![t.who].obj = None]
             /\ triglist' = [triglist EXCEPT ![doing.obj] = @ \ {t}]
             /\ UNCHANGED <<await, ignored>>
          \/ /\ t.kind = "await"
             /\ AwaitFires(t.who)
             /\ UNCHANGED alarm
    /\ UNCHANGED <<value, clientVars, doing>>

ObjectFreed ==
    /\ doing.op = "destroy" /\ triglist[doing.obj] = {}
    /\ value' = [value EXCEPT ![doing.obj] = Gone]
    /\ doing' = Nothing
    /\ UNCHANGED <<triggerVars, clientVars>>

-----------------------------------------------------------------------------
(* Alarms and clients that go away.                                        *)

FreeAlarm(a) ==
    /\ doing = Nothing
    /\ alarm[a] # NoAlarm
    /\ triglist' = [o \in Objects |-> triglist[o] \ {AlarmTrigger(a)}]
    /\ alarm' = [alarm EXCEPT ![a] = NoAlarm]
    /\ UNCHANGED <<value, await, ignored, clientVars, doing>>

ProcSyncDestroyAlarm(a) == (\E c \in Clients : Ready(c)) /\ FreeAlarm(a)

CloseDownClient(c) ==
    /\ Idle /\ c \in running
    /\ running' = running \ {c}
    /\ closing' = c
    /\ UNCHANGED <<value, triggerVars, doing>>

\* FreeClientResources, in the order of the resource table.
FreeClientAlarm(a) == closing = Owner[a] /\ FreeAlarm(a)
FreeClientObject(o) == closing = Owner[o] /\ Destroy(o)

FreeAwait ==
    /\ doing = Nothing /\ closing # NoClient
    /\ await[closing] # <<>>
    /\ FreeTriggers(closing)
    /\ await' = [await EXCEPT ![closing] = <<>>]
    /\ UNCHANGED <<value, alarm, ignored, clientVars, doing>>

ClientFreed ==
    /\ doing = Nothing /\ closing # NoClient
    /\ await[closing] = <<>>
    /\ \A a \in Alarms : Owner[a] = closing => alarm[a] = NoAlarm
    /\ \A o \in Objects : Owner[o] = closing => value[o] = Gone
    /\ closing' = NoClient
    /\ ignored' = ignored \ {closing}
    /\ UNCHANGED <<value, triglist, alarm, await, running, doing>>

-----------------------------------------------------------------------------
Init ==
    /\ value = [o \in Objects |-> Gone]
    /\ triglist = [o \in Objects |-> {}]
    /\ alarm = [a \in Alarms |-> NoAlarm]
    /\ await = [c \in Clients |-> <<>>]
    /\ ignored = {} /\ running = Clients
    /\ closing = NoClient /\ doing = Nothing

\* The server waits for a request.
WaitForSomething == Idle /\ UNCHANGED vars

Request ==
    \/ \E k \in Counters, v \in InitialValues : SyncCreate(k, v)
    \/ \E k \in Counters, v \in SetValues : ProcSyncSetCounter(k, v)
    \/ \E k \in Counters, d \in Increments : ProcSyncChangeCounter(k, d)
    \/ \E f \in Fences, v \in {0, 1} : SyncCreate(f, v)
    \/ \E f \in Fences : ProcSyncTriggerFence(f) \/ ProcSyncResetFence(f)
    \/ \E o \in Objects : ProcSyncDestroy(o)
    \/ \E c \in Clients, w \in Awaits : ProcSyncAwait(c, w)
    \/ \E a \in Alarms, r \in NewAlarms : ProcSyncCreateAlarm(a, r)
    \/ \E a \in Alarms, r \in AlarmChanges :
          ProcSyncChangeAlarm(a, r) \/ ChangeAlarmFails(a, r)
    \/ \E a \in Alarms : ProcSyncDestroyAlarm(a)
    \/ \E c \in Closers : CloseDownClient(c)

ServerStep ==
    \/ WalkPast \/ WalkFire \/ WalkDone
    \/ FenceFires \/ FenceDone
    \/ TellTrigger \/ ObjectFreed
    \/ \E a \in Alarms : FreeClientAlarm(a)
    \/ \E o \in Objects : FreeClientObject(o)
    \/ FreeAwait
    \/ ClientFreed

Next == Request \/ ServerStep \/ WaitForSomething

Spec == Init /\ [][Next]_vars

-----------------------------------------------------------------------------
Doing == [op : {"none", "change", "trigger", "destroy"},
          obj : Objects \cup {None}, old : Int64,
          todo : SUBSET Triggers, next : Triggers \cup {NoTrigger}]

TypeOK ==
    /\ value \in [Objects -> Int64 \cup {Gone}]
    /\ triglist \in [Objects -> SUBSET Triggers]
    /\ alarm \in [Alarms -> Alarm \cup {NoAlarm}]
    /\ await \in [Clients -> Seq(Wait)]
    /\ ignored \subseteq Clients /\ running \subseteq Clients
    /\ closing \in Clients \cup {NoClient}
    /\ doing \in Doing

\* A list holds the triggers of the alarms and Awaits that are on the object
\* and no others: nothing that was freed, whatever the loop that freed it was
\* looking at, and an alarm or an Await is on objects that exist.  The loop
\* of SyncChangeCounter is at a node that is on the list.
ListsAreExact ==
    /\ \A o \in Objects :
          /\ triglist[o] =
                {AlarmTrigger(a) : a \in {b \in Alarms :
                                alarm[b] # NoAlarm /\ alarm[b].obj = o}}
                \cup UNION {{AwaitTrigger(c, i) : i \in
                                {j \in DOMAIN await[c] : await[c][j].obj = o}} :
                            c \in Clients}
          /\ value[o] = Gone => triglist[o] = {}
    /\ doing.next # NoTrigger => doing.next \in triglist[doing.obj]

\* The loop that adds delta ends for every active alarm, whatever becomes of
\* its counter, and each addition moves the test value away from it: a delta
\* that does not was refused, or makes the alarm inactive when it fires
\* (SyncChangeAlarmAttributes, SyncAlarmTriggerFired).
AlarmUpdateEnds ==
    \A a \in Alarms : alarm[a] # NoAlarm /\ alarm[a].active =>
        /\ alarm[a].check \in PositiveTests => alarm[a].delta >= 0
        /\ alarm[a].check \in NegativeTests => alarm[a].delta <= 0
        /\ \A v \in Int64 : Ends(alarm[a], v)

\* Between requests no alarm is left in a state in which its trigger is true:
\* it was "updated by repeatedly adding delta ... until it becomes FALSE", or
\* it is inactive; and the loop that does so ends (SyncAlarmTriggerFired,
\* SyncAlarmCounterDestroyed).
AlarmsAreUpdated ==
    /\ AlarmUpdateEnds
    /\ doing = Nothing =>
        \A a \in Alarms : alarm[a] # NoAlarm /\ alarm[a].active =>
            /\ alarm[a].obj # None
            /\ alarm[a].check \in Comparisons =>
                  ~CheckTrigger(alarm[a], value[alarm[a].obj],
                                value[alarm[a].obj])

\* A bound on the steps that are left before the server is idle again: an
\* Await, an alarm and an object each outweigh all the nodes of a list.
Weight == Cardinality(Triggers) + 2
OneIf(p) == IF p THEN 1 ELSE 0

Work ==
    LET destroyed == IF doing.op = "destroy" THEN doing.obj ELSE None
        alarms == {a \in Alarms : alarm[a] # NoAlarm}
    IN  Weight * (Cardinality({c \in Clients : await[c] # <<>>})
                   + Cardinality({o \in Objects :
                                    value[o] # Gone /\ o # destroyed})
                   + Cardinality(alarms)
                   + Cardinality({a \in alarms : alarm[a].obj # None}))
          + Cardinality(doing.todo)
          + OneIf(doing # Nothing) + OneIf(closing # NoClient)

\* The loops of the server end: SyncChangeCounter starts again at the head of
\* the list only when an Await is gone, never for an alarm, which stays ("would
\* cause an infinite loop when delta is 0"); and freeing the resources of a
\* client comes to an end as well.
LoopsEnd == [][~Idle => Work' < Work]_vars

\* The loop that is under way has to release the client.
Released(c) ==
    \E i \in DOMAIN await[c] :
        /\ doing.op # "none" /\ await[c][i].obj = doing.obj
        /\ doing.op = "destroy"
             \/ CheckTrigger(await[c][i], doing.old, value[doing.obj])

Waiting == INSTANCE AwaitSpec WITH
    value <- [o \in Objects |->
                IF doing.op = "destroy" /\ o = doing.obj THEN Gone
                ELSE value[o]],
    waits <- [c \in Clients |-> IF c \in running THEN await[c] ELSE <<>>],
    blocked <- ignored \cap running,
    due <- {c \in ignored \cap running : Released(c)},
    connected <- running

\* The loops over the lists release the clients whose conditions became true
\* or whose objects are destroyed, all of them before they end and no others,
\* although they remove and revisit nodes as they go (SyncChangeCounter,
\* miSyncTriggerFence, FreeCounter).
ImplementsAwait == Waiting!Spec
=============================================================================
