------------------------- MODULE SyncCountersProofs -------------------------
(***************************************************************************)
(* For any clients, counters, fences, alarms, requests and width of the    *)
(* integers: the variables of SyncCounters keep their types, and the       *)
(* trigger lists are exact (ListsAreExact).  This holds with the requests  *)
(* that fail half way as well: what they break is the alarm, never a list. *)
(* The loops over the lists implement AwaitSpec, and they end.  As long as *)
(* no ChangeAlarm fails half way, the alarms are updated as well.          *)
(***************************************************************************)
EXTENDS SyncCounters, FiniteSetTheorems, NaturalsInduction,
        WellFoundedInduction, TLAPS

\* What is on the list of an object.
AlarmOn(t, o) ==
    \E a \in Alarms :
        t = AlarmTrigger(a) /\ alarm[a] # NoAlarm /\ alarm[a].obj = o
AwaitOn(t, o) ==
    \E c \in Clients : \E i \in DOMAIN await[c] :
        t = AwaitTrigger(c, i) /\ await[c][i].obj = o

ListsInv ==
    \A o \in Objects : \A t \in Triggers :
        t \in triglist[o] <=> AlarmOn(t, o) \/ AwaitOn(t, o)

GoneInv == \A o \in Objects : value[o] = Gone => triglist[o] = {}

\* The loop of SyncChangeCounter has tried every Await that it has left
\* behind.
LoopInv ==
    /\ doing.op = "none" => doing = Nothing
    /\ doing.op # "none" => doing.obj \in Objects /\ value[doing.obj] # Gone
    /\ doing.op = "change" =>
          /\ doing.obj \in Counters
          /\ doing.todo \subseteq triglist[doing.obj]
          /\ \/ doing.next \in doing.todo
             \/ doing.next = NoTrigger /\ doing.todo = {}
          /\ \A t \in triglist[doing.obj] \ doing.todo :
                t.kind = "await" => ~Fires(t)
    /\ doing.op # "change" => doing.next = NoTrigger
    /\ doing.op = "trigger" => doing.obj \in Fences /\ value[doing.obj] = 1

AwaitInv ==
    /\ \A c \in Clients :
          /\ c \in running /\ await[c] # <<>> => c \in ignored
          /\ \A i \in DOMAIN await[c] :
                /\ i \in Items
                /\ (await[c][i].obj \in Fences) = (await[c][i].check = "Fence")
    /\ closing \notin running

ListInv == TypeOK /\ ListsInv /\ GoneInv
SyncInv == ListInv /\ LoopInv /\ AwaitInv

-----------------------------------------------------------------------------
(* Types.                                                                  *)

LEMMA IntFacts == /\ MinInt \in Int /\ MaxInt \in Int /\ MinInt < 0 /\ MaxInt > 0
                  /\ 0 \in Int64 /\ 1 \in Int64 /\ Int64 \subseteq Int
BY IntAssumption DEF Int64

LEMMA WrapType == \A x \in Int : Wrap(x) \in Int64
<1> SUFFICES ASSUME NEW x \in Int PROVE Wrap(x) \in Int64
  OBVIOUS
<1> DEFINE m == MaxInt - MinInt + 1
<1>1. m \in Int /\ m > 0 /\ x - MinInt \in Int
  BY IntFacts
<1>2. (x - MinInt) % m \in 0..(m - 1)
  <2> HIDE DEF m
  <2> QED BY <1>1
<1>3. Wrap(x) = ((x - MinInt) % m) + MinInt
  BY DEF Wrap
<1> HIDE DEF m
<1>4. MaxInt = m + MinInt - 1
  BY IntFacts DEF m
<1> QED BY <1>1, <1>2, <1>3, <1>4, IntFacts DEF Int64

LEMMA TriggerFacts ==
    /\ \A a \in Alarms : AlarmTrigger(a) \in Triggers
    /\ \A c \in Clients, i \in Items : AwaitTrigger(c, i) \in Triggers
    /\ \A t \in Triggers :
          \/ t.kind = "alarm" /\ t.who \in Alarms /\ t = AlarmTrigger(t.who)
          \/ /\ t.kind = "await" /\ t.who \in Clients /\ t.item \in Items
             /\ t = AwaitTrigger(t.who, t.item)
    /\ NoTrigger.kind = "none" /\ NoTrigger \notin Triggers
    /\ \A a : AlarmTrigger(a).kind = "alarm" /\ AlarmTrigger(a).who = a
    /\ \A c, i : /\ AwaitTrigger(c, i).kind = "await"
                 /\ AwaitTrigger(c, i).who = c /\ AwaitTrigger(c, i).item = i
<1>1. /\ \A a : AlarmTrigger(a).kind = "alarm" /\ AlarmTrigger(a).who = a
      /\ NoTrigger.kind = "none"
  BY DEF AlarmTrigger, NoTrigger
<1>2. \A c, i : /\ AwaitTrigger(c, i).kind = "await"
                /\ AwaitTrigger(c, i).who = c /\ AwaitTrigger(c, i).item = i
  BY DEF AwaitTrigger
<1>3. \A a \in Alarms : AlarmTrigger(a) \in Triggers
  BY DEF Triggers
<1>4. \A c \in Clients, i \in Items : AwaitTrigger(c, i) \in Triggers
  BY DEF Triggers
<1>5. ASSUME NEW t \in Triggers
      PROVE  \/ t.kind = "alarm" /\ t.who \in Alarms /\ t = AlarmTrigger(t.who)
             \/ /\ t.kind = "await" /\ t.who \in Clients /\ t.item \in Items
                /\ t = AwaitTrigger(t.who, t.item)
  <2>1. CASE \E a \in Alarms : t = AlarmTrigger(a)
    BY <2>1, <1>1
  <2>2. CASE \E c \in Clients, i \in Items : t = AwaitTrigger(c, i)
    BY <2>2, <1>2
  <2> QED BY <2>1, <2>2 DEF Triggers
<1> QED BY <1>1, <1>2, <1>3, <1>4, <1>5

LEMMA AlarmFacts ==
    /\ \A al \in Alarm :
          /\ al.obj \in Counters \cup {None}
          /\ al.vtype \in ValueTypes \cup {"invalid"}
          /\ al.wait \in Int64 /\ al.test \in Int64
          /\ al.type \in Tests \cup {"invalid"} /\ al.check \in Tests
          /\ al.delta \in Int64 /\ al.active \in BOOLEAN
          /\ al # NoAlarm
    /\ DefaultAlarm \in Alarm
<1>1. \A al \in Alarm :
          /\ al.obj \in Counters \cup {None}
          /\ al.vtype \in ValueTypes \cup {"invalid"}
          /\ al.wait \in Int64 /\ al.test \in Int64
          /\ al.type \in Tests \cup {"invalid"} /\ al.check \in Tests
          /\ al.delta \in Int64 /\ al.active \in BOOLEAN
          /\ al # NoAlarm
  BY NoAlarmAssumption DEF Alarm
<1>2. DefaultAlarm \in Alarm
  BY IntFacts DEF DefaultAlarm, Alarm, ValueTypes, Tests, PositiveTests, NegativeTests
<1> QED BY <1>1, <1>2

LEMMA FiredAlarmType ==
    ASSUME NEW al \in Alarm, NEW v
    PROVE  FiredAlarm(al, v) \in Alarm /\ FiredAlarm(al, v).obj = al.obj
<1>1. [al EXCEPT !.active = FALSE] \in Alarm
      /\ [al EXCEPT !.active = FALSE].obj = al.obj
  BY DEF Alarm
<1>2. \A n \in Int64 : /\ [al EXCEPT !.test = n] \in Alarm
                       /\ [al EXCEPT !.test = n].obj = al.obj
  BY DEF Alarm
<1>3. Update(al, v) \in Alarm /\ Update(al, v).obj = al.obj
  BY <1>1, <1>2 DEF Update
<1> QED BY <1>1, <1>3 DEF FiredAlarm

LEMMA ObjectFacts ==
    /\ Counters \subseteq Objects /\ Fences \subseteq Objects
    /\ None \notin Objects /\ None \notin Counters
    /\ Keep \notin Counters /\ Keep # None
    /\ \A f \in Fences : f \notin Counters
BY ObjectsAssumption, RequestsAssumption DEF Objects

LEMMA AlarmExists ==
    ASSUME ListInv, NEW a \in Alarms, alarm[a] # NoAlarm
    PROVE  /\ alarm[a] \in Alarm
           /\ alarm[a].obj # None =>
                 /\ alarm[a].obj \in Counters
                 /\ value[alarm[a].obj] \in Int64
                 /\ AlarmTrigger(a) \in triglist[alarm[a].obj]
<1>1. alarm[a] \in Alarm
  BY DEF ListInv, TypeOK
<1>2. ASSUME alarm[a].obj # None
      PROVE  alarm[a].obj \in Counters /\ alarm[a].obj \in Objects
  BY <1>1, <1>2, AlarmFacts, ObjectFacts
<1>3. ASSUME alarm[a].obj # None
      PROVE  AlarmTrigger(a) \in triglist[alarm[a].obj]
  BY <1>2, <1>3, TriggerFacts DEF ListInv, ListsInv, AlarmOn
<1>4. ASSUME alarm[a].obj # None
      PROVE  value[alarm[a].obj] \in Int64
  BY <1>2, <1>3, <1>4 DEF ListInv, GoneInv, TypeOK
<1> QED BY <1>1, <1>2, <1>3, <1>4

LEMMA AwaitExists ==
    ASSUME ListInv, AwaitInv, NEW c \in Clients, NEW i \in DOMAIN await[c]
    PROVE  /\ await[c][i] \in Wait /\ await[c][i].obj \in Objects
           /\ value[await[c][i].obj] \in Int64
           /\ AwaitTrigger(c, i) \in Triggers
           /\ AwaitTrigger(c, i) \in triglist[await[c][i].obj]
<1>1. await[c][i] \in Wait /\ await[c][i].obj \in Objects
  <2>1. await[c] \in Seq(Wait)
    BY DEF ListInv, TypeOK
  <2>2. await[c][i] \in Wait
    BY <2>1
  <2> QED BY <2>2 DEF Wait
<1>2. AwaitTrigger(c, i) \in Triggers
  BY TriggerFacts DEF AwaitInv
<1>3. AwaitTrigger(c, i) \in triglist[await[c][i].obj]
  BY <1>1, <1>2 DEF ListInv, ListsInv, AwaitOn
<1>4. value[await[c][i].obj] \in Int64
  BY <1>1, <1>3 DEF ListInv, GoneInv, TypeOK
<1> QED BY <1>1, <1>2, <1>3, <1>4

LEMMA AttributeFacts ==
    \A r \in Attributes :
        /\ r.obj \in Counters \cup {None, Keep}
        /\ r.vtype \in ValueTypes \cup {"invalid", Keep}
        /\ r.wait \in Int64 \cup {Keep}
        /\ r.type \in Tests \cup {"invalid", Keep}
        /\ r.delta \in Int64 \cup {Keep}
BY DEF Attributes

LEMMA StoredType ==
    ASSUME NEW al \in Alarm, NEW r \in Attributes
    PROVE  Stored(al, r) \in Alarm /\ Stored(al, r).obj = al.obj
<1> DEFINE t == Or(r.vtype, al.vtype)
           w == Or(r.wait, al.wait)
           y == Or(r.type, al.type)
           d == Or(r.delta, al.delta)
<1>1. t \in ValueTypes \cup {"invalid"} /\ w \in Int64
  BY AttributeFacts, AlarmFacts DEF Or
<1>2. y \in Tests \cup {"invalid"} /\ d \in Int64
  BY AttributeFacts, AlarmFacts DEF Or
<1>3. Stored(al, r) = [al EXCEPT !.vtype = t, !.wait = w, !.type = y,
                                 !.delta = d]
  BY DEF Stored
<1> HIDE DEF t, w, y, d
<1> QED BY <1>1, <1>2, <1>3 DEF Alarm

\* Where SyncInitTrigger puts the trigger.
LEMMA NewObjectExists ==
    ASSUME TypeOK, NEW al \in Alarm, NEW r \in Attributes, ~BadObject(r),
           al.obj # None => value[al.obj] \in Int64
    PROVE  /\ NewObject(al, r) \in Counters \cup {None}
           /\ NewObject(al, r) # None => value[NewObject(al, r)] \in Int64
<1>1. NewObject(al, r) \in Counters \cup {None}
  BY AttributeFacts, AlarmFacts DEF NewObject, Or
<1>2. ASSUME NewObject(al, r) # None
      PROVE  value[NewObject(al, r)] \in Int64
  BY <1>1, <1>2, AttributeFacts, AlarmFacts, ObjectFacts
     DEF NewObject, Or, BadObject, TypeOK
<1> QED BY <1>1, <1>2

LEMMA WithValueType ==
    ASSUME TypeOK, NEW al \in Alarm, NEW r \in Attributes,
           al.obj # None => value[al.obj] \in Int64
    PROVE  WithValue(al, r) \in Alarm /\ WithValue(al, r).obj = al.obj
<1>1. CASE \/ BadObject(r) \/ BadValueType(r)
           \/ RelativeToNone(al, r) \/ ~ValueChanges(r)
  BY <1>1 DEF WithValue
<1>2. CASE ~(\/ BadObject(r) \/ BadValueType(r)
             \/ RelativeToNone(al, r) \/ ~ValueChanges(r))
  <2> DEFINE v == IF al.vtype = "Absolute" THEN al.wait
                  ELSE Wrap(value[NewObject(al, r)] + al.wait)
  <2>1. CASE al.vtype = "Absolute"
    BY <2>1, AlarmFacts DEF WithValue, Alarm
  <2>2. CASE al.vtype # "Absolute"
    <3>1. NewObject(al, r) # None
      BY <2>2, <1>2, AlarmFacts DEF RelativeToNone, ValueTypes
    <3>2. value[NewObject(al, r)] \in Int64
      BY <3>1, <1>2, NewObjectExists
    <3>3. v \in Int64
      <4>1. al.wait \in Int /\ value[NewObject(al, r)] \in Int
        BY <3>2, IntFacts, AlarmFacts
      <4>2. value[NewObject(al, r)] + al.wait \in Int
        BY <4>1
      <4> QED BY <4>2, <2>2, WrapType
    <3>4. WithValue(al, r) = [al EXCEPT !.test = v]
      BY <1>2 DEF WithValue
    <3> HIDE DEF v
    <3> QED BY <3>3, <3>4 DEF Alarm
  <2> QED BY <2>1, <2>2
<1> QED BY <1>1, <1>2

LEMMA ChangedType ==
    ASSUME TypeOK, NEW al \in Alarm, NEW r \in Attributes, Succeeds(al, r),
           al.obj # None => value[al.obj] \in Int64
    PROVE  /\ Changed(al, r) \in Alarm
           /\ Changed(al, r).obj \in Counters \cup {None}
           /\ Changed(al, r).obj # None =>
                 value[Changed(al, r).obj] \in Int64
<1> DEFINE s == Stored(al, r)
           w == WithValue(s, r)
<1>1. s \in Alarm /\ s.obj = al.obj
  BY StoredType
<1>2. w \in Alarm /\ w.obj = al.obj
  BY <1>1, WithValueType
<1>3. ~BadObject(r) /\ r.type # "invalid"
  BY DEF Succeeds, InitFails
<1>4. /\ NewObject(s, r) \in Counters \cup {None}
      /\ NewObject(s, r) # None => value[NewObject(s, r)] \in Int64
  BY <1>1, <1>3, NewObjectExists
<1>5. Or(r.type, w.check) \in Tests
  BY <1>2, <1>3, AttributeFacts, AlarmFacts DEF Or
<1>6. Changed(al, r) = [[w EXCEPT !.check = Or(r.type, @),
                                  !.obj = NewObject(s, r)]
                          EXCEPT !.active = TRUE]
  BY DEF Changed, SyncInitTrigger
<1> HIDE DEF s, w
<1>7. Changed(al, r) \in Alarm /\ Changed(al, r).obj = NewObject(s, r)
  BY <1>2, <1>4, <1>5, <1>6 DEF Alarm
<1> QED BY <1>4, <1>7

-----------------------------------------------------------------------------
(* How the lists follow the alarms and the Awaits.                         *)

LEMMA AlarmMoves ==
    ASSUME ListsInv, alarm \in [Alarms -> Alarm \cup {NoAlarm}],
           NEW a \in Alarms, NEW x \in Alarm \cup {NoAlarm},
           alarm' = [alarm EXCEPT ![a] = x], UNCHANGED await,
           \A o \in Objects : \A t \in Triggers :
               t \in triglist'[o] <=> IF t = AlarmTrigger(a)
                                      THEN x # NoAlarm /\ x.obj = o
                                      ELSE t \in triglist[o]
    PROVE  ListsInv'
<1> SUFFICES ASSUME NEW o \in Objects, NEW t \in Triggers
             PROVE  t \in triglist'[o] <=> AlarmOn(t, o)' \/ AwaitOn(t, o)'
  BY DEF ListsInv
<1>1. AwaitOn(t, o)' <=> AwaitOn(t, o)
  BY DEF AwaitOn
<1>2. CASE t = AlarmTrigger(a)
  <2>1. ~AwaitOn(t, o)
    BY <1>2, TriggerFacts DEF AwaitOn
  <2>2. AlarmOn(t, o)' <=> alarm'[a] # NoAlarm /\ alarm'[a].obj = o
    BY <1>2, TriggerFacts DEF AlarmOn
  <2> QED BY <1>1, <1>2, <2>1, <2>2
<1>3. CASE t # AlarmTrigger(a)
  <2>1. AlarmOn(t, o)' <=> AlarmOn(t, o)
    BY <1>3 DEF AlarmOn
  <2> QED BY <1>1, <1>3, <2>1 DEF ListsInv
<1> QED BY <1>2, <1>3

LEMMA AlarmStays ==
    ASSUME ListInv, NEW a \in Alarms, alarm[a] # NoAlarm,
           NEW x \in Alarm, x.obj = alarm[a].obj,
           alarm' = [alarm EXCEPT ![a] = x], UNCHANGED <<await, triglist>>
    PROVE  ListsInv'
<1>1. ASSUME NEW o \in Objects
      PROVE  AlarmTrigger(a) \in triglist[o] <=> alarm[a].obj = o
  <2>1. AlarmTrigger(a) \in Triggers
    BY TriggerFacts
  <2>2. ~AwaitOn(AlarmTrigger(a), o)
    BY TriggerFacts DEF AwaitOn
  <2>3. AlarmOn(AlarmTrigger(a), o) <=> alarm[a].obj = o
    BY TriggerFacts DEF AlarmOn
  <2> QED BY <2>1, <2>2, <2>3 DEF ListInv, ListsInv
<1>2. x # NoAlarm /\ alarm \in [Alarms -> Alarm \cup {NoAlarm}] /\ ListsInv
  BY AlarmFacts DEF ListInv, TypeOK
<1>3. \A o \in Objects : \A t \in Triggers :
          t \in triglist'[o] <=> IF t = AlarmTrigger(a)
                                 THEN x # NoAlarm /\ x.obj = o
                                 ELSE t \in triglist[o]
  BY <1>1, <1>2
<1>4. UNCHANGED await
  OBVIOUS
<1> QED BY <1>2, <1>3, <1>4, AlarmMoves

LEMMA AwaitGoes ==
    ASSUME ListInv, AwaitInv, NEW c \in Clients, FreeTriggers(c),
           await' = [await EXCEPT ![c] = <<>>], UNCHANGED alarm
    PROVE  /\ ListsInv'
           /\ triglist' \in [Objects -> SUBSET Triggers]
           /\ await' \in [Clients -> Seq(Wait)]
           /\ \A o \in Objects :
                 /\ triglist'[o] \subseteq triglist[o]
                 /\ \A t \in triglist[o] :
                       t \in triglist'[o] <=> ~(t.kind = "await" /\ t.who = c)
<1>1. await \in [Clients -> Seq(Wait)] /\ triglist \in [Objects -> SUBSET Triggers]
  BY DEF ListInv, TypeOK
<1>2. await' \in [Clients -> Seq(Wait)] /\ await'[c] = <<>>
  BY <1>1
<1>3. /\ triglist' \in [Objects -> SUBSET Triggers]
      /\ \A o \in Objects : triglist'[o] = triglist[o] \ TriggersOf(c)
  BY <1>1 DEF FreeTriggers
<1>4. ASSUME NEW o \in Objects, NEW t \in triglist[o]
      PROVE  t \in TriggersOf(c) <=> t.kind = "await" /\ t.who = c
  <2>1. t \in Triggers
    BY <1>1
  <2>2. ASSUME t \in TriggersOf(c)
        PROVE  t.kind = "await" /\ t.who = c
    BY <2>2, TriggerFacts DEF TriggersOf
  <2>3. ASSUME t.kind = "await", t.who = c
        PROVE  t \in TriggersOf(c)
    <3>1. ~AlarmOn(t, o)
      BY <2>3, TriggerFacts DEF AlarmOn
    <3>2. AwaitOn(t, o)
      BY <2>1, <3>1 DEF ListInv, ListsInv
    <3>3. PICK d \in Clients : \E i \in DOMAIN await[d] : t = AwaitTrigger(d, i)
      BY <3>2 DEF AwaitOn
    <3>4. d = c
      BY <3>3, <2>3, TriggerFacts
    <3> QED BY <3>3, <3>4 DEF TriggersOf
  <2> QED BY <2>2, <2>3
<1>5. ASSUME NEW o \in Objects, NEW t \in Triggers
      PROVE  t \in triglist'[o] <=> AlarmOn(t, o)' \/ AwaitOn(t, o)'
  <2>1. AlarmOn(t, o)' <=> AlarmOn(t, o)
    BY DEF AlarmOn
  <2>2. AlarmOn(t, o) => t \notin TriggersOf(c)
    BY TriggerFacts DEF AlarmOn, TriggersOf
  <2>3. AwaitOn(t, o)' <=> AwaitOn(t, o) /\ t \notin TriggersOf(c)
    <3>1. ASSUME AwaitOn(t, o)'
          PROVE  AwaitOn(t, o) /\ t \notin TriggersOf(c)
      <4>1. PICK d \in Clients : \E i \in DOMAIN await'[d] :
                   t = AwaitTrigger(d, i) /\ await'[d][i].obj = o
        BY <3>1 DEF AwaitOn
      <4>2. d # c
        BY <4>1, <1>2
      <4>3. await'[d] = await[d]
        BY <4>2, <1>1
      <4> QED BY <4>1, <4>2, <4>3, TriggerFacts DEF AwaitOn, TriggersOf
    <3>2. ASSUME AwaitOn(t, o), t \notin TriggersOf(c)
          PROVE  AwaitOn(t, o)'
      <4>1. PICK d \in Clients : \E i \in DOMAIN await[d] :
                   t = AwaitTrigger(d, i) /\ await[d][i].obj = o
        BY <3>2 DEF AwaitOn
      <4>2. d # c
        BY <4>1, <3>2 DEF TriggersOf
      <4>3. await'[d] = await[d]
        BY <4>2, <1>1
      <4> QED BY <4>1, <4>3 DEF AwaitOn
    <3> QED BY <3>1, <3>2
  <2> QED BY <2>1, <2>2, <2>3, <1>3 DEF ListInv, ListsInv
<1>6. ListsInv'
  BY <1>5 DEF ListsInv
<1> QED BY <1>2, <1>3, <1>4, <1>6

-----------------------------------------------------------------------------
(* Steps that change no list.                                              *)

LEMMA NothingFacts ==
    /\ Nothing \in Doing /\ Nothing.op = "none" /\ Nothing.obj = None
    /\ Nothing.old = 0 /\ Nothing.todo = {} /\ Nothing.next = NoTrigger
BY IntFacts DEF Nothing, Doing

LEMMA ListsUnchanged ==
    ListsInv /\ UNCHANGED <<triglist, alarm, await>> => ListsInv'
BY DEF ListsInv, AlarmOn, AwaitOn

LEMMA AwaitUnchanged ==
    AwaitInv /\ UNCHANGED <<await, ignored, running, closing>> => AwaitInv'
BY DEF AwaitInv

LEMMA IdleLoop == doing' = Nothing => LoopInv'
BY NothingFacts DEF LoopInv

LEMMA IdleIsNothing == LoopInv /\ doing.op = "none" => doing = Nothing
BY DEF LoopInv

LEMMA ValuesInt64 ==
    /\ InitialValues \subseteq Int64 /\ SetValues \subseteq Int64
    /\ Increments \subseteq Int64 /\ Gone \notin Int64
    /\ \A v \in {0, 1} : v \in Int64
BY ValuesAssumption, IntFacts

LEMMA CreateKeeps ==
    ASSUME SyncInv, NEW o \in Objects, NEW v \in Int64, SyncCreate(o, v)
    PROVE  SyncInv'
<1>1. TypeOK'
  BY DEF SyncInv, ListInv, TypeOK, SyncCreate, triggerVars, clientVars
<1>2. ListsInv' /\ AwaitInv'
  BY ListsUnchanged, AwaitUnchanged
     DEF SyncInv, ListInv, SyncCreate, triggerVars, clientVars
<1>3. GoneInv'
  BY ValuesInt64
     DEF SyncInv, ListInv, TypeOK, GoneInv, SyncCreate, triggerVars
<1>4. LoopInv'
  BY IdleLoop DEF SyncCreate, Ready, Idle
<1> QED BY <1>1, <1>2, <1>3, <1>4 DEF SyncInv, ListInv

LEMMA NodesFacts ==
    \A S : \A t \in Nodes(S) : t \in S \/ (t = NoTrigger /\ S = {})
BY DEF Nodes

LEMMA ChangeCounterKeeps ==
    ASSUME SyncInv, NEW k \in Counters, NEW v \in Int64,
           SyncChangeCounter(k, v)
    PROVE  SyncInv'
<1>1. PICK t \in Nodes(triglist[k]) :
          doing' = [op |-> "change", obj |-> k, old |-> value[k],
                    todo |-> triglist[k], next |-> t]
  BY DEF SyncChangeCounter
<1>2. /\ value[k] # Gone /\ value' = [value EXCEPT ![k] = v]
      /\ UNCHANGED <<triggerVars, clientVars>>
  BY DEF SyncChangeCounter
<1>3. k \in Objects /\ value[k] \in Int64 /\ triglist[k] \subseteq Triggers
  BY <1>2, ObjectFacts DEF SyncInv, ListInv, TypeOK
<1>4. t \in triglist[k] \/ (t = NoTrigger /\ triglist[k] = {})
  BY NodesFacts
<1>5. doing' \in Doing
  BY <1>1, <1>3, <1>4 DEF Doing
<1>6. TypeOK'
  BY <1>2, <1>5 DEF SyncInv, ListInv, TypeOK, triggerVars, clientVars
<1>7. ListsInv' /\ AwaitInv'
  BY <1>2, ListsUnchanged, AwaitUnchanged
     DEF SyncInv, ListInv, triggerVars, clientVars
<1>8. GoneInv'
  BY <1>2, ValuesInt64 DEF SyncInv, ListInv, TypeOK, GoneInv, triggerVars
<1>9. LoopInv'
  <2>1. value'[k] # Gone
    BY <1>2, <1>3, ValuesInt64 DEF SyncInv, ListInv, TypeOK
  <2>2. triglist' = triglist
    BY <1>2 DEF triggerVars
  <2> QED BY <1>1, <1>3, <1>4, <2>1, <2>2 DEF LoopInv
<1> QED BY <1>6, <1>7, <1>8, <1>9 DEF SyncInv, ListInv

LEMMA WalkPastKeeps == SyncInv /\ WalkPast => SyncInv'
<1> SUFFICES ASSUME SyncInv, WalkPast PROVE SyncInv'
  OBVIOUS
<1> DEFINE rest == doing.todo \ {doing.next}
<1>1. PICK p \in Nodes(rest) :
          doing' = [doing EXCEPT !.todo = rest, !.next = p]
  BY DEF WalkPast
<1>2. p \in rest \/ (p = NoTrigger /\ rest = {})
  BY NodesFacts
<1>3. doing \in Doing /\ rest \subseteq Triggers
  BY DEF SyncInv, ListInv, TypeOK, Doing
<1>4. /\ doing'.op = doing.op /\ doing'.obj = doing.obj
      /\ doing'.old = doing.old /\ doing'.todo = rest /\ doing'.next = p
      /\ doing' \in Doing
  BY <1>1, <1>2, <1>3 DEF Doing
<1>5. /\ doing.op = "change" /\ doing.next # NoTrigger /\ ~Fires(doing.next)
      /\ UNCHANGED <<value, triggerVars, clientVars>>
  BY DEF WalkPast
<1> HIDE DEF rest
<1>6. TypeOK' /\ GoneInv'
  BY <1>4, <1>5 DEF SyncInv, ListInv, TypeOK, GoneInv, triggerVars, clientVars
<1>7. ListsInv' /\ AwaitInv'
  BY <1>5, ListsUnchanged, AwaitUnchanged
     DEF SyncInv, ListInv, triggerVars, clientVars
<1>8. LoopInv'
  <2>1. \A t : Fires(t)' <=> Fires(t)
    BY <1>4, <1>5 DEF Fires, Trigger, triggerVars
  <2>2. rest \subseteq triglist[doing.obj]
    BY <1>5 DEF SyncInv, LoopInv, rest
  <2>3. ASSUME NEW t \in triglist[doing.obj] \ rest, t.kind = "await"
        PROVE  ~Fires(t)
    BY <2>3, <1>5 DEF SyncInv, LoopInv, rest
  <2> QED BY <1>2, <1>4, <1>5, <2>1, <2>2, <2>3
          DEF SyncInv, LoopInv, triggerVars
<1> QED BY <1>6, <1>7, <1>8 DEF SyncInv, ListInv

\* A loop ends, or a fence is reset or triggered.
LEMMA LoopEndKeeps == SyncInv /\ (WalkDone \/ FenceDone) => SyncInv'
<1> SUFFICES ASSUME SyncInv, WalkDone \/ FenceDone PROVE SyncInv'
  OBVIOUS
<1>1. doing' = Nothing /\ UNCHANGED <<value, triggerVars, clientVars>>
  BY DEF WalkDone, FenceDone
<1>2. TypeOK' /\ GoneInv'
  BY <1>1, NothingFacts
     DEF SyncInv, ListInv, TypeOK, GoneInv, triggerVars, clientVars
<1>3. ListsInv' /\ AwaitInv'
  BY <1>1, ListsUnchanged, AwaitUnchanged
     DEF SyncInv, ListInv, triggerVars, clientVars
<1> QED BY <1>1, <1>2, <1>3, IdleLoop DEF SyncInv, ListInv

LEMMA ResetFenceKeeps ==
    ASSUME SyncInv, NEW f \in Fences, ProcSyncResetFence(f)
    PROVE  SyncInv'
<1>1. /\ value[f] = 1 /\ value' = [value EXCEPT ![f] = 0]
      /\ UNCHANGED <<triggerVars, clientVars, doing>> /\ doing = Nothing
  BY DEF ProcSyncResetFence, Ready, Idle
<1>2. f \in Objects
  BY ObjectFacts
<1>3. TypeOK'
  BY <1>1, <1>2, IntFacts DEF SyncInv, ListInv, TypeOK, triggerVars, clientVars
<1>4. ListsInv' /\ AwaitInv'
  BY <1>1, ListsUnchanged, AwaitUnchanged
     DEF SyncInv, ListInv, triggerVars, clientVars
<1>5. GoneInv'
  BY <1>1, <1>2, ValuesInt64 DEF SyncInv, ListInv, TypeOK, GoneInv, triggerVars
<1> QED BY <1>1, <1>3, <1>4, <1>5, IdleLoop DEF SyncInv, ListInv

LEMMA TriggerFenceKeeps ==
    ASSUME SyncInv, NEW f \in Fences, ProcSyncTriggerFence(f)
    PROVE  SyncInv'
<1>1. /\ value[f] # Gone /\ value' = [value EXCEPT ![f] = 1]
      /\ doing' = [Nothing EXCEPT !.op = "trigger", !.obj = f,
                                  !.old = value[f]]
      /\ UNCHANGED <<triggerVars, clientVars>>
  BY DEF ProcSyncTriggerFence
<1>2. f \in Objects /\ value[f] \in Int64
  BY <1>1, ObjectFacts DEF SyncInv, ListInv, TypeOK
<1>3. /\ doing' \in Doing
      /\ doing'.op = "trigger" /\ doing'.obj = f /\ doing'.old = value[f]
      /\ doing'.next = NoTrigger
  BY <1>1, <1>2 DEF Nothing, Doing
<1>4. TypeOK'
  BY <1>1, <1>2, <1>3, IntFacts
     DEF SyncInv, ListInv, TypeOK, triggerVars, clientVars
<1>5. ListsInv' /\ AwaitInv'
  BY <1>1, ListsUnchanged, AwaitUnchanged
     DEF SyncInv, ListInv, triggerVars, clientVars
<1>6. GoneInv'
  BY <1>1, <1>2, ValuesInt64 DEF SyncInv, ListInv, TypeOK, GoneInv, triggerVars
<1>7. value'[f] = 1 /\ value'[f] # Gone
  BY <1>1, <1>2, ValuesInt64 DEF SyncInv, ListInv, TypeOK
<1>8. LoopInv'
  BY <1>2, <1>3, <1>7 DEF LoopInv
<1> QED BY <1>4, <1>5, <1>6, <1>8 DEF SyncInv, ListInv

LEMMA DestroyKeeps ==
    ASSUME SyncInv, NEW o \in Objects, Destroy(o)
    PROVE  SyncInv'
<1>1. /\ value[o] # Gone
      /\ doing' = [Nothing EXCEPT !.op = "destroy", !.obj = o]
      /\ UNCHANGED <<value, triggerVars, clientVars>>
  BY DEF Destroy
<1>2. /\ doing' \in Doing
      /\ doing'.op = "destroy" /\ doing'.obj = o /\ doing'.next = NoTrigger
  BY <1>1, IntFacts DEF Nothing, Doing
<1>3. TypeOK' /\ GoneInv'
  BY <1>1, <1>2 DEF SyncInv, ListInv, TypeOK, GoneInv, triggerVars, clientVars
<1>4. ListsInv' /\ AwaitInv'
  BY <1>1, ListsUnchanged, AwaitUnchanged
     DEF SyncInv, ListInv, triggerVars, clientVars
<1>5. LoopInv'
  BY <1>1, <1>2 DEF LoopInv
<1> QED BY <1>3, <1>4, <1>5 DEF SyncInv, ListInv

LEMMA ObjectFreedKeeps == SyncInv /\ ObjectFreed => SyncInv'
<1> SUFFICES ASSUME SyncInv, ObjectFreed PROVE SyncInv'
  OBVIOUS
<1>1. /\ doing.op = "destroy" /\ triglist[doing.obj] = {}
      /\ value' = [value EXCEPT ![doing.obj] = Gone]
      /\ doing' = Nothing /\ UNCHANGED <<triggerVars, clientVars>>
  BY DEF ObjectFreed
<1>2. doing.obj \in Objects
  BY <1>1 DEF SyncInv, LoopInv
<1>3. TypeOK'
  BY <1>1, <1>2, NothingFacts
     DEF SyncInv, ListInv, TypeOK, triggerVars, clientVars
<1>4. GoneInv'
  BY <1>1, <1>2 DEF SyncInv, ListInv, TypeOK, GoneInv, triggerVars
<1>5. ListsInv' /\ AwaitInv'
  BY <1>1, ListsUnchanged, AwaitUnchanged
     DEF SyncInv, ListInv, triggerVars, clientVars
<1> QED BY <1>1, <1>3, <1>4, <1>5, IdleLoop DEF SyncInv, ListInv

-----------------------------------------------------------------------------
(* Triggers that fire.                                                     *)

\* What all the callers of SyncAwaitTriggerFired have in common.
LEMMA AwaitFiresKeeps ==
    ASSUME SyncInv, NEW c \in Clients, AwaitFires(c),
           UNCHANGED <<value, alarm, running, closing>>
    PROVE  /\ ListsInv' /\ GoneInv' /\ AwaitInv'
           /\ triglist' \in [Objects -> SUBSET Triggers]
           /\ await' \in [Clients -> Seq(Wait)]
           /\ ignored' \subseteq Clients
           /\ \A o \in Objects :
                 /\ triglist'[o] \subseteq triglist[o]
                 /\ \A t \in triglist[o] :
                       t \in triglist'[o] <=> ~(t.kind = "await" /\ t.who = c)
<1>1. /\ FreeTriggers(c) /\ await' = [await EXCEPT ![c] = <<>>]
      /\ ignored' = ignored \ ({c} \cap running)
  BY DEF AwaitFires
<1>2. ListInv /\ AwaitInv
  BY DEF SyncInv
<1>3. /\ ListsInv'
      /\ triglist' \in [Objects -> SUBSET Triggers]
      /\ await' \in [Clients -> Seq(Wait)]
      /\ \A o \in Objects :
            /\ triglist'[o] \subseteq triglist[o]
            /\ \A t \in triglist[o] :
                  t \in triglist'[o] <=> ~(t.kind = "await" /\ t.who = c)
  BY <1>1, <1>2, AwaitGoes
<1>4. GoneInv'
  BY <1>2, <1>3 DEF ListInv, GoneInv
<1>5. ignored' \subseteq Clients
  BY <1>1, <1>2 DEF ListInv, TypeOK
<1>6. AwaitInv'
  <2>1. await \in [Clients -> Seq(Wait)]
    BY <1>2 DEF ListInv, TypeOK
  <2>2. ASSUME NEW d \in Clients
        PROVE  /\ d \in running' /\ await'[d] # <<>> => d \in ignored'
               /\ \A i \in DOMAIN await'[d] :
                     /\ i \in Items
                     /\ (await'[d][i].obj \in Fences)
                           = (await'[d][i].check = "Fence")
    <3>1. CASE d = c
      BY <3>1, <1>1, <2>1
    <3>2. CASE d # c
      <4>1. await'[d] = await[d]
        BY <3>2, <1>1, <2>1
      <4> QED BY <4>1, <3>2, <1>1, <1>2 DEF AwaitInv
    <3> QED BY <3>1, <3>2
  <2> QED BY <2>2, <1>2 DEF AwaitInv
<1> QED BY <1>3, <1>4, <1>5, <1>6

\* What a trigger that is on a list belongs to.
LEMMA OnList ==
    ASSUME ListInv, NEW o \in Objects, NEW t \in triglist[o]
    PROVE  /\ t \in Triggers
           /\ \/ /\ t.kind = "alarm" /\ t.who \in Alarms
                 /\ alarm[t.who] # NoAlarm /\ alarm[t.who].obj = o
              \/ /\ t.kind = "await" /\ t.who \in Clients
                 /\ t.item \in DOMAIN await[t.who]
                 /\ await[t.who][t.item].obj = o
<1>1. t \in Triggers
  BY DEF ListInv, TypeOK
<1>2. AlarmOn(t, o) \/ AwaitOn(t, o)
  BY <1>1 DEF ListInv, ListsInv
<1>3. CASE AlarmOn(t, o)
  BY <1>1, <1>3, TriggerFacts DEF AlarmOn
<1>4. CASE AwaitOn(t, o)
  BY <1>1, <1>4, TriggerFacts DEF AwaitOn
<1> QED BY <1>1, <1>2, <1>3, <1>4

LEMMA OnFence ==
    ASSUME ListInv, NEW f \in Fences, NEW t \in triglist[f]
    PROVE  t.kind = "await"
<1>1. f \in Objects /\ f \notin Counters \cup {None}
  BY ObjectFacts
<1>2. ASSUME t.who \in Alarms, alarm[t.who] # NoAlarm
      PROVE  alarm[t.who].obj # f
  BY <1>1, <1>2, AlarmFacts DEF ListInv, TypeOK
<1> QED BY <1>1, <1>2, OnList

LEMMA FenceFiresKeeps == SyncInv /\ FenceFires => SyncInv'
<1> SUFFICES ASSUME SyncInv, FenceFires PROVE SyncInv'
  OBVIOUS
<1>1. /\ doing.op = "trigger"
      /\ UNCHANGED <<value, alarm, clientVars, doing>>
  BY DEF FenceFires
<1>2. PICK t \in triglist[doing.obj] : AwaitFires(t.who)
  BY DEF FenceFires
<1>3. doing.obj \in Fences /\ doing.obj \in Objects
  BY <1>1 DEF SyncInv, LoopInv
<1>4. t.who \in Clients
  BY <1>3, OnFence, OnList DEF SyncInv
<1>5. /\ ListsInv' /\ GoneInv' /\ AwaitInv'
      /\ triglist' \in [Objects -> SUBSET Triggers]
      /\ await' \in [Clients -> Seq(Wait)]
      /\ ignored' \subseteq Clients
  BY <1>1, <1>2, <1>4, AwaitFiresKeeps DEF clientVars
<1>6. TypeOK'
  BY <1>1, <1>5 DEF SyncInv, ListInv, TypeOK, clientVars
<1>7. LoopInv'
  BY <1>1 DEF SyncInv, LoopInv
<1> QED BY <1>5, <1>6, <1>7 DEF SyncInv, ListInv

LEMMA TellTriggerKeeps == SyncInv /\ TellTrigger => SyncInv'
<1> SUFFICES ASSUME SyncInv, TellTrigger PROVE SyncInv'
  OBVIOUS
<1>1. doing.op = "destroy" /\ UNCHANGED <<value, clientVars, doing>>
  BY DEF TellTrigger
<1>2. PICK t \in triglist[doing.obj] :
          \/ /\ t.kind = "alarm"
             /\ alarm' = [alarm EXCEPT ![t.who].active = FALSE,
                                       ![t.who].obj = None]
             /\ triglist' = [triglist EXCEPT ![doing.obj] = @ \ {t}]
             /\ UNCHANGED <<await, ignored>>
          \/ /\ t.kind = "await"
             /\ AwaitFires(t.who)
             /\ UNCHANGED alarm
  BY DEF TellTrigger
<1>3. doing.obj \in Objects /\ ListInv
  BY <1>1 DEF SyncInv, LoopInv
<1>4. LoopInv'
  BY <1>1 DEF SyncInv, LoopInv
<1>5. CASE t.kind = "alarm"
  <2>1. /\ t.who \in Alarms /\ alarm[t.who] # NoAlarm
        /\ alarm[t.who].obj = doing.obj /\ t \in Triggers
    BY <1>3, <1>5, OnList
  <2>2. t = AlarmTrigger(t.who)
    BY <2>1, <1>5, TriggerFacts
  <2> DEFINE x == [alarm[t.who] EXCEPT !.active = FALSE, !.obj = None]
  <2>3. alarm[t.who] \in Alarm /\ x \in Alarm /\ x.obj = None
    BY <2>1, <1>3 DEF ListInv, TypeOK, Alarm
  <2>4. /\ alarm' = [alarm EXCEPT ![t.who] = x]
        /\ triglist' = [triglist EXCEPT ![doing.obj] = @ \ {t}]
        /\ UNCHANGED <<await, ignored>>
    BY <1>2, <1>5
  <2> HIDE DEF x
  <2>5. ASSUME NEW o \in Objects, NEW u \in Triggers
        PROVE  u \in triglist'[o] <=> IF u = AlarmTrigger(t.who)
                                      THEN x # NoAlarm /\ x.obj = o
                                      ELSE u \in triglist[o]
    <3>1. x.obj # o
      BY <2>3, ObjectFacts
    <3>2. t \in triglist[o] => o = doing.obj
      BY <2>1, <1>3, <1>5, OnList
    <3>3. u \in triglist'[o] <=> u \in triglist[o] /\ ~(o = doing.obj /\ u = t)
      BY <2>4, <1>3 DEF ListInv, TypeOK
    <3> QED BY <2>2, <3>1, <3>2, <3>3
  <2>6. alarm \in [Alarms -> Alarm \cup {NoAlarm}] /\ ListsInv /\ UNCHANGED await
    BY <1>3, <2>4 DEF ListInv, TypeOK
  <2>7. ListsInv'
    BY <2>1, <2>3, <2>4, <2>5, <2>6, AlarmMoves
  <2>8. TypeOK' /\ GoneInv'
    BY <1>1, <1>3, <2>1, <2>3, <2>4
       DEF ListInv, TypeOK, GoneInv, clientVars
  <2>9. AwaitInv'
    BY <1>1, <2>4, AwaitUnchanged DEF SyncInv, clientVars
  <2> QED BY <1>4, <2>7, <2>8, <2>9 DEF SyncInv, ListInv
<1>6. CASE t.kind = "await"
  <2>1. t.who \in Clients
    BY <1>3, <1>6, OnList
  <2>2. AwaitFires(t.who) /\ UNCHANGED alarm
    BY <1>2, <1>6
  <2>3. /\ ListsInv' /\ GoneInv' /\ AwaitInv'
        /\ triglist' \in [Objects -> SUBSET Triggers]
        /\ await' \in [Clients -> Seq(Wait)]
        /\ ignored' \subseteq Clients
    BY <1>1, <2>1, <2>2, AwaitFiresKeeps DEF clientVars
  <2>4. TypeOK'
    BY <1>1, <2>2, <2>3 DEF SyncInv, ListInv, TypeOK, clientVars
  <2> QED BY <1>4, <2>3, <2>4 DEF SyncInv, ListInv
<1> QED BY <1>3, <1>5, <1>6, <1>2

LEMMA GoOnDoes ==
    ASSUME doing \in Doing, NEW rest, NEW left \in SUBSET Triggers,
           rest \subseteq Triggers, GoOn(rest, left)
    PROVE  /\ doing' \in Doing /\ doing'.op = doing.op
           /\ doing'.obj = doing.obj /\ doing'.old = doing.old
           /\ doing'.todo = rest \cap left \/ doing'.todo = left
           /\ \/ doing'.next \in doing'.todo
              \/ doing'.next = NoTrigger /\ doing'.todo = {}
<1>1. PICK p \in Nodes(rest) :
        IF p = NoTrigger \/ p \in left
        THEN doing' = [doing EXCEPT !.todo = rest \cap left, !.next = p]
        ELSE \E h \in Nodes(left) :
                doing' = [doing EXCEPT !.todo = left, !.next = h]
  BY DEF GoOn
<1>2. p \in rest \/ (p = NoTrigger /\ rest = {})
  BY NodesFacts
<1>3. CASE p = NoTrigger \/ p \in left
  <2>1. doing' = [doing EXCEPT !.todo = rest \cap left, !.next = p]
    BY <1>1, <1>3
  <2>2. p \in rest \cap left \/ (p = NoTrigger /\ rest = {})
    BY <1>2, <1>3, TriggerFacts
  <2> QED BY <2>1, <2>2 DEF Doing
<1>4. CASE ~(p = NoTrigger \/ p \in left)
  <2>1. PICK h \in Nodes(left) :
            doing' = [doing EXCEPT !.todo = left, !.next = h]
    BY <1>1, <1>4
  <2>2. h \in left \/ (h = NoTrigger /\ left = {})
    BY NodesFacts
  <2> QED BY <2>1, <2>2 DEF Doing
<1> QED BY <1>3, <1>4

LEMMA WalkFireKeeps == SyncInv /\ WalkFire => SyncInv'
<1> SUFFICES ASSUME SyncInv, WalkFire PROVE SyncInv'
  OBVIOUS
<1> DEFINE t == doing.next
           rest == doing.todo \ {doing.next}
           left == triglist'[doing.obj]
<1>1. /\ doing.op = "change" /\ doing.next # NoTrigger /\ Fires(doing.next)
      /\ GoOn(rest, left) /\ UNCHANGED <<value, clientVars>>
      /\ \/ /\ t.kind = "alarm"
            /\ alarm' = [alarm EXCEPT ![t.who] =
                           FiredAlarm(@, value[doing.obj])]
            /\ UNCHANGED <<triglist, await, ignored>>
         \/ /\ t.kind = "await" /\ AwaitFires(t.who) /\ UNCHANGED alarm
  BY DEF WalkFire
<1>2. /\ ListInv /\ doing.obj \in Objects /\ doing.obj \in Counters
      /\ t \in doing.todo /\ doing.todo \subseteq triglist[doing.obj]
      /\ value[doing.obj] # Gone /\ doing \in Doing
      /\ \A u \in triglist[doing.obj] \ doing.todo :
            u.kind = "await" => ~Fires(u)
  BY <1>1, ObjectFacts DEF SyncInv, LoopInv, ListInv, TypeOK
<1>3. rest \subseteq Triggers /\ t \in triglist[doing.obj]
  BY <1>2 DEF Doing
<1> HIDE DEF t, rest, left
<1>4. /\ ListsInv' /\ GoneInv' /\ AwaitInv'
      /\ triglist' \in [Objects -> SUBSET Triggers]
      /\ alarm' \in [Alarms -> Alarm \cup {NoAlarm}]
      /\ await' \in [Clients -> Seq(Wait)]
      /\ ignored' \subseteq Clients
      /\ left \subseteq triglist[doing.obj]
      /\ \A u \in left : u.kind = "await" => u # t /\ Trigger(u)' = Trigger(u)
  <2>1. CASE t.kind = "alarm"
    <3>1. t.who \in Alarms /\ alarm[t.who] # NoAlarm
      BY <1>2, <1>3, <2>1, OnList
    <3>2. alarm[t.who] \in Alarm
      BY <3>1, <1>2 DEF ListInv, TypeOK
    <3> DEFINE x == FiredAlarm(alarm[t.who], value[doing.obj])
    <3>3. x \in Alarm /\ x.obj = alarm[t.who].obj
      BY <3>2, FiredAlarmType
    <3>4. alarm' = [alarm EXCEPT ![t.who] = x]
          /\ UNCHANGED <<triglist, await, ignored>>
      BY <1>1, <2>1
    <3> HIDE DEF x
    <3>5. ListsInv'
      BY <1>2, <3>1, <3>3, <3>4, AlarmStays
    <3>6. GoneInv' /\ AwaitInv'
      BY <1>1, <3>4, AwaitUnchanged
         DEF SyncInv, ListInv, GoneInv, clientVars
    <3>7. /\ triglist' \in [Objects -> SUBSET Triggers]
          /\ alarm' \in [Alarms -> Alarm \cup {NoAlarm}]
          /\ await' \in [Clients -> Seq(Wait)]
          /\ ignored' \subseteq Clients
      BY <1>2, <3>3, <3>4 DEF ListInv, TypeOK
    <3>8. left = triglist[doing.obj]
      BY <3>4 DEF left
    <3>9. \A u \in left : u.kind = "await" => u # t /\ Trigger(u)' = Trigger(u)
      BY <2>1, <3>4 DEF Trigger
    <3> QED BY <3>5, <3>6, <3>7, <3>8, <3>9
  <2>2. CASE t.kind = "await"
    <3>1. t.who \in Clients
      BY <1>2, <1>3, <2>2, OnList
    <3>2. AwaitFires(t.who) /\ UNCHANGED <<value, alarm, running, closing>>
      BY <1>1, <2>2 DEF clientVars
    <3>3. /\ ListsInv' /\ GoneInv' /\ AwaitInv'
          /\ triglist' \in [Objects -> SUBSET Triggers]
          /\ await' \in [Clients -> Seq(Wait)]
          /\ ignored' \subseteq Clients
          /\ left \subseteq triglist[doing.obj]
          /\ \A u \in triglist[doing.obj] :
                u \in left <=> ~(u.kind = "await" /\ u.who = t.who)
      BY <1>2, <3>1, <3>2, AwaitFiresKeeps DEF left
    <3>4. \A u \in left : u.kind = "await" => u # t /\ u.who # t.who
      BY <2>2, <3>3
    <3>5. ASSUME NEW u \in left, u.kind = "await"
          PROVE  Trigger(u)' = Trigger(u)
      <4>1. u.who # t.who
        BY <3>4, <3>5
      <4>2. await' = [await EXCEPT ![t.who] = <<>>]
            /\ await \in [Clients -> Seq(Wait)]
        BY <3>2, <1>2 DEF AwaitFires, ListInv, TypeOK
      <4>3. u.who \in Clients
        BY <1>2, <3>3, <3>5, OnList
      <4>4. await'[u.who] = await[u.who]
        BY <4>1, <4>2, <4>3
      <4> QED BY <4>4, <3>5 DEF Trigger
    <3>6. alarm' \in [Alarms -> Alarm \cup {NoAlarm}]
      BY <1>2, <3>2 DEF ListInv, TypeOK
    <3> QED BY <3>3, <3>4, <3>5, <3>6
  <2> QED BY <1>1, <2>1, <2>2
<1>5. left \in SUBSET Triggers
  BY <1>2, <1>4 DEF left
<1>6. /\ doing' \in Doing /\ doing'.op = doing.op
      /\ doing'.obj = doing.obj /\ doing'.old = doing.old
      /\ doing'.todo = rest \cap left \/ doing'.todo = left
      /\ \/ doing'.next \in doing'.todo
         \/ doing'.next = NoTrigger /\ doing'.todo = {}
  BY <1>1, <1>2, <1>3, <1>5, GoOnDoes
<1>7. TypeOK'
  BY <1>1, <1>2, <1>4, <1>6 DEF ListInv, TypeOK, clientVars
<1>8. LoopInv'
  <2>1. ASSUME NEW u \in triglist'[doing'.obj] \ doing'.todo, u.kind = "await"
        PROVE  ~Fires(u)'
    <3>1. u \in left /\ u \notin rest
      BY <1>6, <2>1 DEF left
    <3>2. u # t /\ Trigger(u)' = Trigger(u) /\ u \in triglist[doing.obj]
      BY <3>1, <2>1, <1>4
    <3>3. u \notin doing.todo
      BY <3>1, <3>2 DEF rest, t
    <3>4. ~Fires(u)
      BY <3>2, <3>3, <2>1, <1>2
    <3> QED BY <3>2, <3>4, <1>1, <1>6 DEF Fires
  <2>2. doing'.todo \subseteq triglist'[doing'.obj]
    BY <1>6 DEF left
  <2> QED BY <1>1, <1>2, <1>6, <2>1, <2>2 DEF LoopInv
<1> QED BY <1>4, <1>7, <1>8 DEF SyncInv, ListInv

-----------------------------------------------------------------------------
(* Requests that add and remove triggers, and clients that go away.        *)

LEMMA FreeAlarmKeeps ==
    ASSUME SyncInv, NEW a \in Alarms, FreeAlarm(a)
    PROVE  SyncInv'
<1>1. /\ doing = Nothing /\ alarm[a] # NoAlarm
      /\ triglist' = [o \in Objects |-> triglist[o] \ {AlarmTrigger(a)}]
      /\ alarm' = [alarm EXCEPT ![a] = NoAlarm]
      /\ UNCHANGED <<value, await, ignored, clientVars, doing>>
  BY DEF FreeAlarm
<1>2. alarm \in [Alarms -> Alarm \cup {NoAlarm}] /\ ListsInv /\ UNCHANGED await
  BY <1>1 DEF SyncInv, ListInv, TypeOK
<1>3. \A o \in Objects : \A t \in Triggers :
          t \in triglist'[o] <=> IF t = AlarmTrigger(a)
                                 THEN NoAlarm # NoAlarm /\ NoAlarm.obj = o
                                 ELSE t \in triglist[o]
  BY <1>1
<1>4. ListsInv'
  <2> DEFINE x == NoAlarm
  <2>1. x \in Alarm \cup {NoAlarm} /\ alarm' = [alarm EXCEPT ![a] = x]
    BY <1>1
  <2>2. \A o \in Objects : \A t \in Triggers :
          t \in triglist'[o] <=> IF t = AlarmTrigger(a)
                                 THEN x # NoAlarm /\ x.obj = o
                                 ELSE t \in triglist[o]
    BY <1>3
  <2> HIDE DEF x
  <2> QED BY <1>2, <2>1, <2>2, AlarmMoves
<1>5. TypeOK' /\ GoneInv'
  BY <1>1 DEF SyncInv, ListInv, TypeOK, GoneInv, clientVars
<1>6. AwaitInv' /\ LoopInv'
  BY <1>1, AwaitUnchanged, IdleLoop DEF SyncInv, clientVars
<1> QED BY <1>4, <1>5, <1>6 DEF SyncInv, ListInv

LEMMA CloseDownKeeps ==
    ASSUME SyncInv, NEW c \in Clients, CloseDownClient(c)
    PROVE  SyncInv'
<1>1. /\ doing = Nothing /\ c \in running /\ running' = running \ {c}
      /\ closing' = c /\ UNCHANGED <<value, triggerVars, doing>>
  BY DEF CloseDownClient, Idle
<1>2. TypeOK' /\ GoneInv'
  BY <1>1 DEF SyncInv, ListInv, TypeOK, GoneInv, triggerVars
<1>3. ListsInv' /\ LoopInv'
  BY <1>1, ListsUnchanged, IdleLoop DEF SyncInv, ListInv, triggerVars
<1>4. AwaitInv'
  BY <1>1 DEF SyncInv, AwaitInv, triggerVars
<1> QED BY <1>2, <1>3, <1>4 DEF SyncInv, ListInv

LEMMA FreeAwaitKeeps == SyncInv /\ FreeAwait => SyncInv'
<1> SUFFICES ASSUME SyncInv, FreeAwait PROVE SyncInv'
  OBVIOUS
<1>1. /\ doing = Nothing /\ closing # NoClient
      /\ FreeTriggers(closing) /\ await' = [await EXCEPT ![closing] = <<>>]
      /\ UNCHANGED <<value, alarm, ignored, clientVars, doing>>
  BY DEF FreeAwait
<1>2. closing \in Clients /\ ListInv /\ AwaitInv
  BY <1>1 DEF SyncInv, ListInv, TypeOK
<1>3. /\ ListsInv' /\ triglist' \in [Objects -> SUBSET Triggers]
      /\ await' \in [Clients -> Seq(Wait)]
      /\ \A o \in Objects : triglist'[o] \subseteq triglist[o]
  BY <1>1, <1>2, AwaitGoes
<1>4. TypeOK' /\ GoneInv'
  BY <1>1, <1>2, <1>3 DEF ListInv, TypeOK, GoneInv, clientVars
<1>5. AwaitInv'
  <2>1. await \in [Clients -> Seq(Wait)]
    BY <1>2 DEF ListInv, TypeOK
  <2>2. ASSUME NEW d \in Clients
        PROVE  /\ d \in running' /\ await'[d] # <<>> => d \in ignored'
               /\ \A i \in DOMAIN await'[d] :
                     /\ i \in Items
                     /\ (await'[d][i].obj \in Fences)
                           = (await'[d][i].check = "Fence")
    <3>1. CASE d = closing
      BY <3>1, <1>1, <2>1
    <3>2. CASE d # closing
      <4>1. await'[d] = await[d]
        BY <3>2, <1>1, <2>1
      <4> QED BY <4>1, <1>1, <1>2 DEF AwaitInv, clientVars
    <3> QED BY <3>1, <3>2
  <2> QED BY <2>2, <1>1, <1>2 DEF AwaitInv, clientVars
<1> QED BY <1>1, <1>3, <1>4, <1>5, IdleLoop DEF SyncInv, ListInv

LEMMA ClientFreedKeeps == SyncInv /\ ClientFreed => SyncInv'
<1> SUFFICES ASSUME SyncInv, ClientFreed PROVE SyncInv'
  OBVIOUS
<1>1. /\ doing = Nothing /\ await[closing] = <<>> /\ closing' = NoClient
      /\ ignored' = ignored \ {closing}
      /\ UNCHANGED <<value, triglist, alarm, await, running, doing>>
  BY DEF ClientFreed
<1>2. TypeOK' /\ GoneInv'
  BY <1>1 DEF SyncInv, ListInv, TypeOK, GoneInv
<1>3. ListsInv' /\ LoopInv'
  BY <1>1, ListsUnchanged, IdleLoop DEF SyncInv, ListInv
<1>4. NoClient \notin running
  BY OwnerAssumption DEF SyncInv, ListInv, TypeOK
<1>5. AwaitInv'
  BY <1>1, <1>4 DEF SyncInv, AwaitInv
<1> QED BY <1>2, <1>3, <1>5 DEF SyncInv, ListInv

LEMMA WaitsType ==
    ASSUME TypeOK, NEW w \in Awaits, Legal(w)
    PROVE  /\ Waits(w) \in Seq(Wait) /\ DOMAIN Waits(w) = DOMAIN w
           /\ \A i \in DOMAIN w :
                 /\ i \in Items
                 /\ w[i].obj \in Objects /\ value[w[i].obj] \in Int64
                 /\ Waits(w)[i].obj = w[i].obj
                 /\ Waits(w)[i].check = w[i].check
                 /\ (w[i].obj \in Fences) = (w[i].check = "Fence")
<1>1. w \in Seq(Condition)
  BY RequestsAssumption
<1>2. ASSUME NEW i \in DOMAIN w
      PROVE  /\ w[i].obj \in Objects /\ value[w[i].obj] \in Int64
             /\ Waits(w)[i] \in Wait
             /\ Waits(w)[i].obj = w[i].obj /\ Waits(w)[i].check = w[i].check
  <2>1. w[i] \in Condition
    BY <1>1, <1>2
  <2>2. /\ w[i].obj \in Objects /\ w[i].wait \in Int64
        /\ w[i].check \in Tests \cup {"Fence"}
    BY <2>1 DEF Condition
  <2>3. value[w[i].obj] \in Int64
    BY <2>2 DEF Legal, TypeOK
  <2> DEFINE v == IF w[i].vtype = "Absolute" THEN w[i].wait
                  ELSE Wrap(value[w[i].obj] + w[i].wait)
  <2>4. v \in Int64
    <3>1. value[w[i].obj] + w[i].wait \in Int
      <4>1. value[w[i].obj] \in Int /\ w[i].wait \in Int
        BY <2>2, <2>3, IntFacts
      <4> QED BY <4>1
    <3> QED BY <2>2, <3>1, WrapType
  <2>5. Waits(w)[i] = [obj |-> w[i].obj, check |-> w[i].check, test |-> v]
    BY DEF Waits
  <2> HIDE DEF v
  <2> QED BY <2>2, <2>3, <2>4, <2>5 DEF Wait
<1>3. Waits(w) \in Seq(Wait) /\ DOMAIN Waits(w) = DOMAIN w
  <2>1. PICK n \in Nat : DOMAIN w = 1..n
    BY <1>1
  <2>2. DOMAIN Waits(w) = 1..n
    BY <2>1 DEF Waits
  <2>3. Waits(w) \in [1..n -> Wait]
    BY <2>1, <2>2, <1>2 DEF Waits
  <2> QED BY <2>1, <2>2, <2>3
<1>4. \A i \in DOMAIN w : i \in Items
  BY DEF Items
<1> QED BY <1>2, <1>3, <1>4, RequestsAssumption

\* A client whose requests are read waits for nothing.
LEMMA ReadyFacts ==
    ASSUME SyncInv, NEW c \in Clients, Ready(c)
    PROVE  /\ doing = Nothing /\ closing = NoClient
           /\ c \in running /\ c \notin ignored /\ await[c] = <<>>
BY DEF SyncInv, AwaitInv, Ready, Idle

LEMMA ProcSyncAwaitKeeps ==
    ASSUME SyncInv, NEW c \in Clients, NEW w \in Awaits, ProcSyncAwait(c, w)
    PROVE  SyncInv'
<1>1. /\ Ready(c) /\ Legal(w)
      /\ await' = [await EXCEPT ![c] = Waits(w)]
      /\ triglist' = [o \in Objects |->
                        triglist[o] \cup
                          {AwaitTrigger(c, i) : i \in {j \in DOMAIN w :
                                                         w[j].obj = o}}]
      /\ ignored' = ignored \cup {c}
      /\ UNCHANGED <<value, alarm, clientVars, doing>>
  BY DEF ProcSyncAwait
<1>2. doing = Nothing /\ await[c] = <<>>
  BY <1>1, ReadyFacts
<1>3. TypeOK /\ ListsInv /\ GoneInv /\ AwaitInv
  BY DEF SyncInv, ListInv
<1>4. /\ Waits(w) \in Seq(Wait) /\ DOMAIN Waits(w) = DOMAIN w
      /\ \A i \in DOMAIN w :
            /\ i \in Items
            /\ w[i].obj \in Objects /\ value[w[i].obj] \in Int64
            /\ Waits(w)[i].obj = w[i].obj
            /\ Waits(w)[i].check = w[i].check
            /\ (w[i].obj \in Fences) = (w[i].check = "Fence")
  BY <1>1, <1>3, WaitsType
<1>5. /\ await \in [Clients -> Seq(Wait)] /\ await'[c] = Waits(w)
      /\ \A d \in Clients : d # c => await'[d] = await[d]
      /\ await' \in [Clients -> Seq(Wait)]
  BY <1>1, <1>3, <1>4 DEF TypeOK
<1>6. ASSUME NEW o \in Objects, NEW t \in Triggers
      PROVE  t \in triglist'[o] <=>
               \/ t \in triglist[o]
               \/ \E i \in DOMAIN w : t = AwaitTrigger(c, i) /\ w[i].obj = o
  BY <1>1
<1>7. triglist' \in [Objects -> SUBSET Triggers]
  <2>1. \A i \in DOMAIN w : AwaitTrigger(c, i) \in Triggers
    BY <1>4, TriggerFacts
  <2> QED BY <2>1, <1>1, <1>3 DEF TypeOK
<1>8. TypeOK'
  BY <1>1, <1>3, <1>5, <1>7 DEF TypeOK, clientVars
<1>9. ListsInv'
  <2> SUFFICES ASSUME NEW o \in Objects, NEW t \in Triggers
               PROVE  t \in triglist'[o] <=> AlarmOn(t, o)' \/ AwaitOn(t, o)'
    BY DEF ListsInv
  <2>1. AlarmOn(t, o)' <=> AlarmOn(t, o)
    BY <1>1 DEF AlarmOn
  <2>2. AwaitOn(t, o)' <=>
          \/ AwaitOn(t, o)
          \/ \E i \in DOMAIN w : t = AwaitTrigger(c, i) /\ w[i].obj = o
    <3>1. ASSUME AwaitOn(t, o)'
          PROVE  \/ AwaitOn(t, o)
                 \/ \E i \in DOMAIN w : t = AwaitTrigger(c, i) /\ w[i].obj = o
      <4>1. PICK d \in Clients : \E i \in DOMAIN await'[d] :
                   t = AwaitTrigger(d, i) /\ await'[d][i].obj = o
        BY <3>1 DEF AwaitOn
      <4>2. CASE d = c
        BY <4>1, <4>2, <1>4, <1>5
      <4>3. CASE d # c
        BY <4>1, <4>3, <1>5 DEF AwaitOn
      <4> QED BY <4>2, <4>3
    <3>2. ASSUME AwaitOn(t, o)
          PROVE  AwaitOn(t, o)'
      <4>1. PICK d \in Clients : \E i \in DOMAIN await[d] :
                   t = AwaitTrigger(d, i) /\ await[d][i].obj = o
        BY <3>2 DEF AwaitOn
      <4>2. d # c
        BY <4>1, <1>2
      <4> QED BY <4>1, <4>2, <1>5 DEF AwaitOn
    <3>3. ASSUME \E i \in DOMAIN w : t = AwaitTrigger(c, i) /\ w[i].obj = o
          PROVE  AwaitOn(t, o)'
      BY <3>3, <1>4, <1>5 DEF AwaitOn
    <3> QED BY <3>1, <3>2, <3>3
  <2>3. t \in triglist[o] <=> AlarmOn(t, o) \/ AwaitOn(t, o)
    BY <1>3 DEF ListsInv
  <2> QED BY <2>1, <2>2, <2>3, <1>6
<1>10. GoneInv'
  <2> SUFFICES ASSUME NEW o \in Objects, value'[o] = Gone
               PROVE  triglist'[o] = {}
    BY DEF GoneInv
  <2>1. triglist[o] = {}
    BY <1>1, <1>3 DEF GoneInv
  <2>2. \A i \in DOMAIN w : w[i].obj # o
    BY <1>1, <1>4, ValuesInt64
  <2> QED BY <2>1, <2>2, <1>1
<1>11. AwaitInv'
  <2>1. ASSUME NEW d \in Clients
        PROVE  /\ d \in running' /\ await'[d] # <<>> => d \in ignored'
               /\ \A i \in DOMAIN await'[d] :
                     /\ i \in Items
                     /\ (await'[d][i].obj \in Fences)
                           = (await'[d][i].check = "Fence")
    <3>1. CASE d = c
      BY <3>1, <1>1, <1>4, <1>5
    <3>2. CASE d # c
      <4>1. await'[d] = await[d]
        BY <3>2, <1>5
      <4> QED BY <4>1, <1>1, <1>3 DEF AwaitInv, clientVars
    <3> QED BY <3>1, <3>2
  <2> QED BY <2>1, <1>1, <1>3 DEF AwaitInv, clientVars
<1> QED BY <1>1, <1>2, <1>8, <1>9, <1>10, <1>11, IdleLoop DEF SyncInv, ListInv

\* What CreateAlarm and ChangeAlarm have in common.
LEMMA MoveTriggerKeeps ==
    ASSUME SyncInv, NEW a \in Alarms, NEW x \in Alarm,
           NEW o \in Counters \cup {None}, x.obj = o,
           o # None => value[o] \in Int64,
           alarm' = [alarm EXCEPT ![a] = x], MoveTrigger(a, o),
           doing = Nothing, UNCHANGED <<value, await, ignored, clientVars, doing>>
    PROVE  SyncInv'
<1>1. /\ alarm \in [Alarms -> Alarm \cup {NoAlarm}] /\ ListsInv
      /\ triglist \in [Objects -> SUBSET Triggers] /\ x # NoAlarm
  BY AlarmFacts DEF SyncInv, ListInv, TypeOK
<1>2. AlarmTrigger(a) \in Triggers
  BY TriggerFacts
<1>3. \A p \in Objects :
          triglist'[p] = IF p = o THEN triglist[p] \cup {AlarmTrigger(a)}
                         ELSE triglist[p] \ {AlarmTrigger(a)}
  BY DEF MoveTrigger
<1>4. \A p \in Objects : \A t \in Triggers :
          t \in triglist'[p] <=> IF t = AlarmTrigger(a)
                                 THEN x # NoAlarm /\ x.obj = p
                                 ELSE t \in triglist[p]
  <2> SUFFICES ASSUME NEW p \in Objects, NEW t \in Triggers
               PROVE  t \in triglist'[p] <=> IF t = AlarmTrigger(a)
                                             THEN x # NoAlarm /\ x.obj = p
                                             ELSE t \in triglist[p]
    OBVIOUS
  <2>1. CASE p = o
    <3>1. triglist'[p] = triglist[p] \cup {AlarmTrigger(a)} /\ x.obj = p
      BY <1>3, <2>1
    <3> QED BY <3>1, <1>1
  <2>2. CASE p # o
    <3>1. triglist'[p] = triglist[p] \ {AlarmTrigger(a)} /\ x.obj # p
      BY <1>3, <2>2
    <3> QED BY <3>1, <1>1
  <2> QED BY <2>1, <2>2
<1>5. ListsInv'
  <2>1. UNCHANGED await /\ x \in Alarm \cup {NoAlarm}
    OBVIOUS
  <2> QED BY <1>1, <1>4, <2>1, AlarmMoves
<1>6. triglist' \in [Objects -> SUBSET Triggers]
  BY <1>1, <1>2 DEF MoveTrigger
<1>7. TypeOK'
  BY <1>6 DEF SyncInv, ListInv, TypeOK, clientVars
<1>8. GoneInv'
  <2> SUFFICES ASSUME NEW p \in Objects, value'[p] = Gone
               PROVE  triglist'[p] = {}
    BY DEF GoneInv
  <2>1. p # o
    BY ValuesInt64, ObjectFacts
  <2>2. triglist[p] = {}
    BY DEF SyncInv, ListInv, GoneInv
  <2> QED BY <1>3, <2>1, <2>2
<1>9. AwaitInv'
  BY AwaitUnchanged DEF SyncInv, clientVars
<1> QED BY <1>5, <1>7, <1>8, <1>9, IdleLoop DEF SyncInv, ListInv

LEMMA CreateAlarmKeeps ==
    ASSUME SyncInv, NEW a \in Alarms, NEW r \in Attributes,
           ProcSyncCreateAlarm(a, r)
    PROVE  SyncInv'
<1> DEFINE al == Changed(DefaultAlarm, r)
           x == IF al.obj = None THEN [al EXCEPT !.active = FALSE]
                ELSE Tried(al)
<1>1. /\ Succeeds(DefaultAlarm, r)
      /\ alarm' = [alarm EXCEPT ![a] = x] /\ MoveTrigger(a, al.obj)
      /\ doing = Nothing
      /\ UNCHANGED <<value, await, ignored, clientVars, doing>>
  BY DEF ProcSyncCreateAlarm, Ready, Idle
<1>2. TypeOK /\ DefaultAlarm \in Alarm /\ DefaultAlarm.obj = None
  BY AlarmFacts DEF SyncInv, ListInv, DefaultAlarm
<1>3. /\ al \in Alarm /\ al.obj \in Counters \cup {None}
      /\ al.obj # None => value[al.obj] \in Int64
  BY <1>1, <1>2, ChangedType
<1> HIDE DEF al
<1>4. x \in Alarm /\ x.obj = al.obj
  <2>1. [al EXCEPT !.active = FALSE] \in Alarm
        /\ [al EXCEPT !.active = FALSE].obj = al.obj
    BY <1>3 DEF Alarm
  <2>2. Tried(al) \in Alarm /\ Tried(al).obj = al.obj
    BY <1>3, FiredAlarmType DEF Tried
  <2> QED BY <2>1, <2>2
<1> HIDE DEF x
<1> QED BY <1>1, <1>3, <1>4, MoveTriggerKeeps

LEMMA ChangeAlarmKeeps ==
    ASSUME SyncInv, NEW a \in Alarms, NEW r \in Attributes,
           ProcSyncChangeAlarm(a, r)
    PROVE  SyncInv'
<1> DEFINE al == Changed(alarm[a], r)
           x == IF al.obj = None THEN FiredAlarm(al, 0) ELSE Tried(al)
<1>1. /\ alarm[a] # NoAlarm /\ Succeeds(alarm[a], r)
      /\ alarm' = [alarm EXCEPT ![a] = x] /\ MoveTrigger(a, al.obj)
      /\ doing = Nothing
      /\ UNCHANGED <<value, await, ignored, clientVars, doing>>
  BY DEF ProcSyncChangeAlarm, Ready, Idle
<1>2. ListInv /\ TypeOK
  BY DEF SyncInv, ListInv
<1>3. alarm[a] \in Alarm /\ (alarm[a].obj # None => value[alarm[a].obj] \in Int64)
  BY <1>1, <1>2, AlarmExists
<1>4. /\ al \in Alarm /\ al.obj \in Counters \cup {None}
      /\ al.obj # None => value[al.obj] \in Int64
  BY <1>1, <1>2, <1>3, ChangedType
<1> HIDE DEF al
<1>5. x \in Alarm /\ x.obj = al.obj
  BY <1>4, FiredAlarmType DEF Tried
<1> HIDE DEF x
<1> QED BY <1>1, <1>4, <1>5, MoveTriggerKeeps

LEMMA ChangeAlarmFailsKeeps ==
    ASSUME SyncInv, NEW a \in Alarms, NEW r \in Attributes,
           ChangeAlarmFails(a, r)
    PROVE  SyncInv'
<1> DEFINE x == IF BadDelta(alarm[a], r) THEN alarm[a]
                ELSE WithValue(Stored(alarm[a], r), r)
<1>1. /\ alarm[a] # NoAlarm /\ alarm' = [alarm EXCEPT ![a] = x]
      /\ doing = Nothing
      /\ UNCHANGED <<value, triglist, await, ignored, clientVars, doing>>
  BY DEF ChangeAlarmFails, Ready, Idle
<1>2. ListInv /\ TypeOK
  BY DEF SyncInv, ListInv
<1>3. alarm[a] \in Alarm /\ (alarm[a].obj # None => value[alarm[a].obj] \in Int64)
  BY <1>1, <1>2, AlarmExists
<1>4. x \in Alarm /\ x.obj = alarm[a].obj
  BY <1>2, <1>3, StoredType, WithValueType
<1> HIDE DEF x
<1>5. ListsInv'
  <2>1. UNCHANGED <<await, triglist>>
    BY <1>1
  <2> QED BY <1>1, <1>2, <1>4, <2>1, AlarmStays
<1>6. TypeOK' /\ GoneInv'
  BY <1>1, <1>2, <1>4 DEF ListInv, TypeOK, GoneInv, clientVars
<1>7. AwaitInv'
  BY <1>1, AwaitUnchanged DEF SyncInv, clientVars
<1> QED BY <1>1, <1>5, <1>6, <1>7, IdleLoop DEF SyncInv, ListInv

-----------------------------------------------------------------------------
(* The invariant, and what follows from it.                                *)

LEMMA InitKeeps == Init => SyncInv
<1> SUFFICES ASSUME Init PROVE SyncInv
  OBVIOUS
<1>1. TypeOK
  BY NothingFacts DEF Init, TypeOK
<1>2. ListsInv
  <2>1. \A o : \A t : ~AlarmOn(t, o)
    BY DEF Init, AlarmOn
  <2>2. \A o : \A t : ~AwaitOn(t, o)
    BY DEF Init, AwaitOn
  <2> QED BY <2>1, <2>2 DEF Init, ListsInv
<1>3. GoneInv
  BY DEF Init, GoneInv
<1>4. LoopInv
  BY NothingFacts DEF Init, LoopInv
<1>5. AwaitInv
  BY OwnerAssumption DEF Init, AwaitInv
<1> QED BY <1>1, <1>2, <1>3, <1>4, <1>5 DEF SyncInv, ListInv

LEMMA VarsUnchanged == SyncInv /\ UNCHANGED vars => SyncInv'
<1> SUFFICES ASSUME SyncInv, UNCHANGED vars PROVE SyncInv'
  OBVIOUS
<1>1. UNCHANGED <<value, triglist, alarm, await, ignored, running, closing, doing>>
  BY DEF vars
<1>2. TypeOK' /\ GoneInv'
  BY <1>1 DEF SyncInv, ListInv, TypeOK, GoneInv
<1>3. ListsInv' /\ AwaitInv'
  BY <1>1, ListsUnchanged, AwaitUnchanged DEF SyncInv, ListInv
<1>4. \A t : Fires(t)' <=> Fires(t)
  BY <1>1 DEF Fires, Trigger
<1>5. LoopInv'
  BY <1>1, <1>4 DEF SyncInv, LoopInv
<1> QED BY <1>2, <1>3, <1>5 DEF SyncInv, ListInv

LEMMA RequestKeeps == SyncInv /\ Request => SyncInv'
<1> SUFFICES ASSUME SyncInv, Request PROVE SyncInv'
  OBVIOUS
<1>1. ASSUME NEW k \in Counters, NEW v \in InitialValues, SyncCreate(k, v)
      PROVE  SyncInv'
  BY <1>1, CreateKeeps, ValuesInt64, ObjectFacts
<1>2. ASSUME NEW k \in Counters, NEW v \in SetValues, ProcSyncSetCounter(k, v)
      PROVE  SyncInv'
  BY <1>2, ChangeCounterKeeps, ValuesInt64 DEF ProcSyncSetCounter
<1>3. ASSUME NEW k \in Counters, NEW d \in Increments,
             ProcSyncChangeCounter(k, d)
      PROVE  SyncInv'
  <2>1. value[k] # Gone /\ SyncChangeCounter(k, Wrap(d + value[k]))
    BY <1>3 DEF ProcSyncChangeCounter
  <2>2. value[k] \in Int64 /\ d \in Int64
    BY <2>1, ObjectFacts, ValuesInt64 DEF SyncInv, ListInv, TypeOK
  <2>3. d + value[k] \in Int
    <3>1. d \in Int /\ value[k] \in Int
      BY <2>2, IntFacts
    <3> QED BY <3>1
  <2>4. Wrap(d + value[k]) \in Int64
    BY <2>3, WrapType
  <2> QED BY <2>1, <2>4, ChangeCounterKeeps
<1>4. ASSUME NEW f \in Fences, NEW v \in {0, 1}, SyncCreate(f, v)
      PROVE  SyncInv'
  BY <1>4, CreateKeeps, ValuesInt64, ObjectFacts
<1>5. ASSUME NEW f \in Fences, ProcSyncTriggerFence(f)
      PROVE  SyncInv'
  BY <1>5, TriggerFenceKeeps
<1>6. ASSUME NEW f \in Fences, ProcSyncResetFence(f)
      PROVE  SyncInv'
  BY <1>6, ResetFenceKeeps
<1>7. ASSUME NEW o \in Objects, ProcSyncDestroy(o)
      PROVE  SyncInv'
  BY <1>7, DestroyKeeps DEF ProcSyncDestroy
<1>8. ASSUME NEW c \in Clients, NEW w \in Awaits, ProcSyncAwait(c, w)
      PROVE  SyncInv'
  BY <1>8, ProcSyncAwaitKeeps
<1>9. ASSUME NEW a \in Alarms, NEW r \in NewAlarms, ProcSyncCreateAlarm(a, r)
      PROVE  SyncInv'
  BY <1>9, CreateAlarmKeeps, RequestsAssumption
<1>10. ASSUME NEW a \in Alarms, NEW r \in AlarmChanges,
              ProcSyncChangeAlarm(a, r) \/ ChangeAlarmFails(a, r)
       PROVE  SyncInv'
  BY <1>10, ChangeAlarmKeeps, ChangeAlarmFailsKeeps, RequestsAssumption
<1>11. ASSUME NEW a \in Alarms, ProcSyncDestroyAlarm(a)
       PROVE  SyncInv'
  BY <1>11, FreeAlarmKeeps DEF ProcSyncDestroyAlarm
<1>12. ASSUME NEW c \in Closers, CloseDownClient(c)
       PROVE  SyncInv'
  BY <1>12, CloseDownKeeps, OwnerAssumption
<1> QED BY <1>1, <1>2, <1>3, <1>4, <1>5, <1>6, <1>7, <1>8, <1>9, <1>10,
           <1>11, <1>12 DEF Request

LEMMA ServerStepKeeps == SyncInv /\ ServerStep => SyncInv'
<1>1. ASSUME SyncInv, NEW a \in Alarms, FreeClientAlarm(a)
      PROVE  SyncInv'
  BY <1>1, FreeAlarmKeeps DEF FreeClientAlarm
<1>2. ASSUME SyncInv, NEW o \in Objects, FreeClientObject(o)
      PROVE  SyncInv'
  BY <1>2, DestroyKeeps DEF FreeClientObject
<1> QED BY <1>1, <1>2, WalkPastKeeps, WalkFireKeeps, LoopEndKeeps,
           FenceFiresKeeps, TellTriggerKeeps, ObjectFreedKeeps,
           FreeAwaitKeeps, ClientFreedKeeps DEF ServerStep

LEMMA NextKeeps == SyncInv /\ [Next]_vars => SyncInv'
BY RequestKeeps, ServerStepKeeps, VarsUnchanged DEF Next, WaitForSomething

\* SyncInv holds in every state: the strengthening of ListsAreExact that the
\* loops of SyncChangeCounter, miSyncTriggerFence and FreeCounter preserve.
THEOREM SyncInvariant == Spec => []SyncInv
<1>1. Init => SyncInv
  BY InitKeeps
<1>2. SyncInv /\ [Next]_vars => SyncInv'
  BY NextKeeps
<1> QED BY <1>1, <1>2, PTL DEF Spec

\* The variables keep their types: the test values that SyncInitTrigger and
\* SyncAlarmTriggerFired compute are 64-bit integers for every request, and
\* the loops look only at triggers.
THEOREM SyncTypes == Spec => []TypeOK
<1>1. SyncInv => TypeOK
  BY DEF SyncInv, ListInv
<1> QED BY <1>1, SyncInvariant, PTL

LEMMA InvImpliesExact == SyncInv => ListsAreExact
<1> SUFFICES ASSUME SyncInv PROVE ListsAreExact
  OBVIOUS
<1>1. ASSUME NEW o \in Objects
      PROVE  triglist[o] =
                {AlarmTrigger(a) : a \in {b \in Alarms :
                                alarm[b] # NoAlarm /\ alarm[b].obj = o}}
                \cup UNION {{AwaitTrigger(c, i) : i \in
                                {j \in DOMAIN await[c] : await[c][j].obj = o}} :
                            c \in Clients}
  <2> DEFINE A == {AlarmTrigger(a) : a \in {b \in Alarms :
                                alarm[b] # NoAlarm /\ alarm[b].obj = o}}
             W == UNION {{AwaitTrigger(c, i) : i \in
                                {j \in DOMAIN await[c] : await[c][j].obj = o}} :
                            c \in Clients}
  <2>1. ASSUME NEW t PROVE t \in A <=> AlarmOn(t, o)
    BY DEF AlarmOn
  <2>2. ASSUME NEW t PROVE t \in W <=> AwaitOn(t, o)
    BY DEF AwaitOn
  <2>3. ASSUME NEW t \in A PROVE t \in Triggers
    BY TriggerFacts
  <2>4. ASSUME NEW t \in W PROVE t \in Triggers
    BY TriggerFacts DEF SyncInv, AwaitInv
  <2>5. triglist[o] \subseteq Triggers
    BY DEF SyncInv, ListInv, TypeOK
  <2>6. \A t \in Triggers : t \in triglist[o] <=> t \in A \/ t \in W
    BY <2>1, <2>2 DEF SyncInv, ListInv, ListsInv
  <2> HIDE DEF A, W
  <2>7. triglist[o] = A \cup W
    BY <2>3, <2>4, <2>5, <2>6
  <2> QED BY <2>7 DEF A, W
<1>2. \A o \in Objects : value[o] = Gone => triglist[o] = {}
  BY DEF SyncInv, ListInv, GoneInv
<1>3. doing.next # NoTrigger => doing.next \in triglist[doing.obj]
  BY DEF SyncInv, LoopInv
<1> QED BY <1>1, <1>2, <1>3 DEF ListsAreExact

\* The trigger lists are exact at every step of every loop: a list never
\* holds a trigger of a freed alarm or Await, misses none that is on the
\* object, and SyncChangeCounter stands on a node that is still there.
THEOREM ListsStayExact == Spec => []ListsAreExact
BY InvImpliesExact, SyncInvariant, PTL
-----------------------------------------------------------------------------
(* The loops over the trigger lists implement AwaitSpec.  The step that    *)
(* changes or destroys the object is taken when a loop begins and makes    *)
(* the releases due; each trigger that fires is the Resume of its client,  *)
(* the other steps of the loop change nothing that AwaitSpec sees, and a   *)
(* loop ends only when no release is due.                                  *)

\* The variables of AwaitSpec.
Values ==
    [o \in Objects |-> IF doing.op = "destroy" /\ o = doing.obj THEN Gone
                       ELSE value[o]]
Conditions ==
    [c \in Clients |-> IF c \in running THEN await[c] ELSE <<>>]
Blocked == ignored \cap running
Due == {c \in ignored \cap running : Released(c)}

LEMMA SameTests ==
    /\ \A t, old, new : Waiting!CheckTrigger(t, old, new)
                           <=> CheckTrigger(t, old, new)
    /\ Waiting!Int64 = Int64
BY DEF Waiting!CheckTrigger, CheckTrigger, Waiting!Int64, Int64

LEMMA InitWaits == Init => Waiting!Init
<1> SUFFICES ASSUME Init PROVE Waiting!Init
  OBVIOUS
<1>1. Values = [o \in Objects |-> Gone]
  BY NothingFacts DEF Init, Values
<1>2. /\ Conditions = [c \in Clients |-> <<>>] /\ Blocked = {} /\ Due = {}
      /\ running = Clients
  BY DEF Init, Conditions, Blocked, Due
<1> QED BY <1>1, <1>2 DEF Waiting!Init, Values, Conditions, Blocked, Due

LEMMA Stutters ==
    ASSUME SyncInv, Values' = Values, UNCHANGED running,
           \A c \in running :
              /\ await'[c] = await[c] /\ (Released(c)' <=> Released(c))
              /\ c \in ignored' <=> c \in ignored
    PROVE  UNCHANGED Waiting!vars
<1>1. Conditions' = Conditions
  BY DEF Conditions
<1>2. Blocked' = Blocked /\ Due' = Due
  BY DEF Blocked, Due
<1> QED BY <1>1, <1>2 DEF Waiting!vars, Values, Conditions, Blocked, Due

LEMMA IdleReleases == doing = Nothing => \A c : ~Released(c)
BY NothingFacts DEF Released

LEMMA IdleValues ==
    ASSUME TypeOK, doing = Nothing
    PROVE  Values = value /\ Due = {}
<1>1. Values = value
  BY NothingFacts DEF Values, TypeOK
<1>2. Due = {}
  BY IdleReleases DEF Due
<1> QED BY <1>1, <1>2

\* The same in the next state.
LEMMA IdleAfter ==
    ASSUME TypeOK', doing' = Nothing
    PROVE  Values' = value' /\ Due' = {} /\ \A c : ~Released(c)'
<1>1. \A c : ~Released(c)'
  BY NothingFacts DEF Released
<1>2. Values' = value'
  BY NothingFacts DEF Values, TypeOK
<1>3. Due' = {}
  BY <1>1 DEF Due
<1> QED BY <1>1, <1>2, <1>3

-----------------------------------------------------------------------------
(* The steps that are those of AwaitSpec.                                  *)

LEMMA CreateIsCreate ==
    ASSUME SyncInv, SyncInv', NEW o \in Objects, NEW v \in Int64, SyncCreate(o, v)
    PROVE  Waiting!Next
<1>1. /\ doing = Nothing /\ value[o] = Gone /\ value' = [value EXCEPT ![o] = v]
      /\ UNCHANGED <<triglist, alarm, await, ignored, running, closing, doing>>
  BY DEF SyncCreate, Ready, Idle, triggerVars, clientVars
<1>2. TypeOK /\ TypeOK'
  BY DEF SyncInv, ListInv
<1>3. Values = value /\ Values' = value' /\ Due = {} /\ Due' = {}
  BY <1>1, <1>2, IdleValues, IdleAfter
<1>4. Conditions' = Conditions /\ Blocked' = Blocked
  BY <1>1 DEF Conditions, Blocked
<1>5. Waiting!Create(o, v)
  BY <1>1, <1>3, <1>4
     DEF Waiting!Create, Values, Conditions, Blocked, Due
<1> QED BY <1>5, SameTests DEF Waiting!Next

\* SyncChangeCounter and miSyncTriggerFence give the object a value.
LEMMA ChangeIsChange ==
    ASSUME SyncInv, SyncInv', doing = Nothing,
           NEW o \in Objects, NEW v \in Int64,
           value[o] # Gone, value' = [value EXCEPT ![o] = v],
           doing'.op \in {"change", "trigger"}, doing'.obj = o,
           doing'.old = value[o], UNCHANGED <<await, ignored, running>>
    PROVE  Waiting!Next
<1>1. TypeOK /\ TypeOK' /\ value'[o] = v /\ running \subseteq Clients
  BY DEF SyncInv, ListInv, TypeOK
<1>2. Values = value /\ Due = {}
  BY <1>1, IdleValues
<1>3. Values' = value'
  BY <1>1 DEF Values, TypeOK
<1>4. ASSUME NEW c \in Clients
      PROVE  Released(c)' <=> \E i \in DOMAIN await[c] :
                                 /\ await[c][i].obj = o
                                 /\ CheckTrigger(await[c][i], value[o], v)
  BY <1>1 DEF Released
<1>5. Conditions' = Conditions /\ Blocked' = Blocked
  BY DEF Conditions, Blocked
<1> DEFINE For == {c \in Blocked : \E i \in DOMAIN Conditions[c] :
                      Conditions[c][i].obj = o}
           S == {c \in For : \E i \in DOMAIN Conditions[c] :
                    /\ Conditions[c][i].obj = o
                    /\ Waiting!CheckTrigger(Conditions[c][i], Values[o], v)}
<1>6. ASSUME NEW c \in Blocked
      PROVE  c \in S <=> Released(c)'
  <2>1. c \in Clients /\ Conditions[c] = await[c]
    BY <1>1 DEF Conditions, Blocked
  <2> QED BY <2>1, <1>2, <1>4, SameTests
<1>7. S \subseteq Blocked
  OBVIOUS
<1> HIDE DEF S
<1>8. Due' = S
  BY <1>6, <1>7 DEF Due, Blocked
<1>9. Waiting!Change(o, v)
  BY <1>2, <1>3, <1>5, <1>8
     DEF Waiting!Change, Waiting!WaitingFor,
         Values, Conditions, Blocked, Due, S
<1> QED BY <1>9, SameTests DEF Waiting!Next

\* Nobody is released when a fence is reset.
LEMMA ResetIsChange ==
    ASSUME SyncInv, SyncInv', NEW f \in Fences, ProcSyncResetFence(f)
    PROVE  Waiting!Next
<1>1. /\ value[f] = 1 /\ value' = [value EXCEPT ![f] = 0]
      /\ UNCHANGED <<await, ignored, running, doing>> /\ doing = Nothing
  BY DEF ProcSyncResetFence, Ready, Idle, triggerVars, clientVars
<1>2. /\ TypeOK /\ TypeOK' /\ AwaitInv /\ f \in Objects
      /\ 0 \in Int64 /\ 1 \in Int64
  BY ObjectFacts, IntFacts DEF SyncInv, ListInv
<1>3. Values = value /\ Values' = value' /\ Due = {} /\ Due' = {}
  BY <1>1, <1>2, IdleValues, IdleAfter
<1>4. Conditions' = Conditions /\ Blocked' = Blocked
  BY <1>1 DEF Conditions, Blocked
<1>5. ASSUME NEW c \in Blocked, NEW i \in DOMAIN Conditions[c],
             Conditions[c][i].obj = f
      PROVE  ~Waiting!CheckTrigger(Conditions[c][i], Values[f], 0)
  <2>1. c \in Clients /\ Conditions[c] = await[c]
    BY <1>2 DEF TypeOK, Conditions, Blocked
  <2>2. await[c][i].check = "Fence"
    BY <1>2, <1>5, <2>1 DEF AwaitInv
  <2>3. ~CheckTrigger(await[c][i], Values[f], 0)
    BY <2>2 DEF CheckTrigger
  <2> QED BY <2>1, <2>3, SameTests
<1> DEFINE For == {c \in Blocked : \E i \in DOMAIN Conditions[c] :
                      Conditions[c][i].obj = f}
           S == {c \in For : \E i \in DOMAIN Conditions[c] :
                    /\ Conditions[c][i].obj = f
                    /\ Waiting!CheckTrigger(Conditions[c][i], Values[f], 0)}
<1>6. S = {}
  BY <1>5
<1> HIDE DEF S
<1>7. value[f] # Gone
  BY <1>1, <1>2, ValuesInt64
<1>8. Waiting!Change(f, 0)
  BY <1>1, <1>3, <1>4, <1>6, <1>7
     DEF Waiting!Change, Waiting!WaitingFor,
         Values, Conditions, Blocked, Due, S
<1> QED BY <1>2, <1>8, SameTests DEF Waiting!Next

LEMMA DestroyIsDestroy ==
    ASSUME SyncInv, SyncInv', NEW o \in Objects, Destroy(o)
    PROVE  Waiting!Next
<1>1. /\ value[o] # Gone /\ doing = Nothing
      /\ doing' = [Nothing EXCEPT !.op = "destroy", !.obj = o]
      /\ UNCHANGED <<value, await, ignored, running>>
  BY DEF Destroy, triggerVars, clientVars
<1>2. doing'.op = "destroy" /\ doing'.obj = o
  BY <1>1 DEF Nothing
<1>3. TypeOK /\ TypeOK' /\ running \subseteq Clients
  BY DEF SyncInv, ListInv, TypeOK
<1>4. Values = value /\ Due = {}
  BY <1>1, <1>3, IdleValues
<1>5. Values' = [Values EXCEPT ![o] = Gone]
  BY <1>1, <1>2, <1>3, <1>4 DEF Values, TypeOK
<1>6. Conditions' = Conditions /\ Blocked' = Blocked
  BY <1>1 DEF Conditions, Blocked
<1>7. ASSUME NEW c \in Clients
      PROVE  Released(c)' <=> \E i \in DOMAIN await[c] : await[c][i].obj = o
  BY <1>1, <1>2 DEF Released
<1> DEFINE S == {c \in Blocked : \E i \in DOMAIN Conditions[c] :
                    Conditions[c][i].obj = o}
<1>8. ASSUME NEW c \in Blocked
      PROVE  c \in S <=> Released(c)'
  <2>1. c \in Clients /\ Conditions[c] = await[c]
    BY <1>3 DEF Conditions, Blocked
  <2> QED BY <2>1, <1>7
<1>9. S \subseteq Blocked
  OBVIOUS
<1> HIDE DEF S
<1>10. Due' = S
  BY <1>1, <1>8, <1>9 DEF Due, Blocked
<1>11. Waiting!Destroy(o)
  BY <1>1, <1>4, <1>5, <1>6, <1>10
     DEF Waiting!Destroy, Waiting!WaitingFor,
         Values, Conditions, Blocked, Due, S
<1> QED BY <1>11 DEF Waiting!Next

LEMMA AwaitIsAwait ==
    ASSUME SyncInv, SyncInv', NEW c \in Clients, NEW w \in Awaits,
           ProcSyncAwait(c, w)
    PROVE  Waiting!Next
<1>1. /\ Ready(c) /\ Legal(w)
      /\ \A i \in DOMAIN w :
            ~CheckTrigger(Waits(w)[i], value[w[i].obj], value[w[i].obj])
      /\ await' = [await EXCEPT ![c] = Waits(w)]
      /\ ignored' = ignored \cup {c}
      /\ UNCHANGED <<value, running, doing>>
  BY DEF ProcSyncAwait, clientVars
<1>2. TypeOK /\ TypeOK'
  BY DEF SyncInv, ListInv
<1>3. /\ doing = Nothing /\ doing' = Nothing
      /\ c \in running /\ c \notin ignored
  BY <1>1, ReadyFacts
<1>4. /\ Values = value /\ Due = {} /\ Values' = value' /\ Due' = {}
      /\ Conditions = [d \in Clients |->
                         IF d \in running THEN await[d] ELSE <<>>]
      /\ Conditions' = [d \in Clients |->
                          IF d \in running' THEN await'[d] ELSE <<>>]
  BY <1>2, <1>3, IdleValues, IdleAfter DEF Conditions
<1>5. /\ c \in running \ Blocked /\ Blocked' = Blocked \cup {c}
      /\ Values' = Values
  BY <1>1, <1>3, <1>4 DEF Blocked
<1>6. /\ Conditions'[c] = Waits(w)
      /\ Conditions' = [Conditions EXCEPT ![c] = Conditions'[c]]
  <2>1. await'[c] = Waits(w) /\ \A d \in Clients : d # c => await'[d] = await[d]
    BY <1>1, <1>2 DEF TypeOK
  <2>2. Conditions'[c] = Waits(w)
    BY <1>1, <1>3, <1>4, <2>1
  <2>3. \A d \in Clients : d # c => Conditions'[d] = Conditions[d]
    BY <1>1, <1>4, <2>1
  <2>4. DOMAIN Conditions' = Clients /\ DOMAIN Conditions = Clients
        /\ Conditions' = [d \in Clients |-> Conditions'[d]]
    BY <1>4
  <2> QED BY <2>2, <2>3, <2>4
<1>7. ASSUME NEW i \in DOMAIN Conditions'[c]
      PROVE  /\ Values[Conditions'[c][i].obj] # Gone
             /\ ~Waiting!CheckTrigger(Conditions'[c][i],
                                      Values[Conditions'[c][i].obj],
                                      Values[Conditions'[c][i].obj])
  <2>1. /\ DOMAIN Waits(w) = DOMAIN w
        /\ \A j \in DOMAIN w : Waits(w)[j].obj = w[j].obj
    BY <1>1, <1>2, WaitsType
  <2>2. i \in DOMAIN w /\ Conditions'[c][i].obj = w[i].obj
    BY <1>6, <2>1
  <2>3. value[w[i].obj] # Gone
    BY <1>1, <2>2 DEF Legal
  <2> QED BY <1>1, <1>4, <1>6, <2>2, <2>3, SameTests
<1>8. Waiting!Await(c)
  BY <1>1, <1>4, <1>5, <1>6, <1>7
     DEF Waiting!Await, Values, Conditions, Blocked, Due
<1> QED BY <1>8 DEF Waiting!Next

LEMMA CloseIsLeave ==
    ASSUME SyncInv, SyncInv', NEW c \in Clients, CloseDownClient(c)
    PROVE  Waiting!Next
<1>1. /\ doing = Nothing /\ c \in running /\ running' = running \ {c}
      /\ UNCHANGED <<value, await, ignored, doing>>
  BY DEF CloseDownClient, Idle, triggerVars
<1>2. TypeOK /\ TypeOK'
  BY DEF SyncInv, ListInv
<1>3. Values = value /\ Due = {} /\ Values' = value' /\ Due' = {}
  BY <1>1, <1>2, IdleValues, IdleAfter
<1>4. Blocked' = Blocked \ {c}
  BY <1>1 DEF Blocked
<1>5. Conditions' = [Conditions EXCEPT ![c] = <<>>]
  BY <1>1 DEF Conditions
<1>6. Waiting!Leave(c)
  BY <1>1, <1>3, <1>4, <1>5
     DEF Waiting!Leave, Waiting!Free, Values, Conditions, Blocked, Due
<1> QED BY <1>6 DEF Waiting!Next

-----------------------------------------------------------------------------
(* The steps of the loops, and those that cannot be seen.                  *)

\* No loop is under way, and no client that is left is concerned.
LEMMA IdleStutters ==
    ASSUME SyncInv, SyncInv', doing = Nothing,
           UNCHANGED <<value, running, doing>>,
           \A c \in running : /\ await'[c] = await[c]
                              /\ c \in ignored' <=> c \in ignored
    PROVE  UNCHANGED Waiting!vars
<1>1. TypeOK /\ TypeOK' /\ running \subseteq Clients
  BY DEF SyncInv, ListInv, TypeOK
<1>2. Values' = Values /\ \A c : ~Released(c) /\ ~Released(c)'
  BY <1>1, IdleValues, IdleAfter, IdleReleases
<1>3. \A c \in running :
         /\ await'[c] = await[c] /\ (Released(c)' <=> Released(c))
         /\ c \in ignored' <=> c \in ignored
  BY <1>2
<1>4. UNCHANGED running
  OBVIOUS
<1> QED BY <1>2, <1>3, <1>4, Stutters

LEMMA LoopStutters ==
    ASSUME SyncInv, UNCHANGED <<value, await, ignored, running>>,
           doing'.op = doing.op, doing'.obj = doing.obj, doing'.old = doing.old
    PROVE  UNCHANGED Waiting!vars
<1>1. Values' = Values
  BY DEF Values
<1>2. \A c : Released(c)' <=> Released(c)
  BY DEF Released
<1>3. \A c \in running :
         /\ await'[c] = await[c] /\ (Released(c)' <=> Released(c))
         /\ c \in ignored' <=> c \in ignored
  BY <1>2
<1>4. UNCHANGED running
  OBVIOUS
<1> QED BY <1>1, <1>3, <1>4, Stutters

\* A loop wakes a client up.
LEMMA FiringResumes ==
    ASSUME SyncInv, NEW c \in Clients, Released(c), AwaitFires(c),
           UNCHANGED <<value, running>>,
           doing'.op = doing.op, doing'.obj = doing.obj, doing'.old = doing.old
    PROVE  Waiting!Next \/ UNCHANGED Waiting!vars
<1>1. Values' = Values
  BY DEF Values
<1>2. /\ await \in [Clients -> Seq(Wait)] /\ running \subseteq Clients
      /\ await' = [await EXCEPT ![c] = <<>>]
      /\ ignored' = ignored \ ({c} \cap running)
  BY DEF SyncInv, ListInv, TypeOK, AwaitFires
<1>3. ASSUME NEW d \in running, d # c
      PROVE  /\ await'[d] = await[d] /\ (Released(d)' <=> Released(d))
             /\ d \in ignored' <=> d \in ignored
  <2>1. await'[d] = await[d] /\ (d \in ignored' <=> d \in ignored)
    BY <1>2, <1>3
  <2>2. Released(d)' <=> Released(d)
    BY <2>1 DEF Released
  <2> QED BY <2>1, <2>2
<1>4. CASE c \notin running
  <2>1. \A d \in running :
           /\ await'[d] = await[d] /\ (Released(d)' <=> Released(d))
           /\ d \in ignored' <=> d \in ignored
    BY <1>3, <1>4
  <2>2. UNCHANGED running
    OBVIOUS
  <2> QED BY <1>1, <2>1, <2>2, Stutters
<1>5. CASE c \in running
  <2>1. await[c] # <<>>
    BY DEF Released
  <2>2. c \in ignored
    BY <1>5, <2>1 DEF SyncInv, AwaitInv
  <2>3. c \in Due
    BY <1>5, <2>2 DEF Due
  <2>4. await'[c] = <<>> /\ c \notin ignored'
    BY <1>2, <1>5
  <2>5. Due' = Due \ {c} /\ Blocked' = Blocked \ {c}
    BY <1>2, <1>3, <2>4 DEF Due, Blocked
  <2>6. Conditions' = [Conditions EXCEPT ![c] = <<>>]
    BY <1>2, <1>3, <2>4 DEF Conditions
  <2>7. Waiting!Resume(c)
    BY <1>1, <2>3, <2>5, <2>6
       DEF Waiting!Resume, Waiting!Free, Values, Conditions, Blocked, Due
  <2> QED BY <2>7 DEF Waiting!Next
<1> QED BY <1>4, <1>5

\* A loop has nobody left to release, and ends.
LEMMA EndStutters ==
    ASSUME SyncInv, SyncInv', doing' = Nothing,
           \A c \in Clients : ~Released(c), Values' = Values,
           UNCHANGED <<await, ignored, running>>
    PROVE  UNCHANGED Waiting!vars
<1>1. TypeOK' /\ running \subseteq Clients
  BY DEF SyncInv, ListInv, TypeOK
<1>2. \A c : ~Released(c)'
  BY <1>1, IdleAfter
<1>3. \A c \in running :
         /\ await'[c] = await[c] /\ (Released(c)' <=> Released(c))
         /\ c \in ignored' <=> c \in ignored
  BY <1>1, <1>2
<1>4. UNCHANGED running
  OBVIOUS
<1> QED BY <1>3, <1>4, Stutters

\* A client with a condition on the object of the loop is on its list.
LEMMA ReleasedIsListed ==
    ASSUME SyncInv, NEW c \in Clients, Released(c)
    PROVE  \E i \in DOMAIN await[c] :
              /\ AwaitTrigger(c, i) \in triglist[doing.obj]
              /\ doing.op = "destroy" \/ Fires(AwaitTrigger(c, i))
<1>1. PICK i \in DOMAIN await[c] :
          /\ doing.op # "none" /\ await[c][i].obj = doing.obj
          /\ doing.op = "destroy"
               \/ CheckTrigger(await[c][i], doing.old, value[doing.obj])
  BY DEF Released
<1>2. AwaitTrigger(c, i) \in triglist[doing.obj]
  BY <1>1, AwaitExists DEF SyncInv
<1>3. Trigger(AwaitTrigger(c, i)) = await[c][i]
  BY TriggerFacts DEF Trigger
<1> QED BY <1>1, <1>2, <1>3 DEF Fires

LEMMA WalkFireResumes ==
    ASSUME SyncInv, SyncInv', WalkFire
    PROVE  Waiting!Next \/ UNCHANGED Waiting!vars
<1> DEFINE t == doing.next
           rest == doing.todo \ {doing.next}
           left == triglist'[doing.obj]
<1>1. /\ doing.op = "change" /\ doing.next # NoTrigger /\ Fires(doing.next)
      /\ GoOn(rest, left) /\ UNCHANGED <<value, running>>
      /\ \/ t.kind = "alarm" /\ UNCHANGED <<triglist, await, ignored>>
         \/ t.kind = "await" /\ AwaitFires(t.who)
  BY DEF WalkFire, clientVars
<1>2. /\ doing.obj \in Objects /\ t \in triglist[doing.obj]
      /\ doing \in Doing /\ ListInv /\ doing.todo \subseteq Triggers
  BY <1>1 DEF SyncInv, LoopInv, ListInv, TypeOK, Doing
<1>3. rest \subseteq Triggers /\ left \in SUBSET Triggers
  BY <1>2 DEF SyncInv, ListInv, TypeOK
<1> HIDE DEF rest, left
<1>4. doing'.op = doing.op /\ doing'.obj = doing.obj /\ doing'.old = doing.old
  BY <1>1, <1>2, <1>3, GoOnDoes
<1>5. CASE t.kind = "alarm"
  BY <1>1, <1>4, <1>5, LoopStutters
<1>6. CASE t.kind = "await"
  <2>1. /\ t.who \in Clients /\ t.item \in DOMAIN await[t.who]
        /\ await[t.who][t.item].obj = doing.obj
    BY <1>2, <1>6, OnList
  <2>2. Trigger(t) = await[t.who][t.item]
    BY <1>6 DEF Trigger
  <2>3. Released(t.who)
    BY <1>1, <2>1, <2>2 DEF Released, Fires
  <2> QED BY <1>1, <1>4, <1>6, <2>1, <2>3, FiringResumes
<1> QED BY <1>1, <1>5, <1>6

LEMMA WalkDoneStutters ==
    ASSUME SyncInv, SyncInv', WalkDone
    PROVE  UNCHANGED Waiting!vars
<1>1. /\ doing.op = "change" /\ doing.next = NoTrigger /\ doing' = Nothing
      /\ UNCHANGED <<value, await, ignored, running>>
  BY DEF WalkDone, triggerVars, clientVars
<1>2. doing.todo = {}
  BY <1>1, TriggerFacts DEF SyncInv, LoopInv, ListInv, TypeOK, Doing
<1>3. ASSUME NEW c \in Clients, Released(c)
      PROVE  FALSE
  <2>1. PICK i \in DOMAIN await[c] :
            /\ AwaitTrigger(c, i) \in triglist[doing.obj]
            /\ Fires(AwaitTrigger(c, i))
    BY <1>1, <1>3, ReleasedIsListed
  <2> QED BY <1>1, <1>2, <2>1, TriggerFacts DEF SyncInv, LoopInv
<1>4. Values' = Values
  BY <1>1, NothingFacts DEF Values
<1> QED BY <1>1, <1>3, <1>4, EndStutters

LEMMA FenceResumes ==
    ASSUME SyncInv, SyncInv', FenceFires \/ FenceDone
    PROVE  Waiting!Next \/ UNCHANGED Waiting!vars
<1>1. doing.op = "trigger" /\ UNCHANGED <<value, running>>
  BY DEF FenceFires, FenceDone, clientVars
<1>2. doing.obj \in Fences /\ doing.obj \in Objects /\ value[doing.obj] = 1
  BY <1>1 DEF SyncInv, LoopInv
<1>3. CASE FenceFires
  <2>1. PICK t \in triglist[doing.obj] : AwaitFires(t.who)
    BY <1>3 DEF FenceFires
  <2>2. UNCHANGED doing
    BY <1>3 DEF FenceFires
  <2>3. /\ t.who \in Clients /\ t.item \in DOMAIN await[t.who]
        /\ await[t.who][t.item].obj = doing.obj
    BY <1>2, OnFence, OnList DEF SyncInv
  <2>4. await[t.who][t.item].check = "Fence"
    BY <1>2, <2>3 DEF SyncInv, AwaitInv
  <2>5. CheckTrigger(await[t.who][t.item], doing.old, value[doing.obj])
    BY <1>2, <2>4 DEF CheckTrigger
  <2>6. Released(t.who)
    BY <1>1, <2>3, <2>5 DEF Released
  <2> QED BY <1>1, <2>1, <2>2, <2>3, <2>6, FiringResumes
<1>4. CASE FenceDone
  <2>1. /\ triglist[doing.obj] = {} /\ doing' = Nothing
        /\ UNCHANGED <<await, ignored>>
    BY <1>4 DEF FenceDone, triggerVars
  <2>2. \A c \in Clients : ~Released(c)
    BY <2>1, ReleasedIsListed
  <2>3. Values' = Values
    BY <1>1, <2>1, NothingFacts DEF Values
  <2> QED BY <1>1, <2>1, <2>2, <2>3, EndStutters
<1> QED BY <1>3, <1>4

LEMMA DestructionResumes ==
    ASSUME SyncInv, SyncInv', TellTrigger \/ ObjectFreed
    PROVE  Waiting!Next \/ UNCHANGED Waiting!vars
<1>1. doing.op = "destroy" /\ UNCHANGED running
  BY DEF TellTrigger, ObjectFreed, clientVars
<1>2. doing.obj \in Objects /\ ListInv /\ TypeOK
  BY <1>1 DEF SyncInv, LoopInv, ListInv
<1>3. CASE TellTrigger
  <2>1. UNCHANGED <<value, doing>>
    BY <1>3 DEF TellTrigger
  <2>2. PICK t \in triglist[doing.obj] :
            \/ t.kind = "alarm" /\ UNCHANGED <<await, ignored>>
            \/ t.kind = "await" /\ AwaitFires(t.who)
    BY <1>3 DEF TellTrigger
  <2>3. CASE t.kind = "alarm"
    BY <1>1, <2>1, <2>2, <2>3, LoopStutters
  <2>4. CASE t.kind = "await"
    <3>1. /\ t.who \in Clients /\ t.item \in DOMAIN await[t.who]
          /\ await[t.who][t.item].obj = doing.obj
      BY <1>2, <2>4, OnList
    <3>2. Released(t.who)
      BY <1>1, <3>1 DEF Released
    <3> QED BY <1>1, <2>1, <2>2, <2>4, <3>1, <3>2, FiringResumes
  <2> QED BY <2>2, <2>3, <2>4
<1>4. CASE ObjectFreed
  <2>1. /\ triglist[doing.obj] = {} /\ doing' = Nothing
        /\ value' = [value EXCEPT ![doing.obj] = Gone]
        /\ UNCHANGED <<await, ignored>>
    BY <1>4 DEF ObjectFreed, triggerVars
  <2>2. \A c \in Clients : ~Released(c)
    BY <2>1, ReleasedIsListed
  <2>3. Values' = Values
    BY <1>1, <1>2, <2>1, NothingFacts DEF Values, TypeOK
  <2> QED BY <1>1, <2>1, <2>2, <2>3, EndStutters
<1> QED BY <1>3, <1>4

LEMMA CleanUpStutters ==
    ASSUME SyncInv, SyncInv', FreeAwait \/ ClientFreed
    PROVE  UNCHANGED Waiting!vars
<1>1. doing = Nothing /\ UNCHANGED <<value, running, doing>>
  BY DEF FreeAwait, ClientFreed, clientVars
<1>2. /\ closing \notin running /\ running \subseteq Clients
      /\ await \in [Clients -> Seq(Wait)]
  BY DEF SyncInv, AwaitInv, ListInv, TypeOK
<1>3. ASSUME NEW c \in running
      PROVE  await'[c] = await[c] /\ (c \in ignored' <=> c \in ignored)
  BY <1>2 DEF FreeAwait, ClientFreed
<1> QED BY <1>1, <1>3, IdleStutters

\* The requests on alarms, and freeing an alarm.
LEMMA AlarmStutters ==
    ASSUME SyncInv, SyncInv', doing = Nothing,
           UNCHANGED <<value, await, ignored, clientVars, doing>>
    PROVE  UNCHANGED Waiting!vars
<1>1. UNCHANGED <<value, running, doing>>
  BY DEF clientVars
<1>2. \A c \in running : await'[c] = await[c] /\ (c \in ignored' <=> c \in ignored)
  OBVIOUS
<1> QED BY <1>1, <1>2, IdleStutters

-----------------------------------------------------------------------------
LEMMA RequestWaits ==
    ASSUME SyncInv, SyncInv', Request
    PROVE  Waiting!Next \/ UNCHANGED Waiting!vars
<1> DEFINE P == Waiting!Next \/ UNCHANGED Waiting!vars
<1> USE DEF P
<1>1. ASSUME NEW k \in Counters, NEW v \in InitialValues, SyncCreate(k, v)
      PROVE  P
  BY <1>1, CreateIsCreate, ValuesInt64, ObjectFacts
<1>2. ASSUME NEW k \in Counters, NEW v \in Int64, doing = Nothing,
             SyncChangeCounter(k, v)
      PROVE  P
  <2>1. /\ value[k] # Gone /\ value' = [value EXCEPT ![k] = v]
        /\ doing'.op = "change" /\ doing'.obj = k /\ doing'.old = value[k]
        /\ UNCHANGED <<await, ignored, running>>
    BY <1>2 DEF SyncChangeCounter, triggerVars, clientVars
  <2> QED BY <1>2, <2>1, ChangeIsChange, ObjectFacts
<1>3. ASSUME NEW k \in Counters, NEW v \in SetValues, ProcSyncSetCounter(k, v)
      PROVE  P
  BY <1>2, <1>3, ValuesInt64 DEF ProcSyncSetCounter, Ready, Idle
<1>4. ASSUME NEW k \in Counters, NEW d \in Increments,
             ProcSyncChangeCounter(k, d)
      PROVE  P
  <2>1. /\ value[k] # Gone /\ SyncChangeCounter(k, Wrap(d + value[k]))
        /\ doing = Nothing
    BY <1>4 DEF ProcSyncChangeCounter, Ready, Idle
  <2>2. value[k] \in Int64 /\ d \in Int64
    BY <2>1, ObjectFacts, ValuesInt64 DEF SyncInv, ListInv, TypeOK
  <2>3. value[k] \in Int /\ d \in Int
    BY <2>2, IntFacts
  <2>4. d + value[k] \in Int
    BY <2>3
  <2> QED BY <1>2, <2>1, <2>4, WrapType
<1>5. ASSUME NEW f \in Fences, NEW v \in {0, 1}, SyncCreate(f, v)
      PROVE  P
  BY <1>5, CreateIsCreate, ValuesInt64, ObjectFacts
<1>6. ASSUME NEW f \in Fences, ProcSyncTriggerFence(f)
      PROVE  P
  <2>1. /\ value[f] # Gone /\ value' = [value EXCEPT ![f] = 1]
        /\ doing = Nothing
        /\ doing'.op = "trigger" /\ doing'.obj = f /\ doing'.old = value[f]
        /\ UNCHANGED <<await, ignored, running>>
    BY <1>6
       DEF ProcSyncTriggerFence, Ready, Idle, Nothing, triggerVars, clientVars
  <2> QED BY <2>1, ChangeIsChange, ObjectFacts, IntFacts
<1>7. ASSUME NEW f \in Fences, ProcSyncResetFence(f)
      PROVE  P
  BY <1>7, ResetIsChange
<1>8. ASSUME NEW o \in Objects, ProcSyncDestroy(o)
      PROVE  P
  BY <1>8, DestroyIsDestroy DEF ProcSyncDestroy
<1>9. ASSUME NEW c \in Clients, NEW w \in Awaits, ProcSyncAwait(c, w)
      PROVE  P
  BY <1>9, AwaitIsAwait
<1>10. ASSUME NEW a \in Alarms, NEW r,
              \/ ProcSyncCreateAlarm(a, r) \/ ProcSyncChangeAlarm(a, r)
              \/ ChangeAlarmFails(a, r) \/ ProcSyncDestroyAlarm(a)
       PROVE  P
  <2>1. doing = Nothing /\ UNCHANGED <<value, await, ignored, clientVars, doing>>
    BY <1>10
       DEF ProcSyncCreateAlarm, ProcSyncChangeAlarm, ChangeAlarmFails,
           ProcSyncDestroyAlarm, FreeAlarm, Ready, Idle
  <2> QED BY <2>1, AlarmStutters
<1>11. ASSUME NEW c \in Closers, CloseDownClient(c)
       PROVE  P
  BY <1>11, CloseIsLeave, OwnerAssumption
<1> HIDE DEF P
<1>12. P
  BY <1>1, <1>3, <1>4, <1>5, <1>6, <1>7, <1>8, <1>9, <1>10, <1>11 DEF Request
<1> QED BY <1>12 DEF P

LEMMA ServerStepWaits ==
    ASSUME SyncInv, SyncInv', ServerStep
    PROVE  Waiting!Next \/ UNCHANGED Waiting!vars
<1>1. CASE WalkPast
  <2>1. /\ doing'.op = doing.op /\ doing'.obj = doing.obj
        /\ doing'.old = doing.old
        /\ UNCHANGED <<value, await, ignored, running>>
    BY <1>1 DEF WalkPast, triggerVars, clientVars, SyncInv, ListInv, TypeOK, Doing
  <2> QED BY <2>1, LoopStutters
<1>2. CASE WalkFire
  BY <1>2, WalkFireResumes
<1>3. CASE WalkDone
  BY <1>3, WalkDoneStutters
<1>4. CASE FenceFires \/ FenceDone
  BY <1>4, FenceResumes
<1>5. CASE TellTrigger \/ ObjectFreed
  BY <1>5, DestructionResumes
<1>6. ASSUME NEW a \in Alarms, FreeClientAlarm(a)
      PROVE  UNCHANGED Waiting!vars
  <2>1. doing = Nothing /\ UNCHANGED <<value, await, ignored, clientVars, doing>>
    BY <1>6 DEF FreeClientAlarm, FreeAlarm
  <2> QED BY <2>1, AlarmStutters
<1>7. ASSUME NEW o \in Objects, FreeClientObject(o)
      PROVE  Waiting!Next
  BY <1>7, DestroyIsDestroy DEF FreeClientObject
<1>8. CASE FreeAwait \/ ClientFreed
  BY <1>8, CleanUpStutters
<1> QED BY <1>1, <1>2, <1>3, <1>4, <1>5, <1>6, <1>7, <1>8 DEF ServerStep

LEMMA VarsStutter == SyncInv /\ UNCHANGED vars => UNCHANGED Waiting!vars
<1> SUFFICES ASSUME SyncInv, UNCHANGED vars PROVE UNCHANGED Waiting!vars
  OBVIOUS
<1>1. UNCHANGED <<value, await, ignored, running, doing>>
  BY DEF vars
<1> QED BY <1>1, LoopStutters

LEMMA NextWaits ==
    SyncInv /\ SyncInv' /\ [Next]_vars => [Waiting!Next]_(Waiting!vars)
BY RequestWaits, ServerStepWaits, VarsStutter DEF Next, WaitForSomething

\* SyncChangeCounter, miSyncTriggerFence and the destruction of a counter or
\* fence release every client one of whose conditions became true, or whose
\* object goes away, before anything else happens, and no other client:
\* whatever nodes the firing triggers take off the list under the loop.
THEOREM AwaitsAreKept == Spec => ImplementsAwait
<1>1. Init => Waiting!Init
  BY InitWaits
<1>2. SyncInv /\ SyncInv' /\ [Next]_vars => [Waiting!Next]_(Waiting!vars)
  BY NextWaits
<1> QED BY <1>1, <1>2, SyncInvariant, PTL
        DEF Spec, ImplementsAwait, Waiting!Spec

-----------------------------------------------------------------------------
(* The loops end.                                                          *)

Awaiting == {c \in Clients : await[c] # <<>>}
Standing ==
    {o \in Objects :
        value[o] # Gone /\ o # (IF doing.op = "destroy" THEN doing.obj ELSE None)}
Existing == {a \in Alarms : alarm[a] # NoAlarm}
Hanging == {a \in Existing : alarm[a].obj # None}

Things == Cardinality(Awaiting) + Cardinality(Standing)
            + Cardinality(Existing) + Cardinality(Hanging)
Chores == Cardinality(doing.todo) + OneIf(doing # Nothing) + OneIf(closing # NoClient)

WorkSplits ==
    /\ Work = Weight * Things + Chores
    /\ Things \in Nat /\ Chores \in Nat
    /\ Cardinality(doing.todo) \in 0 .. Cardinality(Triggers)
    /\ OneIf(doing # Nothing) \in {0, 1} /\ OneIf(closing # NoClient) \in {0, 1}

LEMMA TriggersCounted == Cardinality(Triggers) \in Nat
BY FiniteAssumption, FS_CardinalityType

LEMMA ThingsCounted ==
    /\ IsFiniteSet(Awaiting) /\ IsFiniteSet(Standing)
    /\ IsFiniteSet(Existing) /\ IsFiniteSet(Hanging)
    /\ Cardinality(Awaiting) \in Nat /\ Cardinality(Standing) \in Nat
    /\ Cardinality(Existing) \in Nat /\ Cardinality(Hanging) \in Nat
<1>1. /\ Awaiting \in SUBSET Clients /\ Standing \in SUBSET Objects
      /\ Existing \in SUBSET Alarms /\ Hanging \in SUBSET Alarms
  BY DEF Awaiting, Standing, Existing, Hanging
<1>2. /\ IsFiniteSet(Awaiting) /\ IsFiniteSet(Standing)
      /\ IsFiniteSet(Existing) /\ IsFiniteSet(Hanging)
  BY <1>1, FS_Subset, FiniteAssumption
<1> QED BY <1>2, FS_CardinalityType

LEMMA WorkParts == doing \in Doing => WorkSplits
<1> SUFFICES ASSUME doing \in Doing PROVE WorkSplits
  OBVIOUS
<1>1. doing.todo \in SUBSET Triggers
  BY DEF Doing
<1>2. IsFiniteSet(doing.todo) /\ Cardinality(doing.todo) <= Cardinality(Triggers)
  BY <1>1, FS_Subset, FiniteAssumption
<1>3. Cardinality(doing.todo) \in 0 .. Cardinality(Triggers)
  BY <1>2, FS_CardinalityType, TriggersCounted
<1>4. OneIf(doing # Nothing) \in {0, 1} /\ OneIf(closing # NoClient) \in {0, 1}
  BY DEF OneIf
<1>5. Things \in Nat
  BY ThingsCounted DEF Things
<1>6. Chores \in Nat
  BY <1>3, <1>4, TriggersCounted DEF Chores
<1>7. Weight \in Nat
  BY TriggersCounted DEF Weight
<1>8. Work = Weight * Things + Cardinality(doing.todo)
               + OneIf(doing # Nothing) + OneIf(closing # NoClient)
  BY DEF Work, Things, Awaiting, Standing, Existing, Hanging
<1>9. PICK w \in Nat, n \in Nat, x \in Nat, y \in Nat, z \in Nat :
        /\ w = Weight /\ n = Things /\ x = Cardinality(doing.todo)
        /\ y = OneIf(doing # Nothing) /\ z = OneIf(closing # NoClient)
  BY <1>3, <1>4, <1>5, <1>7, TriggersCounted
<1>10. w * n \in Nat
  BY <1>9
<1>11. w * n + x + y + z = w * n + (x + y + z)
  BY <1>9, <1>10
<1> QED BY <1>3, <1>4, <1>5, <1>6, <1>8, <1>9, <1>11 DEF WorkSplits, Chores

LEMMA WorkPartsPrime == (doing \in Doing)' => WorkSplits'
BY WorkParts, PTL

LEMMA Multiplied ==
    ASSUME NEW w \in Nat, NEW m \in Nat, NEW n \in Nat, m < n
    PROVE  w * m + w <= w * n
<1>1. PICK d \in Nat : n = m + 1 + d
  <2>1. n - m - 1 \in Nat /\ n = m + 1 + (n - m - 1)
    OBVIOUS
  <2> QED BY <2>1
<1>2. w * n = w * m + w + w * d
  BY <1>1
<1>3. w * d \in Nat /\ w * m \in Nat
  BY <1>1
<1> QED BY <1>2, <1>3

\* A thing outweighs all chores.
LEMMA LessWork ==
    ASSUME WorkSplits, WorkSplits',
           \/ Things' < Things /\ Chores' <= Chores + Cardinality(Triggers) + 1
           \/ Things' = Things /\ Chores' < Chores
    PROVE  Work' < Work
<1>1. PICK n \in Nat, c \in Nat, n2 \in Nat, c2 \in Nat, k \in Nat :
        /\ n = Things /\ c = Chores /\ n2 = Things' /\ c2 = Chores'
        /\ k = Cardinality(Triggers)
  BY TriggersCounted DEF WorkSplits
<1>2. PICK w \in Nat : w = k + 2
  BY <1>1
<1>3. Weight = w /\ Weight' = w
  BY <1>1, <1>2 DEF Weight
<1>4. Work = w * n + c /\ Work' = w * n2 + c2
  BY <1>1, <1>3 DEF WorkSplits
<1>5. (n2 < n /\ c2 <= c + k + 1) \/ (n2 = n /\ c2 < c)
  BY <1>1
<1>6. w * n \in Nat /\ w * n2 \in Nat
  BY <1>1, <1>2
<1>7. CASE n2 < n
  <2>1. w * n2 + w <= w * n
    BY <1>7, <1>1, <1>2, Multiplied
  <2> QED BY <2>1, <1>1, <1>2, <1>4, <1>5, <1>6, <1>7
<1>8. CASE n2 = n
  <2>1. PICK p \in Nat : p = w * n
    BY <1>6
  <2>2. Work = p + c /\ Work' = p + c2
    BY <2>1, <1>4, <1>8
  <2>3. c2 < c
    BY <1>5, <1>8, <1>1
  <2>4. p + c2 < p + c
    BY <2>3
  <2> QED BY <2>2, <2>4, Zenon
<1> QED BY <1>5, <1>7, <1>8

LEMMA SmallerSum ==
    ASSUME NEW a \in Nat, NEW b \in Nat, NEW c \in Nat, NEW d \in Nat,
           NEW a2 \in Nat, NEW b2 \in Nat, NEW c2 \in Nat, NEW d2 \in Nat,
           a2 <= a, b2 <= b, c2 <= c, d2 <= d,
           a2 # a \/ b2 # b \/ c2 # c \/ d2 # d
    PROVE  a2 + b2 + c2 + d2 < a + b + c + d
OBVIOUS

\* No thing is new.
LEMMA FewerThings ==
    ASSUME Awaiting' \subseteq Awaiting, Standing' \subseteq Standing,
           Existing' \subseteq Existing, Hanging' \subseteq Hanging
    PROVE  /\ Things' <= Things
           /\ \/ Awaiting' # Awaiting \/ Standing' # Standing
              \/ Existing' # Existing \/ Hanging' # Hanging
              => Things' < Things
<1>1. PICK b, st, e, h, b2, st2, e2, h2 :
        /\ b = Awaiting /\ st = Standing /\ e = Existing /\ h = Hanging
        /\ b2 = Awaiting' /\ st2 = Standing' /\ e2 = Existing' /\ h2 = Hanging'
  OBVIOUS
<1>2. IsFiniteSet(b) /\ IsFiniteSet(st) /\ IsFiniteSet(e) /\ IsFiniteSet(h)
  BY <1>1, ThingsCounted
<1>3. /\ Cardinality(b2) <= Cardinality(b) /\ (Cardinality(b) = Cardinality(b2) => b = b2)
      /\ IsFiniteSet(b2)
  BY <1>1, <1>2, FS_Subset
<1>4. /\ Cardinality(st2) <= Cardinality(st) /\ (Cardinality(st) = Cardinality(st2) => st = st2)
      /\ IsFiniteSet(st2)
  BY <1>1, <1>2, FS_Subset
<1>5. /\ Cardinality(e2) <= Cardinality(e) /\ (Cardinality(e) = Cardinality(e2) => e = e2)
      /\ IsFiniteSet(e2)
  BY <1>1, <1>2, FS_Subset
<1>6. /\ Cardinality(h2) <= Cardinality(h) /\ (Cardinality(h) = Cardinality(h2) => h = h2)
      /\ IsFiniteSet(h2)
  BY <1>1, <1>2, FS_Subset
<1>7. /\ Cardinality(b) \in Nat /\ Cardinality(st) \in Nat
      /\ Cardinality(e) \in Nat /\ Cardinality(h) \in Nat
      /\ Cardinality(b2) \in Nat /\ Cardinality(st2) \in Nat
      /\ Cardinality(e2) \in Nat /\ Cardinality(h2) \in Nat
  BY <1>2, <1>3, <1>4, <1>5, <1>6, FS_CardinalityType
<1>8. /\ Things = Cardinality(b) + Cardinality(st) + Cardinality(e) + Cardinality(h)
      /\ Things' = Cardinality(b2) + Cardinality(st2) + Cardinality(e2) + Cardinality(h2)
  BY <1>1 DEF Things
<1>9. Things' <= Things
  BY <1>3, <1>4, <1>5, <1>6, <1>7, <1>8
<1>10. ASSUME b2 # b \/ st2 # st \/ e2 # e \/ h2 # h PROVE Things' < Things
  <2>1. \/ Cardinality(b2) # Cardinality(b) \/ Cardinality(st2) # Cardinality(st)
        \/ Cardinality(e2) # Cardinality(e) \/ Cardinality(h2) # Cardinality(h)
    BY <1>10, <1>3, <1>4, <1>5, <1>6
  <2>2. /\ Cardinality(b2) <= Cardinality(b) /\ Cardinality(st2) <= Cardinality(st)
        /\ Cardinality(e2) <= Cardinality(e) /\ Cardinality(h2) <= Cardinality(h)
    BY <1>3, <1>4, <1>5, <1>6
  <2> QED BY <2>1, <2>2, <1>7, <1>8, SmallerSum
<1> QED BY <1>1, <1>9, <1>10

LEMMA SameThings ==
    ASSUME UNCHANGED <<value, alarm, await>>,
           (doing'.op = "destroy") = (doing.op = "destroy"), doing'.obj = doing.obj
    PROVE  /\ Things' = Things /\ Awaiting' = Awaiting /\ Standing' = Standing
           /\ Existing' = Existing /\ Hanging' = Hanging
<1>1. /\ Awaiting' = Awaiting /\ Standing' = Standing
      /\ Existing' = Existing /\ Hanging' = Hanging
  BY DEF Awaiting, Standing, Existing, Hanging
<1> QED BY <1>1 DEF Things

\* An Await is gone.
LEMMA OneAwaitLess ==
    ASSUME TypeOK, NEW c \in Clients, await[c] # <<>>, await' = [await EXCEPT ![c] = <<>>],
           UNCHANGED <<value, alarm>>,
           (doing'.op = "destroy") = (doing.op = "destroy"), doing'.obj = doing.obj
    PROVE  Things' < Things
<1>1. Standing' = Standing /\ Existing' = Existing /\ Hanging' = Hanging
  BY DEF Standing, Existing, Hanging
<1>2. \A d \in Clients : await'[d] = IF d = c THEN <<>> ELSE await[d]
  BY DEF TypeOK
<1>3. Awaiting' \subseteq Awaiting /\ c \in Awaiting /\ c \notin Awaiting'
  BY <1>2 DEF Awaiting
<1> QED BY <1>1, <1>3, FewerThings

\* A step that frees something, whatever loop it begins.
LEMMA ThingFreed ==
    ASSUME SyncInv, SyncInv', Things' < Things, UNCHANGED closing
    PROVE  Work' < Work
<1>1. doing \in Doing /\ (doing \in Doing)'
  BY DEF SyncInv, ListInv, TypeOK
<1>2. WorkSplits /\ WorkSplits'
  BY <1>1, WorkParts, WorkPartsPrime
<1>3. OneIf(closing # NoClient)' = OneIf(closing # NoClient)
  BY DEF OneIf
<1>4. PICK x \in Nat, y \in Nat, z \in Nat, o \in Nat, o2 \in {0, 1}, k \in Nat :
        /\ x = Cardinality(doing.todo) /\ y = Cardinality(doing.todo)' /\ y <= k
        /\ z = OneIf(closing # NoClient)
        /\ o = OneIf(doing # Nothing) /\ o2 = OneIf(doing # Nothing)'
        /\ k = Cardinality(Triggers)
  BY <1>2, TriggersCounted DEF WorkSplits
<1>5. Chores = x + o + z /\ Chores' = y + o2 + z
  BY <1>3, <1>4 DEF Chores
<1>6. y <= k
  BY <1>4
<1>7. y + o2 + z <= (x + o + z) + k + 1
  BY <1>6
<1>8. Chores' <= Chores + Cardinality(Triggers) + 1
  BY <1>4, <1>5, <1>7, Zenon
<1> QED BY <1>2, <1>8, LessWork

\* The trigger of an Await fires.
LEMMA AwaitFiresEnds ==
    ASSUME SyncInv, SyncInv', NEW c \in Clients, await[c] # <<>>, AwaitFires(c),
           UNCHANGED <<value, alarm, closing>>,
           doing'.op = doing.op, doing'.obj = doing.obj
    PROVE  Work' < Work
<1>1. TypeOK /\ await' = [await EXCEPT ![c] = <<>>] /\ UNCHANGED <<value, alarm>>
  BY DEF AwaitFires, SyncInv, ListInv
<1>2. (doing'.op = "destroy") = (doing.op = "destroy")
  OBVIOUS
<1>3. Things' < Things
  BY <1>1, <1>2, OneAwaitLess
<1> QED BY <1>3, ThingFreed

\* A step that only has less to do.
LEMMA FewerChores ==
    ASSUME SyncInv, SyncInv', UNCHANGED closing, Things' = Things,
           \/ /\ doing' # Nothing /\ doing # Nothing
              /\ \E t \in doing.todo : doing'.todo = doing.todo \ {t}
           \/ doing # Nothing /\ doing' = Nothing
    PROVE  Work' < Work
<1>1. doing \in Doing /\ (doing \in Doing)'
  BY DEF SyncInv, ListInv, TypeOK
<1>2. WorkSplits /\ WorkSplits'
  BY <1>1, WorkParts, WorkPartsPrime
<1>3. OneIf(closing # NoClient)' = OneIf(closing # NoClient)
  BY DEF OneIf
<1>4. PICK x \in Nat, y \in Nat, z \in Nat :
        /\ x = Cardinality(doing.todo) /\ y = Cardinality(doing.todo)'
        /\ z = OneIf(closing # NoClient)
  BY <1>2, TriggersCounted DEF WorkSplits
<1>5. CASE /\ doing' # Nothing /\ doing # Nothing
           /\ \E t \in doing.todo : doing'.todo = doing.todo \ {t}
  <2>1. PICK t \in doing.todo : doing'.todo = doing.todo \ {t}
    BY <1>5
  <2>2. IsFiniteSet(doing.todo)
    BY <1>1, FiniteAssumption, FS_Subset DEF Doing
  <2>3. Cardinality(doing.todo \ {t}) = Cardinality(doing.todo) - 1
    BY <2>2, FS_RemoveElement
  <2>4. y = x - 1
    BY <2>1, <2>3, <1>4
  <2>5. OneIf(doing # Nothing)' = OneIf(doing # Nothing)
    BY <1>5 DEF OneIf
  <2>6. PICK o \in Nat : o = OneIf(doing # Nothing)
    BY <1>2 DEF WorkSplits
  <2>7. Chores = x + o + z /\ Chores' = y + o + z
    BY <2>5, <2>6, <1>3, <1>4 DEF Chores
  <2>8. Chores' < Chores
    BY <2>4, <2>6, <2>7, <1>4
  <2> QED BY <2>8, <1>2, LessWork
<1>6. CASE doing # Nothing /\ doing' = Nothing
  <2>1. OneIf(doing # Nothing) = 1 /\ OneIf(doing # Nothing)' = 0
    BY <1>6 DEF OneIf
  <2>2. y = 0
    BY <1>4, <1>6, NothingFacts, FS_EmptySet
  <2>3. Chores = x + 1 + z /\ Chores' = y + 0 + z
    BY <2>1, <1>3, <1>4 DEF Chores
  <2>4. Chores' < Chores
    BY <2>2, <2>3, <1>4
  <2> QED BY <2>4, <1>2, LessWork
<1> QED BY <1>5, <1>6

LEMMA AwaitOnList ==
    ASSUME ListInv, NEW o \in Objects, NEW t \in triglist[o], t.kind = "await"
    PROVE  t.who \in Clients /\ await[t.who] # <<>>
<1>1. t.who \in Clients /\ t.item \in DOMAIN await[t.who]
  BY OnList
<1> QED BY <1>1

\* The loop of SyncChangeCounter.
LEMMA WalkEnds ==
    ASSUME SyncInv, SyncInv', WalkPast \/ WalkFire \/ WalkDone
    PROVE  Work' < Work
<1>1. /\ ListInv /\ LoopInv /\ doing \in Doing /\ doing.op = "change"
      /\ UNCHANGED <<value, closing>> /\ doing # Nothing
  BY NothingFacts
     DEF SyncInv, ListInv, TypeOK, WalkPast, WalkFire, WalkDone, clientVars
<1>2. /\ doing.obj \in Objects /\ doing.todo \subseteq triglist[doing.obj]
      /\ doing.todo \subseteq Triggers
      /\ doing.next # NoTrigger => doing.next \in doing.todo
  BY <1>1 DEF LoopInv, Doing
<1>3. CASE WalkPast
  <2>1. PICK p : doing' = [doing EXCEPT !.todo = doing.todo \ {doing.next}, !.next = p]
    BY <1>3 DEF WalkPast
  <2>2. /\ doing'.op = doing.op /\ doing'.obj = doing.obj
        /\ doing'.todo = doing.todo \ {doing.next}
    BY <2>1, <1>1 DEF Doing
  <2>3. doing.next \in doing.todo /\ UNCHANGED <<value, alarm, await>>
    BY <1>2, <1>3 DEF WalkPast, triggerVars
  <2>4. (doing'.op = "destroy") = (doing.op = "destroy")
    BY <2>2
  <2>5. Things' = Things
    BY <2>2, <2>3, <2>4, SameThings
  <2>6. doing' # Nothing
    BY <2>2, <1>1, NothingFacts
  <2> QED BY <2>2, <2>3, <2>5, <2>6, <1>1, FewerChores
<1>4. CASE WalkFire
  <2> DEFINE t == doing.next
             rest == doing.todo \ {doing.next}
             left == triglist'[doing.obj]
  <2>1. /\ t # NoTrigger /\ GoOn(rest, left)
        /\ \/ /\ t.kind = "alarm"
              /\ alarm' = [alarm EXCEPT ![t.who] = FiredAlarm(@, value[doing.obj])]
              /\ UNCHANGED <<triglist, await, ignored>>
           \/ /\ t.kind = "await" /\ AwaitFires(t.who) /\ UNCHANGED alarm
    BY <1>4 DEF WalkFire
  <2>2. t \in doing.todo /\ t \in triglist[doing.obj] /\ rest \subseteq Triggers
    BY <2>1, <1>2
  <2>3. left \in SUBSET Triggers
    BY <1>2 DEF SyncInv, ListInv, TypeOK
  <2> HIDE DEF t, rest, left
  <2>4. /\ doing'.op = doing.op /\ doing'.obj = doing.obj
        /\ doing'.todo = rest \cap left \/ doing'.todo = left
    BY <2>1, <2>2, <2>3, <1>1, GoOnDoes
  <2>5. (doing'.op = "destroy") = (doing.op = "destroy") /\ doing.op # "none"
    BY <2>4, <1>1
  <2>6. CASE t.kind = "alarm"
    <3>1. /\ alarm' = [alarm EXCEPT ![t.who] = FiredAlarm(@, value[doing.obj])]
          /\ UNCHANGED <<triglist, await>>
      BY <2>1, <2>6
    <3>2. t.who \in Alarms /\ alarm[t.who] # NoAlarm
      BY <1>1, <1>2, <2>2, <2>6, OnList
    <3>3. alarm \in [Alarms -> Alarm \cup {NoAlarm}] /\ alarm[t.who] \in Alarm
      BY <1>1, <3>2 DEF ListInv, TypeOK
    <3> DEFINE x == FiredAlarm(alarm[t.who], value[doing.obj])
    <3>4. x \in Alarm /\ x.obj = alarm[t.who].obj
      BY <3>3, FiredAlarmType
    <3>5. x # NoAlarm
      BY <3>4, AlarmFacts
    <3>6. \A a \in Alarms : alarm'[a] = IF a = t.who THEN x ELSE alarm[a]
      BY <3>1, <3>3
    <3> HIDE DEF x
    <3>7. Existing' = Existing /\ Hanging' = Hanging
      BY <3>2, <3>4, <3>5, <3>6 DEF Existing, Hanging
    <3>8. Awaiting' = Awaiting /\ Standing' = Standing
      BY <3>1, <2>4, <2>5, <1>1 DEF Awaiting, Standing
    <3>9. Things' = Things
      BY <3>7, <3>8 DEF Things
    <3>10. doing'.todo = rest
      <4>1. left = triglist[doing.obj]
        BY <3>1 DEF left
      <4>2. rest \subseteq left
        BY <4>1, <1>2 DEF rest
      <4>3. GoOn(rest, left) /\ \A p \in Nodes(rest) : p = NoTrigger \/ p \in left
        BY <2>1, <4>2, NodesFacts
      <4>4. \E p : doing' = [doing EXCEPT !.todo = rest \cap left, !.next = p]
        BY <4>3 DEF GoOn
      <4>5. doing'.todo = rest \cap left
        BY <4>4, <1>1 DEF Doing
      <4> QED BY <4>2, <4>5
    <3>11. doing' # Nothing /\ doing'.todo = doing.todo \ {t}
      BY <3>10, <2>4, <1>1, NothingFacts DEF rest, t
    <3> QED BY <3>9, <3>11, <2>2, <1>1, FewerChores
  <2>7. CASE t.kind = "await"
    <3>1. AwaitFires(t.who) /\ UNCHANGED <<value, alarm, closing>>
      BY <2>1, <2>7, <1>1
    <3>2. t.who \in Clients /\ await[t.who] # <<>>
      BY <1>1, <1>2, <2>2, <2>7, AwaitOnList
    <3> QED BY <3>1, <3>2, <2>4, <2>5, AwaitFiresEnds
  <2> QED BY <2>1, <2>6, <2>7
<1>5. CASE WalkDone
  <2>1. doing' = Nothing /\ UNCHANGED <<value, alarm, await>>
    BY <1>5 DEF WalkDone, triggerVars
  <2>2. Awaiting' = Awaiting /\ Existing' = Existing /\ Hanging' = Hanging
    BY <2>1 DEF Awaiting, Existing, Hanging
  <2>3. Standing' = Standing
    BY <2>1, <1>1, NothingFacts DEF Standing
  <2>4. Things' = Things
    BY <2>2, <2>3 DEF Things
  <2> QED BY <2>1, <2>4, <1>1, FewerChores
<1> QED BY <1>3, <1>4, <1>5

\* The loop of miSyncTriggerFence.
LEMMA FenceEnds ==
    ASSUME SyncInv, SyncInv', FenceFires \/ FenceDone
    PROVE  Work' < Work
<1>1. /\ ListInv /\ LoopInv /\ doing.op = "trigger" /\ UNCHANGED <<value, alarm, closing>>
      /\ doing.obj \in Fences /\ doing.obj \in Objects /\ doing # Nothing
  BY NothingFacts
     DEF SyncInv, FenceFires, FenceDone, clientVars, triggerVars, LoopInv
<1>2. CASE FenceFires
  <2>1. PICK t \in triglist[doing.obj] : AwaitFires(t.who)
    BY <1>2 DEF FenceFires
  <2>2. t.kind = "await"
    BY <1>1, OnFence
  <2>3. t.who \in Clients /\ await[t.who] # <<>>
    BY <1>1, <2>2, AwaitOnList
  <2>4. doing' = doing /\ doing.op # "none"
    BY <1>1, <1>2 DEF FenceFires
  <2> QED BY <2>1, <2>3, <2>4, <1>1, AwaitFiresEnds
<1>3. CASE FenceDone
  <2>1. doing' = Nothing /\ UNCHANGED <<value, alarm, await>>
    BY <1>3 DEF FenceDone, triggerVars
  <2>2. Awaiting' = Awaiting /\ Existing' = Existing /\ Hanging' = Hanging
    BY <2>1 DEF Awaiting, Existing, Hanging
  <2>3. Standing' = Standing
    BY <2>1, <1>1, NothingFacts DEF Standing
  <2>4. Things' = Things
    BY <2>2, <2>3 DEF Things
  <2> QED BY <2>1, <2>4, <1>1, FewerChores
<1> QED BY <1>2, <1>3

\* The loops of FreeCounter and miSyncDestroyFence.
LEMMA DestructionEnds ==
    ASSUME SyncInv, SyncInv', TellTrigger \/ ObjectFreed
    PROVE  Work' < Work
<1>1. /\ TypeOK /\ ListInv /\ LoopInv /\ doing.op = "destroy" /\ UNCHANGED closing
      /\ doing.obj \in Objects /\ doing # Nothing
  BY NothingFacts
     DEF SyncInv, ListInv, TellTrigger, ObjectFreed, clientVars, LoopInv
<1>2. CASE TellTrigger
  <2>1. PICK t \in triglist[doing.obj] :
          \/ /\ t.kind = "alarm"
             /\ alarm' = [alarm EXCEPT ![t.who].active = FALSE, ![t.who].obj = None]
             /\ UNCHANGED await
          \/ t.kind = "await" /\ AwaitFires(t.who) /\ UNCHANGED alarm
    BY <1>2 DEF TellTrigger
  <2>2. UNCHANGED <<value, doing>>
    BY <1>2 DEF TellTrigger
  <2>3. CASE t.kind = "alarm"
    <3>1. /\ alarm' = [alarm EXCEPT ![t.who].active = FALSE, ![t.who].obj = None]
          /\ UNCHANGED await
      BY <2>1, <2>3
    <3>2. t.who \in Alarms /\ alarm[t.who] # NoAlarm /\ alarm[t.who].obj = doing.obj
      BY <1>1, <2>3, OnList
    <3>3. alarm \in [Alarms -> Alarm \cup {NoAlarm}] /\ alarm[t.who] \in Alarm
      BY <1>1, <3>2 DEF TypeOK
    <3> DEFINE x == [[alarm[t.who] EXCEPT !.active = FALSE] EXCEPT !.obj = None]
    <3>4. x \in Alarm /\ x.obj = None
      BY <3>3 DEF Alarm
    <3>5. x # NoAlarm
      BY <3>4, AlarmFacts
    <3>6. \A a \in Alarms : alarm'[a] = IF a = t.who THEN x ELSE alarm[a]
      BY <3>1, <3>2, <3>3
    <3> HIDE DEF x
    <3>7. Existing' = Existing
      BY <3>2, <3>5, <3>6 DEF Existing
    <3>8. Hanging' \subseteq Hanging /\ t.who \in Hanging /\ t.who \notin Hanging'
      BY <3>2, <3>4, <3>6, <3>7, <1>1, ObjectsAssumption DEF Hanging, Existing
    <3>9. Awaiting' = Awaiting /\ Standing' = Standing
      BY <3>1, <2>2 DEF Awaiting, Standing
    <3>10. Things' < Things
      BY <3>7, <3>8, <3>9, FewerThings
    <3> QED BY <3>10, <1>1, ThingFreed
  <2>4. CASE t.kind = "await"
    <3>1. AwaitFires(t.who) /\ UNCHANGED <<value, alarm, closing>>
      BY <2>1, <2>2, <2>4, <1>1
    <3>2. t.who \in Clients /\ await[t.who] # <<>>
      BY <1>1, <2>4, AwaitOnList
    <3> QED BY <3>1, <3>2, <2>2, AwaitFiresEnds
  <2> QED BY <2>1, <2>3, <2>4
<1>3. CASE ObjectFreed
  <2>1. /\ value' = [value EXCEPT ![doing.obj] = Gone] /\ doing' = Nothing
        /\ UNCHANGED <<alarm, await>>
    BY <1>3 DEF ObjectFreed, triggerVars
  <2>2. Awaiting' = Awaiting /\ Existing' = Existing /\ Hanging' = Hanging
    BY <2>1 DEF Awaiting, Existing, Hanging
  <2>3. \A o \in Objects : value'[o] = IF o = doing.obj THEN Gone ELSE value[o]
    BY <2>1, <1>1 DEF TypeOK
  <2>4. Standing' = Standing
    BY <2>1, <2>3, <1>1, NothingFacts, ObjectsAssumption DEF Standing
  <2>5. Things' = Things
    BY <2>2, <2>4 DEF Things
  <2> QED BY <2>1, <2>5, <1>1, FewerChores
<1> QED BY <1>2, <1>3

\* FreeClientResources.
LEMMA CleanUpEnds ==
    ASSUME SyncInv, SyncInv',
           \/ \E a \in Alarms : FreeClientAlarm(a)
           \/ \E o \in Objects : FreeClientObject(o)
           \/ FreeAwait
    PROVE  Work' < Work
<1>1. TypeOK /\ doing = Nothing /\ doing.op = "none" /\ UNCHANGED <<value, closing>>
  BY NothingFacts
     DEF SyncInv, ListInv, FreeClientAlarm, FreeAlarm, FreeClientObject, Destroy, FreeAwait,
         clientVars
<1>2. CASE \E a \in Alarms : FreeClientAlarm(a)
  <2>1. PICK a \in Alarms : FreeAlarm(a)
    BY <1>2 DEF FreeClientAlarm
  <2>2. /\ alarm[a] # NoAlarm /\ alarm' = [alarm EXCEPT ![a] = NoAlarm]
        /\ UNCHANGED <<await, doing>>
    BY <2>1 DEF FreeAlarm
  <2>3. \A b \in Alarms : alarm'[b] = IF b = a THEN NoAlarm ELSE alarm[b]
    BY <2>2, <1>1 DEF TypeOK
  <2>4. Existing' \subseteq Existing /\ a \in Existing /\ a \notin Existing'
    BY <2>2, <2>3 DEF Existing
  <2>5. Hanging' \subseteq Hanging
    BY <2>3, <2>4 DEF Hanging, Existing
  <2>6. Awaiting' = Awaiting /\ Standing' = Standing
    BY <2>2, <1>1 DEF Awaiting, Standing
  <2>7. Things' < Things
    BY <2>4, <2>5, <2>6, FewerThings
  <2> QED BY <2>7, <1>1, ThingFreed
<1>3. CASE \E o \in Objects : FreeClientObject(o)
  <2>1. PICK o \in Objects : Destroy(o)
    BY <1>3 DEF FreeClientObject
  <2>2. /\ value[o] # Gone /\ UNCHANGED <<value, alarm, await>>
        /\ doing'.op = "destroy" /\ doing'.obj = o
    BY <2>1 DEF Destroy, triggerVars, Nothing
  <2>3. Awaiting' = Awaiting /\ Existing' = Existing /\ Hanging' = Hanging
    BY <2>2 DEF Awaiting, Existing, Hanging
  <2>4. Standing' \subseteq Standing /\ o \in Standing /\ o \notin Standing'
    BY <2>2, <1>1, ObjectsAssumption DEF Standing
  <2>5. Things' < Things
    BY <2>3, <2>4, FewerThings
  <2> QED BY <2>5, <1>1, ThingFreed
<1>4. CASE FreeAwait
  <2>1. /\ closing \in Clients /\ await[closing] # <<>>
        /\ await' = [await EXCEPT ![closing] = <<>>] /\ UNCHANGED <<value, alarm, doing>>
    BY <1>1, <1>4 DEF FreeAwait, TypeOK
  <2>2. PICK c \in Clients : c = closing
    BY <2>1
  <2>3. Things' < Things
    BY <2>1, <2>2, <1>1, OneAwaitLess
  <2> QED BY <2>3, <1>1, ThingFreed
<1> QED BY <1>2, <1>3, <1>4

LEMMA ClientFreedEnds ==
    ASSUME SyncInv, SyncInv', ClientFreed
    PROVE  Work' < Work
<1>1. /\ closing # NoClient /\ closing' = NoClient
      /\ UNCHANGED <<value, alarm, await, doing>>
  BY DEF ClientFreed
<1>2. doing \in Doing /\ (doing \in Doing)'
  BY DEF SyncInv, ListInv, TypeOK
<1>3. WorkSplits /\ WorkSplits'
  BY <1>2, WorkParts, WorkPartsPrime
<1>4. Things' = Things
  BY <1>1, SameThings
<1>5. OneIf(closing # NoClient) = 1 /\ OneIf(closing # NoClient)' = 0
  BY <1>1 DEF OneIf
<1>6. PICK x \in Nat, o \in Nat : x = Cardinality(doing.todo) /\ o = OneIf(doing # Nothing)
  BY <1>3, TriggersCounted DEF WorkSplits
<1>7. Chores = x + o + 1 /\ Chores' = x + o + 0
  BY <1>1, <1>5, <1>6 DEF Chores
<1>8. x + o + 0 < x + o + 1
  OBVIOUS
<1>9. Chores' < Chores
  BY <1>7, <1>8, Zenon
<1> QED BY <1>3, <1>4, <1>9, LessWork

LEMMA NextEnds ==
    ASSUME SyncInv, SyncInv', Next, ~Idle
    PROVE  Work' < Work
<1>1. ~Request /\ ~WaitForSomething
  BY DEF Request, SyncCreate, ProcSyncSetCounter, ProcSyncChangeCounter,
         ProcSyncTriggerFence, ProcSyncResetFence, ProcSyncDestroy, ProcSyncAwait,
         ProcSyncCreateAlarm, ProcSyncChangeAlarm, ChangeAlarmFails, ProcSyncDestroyAlarm,
         CloseDownClient, WaitForSomething, Ready
<1>2. ServerStep
  BY <1>1 DEF Next
<1> QED BY <1>2, WalkEnds, FenceEnds, DestructionEnds, CleanUpEnds, ClientFreedEnds
        DEF ServerStep

\* SyncChangeCounter, miSyncTriggerFence, the destruction of objects and
\* FreeClientResources come to an end: every step of the server on its own leaves
\* less work, also when the loop of SyncChangeCounter starts again at the head.
THEOREM SyncLoopsEnd == Spec => LoopsEnd
<1>1. SyncInv /\ SyncInv' /\ [Next]_vars => [~Idle => Work' < Work]_vars
  BY NextEnds
<1> QED BY <1>1, SyncInvariant, PTL DEF Spec, LoopsEnd

-----------------------------------------------------------------------------
(* Alarms, as long as no ChangeAlarm fails half way.                       *)

\* Every ChangeAlarm that returns an error leaves the alarm as it was.
ErrorsStoreNothing ==
    \A a \in Alarms, r \in AlarmChanges :
        ChangeAlarmFails(a, r) => UNCHANGED alarm

\* The function was chosen for the test type that was asked for, and the
\* Match error kept away a delta of the other sign.
Matched(al) ==
    /\ al.type = al.check
    /\ al.check \in PositiveTests => al.delta >= 0
    /\ al.check \in NegativeTests => al.delta <= 0

Sound(al) == Matched(al) /\ (al.active => al.obj # None)

Updated(al, v) ==
    al.active /\ al.check \in Comparisons => ~CheckTrigger(al, v, v)

AlarmInv ==
    \A a \in Alarms : alarm[a] # NoAlarm =>
        /\ Sound(alarm[a])
        /\ \/ doing.op = "change" /\ AlarmTrigger(a) \in doing.todo
           \/ Updated(alarm[a], value[alarm[a].obj])

LEMMA CheckCases ==
    ASSUME NEW t, NEW old, NEW new, t.check \in Tests
    PROVE  /\ t.check = "PositiveComparison" =>
                 (CheckTrigger(t, old, new) <=> new >= t.test)
           /\ t.check = "NegativeComparison" =>
                 (CheckTrigger(t, old, new) <=> new <= t.test)
           /\ t.check = "PositiveTransition" =>
                 (CheckTrigger(t, old, new) <=> old < t.test /\ new >= t.test)
           /\ t.check = "NegativeTransition" =>
                 (CheckTrigger(t, old, new) <=> old > t.test /\ new <= t.test)
BY DEF CheckTrigger

\* A comparison does not look at the old value, and a transition is false
\* between a value and itself.
LEMMA ComparisonsAreStateless ==
    ASSUME NEW t, NEW old, NEW new, t.check \in Comparisons
    PROVE  CheckTrigger(t, old, new) <=> CheckTrigger(t, new, new)
BY DEF CheckTrigger, Comparisons

LEMMA NoTransition ==
    ASSUME NEW t, NEW v \in Int64, t.test \in Int,
           t.check \in Tests \ Comparisons
    PROVE  ~CheckTrigger(t, v, v)
<1>1. v \in Int
  BY IntFacts
<1>2. t.check \in {"PositiveTransition", "NegativeTransition"}
  BY DEF Tests, PositiveTests, NegativeTests, Comparisons
<1>3. /\ t.check = "PositiveTransition" =>
            (CheckTrigger(t, v, v) <=> v < t.test /\ v >= t.test)
      /\ t.check = "NegativeTransition" =>
            (CheckTrigger(t, v, v) <=> v > t.test /\ v <= t.test)
  BY CheckCases
<1> QED BY <1>1, <1>2, <1>3

LEMMA LeastNumber ==
    ASSUME NEW S \in SUBSET Nat, S # {}
    PROVE  \E n \in S : \A m \in S : n <= m
<1> DEFINE R == OpToRel(<, Nat)
<1>1. IsWellFoundedOn(R, Nat)
  BY NatLessThanWellFounded
<1>2. \E x \in S : \A y \in S : ~(<<y, x>> \in R)
  <2> HIDE DEF R
  <2> QED BY <1>1, WFMin
<1>3. \A x, y \in Nat : ~(<<y, x>> \in R) => x <= y
  BY DEF OpToRel
<1> HIDE DEF R
<1> QED BY <1>2, <1>3

\* The loop of SyncAlarmTriggerFired ends for a sound alarm on any value: a
\* transition is false after one addition, and a comparison has a delta that
\* takes the test value out of the range at last.
LEMMA SoundEnds ==
    ASSUME NEW al \in Alarm, Sound(al), NEW v \in Int64
    PROVE  Ends(al, v)
<1> DEFINE last == MaxInt - MinInt + 1
<1>1. /\ al.test \in Int /\ al.delta \in Int /\ al.check \in Tests
      /\ MinInt <= al.test /\ al.test <= MaxInt
  BY AlarmFacts, IntFacts DEF Int64
<1>2. 1 \in 1..last /\ last \in 1..last /\ last \in Int
  BY IntFacts
<1>3. CASE al.check \notin Comparisons
  <2> DEFINE u == [al EXCEPT !.test = al.test + 1 * al.delta]
  <2>1. u.test \in Int /\ u.check = al.check
    BY <1>1 DEF Alarm
  <2>2. ~CheckTrigger(u, v, v)
    <3> HIDE DEF u
    <3> QED BY <1>1, <1>3, <2>1, NoTransition
  <2>3. 1 \in Additions(al, v)
    BY <1>2, <2>2 DEF Additions
  <2> QED BY <2>3 DEF Ends
<1>4. CASE al.check \in Comparisons
  <2>1. CASE al.delta = 0
    BY <1>4, <2>1 DEF Ends, Sound, Matched
  <2>2. CASE al.delta # 0
    <3>1. al.delta >= 1 \/ al.delta <= -1
      BY <1>1, <2>2
    <3>2. ASSUME al.delta >= 1
          PROVE  al.test + last * al.delta > MaxInt
      <4>1. last * al.delta >= last
        BY <1>1, <1>2, <3>2
      <4> HIDE DEF last
      <4>2. last * al.delta \in Int
        BY <1>1, <1>2
      <4>3. last = MaxInt - MinInt + 1
        BY DEF last
      <4> QED BY <1>1, <1>2, <4>1, <4>2, <4>3, IntFacts
    <3>3. ASSUME al.delta <= -1
          PROVE  al.test + last * al.delta < MinInt
      <4>1. last * al.delta <= -last
        BY <1>1, <1>2, <3>3
      <4> HIDE DEF last
      <4>2. last * al.delta \in Int
        BY <1>1, <1>2
      <4>3. last = MaxInt - MinInt + 1
        BY DEF last
      <4> QED BY <1>1, <1>2, <4>1, <4>2, <4>3, IntFacts
    <3>4. al.test + last * al.delta \notin Int64
      <4>1. al.test + last * al.delta \in Int
        BY <1>1, <1>2
      <4> QED BY <3>1, <3>2, <3>3, <4>1, IntFacts DEF Int64
    <3>5. last \in Additions(al, v)
      BY <1>2, <3>4 DEF Additions
    <3> QED BY <3>5 DEF Ends
  <2> QED BY <2>1, <2>2
<1> QED BY <1>3, <1>4

\* What the loop leaves behind.
LEMMA UpdateUpdates ==
    ASSUME NEW al \in Alarm, Sound(al), NEW v \in Int64, Additions(al, v) # {}
    PROVE  Sound(Update(al, v)) /\ Updated(Update(al, v), v)
<1> DEFINE S == Additions(al, v)
           n == CHOOSE n \in S : \A m \in S : n <= m
           sum == al.test + n * al.delta
           u == [al EXCEPT !.test = sum]
<1>1. S \in SUBSET Nat
  BY IntFacts DEF Additions
<1>2. n \in S
  <2>1. \E x \in S : \A m \in S : x <= m
    <3> HIDE DEF S
    <3> QED BY <1>1, LeastNumber DEF S
  <2> HIDE DEF S
  <2> QED BY <2>1
<1>3. sum \notin Int64 \/ ~CheckTrigger(u, v, v)
  <2> HIDE DEF n
  <2> QED BY <1>2 DEF Additions
<1>4. Update(al, v) = IF sum \in Int64 THEN u ELSE [al EXCEPT !.active = FALSE]
  BY DEF Update
<1> HIDE DEF S, n, sum
<1>5. CASE sum \in Int64
  <2>1. Update(al, v) = u /\ ~CheckTrigger(u, v, v)
    BY <1>3, <1>4, <1>5
  <2>2. Sound(u)
    BY DEF Alarm, Sound, Matched
  <2> HIDE DEF u
  <2> QED BY <2>1, <2>2 DEF Updated
<1>6. CASE sum \notin Int64
  <2> DEFINE w == [al EXCEPT !.active = FALSE]
  <2>1. Update(al, v) = w
    BY <1>4, <1>6
  <2>2. Sound(w) /\ w.active = FALSE
    BY DEF Alarm, Sound, Matched
  <2> HIDE DEF w
  <2> QED BY <2>1, <2>2 DEF Updated
<1> QED BY <1>5, <1>6

LEMMA FiredIsUpdated ==
    ASSUME NEW al \in Alarm, Sound(al), NEW v \in Int64
    PROVE  Sound(FiredAlarm(al, v)) /\ Updated(FiredAlarm(al, v), v)
<1> DEFINE w == [al EXCEPT !.active = FALSE]
<1>1. Ends(al, v)
  BY SoundEnds
<1>2. Sound(w) /\ Updated(w, v)
  <2>1. Sound(w) /\ w.active = FALSE
    BY DEF Alarm, Sound, Matched
  <2> HIDE DEF w
  <2> QED BY <2>1 DEF Updated
<1>3. CASE ~al.active
  <2>1. FiredAlarm(al, v) = al
    BY <1>3 DEF FiredAlarm
  <2> QED BY <1>3, <2>1 DEF Updated
<1>4. CASE al.active /\ (al.obj = None \/ (al.delta = 0 /\ al.type \in Comparisons))
  <2>1. FiredAlarm(al, v) = w
    BY <1>4 DEF FiredAlarm
  <2> HIDE DEF w
  <2> QED BY <1>2, <2>1
<1>5. CASE al.active /\ ~(al.obj = None \/ (al.delta = 0 /\ al.type \in Comparisons))
  <2>1. FiredAlarm(al, v) = Update(al, v)
    BY <1>5 DEF FiredAlarm
  <2>2. Additions(al, v) # {}
    BY <1>1, <1>5 DEF Ends
  <2> QED BY <2>1, <2>2, UpdateUpdates
<1> QED BY <1>3, <1>4, <1>5

\* SyncChangeAlarmAttributes refuses what does not match.
LEMMA ChangedIsMatched ==
    ASSUME TypeOK, NEW al \in Alarm, NEW r \in Attributes, Succeeds(al, r),
           Matched(al), al.obj # None => value[al.obj] \in Int64
    PROVE  Matched(Changed(al, r)) /\ Changed(al, r).active = TRUE
<1> DEFINE s == Stored(al, r)
           w == WithValue(s, r)
           x == Changed(al, r)
<1>1. /\ s \in Alarm /\ s.obj = al.obj /\ s.check = al.check
      /\ s.type = Or(r.type, al.type) /\ s.delta = Or(r.delta, al.delta)
  BY StoredType DEF Stored, Alarm
<1>2. w \in Alarm
  BY <1>1, WithValueType
<1>3. w.check = s.check /\ w.type = s.type /\ w.delta = s.delta
  <2> HIDE DEF s
  <2> QED BY <1>1 DEF WithValue, Alarm
<1>4. x = [[w EXCEPT !.check = Or(r.type, @), !.obj = NewObject(s, r)]
             EXCEPT !.active = TRUE]
  BY DEF Changed, SyncInitTrigger
<1> HIDE DEF s, w
<1>5. /\ x.check = Or(r.type, w.check) /\ x.type = w.type
      /\ x.delta = w.delta /\ x.active = TRUE
  BY <1>2, <1>4 DEF Alarm
<1> HIDE DEF x
<1>6. /\ x.check = Or(r.type, al.check) /\ x.type = Or(r.type, al.type)
      /\ x.delta = Or(r.delta, al.delta)
  BY <1>1, <1>3, <1>5
<1>7. x.type = x.check
  BY <1>6 DEF Matched, Or
<1>8. al.delta \in Int /\ al.check \in Tests /\ al.type = al.check
  BY AlarmFacts, IntFacts DEF Matched
<1>9. (x.check \in PositiveTests => x.delta >= 0)
      /\ (x.check \in NegativeTests => x.delta <= 0)
  <2>1. CASE r.delta = Keep /\ r.type = Keep
    <3>1. x.check = al.check /\ x.delta = al.delta
      BY <1>6, <2>1 DEF Or
    <3> QED BY <3>1 DEF Matched
  <2>2. CASE r.delta # Keep \/ r.type # Keep
    <3>1. ~(x.type \in PositiveTests /\ x.delta < 0)
          /\ ~(x.type \in NegativeTests /\ x.delta > 0)
      BY <1>6, <2>2 DEF Succeeds, BadDelta
    <3>2. x.delta \in Int
      BY <1>6, <1>8, AttributeFacts, IntFacts DEF Or
    <3> QED BY <3>1, <3>2, <1>7
  <2> QED BY <2>1, <2>2
<1> QED BY <1>5, <1>7, <1>9 DEF Matched, x

LEMMA TriedIsUpdated ==
    ASSUME NEW al \in Alarm, Sound(al), value[al.obj] \in Int64
    PROVE  Sound(Tried(al)) /\ Updated(Tried(al), value[al.obj])
<1>1. CASE IsTrue(al)
  <2>1. Tried(al) = FiredAlarm(al, value[al.obj])
    BY <1>1 DEF Tried
  <2> QED BY <2>1, FiredIsUpdated
<1>2. CASE ~IsTrue(al)
  <2>1. Tried(al) = al
    BY <1>2 DEF Tried
  <2> QED BY <1>2, <2>1 DEF IsTrue, Updated
<1> QED BY <1>1, <1>2

\* What AlarmInv says of one alarm.
Told(a) ==
    alarm[a] # NoAlarm =>
        /\ Sound(alarm[a])
        /\ \/ doing.op = "change" /\ AlarmTrigger(a) \in doing.todo
           \/ Updated(alarm[a], value[alarm[a].obj])

LEMMA AlarmInvParts == AlarmInv <=> \A a \in Alarms : Told(a)
BY DEF AlarmInv, Told

LEMMA AlarmInvPartsPrime == AlarmInv' <=> \A a \in Alarms : Told(a)'
BY DEF AlarmInv, Told

LEMMA AlarmKept ==
    ASSUME AlarmInv, NEW a \in Alarms, alarm'[a] = alarm[a],
           alarm[a] # NoAlarm /\ alarm[a].obj # None =>
               value'[alarm[a].obj] = value[alarm[a].obj],
           doing.op = "change" /\ AlarmTrigger(a) \in doing.todo =>
               doing'.op = "change" /\ AlarmTrigger(a) \in doing'.todo
    PROVE  Told(a)'
<1> SUFFICES ASSUME alarm'[a] # NoAlarm
             PROVE  /\ Sound(alarm'[a])
                    /\ \/ doing'.op = "change" /\ AlarmTrigger(a) \in doing'.todo
                       \/ Updated(alarm'[a], value'[alarm'[a].obj])
  BY DEF Told, AlarmTrigger
<1>1. /\ Sound(alarm[a])
      /\ \/ doing.op = "change" /\ AlarmTrigger(a) \in doing.todo
         \/ Updated(alarm[a], value[alarm[a].obj])
  BY DEF AlarmInv
<1>2. CASE doing.op = "change" /\ AlarmTrigger(a) \in doing.todo
  BY <1>1, <1>2
<1>3. CASE Updated(alarm[a], value[alarm[a].obj])
  <2>1. CASE alarm[a].obj = None
    BY <1>1, <2>1 DEF Sound, Updated
  <2>2. CASE alarm[a].obj # None
    BY <1>1, <1>3, <2>2
  <2> QED BY <2>1, <2>2
<1> QED BY <1>1, <1>2, <1>3

LEMMA QuietStep ==
    ASSUME AlarmInv, UNCHANGED <<value, alarm>>,
           \A a \in Alarms :
               doing.op = "change" /\ AlarmTrigger(a) \in doing.todo =>
                   doing'.op = "change" /\ AlarmTrigger(a) \in doing'.todo
    PROVE  AlarmInv'
BY AlarmKept, AlarmInvPartsPrime

\* No alarm is on an object that does not exist, or has an empty list.
LEMMA NoAlarmOn ==
    ASSUME ListInv, NEW o \in Objects, triglist[o] = {},
           NEW a \in Alarms, alarm[a] # NoAlarm
    PROVE  alarm[a].obj # o
<1>1. AlarmTrigger(a) \in Triggers
  BY TriggerFacts
<1>2. AlarmOn(AlarmTrigger(a), o) <=> alarm[a].obj = o
  BY TriggerFacts DEF AlarmOn
<1> QED BY <1>1, <1>2 DEF ListInv, ListsInv

LEMMA ValueMoves ==
    ASSUME SyncInv, AlarmInv, UNCHANGED alarm, doing.op # "change",
           NEW o \in Objects, NEW v, value' = [value EXCEPT ![o] = v],
           \A a \in Alarms : alarm[a] # NoAlarm => alarm[a].obj # o
    PROVE  AlarmInv'
<1>1. value \in [Objects -> Int64 \cup {Gone}]
      /\ alarm \in [Alarms -> Alarm \cup {NoAlarm}]
  BY DEF SyncInv, ListInv, TypeOK
<1>2. ASSUME NEW a \in Alarms, alarm[a] # NoAlarm, alarm[a].obj # None
      PROVE  value'[alarm[a].obj] = value[alarm[a].obj]
  <2>1. alarm[a].obj \in Objects
    BY <1>1, <1>2, AlarmFacts DEF Objects
  <2> QED BY <1>1, <1>2, <2>1
<1> QED BY <1>2, AlarmKept, AlarmInvPartsPrime

LEMMA OneAlarm ==
    ASSUME SyncInv, AlarmInv, NEW a \in Alarms, NEW x,
           alarm' = [alarm EXCEPT ![a] = x], UNCHANGED value, Told(a)',
           \A b \in Alarms \ {a} :
               doing.op = "change" /\ AlarmTrigger(b) \in doing.todo =>
                   doing'.op = "change" /\ AlarmTrigger(b) \in doing'.todo
    PROVE  AlarmInv'
<1>1. alarm \in [Alarms -> Alarm \cup {NoAlarm}]
  BY DEF SyncInv, ListInv, TypeOK
<1>2. ASSUME NEW b \in Alarms, b # a
      PROVE  Told(b)'
  <2>1. alarm'[b] = alarm[b] /\ UNCHANGED value
    BY <1>1, <1>2
  <2> QED BY <1>2, <2>1, AlarmKept
<1> QED BY <1>2, AlarmInvPartsPrime

LEMMA CreateUpdates ==
    ASSUME SyncInv, AlarmInv, NEW o \in Objects, NEW v, SyncCreate(o, v)
    PROVE  AlarmInv'
<1>1. /\ doing = Nothing /\ value[o] = Gone /\ UNCHANGED alarm
      /\ value' = [value EXCEPT ![o] = v]
  BY DEF SyncCreate, Ready, Idle, triggerVars
<1>2. ListInv /\ triglist[o] = {}
  BY <1>1 DEF SyncInv, ListInv, GoneInv
<1>3. \A a \in Alarms : alarm[a] # NoAlarm => alarm[a].obj # o
  BY <1>2, NoAlarmOn
<1> QED BY <1>1, <1>3, NothingFacts, ValueMoves

LEMMA FenceUpdates ==
    ASSUME SyncInv, AlarmInv, NEW f \in Fences,
           ProcSyncTriggerFence(f) \/ ProcSyncResetFence(f)
    PROVE  AlarmInv'
<1>1. doing = Nothing /\ UNCHANGED alarm
      /\ \E v : value' = [value EXCEPT ![f] = v]
  BY DEF ProcSyncTriggerFence, ProcSyncResetFence, Ready, Idle, triggerVars
<1>2. ASSUME NEW a \in Alarms, alarm[a] # NoAlarm
      PROVE  alarm[a].obj # f
  BY <1>2, AlarmFacts, ObjectFacts DEF SyncInv, ListInv, TypeOK
<1>3. f \in Objects
  BY ObjectFacts
<1> QED BY <1>1, <1>2, <1>3, NothingFacts, ValueMoves

\* The loop of SyncChangeCounter begins with all the triggers of the counter.
LEMMA ChangeCounterUpdates ==
    ASSUME SyncInv, AlarmInv, NEW k \in Counters, NEW v,
           doing = Nothing, SyncChangeCounter(k, v)
    PROVE  AlarmInv'
<1>1. /\ value' = [value EXCEPT ![k] = v] /\ UNCHANGED alarm
      /\ doing'.op = "change" /\ doing'.todo = triglist[k]
  BY DEF SyncChangeCounter, triggerVars
<1>2. value \in [Objects -> Int64 \cup {Gone}] /\ ListInv
  BY DEF SyncInv, ListInv, TypeOK
<1>3. ASSUME NEW a \in Alarms
      PROVE  Told(a)'
  <2>1. CASE alarm[a] # NoAlarm /\ alarm[a].obj = k
    <3>1. AlarmTrigger(a) \in triglist[k]
      BY <1>2, <2>1, AlarmExists, ObjectFacts
    <3>2. Sound(alarm[a])
      BY <2>1 DEF AlarmInv
    <3> QED BY <3>1, <3>2, <1>1 DEF Told, AlarmTrigger
  <2>2. CASE ~(alarm[a] # NoAlarm /\ alarm[a].obj = k)
    <3>1. alarm[a] # NoAlarm /\ alarm[a].obj # None =>
              alarm[a].obj \in Objects /\ alarm[a].obj # k
      BY <1>2, <2>2, AlarmExists, ObjectFacts
    <3>2. alarm[a] # NoAlarm /\ alarm[a].obj # None =>
              value'[alarm[a].obj] = value[alarm[a].obj]
      BY <1>1, <1>2, <3>1
    <3>3. doing.op # "change" /\ alarm'[a] = alarm[a]
      BY <1>1, NothingFacts
    <3> QED BY <3>2, <3>3, AlarmKept
  <2> QED BY <2>1, <2>2
<1> QED BY <1>3, AlarmInvPartsPrime

LEMMA CreateAlarmUpdates ==
    ASSUME SyncInv, AlarmInv, NEW a \in Alarms, NEW r \in Attributes,
           ProcSyncCreateAlarm(a, r)
    PROVE  AlarmInv'
<1> DEFINE al == Changed(DefaultAlarm, r)
           w == [al EXCEPT !.active = FALSE]
           x == IF al.obj = None THEN w ELSE Tried(al)
<1>1. /\ Succeeds(DefaultAlarm, r)
      /\ alarm' = [alarm EXCEPT ![a] = x]
      /\ doing = Nothing /\ UNCHANGED <<value, doing>>
  BY DEF ProcSyncCreateAlarm, Ready, Idle
<1>2. /\ TypeOK /\ DefaultAlarm \in Alarm /\ DefaultAlarm.obj = None
      /\ Matched(DefaultAlarm)
  BY AlarmFacts
     DEF SyncInv, ListInv, DefaultAlarm, Matched, PositiveTests, NegativeTests
<1>3. /\ al \in Alarm /\ Matched(al)
      /\ al.obj # None => value[al.obj] \in Int64
  BY <1>1, <1>2, ChangedType, ChangedIsMatched
<1> HIDE DEF al
<1>4. CASE al.obj = None
  <2>1. w.active = FALSE /\ Matched(w)
    BY <1>3 DEF Alarm, Matched
  <2>2. alarm'[a] = w
    BY <1>1, <1>4 DEF SyncInv, ListInv, TypeOK
  <2> HIDE DEF w
  <2> QED BY <2>1, <2>2, <1>1, NothingFacts, OneAlarm DEF Told, Sound, Updated
<1>5. CASE al.obj # None
  <2>1. Sound(al) /\ value[al.obj] \in Int64
    BY <1>3, <1>5 DEF Sound
  <2>2. Sound(Tried(al)) /\ Updated(Tried(al), value[al.obj])
    BY <1>3, <2>1, TriedIsUpdated
  <2>3. Tried(al).obj = al.obj
    BY <1>3, FiredAlarmType DEF Tried
  <2>4. alarm'[a] = Tried(al)
    BY <1>1, <1>5 DEF SyncInv, ListInv, TypeOK
  <2>5. Told(a)'
    <3>1. UNCHANGED value
      BY <1>1
    <3> QED BY <2>2, <2>3, <2>4, <3>1 DEF Told
  <2> QED BY <2>5, <1>1, NothingFacts, OneAlarm
<1> QED BY <1>4, <1>5

LEMMA ChangeAlarmUpdates ==
    ASSUME SyncInv, AlarmInv, NEW a \in Alarms, NEW r \in Attributes,
           ProcSyncChangeAlarm(a, r)
    PROVE  AlarmInv'
<1> DEFINE al == Changed(alarm[a], r)
           w == [al EXCEPT !.active = FALSE]
           x == IF al.obj = None THEN FiredAlarm(al, 0) ELSE Tried(al)
<1>1. /\ alarm[a] # NoAlarm /\ Succeeds(alarm[a], r)
      /\ alarm' = [alarm EXCEPT ![a] = x]
      /\ doing = Nothing /\ UNCHANGED <<value, doing>>
  BY DEF ProcSyncChangeAlarm, Ready, Idle
<1>2. ListInv /\ TypeOK /\ Matched(alarm[a])
  BY <1>1 DEF SyncInv, ListInv, AlarmInv, Sound
<1>3. alarm[a] \in Alarm /\ (alarm[a].obj # None => value[alarm[a].obj] \in Int64)
  BY <1>1, <1>2, AlarmExists
<1>4. /\ al \in Alarm /\ Matched(al) /\ al.active
      /\ al.obj # None => value[al.obj] \in Int64
  BY <1>1, <1>2, <1>3, ChangedType, ChangedIsMatched
<1> HIDE DEF al
<1>5. CASE al.obj = None
  <2>1. w.active = FALSE /\ Matched(w)
    BY <1>4 DEF Alarm, Matched
  <2>2. alarm'[a] = w
    BY <1>1, <1>4, <1>5 DEF SyncInv, ListInv, TypeOK, FiredAlarm
  <2> HIDE DEF w
  <2> QED BY <2>1, <2>2, <1>1, NothingFacts, OneAlarm DEF Told, Sound, Updated
<1>6. CASE al.obj # None
  <2>1. Sound(al) /\ value[al.obj] \in Int64
    BY <1>4, <1>6 DEF Sound
  <2>2. Sound(Tried(al)) /\ Updated(Tried(al), value[al.obj])
    BY <1>4, <2>1, TriedIsUpdated
  <2>3. Tried(al).obj = al.obj
    BY <1>4, FiredAlarmType DEF Tried
  <2>4. alarm'[a] = Tried(al)
    BY <1>1, <1>6 DEF SyncInv, ListInv, TypeOK
  <2>5. Told(a)'
    <3>1. UNCHANGED value
      BY <1>1
    <3> QED BY <2>2, <2>3, <2>4, <3>1 DEF Told
  <2> QED BY <2>5, <1>1, NothingFacts, OneAlarm
<1> QED BY <1>5, <1>6

LEMMA FreeAlarmUpdates ==
    ASSUME SyncInv, AlarmInv, NEW a \in Alarms, FreeAlarm(a)
    PROVE  AlarmInv'
<1>1. /\ doing = Nothing /\ alarm' = [alarm EXCEPT ![a] = NoAlarm]
      /\ UNCHANGED value
  BY DEF FreeAlarm
<1>2. alarm'[a] = NoAlarm
  BY <1>1 DEF SyncInv, ListInv, TypeOK
<1> QED BY <1>1, <1>2, NothingFacts, OneAlarm DEF Told

\* The node that the loop of SyncChangeCounter is at.
LEMMA AtNode ==
    ASSUME SyncInv, doing.op = "change", doing.next # NoTrigger
    PROVE  /\ ListInv /\ doing \in Doing /\ doing.obj \in Counters
           /\ doing.obj \in Objects /\ value[doing.obj] \in Int64
           /\ doing.next \in doing.todo
           /\ doing.todo \subseteq triglist[doing.obj]
           /\ doing.next \in triglist[doing.obj]
<1>1. /\ ListInv /\ doing \in Doing /\ doing.obj \in Counters
      /\ doing.next \in doing.todo /\ value[doing.obj] # Gone
      /\ doing.todo \subseteq triglist[doing.obj]
  BY DEF SyncInv, LoopInv, ListInv, TypeOK
<1>2. doing.obj \in Objects
  BY <1>1, ObjectFacts
<1>3. value[doing.obj] \in Int64
  BY <1>1, <1>2 DEF ListInv, TypeOK
<1> QED BY <1>1, <1>2, <1>3

\* An alarm whose trigger is false is left behind as it is.
LEMMA WalkPastUpdates ==
    ASSUME SyncInv, AlarmInv, WalkPast
    PROVE  AlarmInv'
<1>1. /\ doing.op = "change" /\ doing.next # NoTrigger /\ ~Fires(doing.next)
      /\ UNCHANGED <<value, alarm>>
  BY DEF WalkPast, triggerVars
<1>2. /\ ListInv /\ doing \in Doing /\ doing.obj \in Objects
      /\ doing.next \in triglist[doing.obj]
  BY <1>1, AtNode
<1>3. doing'.op = "change" /\ doing'.todo = doing.todo \ {doing.next}
  BY <1>1, <1>2 DEF WalkPast, Doing
<1>4. ASSUME NEW a \in Alarms
      PROVE  Told(a)'
  <2>1. CASE doing.next = AlarmTrigger(a)
    <3>1. doing.next.kind = "alarm" /\ doing.next.who = a
      BY <2>1, TriggerFacts
    <3>2. alarm[a] # NoAlarm /\ alarm[a].obj = doing.obj
      BY <1>2, <3>1, OnList
    <3>3. ~CheckTrigger(alarm[a], doing.old, value[doing.obj])
      BY <1>1, <3>1 DEF Fires, Trigger
    <3>4. Updated(alarm[a], value[alarm[a].obj])
      BY <3>2, <3>3, ComparisonsAreStateless DEF Updated
    <3>5. Sound(alarm[a])
      BY <3>2 DEF AlarmInv
    <3> QED BY <1>1, <3>4, <3>5 DEF Told
  <2>2. CASE doing.next # AlarmTrigger(a)
    BY <1>1, <1>3, <2>2, AlarmKept
  <2> QED BY <2>1, <2>2
<1> QED BY <1>4, AlarmInvPartsPrime

\* An alarm that fires is updated, and no loop passes over another: whether it
\* goes on or starts again, the alarms that are left to look at stay so.
LEMMA WalkFireUpdates ==
    ASSUME SyncInv, AlarmInv, WalkFire
    PROVE  AlarmInv'
<1> DEFINE t == doing.next
           rest == doing.todo \ {doing.next}
           left == triglist'[doing.obj]
<1>1. /\ doing.op = "change" /\ doing.next # NoTrigger
      /\ GoOn(rest, left) /\ UNCHANGED value
      /\ \/ /\ t.kind = "alarm"
            /\ alarm' = [alarm EXCEPT ![t.who] =
                           FiredAlarm(@, value[doing.obj])]
            /\ UNCHANGED triglist
         \/ /\ t.kind = "await" /\ AwaitFires(t.who) /\ UNCHANGED alarm
  BY DEF WalkFire
<1>2. /\ ListInv /\ doing \in Doing /\ doing.obj \in Objects
      /\ value[doing.obj] \in Int64
      /\ t \in triglist[doing.obj] /\ doing.todo \subseteq triglist[doing.obj]
  BY <1>1, AtNode
<1>3. triglist \in [Objects -> SUBSET Triggers]
  BY <1>2 DEF ListInv, TypeOK
<1>4. left \subseteq triglist[doing.obj]
      /\ \A a \in Alarms : AlarmTrigger(a) \in triglist[doing.obj] =>
                               AlarmTrigger(a) \in left
  <2>1. CASE t.kind = "alarm"
    BY <1>1, <2>1
  <2>2. CASE t.kind = "await"
    <3>1. left = triglist[doing.obj] \ TriggersOf(t.who)
      BY <1>1, <1>2, <2>2 DEF AwaitFires, FreeTriggers
    <3>2. \A a : AlarmTrigger(a) \notin TriggersOf(t.who)
      BY TriggerFacts DEF TriggersOf
    <3> QED BY <3>1, <3>2
  <2> QED BY <1>1, <2>1, <2>2
<1> HIDE DEF left, rest
<1>5. doing'.op = "change"
      /\ (doing'.todo = rest \cap left \/ doing'.todo = left)
  <2>1. rest \subseteq Triggers /\ left \in SUBSET Triggers
    BY <1>2, <1>3, <1>4 DEF rest
  <2> QED BY <1>1, <1>2, <2>1, GoOnDoes
<1>6. ASSUME NEW b \in Alarms, AlarmTrigger(b) \in doing.todo,
             AlarmTrigger(b) # t
      PROVE  AlarmTrigger(b) \in doing'.todo
  <2>1. AlarmTrigger(b) \in rest /\ AlarmTrigger(b) \in left
    BY <1>2, <1>4, <1>6 DEF rest
  <2> QED BY <1>5, <2>1
<1>7. CASE t.kind = "alarm"
  <2>0. PICK a \in Alarms : a = t.who
    BY <1>2, <1>7, OnList
  <2> DEFINE x == FiredAlarm(alarm[a], value[doing.obj])
  <2>1. /\ a \in Alarms /\ alarm[a] # NoAlarm /\ alarm[a].obj = doing.obj
        /\ alarm[a] \in Alarm
    BY <2>0, <1>2, <1>7, OnList, AlarmExists
  <2>2. Sound(alarm[a])
    BY <2>1 DEF AlarmInv
  <2>3. Sound(x) /\ Updated(x, value[doing.obj])
    BY <1>2, <2>1, <2>2, FiredIsUpdated
  <2>4. x.obj = doing.obj
    BY <2>1, FiredAlarmType
  <2>5. alarm' = [alarm EXCEPT ![a] = x]
    BY <2>0, <1>1, <1>7
  <2> HIDE DEF x
  <2>6. alarm'[a] = x
    BY <2>1, <2>5, <1>2 DEF ListInv, TypeOK
  <2>7. Told(a)'
    BY <1>1, <2>3, <2>4, <2>6 DEF Told
  <2>8. \A b \in Alarms \ {a} : AlarmTrigger(b) # t
    BY <2>0, TriggerFacts
  <2> QED BY <1>1, <1>5, <1>6, <2>1, <2>5, <2>7, <2>8, OneAlarm
<1>8. CASE t.kind = "await"
  <2>1. \A b \in Alarms : AlarmTrigger(b) # t
    BY <1>8, TriggerFacts
  <2>2. UNCHANGED <<value, alarm>>
    BY <1>1, <1>8
  <2> QED BY <1>5, <1>6, <2>1, <2>2, QuietStep
<1> QED BY <1>1, <1>7, <1>8

LEMMA LoopEndUpdates ==
    ASSUME SyncInv, AlarmInv, WalkDone \/ FenceDone
    PROVE  AlarmInv'
<1>1. UNCHANGED <<value, alarm>> /\ (doing.op = "change" => doing.next = NoTrigger)
  BY DEF WalkDone, FenceDone, triggerVars
<1>2. doing.op = "change" => doing.todo = {}
  BY <1>1, TriggerFacts DEF SyncInv, LoopInv, ListInv, TypeOK, Doing
<1> QED BY <1>1, <1>2, QuietStep

LEMMA TellTriggerUpdates ==
    ASSUME SyncInv, AlarmInv, TellTrigger
    PROVE  AlarmInv'
<1>1. doing.op = "destroy" /\ UNCHANGED value
  BY DEF TellTrigger
<1>2. ListInv /\ doing.obj \in Objects
  BY <1>1 DEF SyncInv, LoopInv
<1>3. CASE UNCHANGED alarm
  BY <1>1, <1>3, QuietStep
<1>4. CASE \E t \in triglist[doing.obj] :
             /\ t.kind = "alarm"
             /\ alarm' = [alarm EXCEPT ![t.who].active = FALSE,
                                       ![t.who].obj = None]
  <2>1. PICK t \in triglist[doing.obj] :
             /\ t.kind = "alarm"
             /\ alarm' = [alarm EXCEPT ![t.who].active = FALSE,
                                       ![t.who].obj = None]
    BY <1>4
  <2>0. PICK a \in Alarms : a = t.who
    BY <1>2, <2>1, OnList
  <2> DEFINE x == [alarm[a] EXCEPT !.active = FALSE, !.obj = None]
  <2>2. a \in Alarms /\ alarm[a] # NoAlarm /\ alarm[a] \in Alarm
    BY <2>0, <1>2, <2>1, OnList, AlarmExists
  <2>3. alarm' = [alarm EXCEPT ![a] = x]
    BY <2>0, <1>2, <2>1, <2>2 DEF ListInv, TypeOK
  <2>4. Matched(alarm[a])
    BY <2>2 DEF AlarmInv, Sound
  <2>5. Matched(x) /\ x.active = FALSE
    BY <2>2, <2>4 DEF Alarm, Matched
  <2> HIDE DEF x
  <2>6. alarm'[a] = x
    BY <1>2, <2>2, <2>3 DEF ListInv, TypeOK
  <2>7. Told(a)'
    BY <2>5, <2>6 DEF Told, Sound, Updated
  <2> QED BY <1>1, <2>2, <2>3, <2>7, OneAlarm
<1> QED BY <1>3, <1>4 DEF TellTrigger

LEMMA ObjectFreedUpdates ==
    ASSUME SyncInv, AlarmInv, ObjectFreed
    PROVE  AlarmInv'
<1>1. /\ doing.op = "destroy" /\ triglist[doing.obj] = {} /\ UNCHANGED alarm
      /\ value' = [value EXCEPT ![doing.obj] = Gone]
  BY DEF ObjectFreed, triggerVars
<1>2. ListInv /\ doing.obj \in Objects
  BY <1>1 DEF SyncInv, LoopInv
<1>3. \A a \in Alarms : alarm[a] # NoAlarm => alarm[a].obj # doing.obj
  BY <1>1, <1>2, NoAlarmOn
<1> QED BY <1>1, <1>2, <1>3, ValueMoves

LEMMA RequestUpdates ==
    ASSUME SyncInv, AlarmInv, Request, ErrorsStoreNothing
    PROVE  AlarmInv'
<1>1. ASSUME NEW o \in Objects, NEW v, SyncCreate(o, v)
      PROVE  AlarmInv'
  BY <1>1, CreateUpdates
<1>2. ASSUME NEW k \in Counters, NEW v, ProcSyncSetCounter(k, v)
      PROVE  AlarmInv'
  BY <1>2, ChangeCounterUpdates DEF ProcSyncSetCounter, Ready, Idle
<1>3. ASSUME NEW k \in Counters, NEW d, ProcSyncChangeCounter(k, d)
      PROVE  AlarmInv'
  BY <1>3, ChangeCounterUpdates DEF ProcSyncChangeCounter, Ready, Idle
<1>4. ASSUME NEW o \in Objects, ProcSyncDestroy(o)
      PROVE  AlarmInv'
  BY <1>4, NothingFacts, QuietStep DEF ProcSyncDestroy, Destroy, triggerVars
<1>5. ASSUME NEW c \in Clients, NEW w \in Awaits, ProcSyncAwait(c, w)
      PROVE  AlarmInv'
  BY <1>5, NothingFacts, QuietStep DEF ProcSyncAwait, Ready, Idle
<1>6. ASSUME NEW a \in Alarms, NEW r \in NewAlarms, ProcSyncCreateAlarm(a, r)
      PROVE  AlarmInv'
  BY <1>6, CreateAlarmUpdates, RequestsAssumption
<1>7. ASSUME NEW a \in Alarms, NEW r \in AlarmChanges, ProcSyncChangeAlarm(a, r)
      PROVE  AlarmInv'
  BY <1>7, ChangeAlarmUpdates, RequestsAssumption
<1>8. ASSUME NEW a \in Alarms, NEW r \in AlarmChanges, ChangeAlarmFails(a, r)
      PROVE  AlarmInv'
  <2>1. UNCHANGED alarm
    BY <1>8 DEF ErrorsStoreNothing
  <2>2. UNCHANGED value /\ doing = Nothing
    BY <1>8 DEF ChangeAlarmFails, Ready, Idle
  <2> QED BY <2>1, <2>2, NothingFacts, QuietStep
<1>9. ASSUME NEW a \in Alarms, ProcSyncDestroyAlarm(a)
      PROVE  AlarmInv'
  BY <1>9, FreeAlarmUpdates DEF ProcSyncDestroyAlarm
<1>10. ASSUME NEW c \in Closers, CloseDownClient(c)
       PROVE  AlarmInv'
  BY <1>10, NothingFacts, QuietStep DEF CloseDownClient, Idle, triggerVars
<1> QED BY <1>1, <1>2, <1>3, <1>4, <1>5, <1>6, <1>7, <1>8, <1>9, <1>10,
           FenceUpdates, ObjectFacts DEF Request

LEMMA ServerStepUpdates ==
    ASSUME SyncInv, AlarmInv, ServerStep
    PROVE  AlarmInv'
<1>1. ASSUME NEW a \in Alarms, FreeClientAlarm(a)
      PROVE  AlarmInv'
  BY <1>1, FreeAlarmUpdates DEF FreeClientAlarm
<1>2. ASSUME NEW o \in Objects, FreeClientObject(o)
      PROVE  AlarmInv'
  BY <1>2, NothingFacts, QuietStep DEF FreeClientObject, Destroy, triggerVars
<1>3. CASE FreeAwait \/ ClientFreed
  BY <1>3, NothingFacts, QuietStep DEF FreeAwait, ClientFreed
<1>4. CASE FenceFires
  BY <1>4, QuietStep DEF FenceFires
<1> QED BY <1>1, <1>2, <1>3, <1>4, WalkPastUpdates, WalkFireUpdates,
           LoopEndUpdates, TellTriggerUpdates, ObjectFreedUpdates DEF ServerStep

LEMMA NextUpdates ==
    SyncInv /\ AlarmInv /\ [Next]_vars /\ [ErrorsStoreNothing]_vars => AlarmInv'
<1> SUFFICES ASSUME SyncInv, AlarmInv, [Next]_vars, [ErrorsStoreNothing]_vars
             PROVE  AlarmInv'
  OBVIOUS
<1>1. CASE UNCHANGED vars
  BY <1>1, QuietStep DEF vars
<1>2. CASE Next /\ ErrorsStoreNothing
  <2>1. CASE WaitForSomething
    BY <2>1, <1>1 DEF WaitForSomething
  <2> QED BY <1>2, <2>1, RequestUpdates, ServerStepUpdates DEF Next
<1> QED BY <1>1, <1>2

LEMMA InvImpliesUpdated == SyncInv /\ AlarmInv => AlarmsAreUpdated
<1> SUFFICES ASSUME SyncInv, AlarmInv PROVE AlarmsAreUpdated
  OBVIOUS
<1>1. \A a \in Alarms : alarm[a] # NoAlarm =>
          alarm[a] \in Alarm /\ Sound(alarm[a])
  BY AlarmExists DEF AlarmInv, SyncInv
<1>2. AlarmUpdateEnds
  BY <1>1, SoundEnds DEF AlarmUpdateEnds, Sound, Matched
<1>3. ASSUME doing = Nothing, NEW a \in Alarms, alarm[a] # NoAlarm,
             alarm[a].active
      PROVE  /\ alarm[a].obj # None
             /\ alarm[a].check \in Comparisons =>
                   ~CheckTrigger(alarm[a], value[alarm[a].obj],
                                 value[alarm[a].obj])
  <2>1. Sound(alarm[a]) /\ Updated(alarm[a], value[alarm[a].obj])
    BY <1>3, NothingFacts DEF AlarmInv
  <2> QED BY <2>1, <1>3 DEF Sound, Updated
<1> QED BY <1>2, <1>3 DEF AlarmsAreUpdated

\* SyncAlarmTriggerFired and SyncChangeAlarmAttributes keep every alarm of every
\* counter in a state in which its loop ends and, between requests, its trigger
\* is not true, in all behaviours in which no ChangeAlarm that returns an error
\* has stored half of what was asked for.
THEOREM AlarmsStayUpdated ==
    Spec /\ [][ErrorsStoreNothing]_vars => []AlarmsAreUpdated
<1>1. Init => AlarmInv
  BY DEF Init, AlarmInv
<1>2. SyncInv /\ AlarmInv /\ [Next]_vars /\ [ErrorsStoreNothing]_vars => AlarmInv'
  BY NextUpdates
<1>3. SyncInv /\ AlarmInv => AlarmsAreUpdated
  BY InvImpliesUpdated
<1> QED BY <1>1, <1>2, <1>3, SyncInvariant, PTL DEF Spec
=============================================================================
