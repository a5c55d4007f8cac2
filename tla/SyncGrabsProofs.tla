--------------------------- MODULE SyncGrabsProofs ---------------------------
(***************************************************************************)
(* For any clients, grabs, keys and number of events: the variables keep   *)
(* their types; a device is frozen exactly while an active grab freezes it *)
(* (FreezeHasGrab); nothing waits for a device that is not frozen          *)
(* (NothingOverdue); the events of a device are processed in order         *)
(* and the event a frozen device keeps is its last one (InOrder); grabs    *)
(* outlive neither their window nor their client (GrabsHaveOwners); and    *)
(* the loops that play events and end grabs do end (RequestsEnd).          *)
(*                                                                         *)
(* The argument follows the code.  sync.other is only ever set to a grab   *)
(* that is being made active on the paired device, and the three ways in   *)
(* which that grab can stop being the active one (it is deactivated,       *)
(* replaced by a grab of the same client, or its client lets go of         *)
(* everything) all overwrite or clear sync.other.  Every step that thaws a *)
(* device ends in ComputeFreezes, which plays what waits; so an event that *)
(* is processed at once has overtaken nothing.                             *)
(***************************************************************************)
EXTENDS SyncGrabs, SequenceTheorems, FiniteSetTheorems, TLAPS

GrabsOK ==
    /\ grab \in [Devices -> Grab \cup {NoGrab}]
    /\ st \in [Devices -> States]
    /\ other \in [Devices -> Grab \cup {NoGrab}]
    /\ frozen \in [Devices -> BOOLEAN]
    /\ syncEvent \in [Devices -> Event \cup {NoEvent}]
    /\ playing \in BOOLEAN

\* A device frozen with an event has kept one (part of InOrder).
FrozenHasEvent ==
    \A d \in Devices : st[d] = "frozen_with_event" => syncEvent[d] # NoEvent

\* What the steps that change a grab must keep.
GrabInv == GrabsOK /\ FreezeHasGrab /\ FrozenHasEvent

\* And what they do not touch.
ReplayHasEvent == replay # NoReplay => syncEvent[replay[1]] # NoEvent

RestOK ==
    /\ pending \in Seq(Event)
    /\ replay \in (Devices \X Windows) \cup {NoReplay}
    /\ passive \subseteq PassiveGrabs
    /\ down \in [Devices -> SUBSET Details]
    /\ last \in [Devices -> 0..MaxEvents]
    /\ generated \in 0..MaxEvents
    /\ window \in {"mapped", "unmapped", "gone"}
    /\ cstate \in [Clients -> {"running", "gone", "freed"}]
    /\ closing \in Clients \cup {NoClient}
    /\ walk \in Seq(Devices)
    /\ goal \in {"none", "unmap", "delete", "release"}

FreezeInv == GrabInv /\ RestOK /\ ReplayHasEvent

\* No step forgets the event a device has kept; it is only replaced.
KeepsEvents ==
    \A d \in Devices : syncEvent[d] # NoEvent => syncEvent'[d] # NoEvent

LEMMA PairedFacts ==
    /\ \A d \in Devices : Paired(d) \in Devices /\ Paired(d) # d
    /\ \A d \in Devices : Paired(Paired(d)) = d
    /\ \A d, x \in Devices : x # d => x = Paired(d)
BY DEF Devices, Paired

LEMMA InvImplies == FreezeInv => TypeOK /\ FreezeHasGrab
BY DEF FreezeInv, RestOK, TypeOK, GrabInv, GrabsOK

\* There always is an address for a new grab.
LEMMA NewGrabType ==
    ASSUME GrabsOK, NEW d \in Devices, NEW c \in Clients, NEW w \in Windows,
           NEW p \in BOOLEAN, NEW k \in Details \cup {0}
    PROVE  /\ NewGrab(d, c, w, p, k) \in Grab
           /\ NewGrab(d, c, w, p, k).client = c
           /\ NewGrab(d, c, w, p, k) # NoGrab
<1> DEFINE used == {grab[d], other["ptr"], other["kbd"]} \ {NoGrab}
           Free(i) == \A g \in used : ~(g.dev = d /\ g.id = i)
<1>1. \E i \in 0..3 : Free(i)
  <2>1. grab[d].id # 0 /\ other["ptr"].id # 0 /\ other["kbd"].id # 0 => Free(0)
    OBVIOUS
  <2>2. grab[d].id # 1 /\ other["ptr"].id # 1 /\ other["kbd"].id # 1 => Free(1)
    OBVIOUS
  <2>3. grab[d].id # 2 /\ other["ptr"].id # 2 /\ other["kbd"].id # 2 => Free(2)
    OBVIOUS
  <2>4. grab[d].id # 3 /\ other["ptr"].id # 3 /\ other["kbd"].id # 3 => Free(3)
    OBVIOUS
  <2> HIDE DEF Free
  <2>5. QED BY <2>1, <2>2, <2>3, <2>4
<1> DEFINE n == CHOOSE i \in 0..3 : Free(i)
           g == NewGrab(d, c, w, p, k)
<1>2. n \in 0..3
  BY <1>1
<1>3. g = [dev |-> d, client |-> c, win |-> w, passive |-> p, key |-> k,
           id |-> n]
  BY DEF NewGrab
<1> HIDE DEF n, g
<1>4. g \in Grab
  BY <1>2, <1>3, Zenon DEF Grab
<1>5. g.client = c
  BY <1>3
<1>6. QED BY <1>4, <1>5, NoneAssumption DEF g

\* Activating a grab on a device that is free, or held by the same client.
LEMMA ActivateKeeps ==
    ASSUME GrabInv, NEW d \in Devices, NEW g \in Grab,
           NEW own \in Modes, NEW oth \in Modes, NEW e \in Event \cup {NoEvent},
           grab[d] # NoGrab => grab[d].client = g.client,
           ActivateGrab(d, g, own, oth, e)
    PROVE  GrabInv' /\ KeepsEvents
<1>1. g # NoGrab
  BY NoneAssumption
<1>2. /\ grab' \in [Devices -> Grab \cup {NoGrab}]
      /\ st' \in [Devices -> States]
      /\ other' \in [Devices -> Grab \cup {NoGrab}]
      /\ syncEvent' \in [Devices -> Event \cup {NoEvent}]
  BY DEF ActivateGrab, OtherAfter, GrabInv, GrabsOK, States, FrozenStates,
         FreezeNext
<1>3. /\ frozen' \in [Devices -> BOOLEAN]
      /\ playing' \in BOOLEAN
      /\ \A x \in Devices :
            frozen'[x] = (other'[x] # NoGrab \/ st'[x] \in FrozenStates)
  BY Zenon DEF ActivateGrab, ComputeFreezes
<1>4. ASSUME NEW x \in Devices, other'[x] # NoGrab
      PROVE  other'[x] = grab'[Paired(x)]
  <2>1. CASE x = Paired(d)
    BY <1>1, <1>4, <2>1, PairedFacts
    DEF ActivateGrab, OtherAfter, GrabInv, GrabsOK, FreezeHasGrab
  <2>2. CASE x = d
    BY <1>1, <1>4, <2>2, PairedFacts
    DEF ActivateGrab, OtherAfter, GrabInv, GrabsOK, FreezeHasGrab
  <2>3. QED BY <2>1, <2>2, PairedFacts
<1>5. ASSUME NEW x \in Devices
      PROVE  (st'[x] = "not_grabbed") = (grab'[x] = NoGrab)
  BY <1>1 DEF ActivateGrab, GrabInv, GrabsOK, FreezeHasGrab
<1>6. FrozenHasEvent' /\ KeepsEvents
  BY NoneAssumption
  DEF ActivateGrab, GrabInv, GrabsOK, FrozenHasEvent, KeepsEvents
<1>7. QED BY <1>2, <1>3, <1>4, <1>5, <1>6 DEF GrabInv, GrabsOK, FreezeHasGrab

LEMMA DeactivateKeeps ==
    ASSUME GrabInv, NEW d \in Devices, DeactivateGrab(d)
    PROVE  GrabInv' /\ KeepsEvents
<1>1. /\ grab' \in [Devices -> Grab \cup {NoGrab}]
      /\ st' \in [Devices -> States]
      /\ other' \in [Devices -> Grab \cup {NoGrab}]
      /\ syncEvent' \in [Devices -> Event \cup {NoEvent}]
  BY DEF DeactivateGrab, GrabInv, GrabsOK, States
<1>2. /\ frozen' \in [Devices -> BOOLEAN]
      /\ playing' \in BOOLEAN
      /\ \A x \in Devices :
            frozen'[x] = (other'[x] # NoGrab \/ st'[x] \in FrozenStates)
  BY Zenon DEF DeactivateGrab, ComputeFreezes
<1>3. ASSUME NEW x \in Devices, other'[x] # NoGrab
      PROVE  other'[x] = grab'[Paired(x)]
  BY <1>3, PairedFacts DEF DeactivateGrab, GrabInv, GrabsOK, FreezeHasGrab
<1>4. ASSUME NEW x \in Devices
      PROVE  (st'[x] = "not_grabbed") = (grab'[x] = NoGrab)
  BY DEF DeactivateGrab, GrabInv, GrabsOK, FreezeHasGrab
<1>5. FrozenHasEvent' /\ KeepsEvents
  BY DEF DeactivateGrab, GrabInv, GrabsOK, FrozenHasEvent, KeepsEvents
<1>6. QED BY <1>1, <1>2, <1>3, <1>4, <1>5 DEF GrabInv, GrabsOK, FreezeHasGrab

\* FreezeThisEventIfNeededForSyncGrab freezes the paired device by the grab
\* of this one, unless the same client waits for the next event of both.
LEMMA FreezeThisKeeps ==
    ASSUME GrabInv, NEW d \in Devices, NEW e \in Event, grab[d] # NoGrab,
           FreezeThisEvent(d, e)
    PROVE  GrabInv' /\ KeepsEvents
<1> DEFINE x == Paired(d)
           both == st[d] = "freeze_both_next"
           same == st[x] = "freeze_both_next" /\ grab[x].client = grab[d].client
<1>1. x \in Devices /\ x # d
  BY PairedFacts
<1>2. /\ grab' = grab
      /\ playing' = playing
      /\ st' \in [Devices -> States]
      /\ other' \in [Devices -> Grab \cup {NoGrab}]
      /\ syncEvent' \in [Devices -> Event \cup {NoEvent}]
  BY <1>1 DEF FreezeThisEvent, GrabInv, GrabsOK, States, FrozenStates
<1>3. /\ st'[d] = "frozen_with_event" /\ other'[d] = other[d]
      /\ st'[x] = IF both /\ same THEN "frozen_no_event" ELSE st[x]
      /\ other'[x] = IF both /\ ~same THEN grab[d] ELSE other[x]
  BY <1>1 DEF FreezeThisEvent, GrabInv, GrabsOK
<1>4. frozen' = [frozen EXCEPT ![d] = TRUE, ![x] = both \/ @]
  BY DEF FreezeThisEvent
<1>5. frozen' \in [Devices -> BOOLEAN] /\ frozen'[d] = TRUE
      /\ (both => frozen'[x] = TRUE) /\ (~both => frozen'[x] = frozen[x])
  <2>1. frozen \in [Devices -> BOOLEAN]
    BY DEF GrabInv, GrabsOK
  <2>2. frozen[x] \in BOOLEAN /\ both \in BOOLEAN
    BY <1>1, <2>1
  <2>3. (both \/ frozen[x]) \in BOOLEAN /\ (both => (both \/ frozen[x]) = TRUE)
        /\ (~both => (both \/ frozen[x]) = frozen[x])
    BY <2>2, Zenon
  <2> HIDE DEF both, x
  <2>4. QED BY <1>1, <1>4, <2>1, <2>3
<1>6. \A y \in Devices : y = d \/ y = x
  BY PairedFacts
<1>7. frozen'[d] = (other'[d] # NoGrab \/ st'[d] \in FrozenStates)
  BY <1>3, <1>5 DEF FrozenStates
<1>8. frozen'[x] = (other'[x] # NoGrab \/ st'[x] \in FrozenStates)
  <2>1. CASE both
    BY <1>3, <1>5, <2>1 DEF FrozenStates
  <2>2. CASE ~both
    <3>1. frozen[x] = (other[x] # NoGrab \/ st[x] \in FrozenStates)
      BY <1>1 DEF GrabInv, FreezeHasGrab
    <3>2. QED BY <1>3, <1>5, <2>2, <3>1
  <2>3. QED BY <2>1, <2>2
<1>9. ASSUME NEW y \in Devices
      PROVE  /\ other'[y] # NoGrab => other'[y] = grab'[Paired(y)]
             /\ (st'[y] = "not_grabbed") = (grab'[y] = NoGrab)
  <2>1. CASE y = d
    BY <1>2, <1>3, <2>1 DEF GrabInv, FreezeHasGrab
  <2>2. CASE y = x
    <3>1. Paired(y) = d
      BY <2>2, PairedFacts
    <3>2. st[x] = "freeze_both_next" => grab[x] # NoGrab
      BY <1>1 DEF GrabInv, FreezeHasGrab
    <3>3. /\ other[x] # NoGrab => other[x] = grab[d]
          /\ (st[x] = "not_grabbed") = (grab[x] = NoGrab)
      BY <1>1, <2>2, <3>1 DEF GrabInv, FreezeHasGrab
    <3>4. QED BY <1>2, <1>3, <2>2, <3>1, <3>2, <3>3
  <2>3. QED BY <1>6, <2>1, <2>2
<1>10. \A y \in Devices :
          frozen'[y] = (other'[y] # NoGrab \/ st'[y] \in FrozenStates)
  BY <1>6, <1>7, <1>8
<1>11. GrabsOK'
  BY <1>2, <1>5 DEF GrabInv, GrabsOK
<1>12. FrozenHasEvent' /\ KeepsEvents
  <2>1. syncEvent' = [syncEvent EXCEPT ![d] = e] /\ e # NoEvent
    BY NoneAssumption DEF FreezeThisEvent
  <2>2. st'[x] = "frozen_with_event" => st[x] = "frozen_with_event"
    BY <1>3
  <2>3. QED BY <1>1, <1>6, <2>1, <2>2
            DEF GrabInv, GrabsOK, FrozenHasEvent, KeepsEvents
<1>13. QED BY <1>9, <1>10, <1>11, <1>12 DEF GrabInv, FreezeHasGrab

Loose == {"thawed", "freeze_next", "freeze_both_next"}

\* A step that changes no grab, only lets go of freezes, and moves grabbed
\* devices to states that do not freeze them.
LEMMA ChangeKeeps ==
    ASSUME GrabInv, UNCHANGED <<grab, syncEvent>>, ComputeFreezes,
           st' \in [Devices -> States],
           other' \in [Devices -> Grab \cup {NoGrab}],
           \A x \in Devices : other'[x] # NoGrab => other'[x] = other[x],
           \A x \in Devices :
               st'[x] = st[x] \/ (grab[x] # NoGrab /\ st'[x] \in Loose)
    PROVE  GrabInv' /\ KeepsEvents
<1>1. /\ frozen' \in [Devices -> BOOLEAN]
      /\ playing' \in BOOLEAN
      /\ \A x \in Devices :
            frozen'[x] = (other'[x] # NoGrab \/ st'[x] \in FrozenStates)
  BY Zenon DEF ComputeFreezes
<1>2. ASSUME NEW x \in Devices, other'[x] # NoGrab
      PROVE  other'[x] = grab'[Paired(x)]
  BY <1>2 DEF GrabInv, FreezeHasGrab
<1>3. ASSUME NEW x \in Devices
      PROVE  (st'[x] = "not_grabbed") = (grab'[x] = NoGrab)
  BY DEF GrabInv, FreezeHasGrab, Loose
<1>4. FrozenHasEvent' /\ KeepsEvents
  BY DEF GrabInv, FrozenHasEvent, KeepsEvents, Loose
<1>5. QED BY <1>1, <1>2, <1>3, <1>4 DEF GrabInv, GrabsOK, FreezeHasGrab

LEMMA AllowKeeps ==
    ASSUME GrabInv, NEW c \in Clients, NEW d \in Devices, AllowSome(c, d)
    PROVE  GrabInv' /\ KeepsEvents
<1>1. UNCHANGED <<grab, syncEvent>> /\ ComputeFreezes
  BY DEF AllowSome
<1>2. ASSUME NEW ds \in SUBSET Devices,
             NEW s \in {"thawed", "freeze_both_next"}, SetAll(c, ds, s)
      PROVE  GrabInv' /\ KeepsEvents
  <2>1. /\ st' \in [Devices -> States]
        /\ other' \in [Devices -> Grab \cup {NoGrab}]
        /\ \A x \in Devices : other'[x] # NoGrab => other'[x] = other[x]
        /\ \A x \in Devices :
              st'[x] = st[x] \/ (grab[x] # NoGrab /\ st'[x] \in Loose)
    BY <1>2 DEF SetAll, Holds, GrabInv, GrabsOK, States, FreezeNext,
                Loose
  <2>2. QED BY <1>1, <2>1, ChangeKeeps
<1>3. ASSUME Thaw(c, d) \/ FreezeNextEvent(c, d)
      PROVE  GrabInv' /\ KeepsEvents
  <2>1. /\ st' \in [Devices -> States]
        /\ other' \in [Devices -> Grab \cup {NoGrab}]
        /\ \A x \in Devices : other'[x] # NoGrab => other'[x] = other[x]
        /\ \A x \in Devices :
              st'[x] = st[x] \/ (grab[x] # NoGrab /\ st'[x] \in Loose)
    BY <1>3 DEF Thaw, FreezeNextEvent, Unsync, Holds, GrabInv, GrabsOK, States,
                FreezeNext, Loose
  <2>2. QED BY <1>1, <2>1, ChangeKeeps
<1>4. {Paired(d)} \in SUBSET Devices
  BY PairedFacts
<1>5. QED BY <1>2, <1>3, <1>4
          DEF AllowSome, ThawBoth, FreezeBothNextEvent, ThawOthers

\* Ending a grab to replay its event also clears the freeze the paired
\* device's grab of the same client holds.
LEMMA ReplayKeeps ==
    ASSUME GrabInv, NEW c \in Clients, NEW d \in Devices, AllowReplay(c, d)
    PROVE  GrabInv' /\ KeepsEvents
<1>1. /\ grab' \in [Devices -> Grab \cup {NoGrab}]
      /\ st' \in [Devices -> States]
      /\ other' \in [Devices -> Grab \cup {NoGrab}]
      /\ syncEvent' \in [Devices -> Event \cup {NoEvent}]
  BY DEF AllowReplay, GrabInv, GrabsOK, States
<1>2. /\ frozen' \in [Devices -> BOOLEAN]
      /\ playing' \in BOOLEAN
      /\ \A x \in Devices :
            frozen'[x] = (other'[x] # NoGrab \/ st'[x] \in FrozenStates)
  BY Zenon DEF AllowReplay, ComputeFreezes
<1>3. ASSUME NEW x \in Devices, other'[x] # NoGrab
      PROVE  other'[x] = grab'[Paired(x)]
  <2>1. other'[x] = other[x] /\ other[x] # grab[d]
    BY <1>3 DEF AllowReplay
  <2>2. other[x] = grab[Paired(x)]
    BY <1>3, <2>1 DEF GrabInv, FreezeHasGrab
  <2>3. QED BY <2>1, <2>2, PairedFacts DEF AllowReplay, GrabInv, GrabsOK
<1>4. ASSUME NEW x \in Devices
      PROVE  (st'[x] = "not_grabbed") = (grab'[x] = NoGrab)
  BY DEF AllowReplay, GrabInv, GrabsOK, FreezeHasGrab
<1>5. FrozenHasEvent' /\ KeepsEvents
  BY DEF AllowReplay, GrabInv, GrabsOK, FrozenHasEvent, KeepsEvents
<1>6. QED BY <1>1, <1>2, <1>3, <1>4, <1>5 DEF GrabInv, GrabsOK, FreezeHasGrab

LEMMA PassiveFacts ==
    ASSUME NEW p \in PassiveGrabs \cup ActiveGrabs
    PROVE  /\ p.client \in Clients /\ p.win \in Windows /\ p.dev \in Devices
           /\ p.own \in Modes /\ p.oth \in Modes
BY GrabsAssumption DEF GrabRequest

\* A passive grab is activated only on a device that is not grabbed.
LEMMA PassiveKeeps ==
    ASSUME GrabInv, RestOK, NEW d \in Devices, NEW e \in Event, NEW nd, NEW a,
           ActivatePassiveGrab(d, e, nd, a)
    PROVE  GrabInv' /\ KeepsEvents
<1> DEFINE k == IF d = "kbd" THEN e.detail ELSE 0
<1>1. PICK p \in Outermost(Candidates(d, e, nd, a)) :
        ActivateGrab(d, NewGrab(d, p.client, p.win, TRUE, k), p.own, p.oth, e)
  BY DEF ActivatePassiveGrab
<1>2. p \in passive /\ grab[d] = NoGrab
  BY DEF Outermost, Candidates
<1>3. p \in PassiveGrabs
  BY <1>2 DEF RestOK
<1>4. k \in Details \cup {0}
  BY DEF Event
<1> HIDE DEF k
<1>5. GrabsOK /\ TRUE \in BOOLEAN
  BY DEF GrabInv
<1>6. NewGrab(d, p.client, p.win, TRUE, k) \in Grab
  BY <1>3, <1>4, <1>5, PassiveFacts, NewGrabType, Zenon
<1>7. p.own \in Modes /\ p.oth \in Modes
  BY <1>3, PassiveFacts
<1> DEFINE g == NewGrab(d, p.client, p.win, TRUE, k)
<1> HIDE DEF g
<1>8. g \in Grab /\ ActivateGrab(d, g, p.own, p.oth, e)
  BY <1>1, <1>6 DEF g
<1>9. QED BY <1>2, <1>7, <1>8, ActivateKeeps

LEMMA ImplicitKeeps ==
    ASSUME GrabInv, NEW d \in Devices, NEW e, ActivateImplicitGrab(d, e)
    PROVE  GrabInv' /\ KeepsEvents
<1>1. PICK s \in PressSelected :
        ActivateGrab(d, NewGrab(d, s[1], s[2], TRUE, 0), "async", "async", NoEvent)
  BY DEF ActivateImplicitGrab
<1>2. s[1] \in Clients /\ s[2] \in Windows /\ grab[d] = NoGrab
  BY SelectionsAssumption DEF ActivateImplicitGrab
<1>3. GrabsOK /\ TRUE \in BOOLEAN /\ 0 \in Details \cup {0}
  BY DEF GrabInv
<1> DEFINE g == NewGrab(d, s[1], s[2], TRUE, 0)
<1>4. g \in Grab
  BY <1>2, <1>3, NewGrabType, Zenon
<1> HIDE DEF g
<1>5. ActivateGrab(d, g, "async", "async", NoEvent) /\ "async" \in Modes
  BY <1>1 DEF g, Modes
<1>6. QED BY <1>2, <1>4, <1>5, ActivateKeeps

LEMMA DeliverOnlyKeeps ==
    ASSUME GrabInv, DeliverOnly
    PROVE  GrabInv' /\ KeepsEvents
BY DEF DeliverOnly, grabVars, GrabInv, GrabsOK, FreezeHasGrab, FrozenHasEvent,
       KeepsEvents

LEMMA ProcessKeeps ==
    ASSUME GrabInv, RestOK, NEW e \in Event, ProcessDeviceEvent(e)
    PROVE  GrabInv' /\ KeepsEvents
<1> DEFINE d == e.dev
           nd == DownAfter(e)
<1>1. d \in Devices
  BY DEF Event
<1>2. \/ ActivatePassiveGrab(d, e, nd, "none")
      \/ ActivateImplicitGrab(d, e)
      \/ DeliverOnly
      \/ grab[d] # NoGrab /\ DeliverGrabbedEvent(d, e)
      \/ DeactivateGrab(d)
  BY DEF ProcessDeviceEvent
<1> HIDE DEF d, nd
<1>3. CASE ActivatePassiveGrab(d, e, nd, "none")
  BY <1>1, <1>3, PassiveKeeps
<1>4. CASE ActivateImplicitGrab(d, e)
  BY <1>1, <1>4, ImplicitKeeps
<1>5. CASE DeliverOnly
  BY <1>5, DeliverOnlyKeeps
<1>6. CASE grab[d] # NoGrab /\ DeliverGrabbedEvent(d, e)
  BY <1>1, <1>6, FreezeThisKeeps, DeliverOnlyKeeps DEF DeliverGrabbedEvent
<1>7. CASE DeactivateGrab(d)
  BY <1>1, <1>7, DeactivateKeeps
<1>8. QED BY <1>2, <1>3, <1>4, <1>5, <1>6, <1>7

-----------------------------------------------------------------------------
(* The queue and the rest of the state.                                    *)

LEMMA RemoveAtType ==
    ASSUME NEW S, NEW q \in Seq(S), NEW i \in 1..Len(q)
    PROVE  RemoveAt(q, i) \in Seq(S)
<1>1. SubSeq(q, 1, i - 1) \in Seq(S) /\ SubSeq(q, i + 1, Len(q)) \in Seq(S)
  OBVIOUS
<1>2. QED BY <1>1 DEF RemoveAt

LEMMA EnqueueType ==
    ASSUME RestOK, NEW e \in Event, EnqueueEvent(e)
    PROVE  pending' \in Seq(Event)
<1>1. pending \in Seq(Event)
  BY DEF RestOK
<1>2. Append(pending, e) \in Seq(Event)
  BY <1>1
<1>3. Len(pending) > 0 =>
        [pending EXCEPT ![Len(pending)] = e] \in Seq(Event)
  BY <1>1
<1>4. QED BY <1>2, <1>3 DEF EnqueueEvent

LEMMA ReplayEventStays ==
    ASSUME RestOK, ReplayHasEvent, KeepsEvents, replay' \in {replay, NoReplay}
    PROVE  ReplayHasEvent'
BY DEF RestOK, ReplayHasEvent, KeepsEvents

LEMMA ProcessType ==
    ASSUME RestOK, NEW e \in Event, ProcessDeviceEvent(e)
    PROVE  /\ down' \in [Devices -> SUBSET Details]
           /\ last' \in [Devices -> 0..MaxEvents]
<1>1. /\ down' = [down EXCEPT ![e.dev] = DownAfter(e)]
      /\ last' = [last EXCEPT ![e.dev] = e.id]
  BY DEF ProcessDeviceEvent
<1>2. e.dev \in Devices /\ e.id \in 0..MaxEvents
  BY BoundAssumption DEF Event
<1>3. /\ e.kind \in {"press", "release", "motion"}
      /\ e.kind = "press" => e.detail \in Details
  BY DEF Event
<1>4. down[e.dev] \in SUBSET Details
  BY <1>2 DEF RestOK
<1>5. DownAfter(e) \in SUBSET Details
  BY <1>3, <1>4 DEF DownAfter
<1>6. QED BY <1>1, <1>2, <1>5 DEF RestOK

\* An event of the device: it is queued, or processed at once.
LEMMA DeviceEventKeeps ==
    ASSUME FreezeInv, NEW d \in Devices,
           NEW kind \in {"press", "release", "motion"},
           NEW k \in Details \cup {0}, (kind = "motion") = (k = 0),
           DeviceEvent(d, kind, k)
    PROVE  FreezeInv'
<1> DEFINE e == [dev |-> d, kind |-> kind, detail |-> k, id |-> generated + 1]
<1>1. e \in Event /\ generated + 1 \in 0..MaxEvents
  BY BoundAssumption DEF Event, FreezeInv, RestOK, DeviceEvent
<1>2. GrabInv /\ RestOK /\ ReplayHasEvent
  BY DEF FreezeInv
<1>3. /\ \/ EnqueueEvent(e) /\ UNCHANGED <<grabVars, playing, down, last>>
         \/ UNCHANGED pending /\ ProcessDeviceEvent(e)
      /\ generated' = generated + 1
      /\ UNCHANGED <<replay, passive, window, closeVars, walkVars>>
  BY DEF DeviceEvent
<1> HIDE DEF e
<1>4. CASE EnqueueEvent(e) /\ UNCHANGED <<grabVars, playing, down, last>>
  <2>1. GrabInv' /\ KeepsEvents
    BY <1>2, <1>4, DeliverOnlyKeeps DEF DeliverOnly
  <2>2. pending' \in Seq(Event)
    BY <1>1, <1>2, <1>4, EnqueueType
  <2>3. RestOK'
    BY <1>1, <1>2, <1>3, <1>4, <2>2 DEF RestOK, closeVars, walkVars
  <2>4. QED BY <1>2, <1>3, <2>1, <2>3, ReplayEventStays DEF FreezeInv
<1>5. CASE UNCHANGED pending /\ ProcessDeviceEvent(e)
  <2>1. GrabInv' /\ KeepsEvents
    BY <1>1, <1>2, <1>5, ProcessKeeps
  <2>2. RestOK'
    BY <1>1, <1>2, <1>3, <1>5, ProcessType DEF RestOK, closeVars, walkVars
  <2>3. QED BY <1>2, <1>3, <2>1, <2>2, ReplayEventStays DEF FreezeInv
<1>6. QED BY <1>3, <1>4, <1>5

LEMMA ReplayEventKeeps ==
    ASSUME FreezeInv, ReplayEvent
    PROVE  FreezeInv'
<1> DEFINE d == replay[1]
           e == syncEvent[d]
<1>1. GrabInv /\ RestOK /\ ReplayHasEvent
  BY DEF FreezeInv
<1>2. /\ d \in Devices /\ e \in Event
  BY <1>1 DEF ReplayEvent, RestOK, ReplayHasEvent, GrabInv, GrabsOK
<1>3. /\ \/ ActivatePassiveGrab(d, e, down[d], replay[2])
         \/ ActivateImplicitGrab(d, e)
         \/ DeliverOnly
      /\ replay' = NoReplay
      /\ UNCHANGED <<eventVars, passive, window, closeVars, walkVars>>
  BY DEF ReplayEvent
<1> HIDE DEF d, e
<1>4. GrabInv' /\ KeepsEvents
  BY <1>1, <1>2, <1>3, PassiveKeeps, ImplicitKeeps, DeliverOnlyKeeps
<1>5. RestOK'
  BY <1>1, <1>3 DEF RestOK, eventVars, closeVars, walkVars
<1>6. QED BY <1>1, <1>3, <1>4, <1>5, ReplayEventStays DEF FreezeInv

LEMMA PlayEventKeeps ==
    ASSUME FreezeInv, PlayEvent
    PROVE  FreezeInv'
<1>1. GrabInv /\ RestOK /\ ReplayHasEvent
  BY DEF FreezeInv
<1>2. PICK i \in Playable : /\ pending' = RemoveAt(pending, i)
                            /\ UNCHANGED replay
                            /\ ProcessDeviceEvent(pending[i])
  BY DEF PlayEvent
<1>3. i \in 1..Len(pending) /\ pending \in Seq(Event)
  BY <1>1 DEF Playable, RestOK
<1>4. pending[i] \in Event /\ pending' \in Seq(Event)
  BY <1>2, <1>3, RemoveAtType
<1>5. GrabInv' /\ KeepsEvents
  BY <1>1, <1>2, <1>4, ProcessKeeps
<1>6. RestOK'
  BY <1>1, <1>2, <1>4, ProcessType DEF PlayEvent, RestOK, closeVars, walkVars
<1>7. QED BY <1>1, <1>2, <1>5, <1>6, ReplayEventStays DEF FreezeInv

LEMMA EndGrabKeeps ==
    ASSUME FreezeInv, EndGrab
    PROVE  FreezeInv'
<1>1. GrabInv /\ RestOK /\ ReplayHasEvent
  BY DEF FreezeInv
<1>2. PICK i \in Hits : /\ DeactivateGrab(walk[i])
                        /\ walk' = SubSeq(walk, i + 1, Len(walk))
  BY DEF EndGrab
<1>3. i \in 1..Len(walk) /\ walk \in Seq(Devices)
  BY <1>1 DEF Hits, RestOK
<1>4. walk[i] \in Devices /\ walk' \in Seq(Devices)
  BY <1>2, <1>3
<1>5. GrabInv' /\ KeepsEvents
  BY <1>1, <1>2, <1>4, DeactivateKeeps
<1>6. RestOK' /\ replay' = replay
  BY <1>1, <1>4 DEF EndGrab, RestOK, eventVars, closeVars
<1>7. QED BY <1>1, <1>5, <1>6, ReplayEventStays DEF FreezeInv

\* GrabDevice refuses a device another client has grabbed.
LEMMA GrabDeviceKeeps ==
    ASSUME FreezeInv, NEW r \in ActiveGrabs, GrabDevice(r)
    PROVE  FreezeInv'
<1>1. GrabInv /\ GrabsOK /\ RestOK /\ ReplayHasEvent
  BY DEF FreezeInv, GrabInv
<1>2. /\ r.client \in Clients /\ r.win \in Windows /\ r.dev \in Devices
      /\ r.own \in Modes /\ r.oth \in Modes
  BY PassiveFacts
<1> DEFINE g == NewGrab(r.dev, r.client, r.win, FALSE, 0)
<1>3. FALSE \in BOOLEAN /\ 0 \in Details \cup {0}
  OBVIOUS
<1>4. g \in Grab /\ g.client = r.client
  BY <1>1, <1>2, <1>3, NewGrabType, Zenon
<1>5. ActivateGrab(r.dev, g, r.own, r.oth, NoEvent)
  BY DEF GrabDevice
<1>6. grab[r.dev] # NoGrab => grab[r.dev].client = r.client
  BY DEF GrabDevice
<1> HIDE DEF g
<1>7. GrabInv' /\ KeepsEvents
  BY <1>1, <1>2, <1>4, <1>5, <1>6, ActivateKeeps
<1>8. RestOK' /\ replay' = replay
  BY <1>1 DEF GrabDevice, RestOK, closeVars, walkVars
<1>9. QED BY <1>1, <1>7, <1>8, ReplayEventStays DEF FreezeInv

LEMMA RequestsKeep ==
    ASSUME FreezeInv, NEW c \in Clients, NEW d \in Devices,
           UngrabDevice(c, d) \/ AllowSome(c, d) \/ AllowReplay(c, d)
    PROVE  FreezeInv'
<1>1. GrabInv /\ RestOK /\ ReplayHasEvent
  BY DEF FreezeInv
<1>2. CASE UngrabDevice(c, d)
  <2>1. GrabInv' /\ KeepsEvents
    BY <1>1, <1>2, DeactivateKeeps DEF UngrabDevice
  <2>2. RestOK' /\ replay' = replay
    BY <1>1, <1>2 DEF UngrabDevice, RestOK, closeVars, walkVars
  <2>3. QED BY <1>1, <2>1, <2>2, ReplayEventStays DEF FreezeInv
<1>3. CASE AllowSome(c, d)
  <2>1. GrabInv' /\ KeepsEvents
    BY <1>1, <1>3, AllowKeeps
  <2>2. RestOK' /\ replay' = replay
    BY <1>1, <1>3 DEF AllowSome, RestOK, eventVars, closeVars, walkVars
  <2>3. QED BY <1>1, <2>1, <2>2, ReplayEventStays DEF FreezeInv
<1>4. CASE AllowReplay(c, d)
  <2>1. GrabInv' /\ KeepsEvents
    BY <1>1, <1>4, ReplayKeeps
  <2>2. /\ replay' = <<d, grab[d].win>> /\ grab[d] \in Grab
        /\ st[d] = "frozen_with_event"
    BY <1>1, <1>4 DEF AllowReplay, Holds, GrabInv, GrabsOK
  <2>3. replay' \in Devices \X Windows /\ replay'[1] = d
    BY <2>2 DEF Grab
  <2>4. RestOK'
    BY <1>1, <1>4, <2>3 DEF AllowReplay, RestOK, eventVars, closeVars, walkVars
  <2>5. ReplayHasEvent'
    BY <1>1, <2>1, <2>2, <2>3
    DEF ReplayHasEvent, KeepsEvents, GrabInv, FrozenHasEvent
  <2>6. QED BY <2>1, <2>4, <2>5 DEF FreezeInv
<1>5. QED BY <1>2, <1>3, <1>4

\* Steps that leave the grabs and the events alone.
LEMMA QuietKeeps ==
    ASSUME FreezeInv, UNCHANGED <<grabVars, eventVars, playing, replay>>,
           passive' \subseteq PassiveGrabs,
           window' \in {"mapped", "unmapped", "gone"},
           cstate' \in [Clients -> {"running", "gone", "freed"}],
           closing' \in Clients \cup {NoClient},
           walk' \in Seq(Devices),
           goal' \in {"none", "unmap", "delete", "release"}
    PROVE  FreezeInv'
<1>1. GrabInv /\ RestOK /\ ReplayHasEvent
  BY DEF FreezeInv
<1>2. GrabInv' /\ KeepsEvents
  BY <1>1, DeliverOnlyKeeps DEF DeliverOnly
<1>3. RestOK'
  BY <1>1 DEF RestOK, eventVars
<1>4. QED BY <1>1, <1>2, <1>3, ReplayEventStays DEF FreezeInv

LEMMA WalkTypes ==
    /\ UnmapWalk \in Seq(Devices)
    /\ DeleteWalk \in Seq(Devices)
    /\ ReleaseWalk \in Seq(Devices)
    /\ <<>> \in Seq(Devices)
<1>1. "ptr" \in Devices /\ "kbd" \in Devices
  BY DEF Devices
<1>2. UnmapWalk \in Seq(Devices) /\ ReleaseWalk \in Seq(Devices)
  BY <1>1 DEF UnmapWalk, ReleaseWalk
<1> HIDE DEF UnmapWalk
<1>3. UnmapWalk \o UnmapWalk \in Seq(Devices)
  BY <1>2
<1>4. QED BY <1>2, <1>3 DEF DeleteWalk

\* Windows that go away and clients that close their connection.
LEMMA GoingAwayKeeps ==
    ASSUME FreezeInv,
           \/ MapWindow \/ UnmapWindow \/ DeleteWindow
           \/ WindowUnmapped \/ WindowDeleted
           \/ ReleaseAgain \/ GrabsReleased \/ ClientFreed
           \/ \E c \in Closers : CloseDownClient(c)
           \/ \E p \in PassiveGrabs : \/ FreePassiveGrab(p)
                                      \/ GrabButtonOrKey(p)
                                      \/ UngrabButtonOrKey(p)
    PROVE  FreezeInv'
<1>1. RestOK
  BY DEF FreezeInv
<1>2. CASE MapWindow \/ UnmapWindow \/ DeleteWindow
  BY <1>1, <1>2, QuietKeeps, WalkTypes
  DEF MapWindow, UnmapWindow, DeleteWindow, RestOK, closeVars, walkVars
<1>3. CASE WindowUnmapped \/ WindowDeleted
  BY <1>1, <1>3, QuietKeeps, WalkTypes
  DEF WindowUnmapped, WindowDeleted, RestOK, closeVars
<1>4. CASE ReleaseAgain \/ GrabsReleased \/ ClientFreed
  BY <1>1, <1>4, QuietKeeps, WalkTypes
  DEF ReleaseAgain, GrabsReleased, ClientFreed, RestOK, closeVars, walkVars
<1>5. CASE \E c \in Closers : CloseDownClient(c)
  BY <1>1, <1>5, QuietKeeps, WalkTypes, ClientsAssumption
  DEF CloseDownClient, RestOK
<1>6. CASE \E p \in PassiveGrabs : \/ FreePassiveGrab(p)
                                   \/ GrabButtonOrKey(p)
                                   \/ UngrabButtonOrKey(p)
  <2>1. PICK p \in PassiveGrabs : \/ FreePassiveGrab(p)
                                  \/ GrabButtonOrKey(p)
                                  \/ UngrabButtonOrKey(p)
    BY <1>6
  <2>2. /\ UNCHANGED <<grabVars, eventVars, playing, replay, window, closeVars,
                       walkVars>>
        /\ passive' \subseteq PassiveGrabs
    BY <1>1, <2>1 DEF FreePassiveGrab, GrabButtonOrKey, UngrabButtonOrKey, RestOK
  <2>3. QED BY <1>1, <2>2, QuietKeeps DEF RestOK, closeVars, walkVars
<1>7. QED BY <1>2, <1>3, <1>4, <1>5, <1>6

LEMMA InitFreezeInv == Init => FreezeInv
<1> SUFFICES ASSUME Init PROVE FreezeInv
  OBVIOUS
<1>1. GrabInv
  BY DEF Init, GrabInv, GrabsOK, FreezeHasGrab, FrozenHasEvent, States,
         FrozenStates
<1>2. RestOK /\ ReplayHasEvent
  BY BoundAssumption DEF Init, RestOK, ReplayHasEvent
<1>3. QED BY <1>1, <1>2 DEF FreezeInv

LEMMA NextKeepsFreezeInv == FreezeInv /\ [Next]_vars => FreezeInv'
<1> SUFFICES ASSUME FreezeInv, [Next]_vars PROVE FreezeInv'
  OBVIOUS
<1>1. CASE UNCHANGED vars
  BY <1>1, QuietKeeps DEF vars, closeVars, walkVars, FreezeInv, RestOK
<1>2. CASE PlayingDone
  <2>1. GrabInv' /\ KeepsEvents
    BY <1>2 DEF PlayingDone, FreezeInv, GrabInv, GrabsOK, FreezeHasGrab,
                FrozenHasEvent, KeepsEvents, grabVars
  <2>2. RestOK' /\ replay' = replay
    BY <1>2 DEF PlayingDone, FreezeInv, RestOK, eventVars, closeVars, walkVars
  <2>3. QED BY <2>1, <2>2, ReplayEventStays DEF FreezeInv
<1>3. CASE \E d \in Devices, k \in Details : Press(d, k) \/ Release(d, k)
  <2>1. PICK d \in Devices, k \in Details : Press(d, k) \/ Release(d, k)
    BY <1>3
  <2>2. k # 0 /\ k \in Details \cup {0}
    BY DetailsAssumption DEF Details
  <2>3. DeviceEvent(d, "press", k) \/ DeviceEvent(d, "release", k)
    BY <2>1 DEF Press, Release
  <2>4. QED BY <2>2, <2>3, DeviceEventKeeps
<1>4. CASE Motion
  BY <1>4, DeviceEventKeeps DEF Motion, Devices
<1>5. CASE DestroyWindow \/ FreeWindow \/ WaitForSomething
  BY <1>1, <1>5, GoingAwayKeeps DEF DestroyWindow, FreeWindow, WaitForSomething
<1>6. \A k \in Buttons : k \in Details
  BY DEF Details
<1>7. \A k \in Keys : k \in Details
  BY DEF Details
<1>8. "ptr" \in Devices /\ "kbd" \in Devices
  BY DEF Devices
<1>9. QED
  BY <1>1, <1>2, <1>3, <1>4, <1>5, <1>6, <1>7, <1>8, ReplayEventKeeps,
     PlayEventKeeps, EndGrabKeeps, GoingAwayKeeps, GrabDeviceKeeps, RequestsKeep
  DEF Next, ServerStep

\* The invariant that makes the theorems below inductive, in every behaviour.
THEOREM FreezeInvariant == Spec => []FreezeInv
<1>1. QED BY InitFreezeInv, NextKeepsFreezeInv, PTL DEF Spec

\* The state of grabs and of the queue keeps its type, whatever is played.
THEOREM GrabTypes == Spec => []TypeOK
<1>1. FreezeInv => TypeOK
  BY InvImplies
<1>2. QED BY <1>1, FreezeInvariant, PTL

\* A device is frozen exactly while an active grab freezes it: sync.other never
\* outlives the grab it points at, for any clients, grabs and events.
THEOREM FreezesAreHeld == Spec => []FreezeHasGrab
<1>1. FreezeInv => FreezeHasGrab
  BY InvImplies
<1>2. QED BY <1>1, FreezeInvariant, PTL

-----------------------------------------------------------------------------
(* The order of events.  An event that is processed at once is processed   *)
(* after all earlier ones of the device because nothing waits for a device *)
(* that is not frozen once the server is idle (PlayInv).                   *)

PlayInv ==
    /\ replay # NoReplay => playing
    /\ ~playing => Playable = {}

OrderInv ==
    /\ \A i \in 1..Len(pending) : /\ pending[i].id > last[pending[i].dev]
                                  /\ pending[i].id <= generated
    /\ \A i, j \in 1..Len(pending) : j < i => pending[j].id < pending[i].id
    /\ \A d \in Devices : last[d] <= generated

KeptInv ==
    /\ \A d \in Devices : st[d] = "frozen_with_event" =>
                             syncEvent[d].id = last[d]
    /\ replay # NoReplay => syncEvent[replay[1]].id = last[replay[1]]

EventsInv == FreezeInv /\ PlayInv /\ OrderInv /\ KeptInv

LEMMA EventsInvImplies ==
    EventsInv => NothingOverdue /\ InOrder
<1> SUFFICES ASSUME EventsInv PROVE NothingOverdue /\ InOrder
  OBVIOUS
<1>1. NothingOverdue
  BY DEF EventsInv, PlayInv, NothingOverdue, Idle
<1>2. InOrder
  <2>1. Len(pending) \in Nat
    BY DEF EventsInv, FreezeInv, RestOK
  <2>2. \A i \in 1..Len(pending) :
           /\ pending[i].id > last[pending[i].dev]
           /\ \A j \in 1..i-1 : pending[j].id < pending[i].id
    BY <2>1 DEF EventsInv, OrderInv
  <2>3. \A d \in Devices : st[d] = "frozen_with_event" =>
           syncEvent[d] # NoEvent /\ syncEvent[d].id = last[d]
    BY DEF EventsInv, FreezeInv, GrabInv, FrozenHasEvent, KeptInv
  <2>4. QED BY <2>2, <2>3 DEF InOrder
<1>3. QED BY <1>1, <1>2

LEMMA ComputeFreezesPlays ==
    ASSUME ComputeFreezes
    PROVE  PlayInv'
<1>1. playing' = (playing \/ replay' # NoReplay \/ pending' # <<>>)
  BY DEF ComputeFreezes
<1>2. (replay # NoReplay)' => playing'
  BY <1>1, Zenon
<1>3. ~playing' => pending' = <<>>
  BY <1>1, Zenon
<1>4. pending' = <<>> => Playable' = {}
  BY DEF Playable
<1>5. QED BY <1>2, <1>3, <1>4 DEF PlayInv

\* What processing an event of a device that is not frozen does to freezes and
\* to the events that are kept.
LEMMA ProcessShape ==
    ASSUME GrabInv, RestOK, NEW e \in Event, ~frozen[e.dev],
           ProcessDeviceEvent(e)
    PROVE  /\ \/ ComputeFreezes
              \/ /\ playing' = playing
                 /\ \A x \in Devices : frozen[x] => frozen'[x]
           /\ last' = [last EXCEPT ![e.dev] = e.id]
           /\ st'[e.dev] = "frozen_with_event" => syncEvent'[e.dev] = e
           /\ \A x \in Devices \ {e.dev} :
                 /\ st'[x] = "frozen_with_event" => st[x] = "frozen_with_event"
                 /\ syncEvent'[x] = syncEvent[x]
<1> DEFINE d == e.dev
           nd == DownAfter(e)
           Goal == /\ \/ ComputeFreezes
                      \/ /\ playing' = playing
                         /\ \A x \in Devices : frozen[x] => frozen'[x]
                   /\ st'[d] = "frozen_with_event" => syncEvent'[d] = e
                   /\ \A x \in Devices \ {d} :
                         /\ st'[x] = "frozen_with_event" =>
                               st[x] = "frozen_with_event"
                         /\ syncEvent'[x] = syncEvent[x]
<1>1. d \in Devices
  BY DEF Event
<1>2. /\ \/ ActivatePassiveGrab(d, e, nd, "none")
         \/ ActivateImplicitGrab(d, e)
         \/ DeliverOnly
         \/ grab[d] # NoGrab /\ DeliverGrabbedEvent(d, e)
         \/ DeactivateGrab(d)
      /\ last' = [last EXCEPT ![d] = e.id]
  BY DEF ProcessDeviceEvent
<1>3. /\ st \in [Devices -> States] /\ syncEvent \in [Devices -> Event \cup {NoEvent}]
      /\ st[d] # "frozen_with_event"
  BY <1>1 DEF GrabInv, GrabsOK, FreezeHasGrab, FrozenStates
<1>4. e # NoEvent
  BY NoneAssumption
<1> SUFFICES Goal
  BY <1>2
<1> HIDE DEF d, nd
<1>5. ASSUME NEW g, NEW own, NEW oth, NEW y \in {e, NoEvent},
             own = "async" \/ y = e, ActivateGrab(d, g, own, oth, y)
      PROVE  Goal
  BY <1>1, <1>3, <1>4, <1>5 DEF ActivateGrab
<1>6. CASE ActivatePassiveGrab(d, e, nd, "none")
  BY <1>5, <1>6 DEF ActivatePassiveGrab
<1>7. CASE ActivateImplicitGrab(d, e)
  BY <1>5, <1>7 DEF ActivateImplicitGrab
<1>8. CASE DeliverOnly
  BY <1>3, <1>8 DEF DeliverOnly, grabVars
<1>9. CASE grab[d] # NoGrab /\ DeliverGrabbedEvent(d, e)
  <2>1. CASE FreezeThisEvent(d, e)
    <3>1. Paired(d) \in Devices /\ Paired(d) # d
          /\ \A x \in Devices \ {d} : x = Paired(d)
      BY <1>1, PairedFacts
    <3>2. /\ st'[d] = "frozen_with_event" => syncEvent'[d] = e
          /\ \A x \in Devices \ {d} :
                /\ st'[x] = "frozen_with_event" => st[x] = "frozen_with_event"
                /\ syncEvent'[x] = syncEvent[x]
      BY <1>1, <1>3, <2>1, <3>1 DEF FreezeThisEvent
    <3>3. playing' = playing /\ frozen \in [Devices -> BOOLEAN]
      BY <2>1 DEF FreezeThisEvent, GrabInv, GrabsOK
    <3>4. \E both \in BOOLEAN :
             frozen' = [frozen EXCEPT ![d] = TRUE, ![Paired(d)] = both \/ @]
      <4>1. (st[d] = "freeze_both_next") \in BOOLEAN
        OBVIOUS
      <4>2. QED BY <2>1, <4>1, Zenon DEF FreezeThisEvent
    <3>5. ASSUME NEW x \in Devices, frozen[x] PROVE frozen'[x]
      BY <1>1, <3>1, <3>3, <3>4, <3>5
    <3>6. QED BY <3>2, <3>3, <3>5
  <2>2. QED BY <1>8, <1>9, <2>1 DEF DeliverGrabbedEvent
<1>10. CASE DeactivateGrab(d)
  BY <1>1, <1>3, <1>10 DEF DeactivateGrab
<1> HIDE DEF Goal
<1>11. QED BY <1>2, <1>6, <1>7, <1>8, <1>9, <1>10

LEMMA EnqueueShape ==
    ASSUME RestOK, NEW e \in Event, EnqueueEvent(e)
    PROVE  \E n \in Nat :
             /\ n \in {Len(pending), Len(pending) - 1}
             /\ Len(pending') = n + 1
             /\ pending'[n + 1] = e
             /\ \A i \in 1..n : pending'[i] = pending[i]
<1> DEFINE n == Len(pending)
<1>1. pending \in Seq(Event) /\ n \in Nat
  BY DEF RestOK
<1>2. CASE pending' = Append(pending, e)
  <2>1. /\ Len(pending') = n + 1 /\ pending'[n + 1] = e
        /\ \A i \in 1..n : pending'[i] = pending[i]
    BY <1>1, <1>2
  <2>2. QED BY <1>1, <2>1
<1>3. CASE n > 0 /\ pending' = [pending EXCEPT ![n] = e]
  <2>1. /\ Len(pending') = n /\ pending'[n] = e
        /\ \A i \in 1..(n - 1) : pending'[i] = pending[i]
    BY <1>1, <1>3
  <2>2. n - 1 \in Nat /\ (n - 1) + 1 = n
    BY <1>1, <1>3
  <2> HIDE DEF n
  <2>3. QED BY <2>1, <2>2 DEF n
<1>4. QED BY <1>2, <1>3 DEF EnqueueEvent

LEMMA RemoveAtShape ==
    ASSUME NEW S, NEW q \in Seq(S), NEW i \in 1..Len(q)
    PROVE  /\ Len(RemoveAt(q, i)) = Len(q) - 1
           /\ \A k \in 1..(Len(q) - 1) :
                 RemoveAt(q, i)[k] = IF k < i THEN q[k] ELSE q[k + 1]
<1> DEFINE l == SubSeq(q, 1, i - 1)
           r == SubSeq(q, i + 1, Len(q))
<1>1. /\ l \in Seq(S) /\ Len(l) = i - 1
      /\ \A k \in 1..(i - 1) : l[k] = q[k]
  OBVIOUS
<1>2. /\ r \in Seq(S) /\ Len(r) = Len(q) - i
      /\ \A k \in 1..(Len(q) - i) : r[k] = q[k + i]
  OBVIOUS
<1>3. RemoveAt(q, i) = l \o r
  BY DEF RemoveAt
<1> HIDE DEF l, r
<1>4. Len(q) \in Nat
  OBVIOUS
<1>5. /\ Len(l \o r) = Len(q) - 1
      /\ \A k \in 1..(Len(q) - 1) :
            (l \o r)[k] = IF k <= Len(l) THEN l[k] ELSE r[k - Len(l)]
  <2>1. /\ Len(l \o r) = Len(l) + Len(r)
        /\ \A k \in 1..(Len(l) + Len(r)) :
              (l \o r)[k] = IF k <= Len(l) THEN l[k] ELSE r[k - Len(l)]
    BY <1>1, <1>2, ConcatProperties
  <2>2. Len(l) + Len(r) = Len(q) - 1
    BY <1>1, <1>2, <1>4
  <2>3. QED BY <2>1, <2>2
<1>6. ASSUME NEW k \in 1..(Len(q) - 1)
      PROVE  (l \o r)[k] = IF k < i THEN q[k] ELSE q[k + 1]
  <2>1. CASE k < i
    BY <1>1, <1>4, <1>5, <2>1
  <2>2. CASE ~(k < i)
    <3>1. k - (i - 1) \in 1..(Len(q) - i) /\ (k - (i - 1)) + i = k + 1
      BY <1>4, <2>2
    <3>2. r[k - (i - 1)] = q[k + 1]
      BY <1>2, <3>1
    <3>3. QED BY <1>1, <1>4, <1>5, <2>2, <3>2
  <2>3. QED BY <2>1, <2>2
<1>7. QED BY <1>3, <1>5, <1>6

LEMMA EventFields ==
    ASSUME NEW e \in Event
    PROVE  e.id \in Nat /\ e.dev \in Devices
BY BoundAssumption DEF Event

\* An event that waits for its device.
LEMMA EnqueueOrder ==
    ASSUME RestOK, OrderInv, PlayInv, ~playing, NEW e \in Event, frozen[e.dev],
           e.id = generated + 1, generated' = generated + 1,
           EnqueueEvent(e), UNCHANGED <<frozen, playing, replay, last>>
    PROVE  OrderInv' /\ PlayInv'
<1>1. /\ pending \in Seq(Event) /\ Len(pending) \in Nat
      /\ last \in [Devices -> Nat] /\ generated \in Nat
  BY BoundAssumption DEF RestOK
<1>2. \A i \in 1..Len(pending) : pending[i].id \in Nat /\ pending[i].dev \in Devices
  BY <1>1, EventFields
<1>3. PICK n \in Nat : /\ n \in {Len(pending), Len(pending) - 1}
                       /\ Len(pending') = n + 1
                       /\ pending'[n + 1] = e
                       /\ \A i \in 1..n : pending'[i] = pending[i]
  BY EnqueueShape
<1>4. \A i \in 1..(n + 1) : i \in 1..n \/ i = n + 1
  OBVIOUS
<1>5. \A i \in 1..n : i \in 1..Len(pending)
  BY <1>1, <1>3
<1>6. last[e.dev] <= generated /\ e.dev \in Devices
  BY EventFields DEF OrderInv
<1>7. ASSUME NEW i \in 1..(n + 1)
      PROVE  /\ pending'[i].id > last[pending'[i].dev]
             /\ pending'[i].id <= generated + 1
  <2>1. CASE i = n + 1
    BY <1>1, <1>3, <1>6, <2>1
  <2>2. CASE i \in 1..n
    <3>1. /\ pending[i].id > last[pending[i].dev]
          /\ pending[i].id <= generated /\ pending[i].id \in Nat
      BY <1>2, <1>5, <2>2 DEF OrderInv
    <3>2. QED BY <1>1, <1>3, <2>2, <3>1
  <2>3. QED BY <1>4, <2>1, <2>2
<1>8. ASSUME NEW i \in 1..(n + 1), NEW j \in 1..(n + 1), j < i
      PROVE  pending'[j].id < pending'[i].id
  <2>1. j \in 1..n
    BY <1>8
  <2>2. /\ pending[j].id <= generated /\ pending[j].id \in Nat
        /\ pending'[j] = pending[j]
    BY <1>2, <1>3, <1>5, <2>1 DEF OrderInv
  <2>3. CASE i = n + 1
    BY <1>1, <1>3, <2>2, <2>3
  <2>4. CASE i \in 1..n
    BY <1>3, <1>5, <1>8, <2>1, <2>2, <2>4 DEF OrderInv
  <2>5. QED BY <1>4, <2>3, <2>4
<1>9. OrderInv'
  <2>1. \A d \in Devices : last'[d] <= generated'
    BY <1>1 DEF OrderInv
  <2>2. QED BY <1>3, <1>7, <1>8, <2>1 DEF OrderInv
<1>10. PlayInv'
  <2>1. \A i \in 1..Len(pending) : frozen[pending[i].dev]
    BY DEF PlayInv, Playable
  <2>2. \A i \in 1..(n + 1) : frozen[pending'[i].dev]
    BY <1>3, <1>4, <1>5, <2>1
  <2>3. Playable' = {}
    BY <1>3, <2>2 DEF Playable
  <2>4. QED BY <2>3 DEF PlayInv
<1>11. QED BY <1>9, <1>10

\* An event that is processed at once: nothing waits for its device.
LEMMA ProcessNowOrder ==
    ASSUME GrabInv, RestOK, OrderInv, PlayInv, ~playing, NEW e \in Event,
           ~frozen[e.dev], e.id = generated + 1, generated' = generated + 1,
           ProcessDeviceEvent(e), UNCHANGED <<pending, replay>>
    PROVE  OrderInv' /\ PlayInv'
<1>1. /\ pending \in Seq(Event) /\ Len(pending) \in Nat
      /\ last \in [Devices -> Nat] /\ generated \in Nat
  BY BoundAssumption DEF RestOK
<1>2. \A i \in 1..Len(pending) : pending[i].id \in Nat /\ pending[i].dev \in Devices
  BY <1>1, EventFields
<1>3. /\ \/ ComputeFreezes
         \/ playing' = playing /\ \A x \in Devices : frozen[x] => frozen'[x]
      /\ last' = [last EXCEPT ![e.dev] = e.id]
  BY ProcessShape
<1>4. \A i \in 1..Len(pending) : frozen[pending[i].dev]
  BY DEF PlayInv, Playable
<1>5. \A i \in 1..Len(pending) : last'[pending[i].dev] = last[pending[i].dev]
  BY <1>1, <1>2, <1>3, <1>4
<1>6. e.dev \in Devices
  BY EventFields
<1>7. \A d \in Devices : last'[d] <= generated'
  BY <1>1, <1>3, <1>6 DEF OrderInv
<1>8. \A i \in 1..Len(pending) : pending[i].id <= generated'
  BY <1>1, <1>2 DEF OrderInv
<1>9. OrderInv'
  BY <1>5, <1>7, <1>8 DEF OrderInv
<1>10. PlayInv'
  <2>1. CASE ComputeFreezes
    BY <2>1, ComputeFreezesPlays
  <2>2. CASE playing' = playing /\ \A x \in Devices : frozen[x] => frozen'[x]
    <3>1. Playable' = {}
      BY <1>2, <1>4, <2>2 DEF Playable
    <3>2. QED BY <2>2, <3>1 DEF PlayInv
  <2>3. QED BY <1>3, <2>1, <2>2
<1>11. QED BY <1>9, <1>10

\* PlayReleasedEvents takes the first event of a device that is not frozen, so
\* no event of the device is left before it.
LEMMA PlayOrder ==
    ASSUME GrabInv, RestOK, OrderInv, PlayInv, PlayEvent
    PROVE  OrderInv' /\ PlayInv'
<1>1. PICK i \in Playable : /\ \A j \in Playable : i <= j
                            /\ pending' = RemoveAt(pending, i)
                            /\ UNCHANGED <<replay, generated>>
                            /\ ProcessDeviceEvent(pending[i])
                            /\ playing /\ replay = NoReplay
  BY DEF PlayEvent
<1> DEFINE n == Len(pending)
           e == pending[i]
           From(k) == IF k < i THEN k ELSE k + 1
<1>2. /\ pending \in Seq(Event) /\ n \in Nat /\ i \in 1..n /\ ~frozen[e.dev]
      /\ last \in [Devices -> Nat] /\ generated \in Nat
  BY BoundAssumption DEF RestOK, Playable
<1>3. e \in Event
  BY <1>2
<1>4. /\ \/ ComputeFreezes
         \/ playing' = playing /\ \A x \in Devices : frozen[x] => frozen'[x]
      /\ last' = [last EXCEPT ![e.dev] = e.id]
  BY <1>1, <1>2, <1>3, ProcessShape
<1>5. /\ Len(pending') = n - 1
      /\ \A k \in 1..(n - 1) : /\ pending'[k] = pending[From(k)]
                               /\ From(k) \in 1..n /\ From(k) # i
  <2>1. /\ Len(pending') = n - 1
        /\ \A k \in 1..(n - 1) :
              pending'[k] = IF k < i THEN pending[k] ELSE pending[k + 1]
    BY <1>1, <1>2, RemoveAtShape
  <2>2. \A k \in 1..(n - 1) : From(k) \in 1..n /\ From(k) # i
    BY <1>2
  <2>3. QED BY <2>1, <2>2
<1>6. \A k, l \in 1..(n - 1) : l < k => From(l) < From(k)
  BY <1>2
<1>7. \A k \in 1..n : pending[k].id \in Nat /\ pending[k].dev \in Devices
  BY <1>2, EventFields
<1>8. ASSUME NEW k \in 1..n, k # i
      PROVE  pending[k].id > last'[pending[k].dev]
  <2>1. CASE pending[k].dev # e.dev
    BY <1>2, <1>4, <1>7, <2>1 DEF OrderInv
  <2>2. CASE pending[k].dev = e.dev
    <3>1. k \in Playable
      BY <1>2, <2>2 DEF Playable
    <3>2. i < k
      BY <1>1, <1>2, <1>8, <3>1
    <3>3. e.id < pending[k].id
      BY <1>2, <3>2 DEF OrderInv
    <3>4. last'[e.dev] = e.id
      BY <1>2, <1>4, <1>7
    <3>5. QED BY <1>2, <1>7, <2>2, <3>3, <3>4
  <2>3. QED BY <2>1, <2>2
<1>9. \A k \in 1..n : pending[k].id <= generated
  BY DEF OrderInv
<1>10. \A k, l \in 1..n : l < k => pending[l].id < pending[k].id
  BY DEF OrderInv
<1>11. \A d \in Devices : last'[d] <= generated
  BY <1>2, <1>4, <1>7, <1>9 DEF OrderInv
<1>12. OrderInv'
  <2> HIDE DEF From, n
  <2>1. \A k \in 1..(n - 1) : /\ pending'[k].id > last'[pending'[k].dev]
                              /\ pending'[k].id <= generated
    BY <1>5, <1>8, <1>9
  <2>2. \A k, l \in 1..(n - 1) : l < k => pending'[l].id < pending'[k].id
    BY <1>5, <1>6, <1>10
  <2>3. QED BY <1>1, <1>5, <1>11, <2>1, <2>2 DEF OrderInv
<1>13. PlayInv'
  BY <1>1, <1>4, ComputeFreezesPlays DEF PlayInv
<1>14. QED BY <1>12, <1>13

\* A step that leaves the queue and what was processed alone.
LEMMA OrderStays ==
    ASSUME OrderInv, UNCHANGED eventVars
    PROVE  OrderInv'
BY DEF OrderInv, eventVars

\* The event that is kept stays the last one of its device.
LEMMA ProcessKept ==
    ASSUME GrabInv, RestOK, KeptInv, NEW e \in Event, ~frozen[e.dev],
           ProcessDeviceEvent(e), replay = NoReplay, replay' = NoReplay
    PROVE  KeptInv'
<1>1. /\ last' = [last EXCEPT ![e.dev] = e.id]
      /\ st'[e.dev] = "frozen_with_event" => syncEvent'[e.dev] = e
      /\ \A x \in Devices \ {e.dev} :
            /\ st'[x] = "frozen_with_event" => st[x] = "frozen_with_event"
            /\ syncEvent'[x] = syncEvent[x]
  BY ProcessShape
<1>2. last \in [Devices -> 0..MaxEvents] /\ e.dev \in Devices
  BY EventFields DEF RestOK
<1>3. ASSUME NEW x \in Devices, st'[x] = "frozen_with_event"
      PROVE  syncEvent'[x].id = last'[x]
  <2>1. CASE x = e.dev
    BY <1>1, <1>2, <1>3, <2>1
  <2>2. CASE x # e.dev
    BY <1>1, <1>2, <1>3, <2>2 DEF KeptInv
  <2>3. QED BY <2>1, <2>2
<1>4. QED BY <1>3 DEF KeptInv

\* So does a step that ends a grab, or starts one without an event.
LEMMA QuietKept ==
    ASSUME KeptInv, UNCHANGED <<syncEvent, last>>,
           replay' \in {replay, NoReplay},
           \A x \in Devices : st'[x] = "frozen_with_event" =>
                                 st[x] = "frozen_with_event"
    PROVE  KeptInv'
BY DEF KeptInv

\* The rest of the invariant.
EventsPart == PlayInv /\ OrderInv /\ KeptInv

LEMMA DeviceEventOrder ==
    ASSUME FreezeInv, EventsPart, NEW d \in Devices,
           NEW kind \in {"press", "release", "motion"},
           NEW k \in Details \cup {0}, (kind = "motion") = (k = 0),
           DeviceEvent(d, kind, k)
    PROVE  EventsPart'
<1> DEFINE e == [dev |-> d, kind |-> kind, detail |-> k, id |-> generated + 1]
<1>1. e \in Event /\ e.dev = d /\ e.id = generated + 1
  BY BoundAssumption DEF Event, FreezeInv, RestOK, DeviceEvent
<1>2. GrabInv /\ RestOK /\ PlayInv /\ OrderInv /\ KeptInv
  BY DEF FreezeInv, EventsPart
<1>3. /\ \/ /\ frozen[d] /\ EnqueueEvent(e)
            /\ UNCHANGED <<grabVars, playing, down, last>>
         \/ ~frozen[d] /\ UNCHANGED pending /\ ProcessDeviceEvent(e)
      /\ generated' = generated + 1
      /\ replay' = replay /\ ~playing
  BY DEF DeviceEvent, Idle
<1>4. replay = NoReplay
  BY <1>2, <1>3 DEF PlayInv
<1> HIDE DEF e
<1>5. CASE /\ frozen[d] /\ EnqueueEvent(e)
           /\ UNCHANGED <<grabVars, playing, down, last>>
  <2>1. OrderInv' /\ PlayInv'
    BY <1>1, <1>2, <1>3, <1>5, EnqueueOrder DEF grabVars
  <2>2. KeptInv'
    BY <1>2, <1>3, <1>5, QuietKept DEF grabVars
  <2>3. QED BY <2>1, <2>2 DEF EventsPart
<1>6. CASE ~frozen[d] /\ UNCHANGED pending /\ ProcessDeviceEvent(e)
  <2>1. OrderInv' /\ PlayInv'
    BY <1>1, <1>2, <1>3, <1>6, ProcessNowOrder
  <2>2. KeptInv'
    BY <1>1, <1>2, <1>3, <1>4, <1>6, ProcessKept
  <2>3. QED BY <2>1, <2>2 DEF EventsPart
<1>7. QED BY <1>3, <1>5, <1>6

LEMMA PlayEventOrder ==
    ASSUME FreezeInv, EventsPart, PlayEvent
    PROVE  EventsPart'
<1>1. GrabInv /\ RestOK /\ PlayInv /\ OrderInv /\ KeptInv
  BY DEF FreezeInv, EventsPart
<1>2. OrderInv' /\ PlayInv'
  BY <1>1, PlayOrder
<1>3. PICK i \in Playable : ProcessDeviceEvent(pending[i])
  BY DEF PlayEvent
<1>4. pending[i] \in Event /\ ~frozen[pending[i].dev]
  BY <1>1 DEF Playable, RestOK
<1>5. replay = NoReplay /\ replay' = NoReplay
  BY DEF PlayEvent
<1>6. KeptInv'
  BY <1>1, <1>3, <1>4, <1>5, ProcessKept
<1>7. QED BY <1>2, <1>6 DEF EventsPart

LEMMA ReplayEventOrder ==
    ASSUME FreezeInv, EventsPart, ReplayEvent
    PROVE  EventsPart'
<1> DEFINE d == replay[1]
           e == syncEvent[d]
<1>1. GrabInv /\ RestOK /\ ReplayHasEvent /\ PlayInv /\ OrderInv /\ KeptInv
  BY DEF FreezeInv, EventsPart
<1>2. /\ d \in Devices /\ e \in Event /\ e.id = last[d] /\ e # NoEvent
  BY <1>1, NoneAssumption
  DEF ReplayEvent, RestOK, ReplayHasEvent, GrabInv, GrabsOK, KeptInv
<1>3. /\ \/ ActivatePassiveGrab(d, e, down[d], replay[2])
         \/ ActivateImplicitGrab(d, e)
         \/ DeliverOnly
      /\ replay' = NoReplay /\ UNCHANGED eventVars /\ playing
  BY DEF ReplayEvent
<1>4. /\ st \in [Devices -> States]
      /\ syncEvent \in [Devices -> Event \cup {NoEvent}]
  BY <1>1 DEF GrabInv, GrabsOK
<1>5. OrderInv'
  BY <1>1, <1>3, OrderStays
<1> HIDE DEF d, e
<1>6. ASSUME NEW g, NEW own, NEW oth, NEW y \in {e, NoEvent},
             own = "async" \/ y = e, ActivateGrab(d, g, own, oth, y)
      PROVE  EventsPart'
  <2>1. PlayInv'
    BY <1>6, ComputeFreezesPlays DEF ActivateGrab
  <2>2. ASSUME NEW x \in Devices, st'[x] = "frozen_with_event"
        PROVE  syncEvent'[x].id = last[x]
    <3>1. CASE x = d
      BY <1>2, <1>4, <1>6, <2>2, <3>1 DEF ActivateGrab
    <3>2. CASE x # d
      BY <1>1, <1>2, <1>4, <1>6, <2>2, <3>2 DEF ActivateGrab, KeptInv
    <3>3. QED BY <3>1, <3>2
  <2>3. KeptInv'
    BY <1>3, <2>2 DEF KeptInv, eventVars
  <2>4. QED BY <1>5, <2>1, <2>3 DEF EventsPart
<1>7. CASE DeliverOnly
  <2>1. KeptInv'
    BY <1>1, <1>3, <1>7, QuietKept DEF DeliverOnly, grabVars, eventVars
  <2>2. PlayInv'
    BY <1>3, <1>7 DEF DeliverOnly, PlayInv
  <2>3. QED BY <1>5, <2>1, <2>2 DEF EventsPart
<1>8. CASE ActivatePassiveGrab(d, e, down[d], replay[2])
  BY <1>6, <1>8 DEF ActivatePassiveGrab
<1>9. CASE ActivateImplicitGrab(d, e)
  BY <1>6, <1>9 DEF ActivateImplicitGrab
<1>10. QED BY <1>3, <1>7, <1>8, <1>9

\* Requests and walks that start or end a grab.
LEMMA GrabChangeOrder ==
    ASSUME FreezeInv, EventsPart, ComputeFreezes,
           UNCHANGED <<eventVars, syncEvent, replay>>,
           \A x \in Devices : st'[x] = "frozen_with_event" =>
                                 st[x] = "frozen_with_event"
    PROVE  EventsPart'
<1>1. PlayInv'
  BY ComputeFreezesPlays
<1>2. OrderInv'
  BY OrderStays DEF EventsPart
<1>3. KeptInv'
  BY QuietKept DEF EventsPart, eventVars
<1>4. QED BY <1>1, <1>2, <1>3 DEF EventsPart

LEMMA RequestsOrder ==
    ASSUME FreezeInv, EventsPart,
           \/ EndGrab
           \/ \E r \in ActiveGrabs : GrabDevice(r)
           \/ \E c \in Clients, d \in Devices :
                 UngrabDevice(c, d) \/ AllowSome(c, d)
    PROVE  EventsPart'
<1>1. /\ st \in [Devices -> States]
      /\ syncEvent \in [Devices -> Event \cup {NoEvent}]
  BY DEF FreezeInv, GrabInv, GrabsOK
<1>2. ASSUME NEW d \in Devices, DeactivateGrab(d), UNCHANGED <<eventVars, replay>>
      PROVE  EventsPart'
  BY <1>1, <1>2, GrabChangeOrder DEF DeactivateGrab
<1>3. CASE EndGrab
  <2>1. PICK i \in Hits : DeactivateGrab(walk[i])
    BY <1>3 DEF EndGrab
  <2>2. walk[i] \in Devices
    BY DEF Hits, FreezeInv, RestOK
  <2>3. QED BY <1>2, <1>3, <2>1, <2>2 DEF EndGrab
<1>4. CASE \E r \in ActiveGrabs : GrabDevice(r)
  <2>1. PICK r \in ActiveGrabs : GrabDevice(r)
    BY <1>4
  <2>2. /\ ComputeFreezes /\ UNCHANGED syncEvent
        /\ \E s \in {"thawed", "frozen_no_event"} : st' = [st EXCEPT ![r.dev] = s]
    BY <2>1 DEF GrabDevice, ActivateGrab
  <2>3. UNCHANGED <<eventVars, replay>>
    BY <2>1 DEF GrabDevice, eventVars
  <2>4. QED BY <1>1, <2>2, <2>3, GrabChangeOrder
<1>5. CASE \E c \in Clients, d \in Devices : UngrabDevice(c, d)
  <2>1. PICK c \in Clients, d \in Devices : UngrabDevice(c, d)
    BY <1>5
  <2>2. DeactivateGrab(d) /\ UNCHANGED <<eventVars, replay>>
    BY <2>1 DEF UngrabDevice, eventVars
  <2>3. QED BY <1>2, <2>2
<1>6. CASE \E c \in Clients, d \in Devices : AllowSome(c, d)
  <2>1. PICK c \in Clients, d \in Devices : AllowSome(c, d)
    BY <1>6
  <2>2. ComputeFreezes /\ UNCHANGED <<eventVars, syncEvent, replay>>
    BY <2>1 DEF AllowSome
  <2>3. \A x \in Devices : st'[x] = st[x] \/ st'[x] \in Loose
    BY <1>1, <2>1
    DEF AllowSome, Thaw, FreezeNextEvent, ThawBoth, FreezeBothNextEvent,
        ThawOthers, SetAll, Loose
  <2>4. QED BY <2>2, <2>3, GrabChangeOrder DEF Loose
<1>7. QED BY <1>3, <1>4, <1>5, <1>6

LEMMA AllowReplayOrder ==
    ASSUME FreezeInv, EventsPart, NEW c \in Clients, NEW d \in Devices,
           AllowReplay(c, d)
    PROVE  EventsPart'
<1>1. PlayInv'
  BY ComputeFreezesPlays DEF AllowReplay
<1>2. OrderInv'
  BY OrderStays DEF AllowReplay, EventsPart
<1>3. /\ replay'[1] = d /\ st[d] = "frozen_with_event"
      /\ UNCHANGED <<syncEvent, last>>
      /\ st' = [st EXCEPT ![d] = "not_grabbed"] /\ st \in [Devices -> States]
  BY DEF AllowReplay, eventVars, FreezeInv, GrabInv, GrabsOK
<1>4. KeptInv'
  BY <1>3 DEF KeptInv, EventsPart
<1>5. QED BY <1>1, <1>2, <1>4 DEF EventsPart

LEMMA QuietOrder ==
    ASSUME EventsPart, UNCHANGED <<grabVars, eventVars, playing, replay>>
    PROVE  EventsPart'
<1>1. OrderInv'
  BY OrderStays DEF EventsPart
<1>2. KeptInv'
  BY QuietKept DEF EventsPart, grabVars, eventVars
<1>3. PlayInv'
  BY DEF EventsPart, PlayInv, Playable, grabVars, eventVars
<1>4. QED BY <1>1, <1>2, <1>3 DEF EventsPart

LEMMA InitEvents == Init => EventsPart
BY DEF Init, EventsPart, PlayInv, OrderInv, KeptInv, Playable

LEMMA NextKeepsEvents == FreezeInv /\ EventsPart /\ [Next]_vars => EventsPart'
<1> SUFFICES ASSUME FreezeInv, EventsPart, [Next]_vars PROVE EventsPart'
  OBVIOUS
<1>1. CASE UNCHANGED <<grabVars, eventVars, playing, replay>>
  BY <1>1, QuietOrder
<1>2. CASE PlayingDone
  <2>1. OrderInv' /\ KeptInv'
    BY <1>2, OrderStays, QuietKept DEF EventsPart, PlayingDone, grabVars, eventVars
  <2>2. PlayInv'
    BY <1>2 DEF PlayingDone, PlayInv, Playable, grabVars, eventVars
  <2>3. QED BY <2>1, <2>2 DEF EventsPart
<1>3. CASE \E d \in Devices, k \in Details : Press(d, k) \/ Release(d, k)
  <2>1. PICK d \in Devices, k \in Details : Press(d, k) \/ Release(d, k)
    BY <1>3
  <2>2. k # 0 /\ k \in Details \cup {0}
    BY DetailsAssumption DEF Details
  <2>3. DeviceEvent(d, "press", k) \/ DeviceEvent(d, "release", k)
    BY <2>1 DEF Press, Release
  <2>4. QED BY <2>2, <2>3, DeviceEventOrder
<1>4. CASE Motion
  BY <1>4, DeviceEventOrder DEF Motion, Devices
<1>5. CASE \E c \in Clients, d \in Devices : AllowReplay(c, d)
  BY <1>5, AllowReplayOrder
<1>6. CASE \/ WindowUnmapped \/ WindowDeleted \/ ReleaseAgain \/ GrabsReleased
           \/ \E p \in PassiveGrabs : FreePassiveGrab(p)
           \/ FreeWindow \/ ClientFreed
  BY <1>1, <1>6 DEF WindowUnmapped, WindowDeleted, ReleaseAgain, GrabsReleased,
                    FreePassiveGrab, FreeWindow, DeleteWindow, ClientFreed
<1>7. CASE \/ MapWindow \/ UnmapWindow \/ DestroyWindow
           \/ \E c \in Closers : CloseDownClient(c)
           \/ \E p \in PassiveGrabs : GrabButtonOrKey(p) \/ UngrabButtonOrKey(p)
  BY <1>1, <1>7 DEF MapWindow, UnmapWindow, DestroyWindow, DeleteWindow,
                    CloseDownClient, GrabButtonOrKey, UngrabButtonOrKey
<1>8. CASE WaitForSomething \/ UNCHANGED vars
  BY <1>1, <1>8 DEF WaitForSomething, vars
<1>9. (\A k \in Buttons : k \in Details) /\ (\A k \in Keys : k \in Details)
  BY DEF Details
<1>10. "ptr" \in Devices /\ "kbd" \in Devices
  BY DEF Devices
<1>11. CASE ServerStep
  BY <1>2, <1>6, <1>11, ReplayEventOrder, PlayEventOrder, RequestsOrder
  DEF ServerStep
<1>12. QED
  BY <1>3, <1>4, <1>5, <1>7, <1>8, <1>9, <1>10, <1>11, RequestsOrder DEF Next

\* Everything about the events that wait, in every behaviour.
THEOREM EventsInvariant == Spec => []EventsInv
<1>1. FreezeInv /\ EventsPart <=> EventsInv
  BY DEF EventsInv, EventsPart
<1>2. Init => FreezeInv /\ EventsPart
  BY InitFreezeInv, InitEvents
<1>3. (FreezeInv /\ EventsPart) /\ [Next]_vars => (FreezeInv /\ EventsPart)'
  BY NextKeepsFreezeInv, NextKeepsEvents
<1>4. QED BY <1>1, <1>2, <1>3, PTL DEF Spec

\* No event waits for a device that is not frozen once the server is idle:
\* every path that thaws a device goes through ComputeFreezes.
THEOREM ThawedEventsArePlayed == Spec => []NothingOverdue
<1>1. EventsInv => NothingOverdue
  BY EventsInvImplies
<1>2. QED BY <1>1, EventsInvariant, PTL

\* The events of a device are processed in the order they happened in,
\* however freezes of the two devices are interleaved, and the event that is
\* replayed is the last one that was processed.
THEOREM EventsStayInOrder == Spec => []InOrder
<1>1. EventsInv => InOrder
  BY EventsInvImplies
<1>2. QED BY <1>1, EventsInvariant, PTL

-----------------------------------------------------------------------------
(* Who holds a grab, and where.  A grab on a window that was unmapped is   *)
(* still to be come to by the walk that the unmapping started; a client    *)
(* that is gone is the one being closed down, as long as it has passive    *)
(* grabs; and only DeleteWindow, of its own window, plays events then.     *)

OnWalk(d) == \E i \in 1..Len(walk) : walk[i] = d

WinInv ==
    window # "mapped" =>
       \A d \in Devices : grab[d] # NoGrab /\ grab[d].win = "win" =>
          goal \in {"unmap", "delete"} /\ OnWalk(d)

CloseInv ==
    /\ goal = "none" => walk = <<>>
    /\ goal \in {"unmap", "delete"} => window = "unmapped"
    /\ closing # NoClient /\ Running(closing) => goal = "release"
    /\ closing # NoClient /\ ~Running(closing) /\ (playing \/ goal # "none") =>
          closing = Owner /\ window # "mapped"
    /\ ~Running(Owner) => closing = Owner \/ window = "gone"
    /\ \A p \in passive : ~Running(p.client) => p.client = closing

GoneInv ==
    \A d \in Devices : grab[d] # NoGrab /\ ~Running(grab[d].client) =>
       grab[d].passive /\ grab[d].client = Owner /\ window # "mapped"

OwnersInv == WinInv /\ CloseInv /\ GoneInv

LEMMA OwnersInvImplies == FreezeInv /\ OwnersInv => GrabsHaveOwners
<1> SUFFICES ASSUME FreezeInv, OwnersInv PROVE GrabsHaveOwners
  OBVIOUS
<1>1. ASSUME Idle, NEW d \in Devices, grab[d] # NoGrab
      PROVE  grab[d].win \in SpriteTrace
  <2>1. grab[d].win \in {"root", "win"}
    BY <1>1 DEF FreezeInv, GrabInv, GrabsOK, Grab, Windows
  <2>2. QED BY <1>1, <2>1 DEF OwnersInv, WinInv, Idle, SpriteTrace, Windows
<1>2. QED BY <1>1 DEF GrabsHaveOwners, OwnersInv, GoneInv

\* A grab that becomes active: of a passive grab, or of a client that runs.
Fresh(g) ==
    /\ g \in Grab /\ g.win \in SpriteTrace
    /\ Running(g.client) \/ (g.passive /\ \E p \in passive : p.client = g.client)

FreshGrabs ==
    \A d \in Devices : grab'[d] \in {grab[d], NoGrab} \/ Fresh(grab'[d])

LEMMA ActivateFresh ==
    ASSUME GrabInv, NEW d \in Devices, NEW g, NEW own, NEW oth, NEW e, Fresh(g),
           ActivateGrab(d, g, own, oth, e)
    PROVE  FreshGrabs
BY DEF ActivateGrab, GrabInv, GrabsOK, FreshGrabs

LEMMA DeactivateFresh ==
    ASSUME GrabInv, NEW d \in Devices, DeactivateGrab(d)
    PROVE  FreshGrabs /\ grab' = [grab EXCEPT ![d] = NoGrab]
BY DEF DeactivateGrab, GrabInv, GrabsOK, FreshGrabs

LEMMA PassiveFresh ==
    ASSUME GrabInv, RestOK, NEW d \in Devices, NEW e \in Event, NEW nd,
           NEW a \in {"none", "root", "win"}, ActivatePassiveGrab(d, e, nd, a)
    PROVE  FreshGrabs
<1> DEFINE k == IF d = "kbd" THEN e.detail ELSE 0
<1>1. PICK p \in Outermost(Candidates(d, e, nd, a)) :
        ActivateGrab(d, NewGrab(d, p.client, p.win, TRUE, k), p.own, p.oth, e)
  BY DEF ActivatePassiveGrab
<1>2. p \in passive /\ p.win \in Below(a)
  BY DEF Outermost, Candidates
<1>3. p \in PassiveGrabs
  BY <1>2 DEF RestOK
<1>4. k \in Details \cup {0}
  BY DEF Event
<1> HIDE DEF k
<1>5. GrabsOK /\ TRUE \in BOOLEAN
  BY DEF GrabInv
<1> DEFINE g == NewGrab(d, p.client, p.win, TRUE, k)
<1>6. g \in Grab
  BY <1>3, <1>4, <1>5, PassiveFacts, NewGrabType, Zenon
<1>7. g.win = p.win /\ g.passive = TRUE /\ g.client = p.client
  BY DEF NewGrab
<1> HIDE DEF g
<1>8. p.win \in SpriteTrace
  BY <1>2 DEF Below
<1>9. Fresh(g)
  BY <1>2, <1>6, <1>7, <1>8 DEF Fresh
<1>10. QED BY <1>1, <1>9, ActivateFresh DEF g

LEMMA ImplicitFresh ==
    ASSUME GrabInv, NEW d \in Devices, NEW e, ActivateImplicitGrab(d, e)
    PROVE  FreshGrabs
<1>1. PICK s \in PressSelected :
        /\ Running(s[1]) /\ s[2] \in SpriteTrace
        /\ ActivateGrab(d, NewGrab(d, s[1], s[2], TRUE, 0), "async", "async", NoEvent)
  BY DEF ActivateImplicitGrab
<1>2. s[1] \in Clients /\ s[2] \in Windows
  BY SelectionsAssumption
<1>3. GrabsOK /\ TRUE \in BOOLEAN /\ 0 \in Details \cup {0}
  BY DEF GrabInv
<1> DEFINE g == NewGrab(d, s[1], s[2], TRUE, 0)
<1>4. g \in Grab
  BY <1>2, <1>3, NewGrabType, Zenon
<1>5. g.win = s[2] /\ g.client = s[1]
  BY DEF NewGrab
<1> HIDE DEF g
<1>6. Fresh(g)
  BY <1>1, <1>4, <1>5 DEF Fresh
<1>7. QED BY <1>1, <1>6, ActivateFresh DEF g

LEMMA ProcessFresh ==
    ASSUME GrabInv, RestOK, NEW e \in Event, ProcessDeviceEvent(e)
    PROVE  FreshGrabs
<1> DEFINE d == e.dev
           nd == DownAfter(e)
<1>1. d \in Devices
  BY DEF Event
<1>2. \/ ActivatePassiveGrab(d, e, nd, "none")
      \/ ActivateImplicitGrab(d, e)
      \/ DeliverOnly
      \/ DeliverGrabbedEvent(d, e)
      \/ DeactivateGrab(d)
  BY DEF ProcessDeviceEvent
<1> HIDE DEF d, nd
<1>3. CASE DeliverOnly \/ DeliverGrabbedEvent(d, e)
  BY <1>3 DEF DeliverGrabbedEvent, FreezeThisEvent, DeliverOnly, grabVars, FreshGrabs
<1>4. QED BY <1>1, <1>2, <1>3, PassiveFresh, ImplicitFresh, DeactivateFresh

\* A step that only starts or ends grabs, while the server is between requests
\* or plays events.
LEMMA FreshKeepsOwners ==
    ASSUME FreezeInv, OwnersInv, FreshGrabs, Idle \/ playing,
           UNCHANGED <<passive, window, closeVars, walkVars>>
    PROVE  OwnersInv'
<1> USE DEF closeVars, walkVars
<1>1. WinInv'
  <2> SUFFICES ASSUME window # "mapped", NEW d \in Devices, grab'[d] # NoGrab,
                      grab'[d].win = "win"
               PROVE  goal \in {"unmap", "delete"} /\ OnWalk(d)
    BY DEF WinInv, OnWalk
  <2>1. ~Fresh(grab'[d])
    BY DEF Fresh, SpriteTrace
  <2>2. grab'[d] = grab[d]
    BY <2>1 DEF FreshGrabs
  <2>3. QED BY <2>2 DEF OwnersInv, WinInv
<1>2. CloseInv'
  BY DEF OwnersInv, CloseInv, Running, Idle
<1>3. GoneInv'
  <2> SUFFICES ASSUME NEW d \in Devices, grab'[d] # NoGrab, ~Running(grab'[d].client)
               PROVE  grab'[d].passive /\ grab'[d].client = Owner /\ window # "mapped"
    BY DEF GoneInv, Running
  <2>1. CASE grab'[d] = grab[d]
    BY <2>1 DEF OwnersInv, GoneInv
  <2>2. CASE Fresh(grab'[d])
    <3>1. PICK p \in passive : p.client = grab'[d].client
      BY <2>2 DEF Fresh
    <3>2. p.client \in Clients
      BY PassiveFacts DEF FreezeInv, RestOK
    <3>3. p.client = closing
      BY <3>1 DEF OwnersInv, CloseInv
    <3>4. closing # NoClient
      BY <3>2, <3>3, ClientsAssumption
    <3>5. closing = Owner /\ window # "mapped"
      BY <3>1, <3>3, <3>4 DEF OwnersInv, CloseInv, Idle
    <3>6. QED BY <2>2, <3>1, <3>3, <3>5 DEF Fresh
  <2>3. QED BY <2>1, <2>2 DEF FreshGrabs
<1>4. QED BY <1>1, <1>2, <1>3 DEF OwnersInv

\* Events and requests.
LEMMA EventsKeepOwners ==
    ASSUME FreezeInv, OwnersInv,
           \/ \E d \in Devices, k \in Details : Press(d, k) \/ Release(d, k)
           \/ Motion \/ ReplayEvent \/ PlayEvent
    PROVE  OwnersInv'
<1>1. GrabInv /\ RestOK /\ ReplayHasEvent
  BY DEF FreezeInv
<1>2. ASSUME NEW d \in Devices, NEW kind \in {"press", "release", "motion"},
             NEW k \in Details \cup {0}, (kind = "motion") = (k = 0),
             DeviceEvent(d, kind, k)
      PROVE  OwnersInv'
  <2> DEFINE e == [dev |-> d, kind |-> kind, detail |-> k, id |-> generated + 1]
  <2>1. e \in Event
    BY <1>1, <1>2, BoundAssumption DEF Event, RestOK, DeviceEvent
  <2>2. \/ UNCHANGED grabVars
        \/ ProcessDeviceEvent(e)
    BY <1>2 DEF DeviceEvent
  <2> HIDE DEF e
  <2>3. FreshGrabs
    <3>1. CASE UNCHANGED grabVars
      BY <3>1 DEF FreshGrabs, grabVars
    <3>2. QED BY <1>1, <2>1, <2>2, <3>1, ProcessFresh
  <2>4. Idle /\ UNCHANGED <<passive, window, closeVars, walkVars>>
    BY <1>2 DEF DeviceEvent
  <2>5. QED BY <2>3, <2>4, FreshKeepsOwners
<1>3. CASE \E d \in Devices, k \in Details : Press(d, k) \/ Release(d, k)
  <2>1. PICK d \in Devices, k \in Details : Press(d, k) \/ Release(d, k)
    BY <1>3
  <2>2. k # 0 /\ k \in Details \cup {0}
    BY DetailsAssumption DEF Details
  <2>3. DeviceEvent(d, "press", k) \/ DeviceEvent(d, "release", k)
    BY <2>1 DEF Press, Release
  <2>4. QED BY <1>2, <2>2, <2>3
<1>4. CASE Motion
  BY <1>2, <1>4 DEF Motion, Devices
<1>5. CASE ReplayEvent
  <2> DEFINE d == replay[1]
             e == syncEvent[d]
  <2>1. /\ d \in Devices /\ e \in Event /\ replay[2] \in {"none", "root", "win"}
    BY <1>1, <1>5
    DEF ReplayEvent, RestOK, ReplayHasEvent, GrabInv, GrabsOK, Windows
  <2>2. /\ \/ ActivatePassiveGrab(d, e, down[d], replay[2])
           \/ ActivateImplicitGrab(d, e)
           \/ DeliverOnly
        /\ playing /\ UNCHANGED <<passive, window, closeVars, walkVars>>
    BY <1>5 DEF ReplayEvent
  <2>3. DeliverOnly => FreshGrabs
    BY DEF FreshGrabs, DeliverOnly, grabVars
  <2> HIDE DEF d, e
  <2>4. FreshGrabs
    BY <1>1, <2>1, <2>2, <2>3, PassiveFresh, ImplicitFresh
  <2>5. QED BY <2>2, <2>4, FreshKeepsOwners
<1>6. CASE PlayEvent
  <2>1. PICK i \in Playable : ProcessDeviceEvent(pending[i])
    BY <1>6 DEF PlayEvent
  <2>2. pending[i] \in Event
    BY <1>1 DEF Playable, RestOK
  <2>3. FreshGrabs
    BY <1>1, <2>1, <2>2, ProcessFresh
  <2>4. playing /\ UNCHANGED <<passive, window, closeVars, walkVars>>
    BY <1>6 DEF PlayEvent
  <2>5. QED BY <2>3, <2>4, FreshKeepsOwners
<1>7. QED BY <1>3, <1>4, <1>5, <1>6

LEMMA RequestsKeepOwners ==
    ASSUME FreezeInv, OwnersInv,
           \/ \E r \in ActiveGrabs : GrabDevice(r)
           \/ \E c \in Clients, d \in Devices :
                 UngrabDevice(c, d) \/ AllowSome(c, d) \/ AllowReplay(c, d)
    PROVE  OwnersInv'
<1>1. GrabInv /\ GrabsOK
  BY DEF FreezeInv, GrabInv
<1>2. CASE \E r \in ActiveGrabs : GrabDevice(r)
  <2>1. PICK r \in ActiveGrabs : GrabDevice(r)
    BY <1>2
  <2>2. /\ r.client \in Clients /\ r.win \in Windows /\ r.dev \in Devices
    BY PassiveFacts
  <2> DEFINE g == NewGrab(r.dev, r.client, r.win, FALSE, 0)
  <2>3. FALSE \in BOOLEAN /\ 0 \in Details \cup {0}
    OBVIOUS
  <2>4. g \in Grab
    BY <1>1, <2>2, <2>3, NewGrabType, Zenon
  <2>5. g.win = r.win /\ g.client = r.client
    BY DEF NewGrab
  <2>6. ActivateGrab(r.dev, g, r.own, r.oth, NoEvent)
    BY <2>1 DEF GrabDevice
  <2> HIDE DEF g
  <2>7. Fresh(g)
    BY <2>1, <2>4, <2>5 DEF Fresh, GrabDevice
  <2>8. FreshGrabs
    BY <1>1, <2>2, <2>6, <2>7, ActivateFresh
  <2>9. Idle /\ UNCHANGED <<passive, window, closeVars, walkVars>>
    BY <2>1 DEF GrabDevice
  <2>10. QED BY <2>8, <2>9, FreshKeepsOwners
<1>3. CASE \E c \in Clients, d \in Devices :
              UngrabDevice(c, d) \/ AllowSome(c, d) \/ AllowReplay(c, d)
  <2>1. PICK c \in Clients, d \in Devices :
           UngrabDevice(c, d) \/ AllowSome(c, d) \/ AllowReplay(c, d)
    BY <1>3
  <2>2. Idle /\ UNCHANGED <<passive, window, closeVars, walkVars>>
    BY <2>1 DEF UngrabDevice, AllowSome, AllowReplay
  <2>3. CASE UngrabDevice(c, d)
    BY <1>1, <2>2, <2>3, DeactivateFresh, FreshKeepsOwners DEF UngrabDevice
  <2>4. CASE AllowSome(c, d)
    BY <2>2, <2>4, FreshKeepsOwners DEF AllowSome, FreshGrabs
  <2>5. CASE AllowReplay(c, d)
    <3>1. FreshGrabs
      BY <1>1, <2>5 DEF AllowReplay, FreshGrabs, GrabsOK
    <3>2. QED BY <2>2, <3>1, FreshKeepsOwners
  <2>6. QED BY <2>1, <2>3, <2>4, <2>5
<1>4. QED BY <1>2, <1>3

LEMMA BothOnWalks ==
    \A d \in Devices :
       /\ \E i \in 1..Len(UnmapWalk) : UnmapWalk[i] = d
       /\ \E i \in 1..Len(DeleteWalk) : DeleteWalk[i] = d
       /\ \E i \in 1..Len(ReleaseWalk) : ReleaseWalk[i] = d
<1>1. /\ Len(UnmapWalk) = 4 /\ UnmapWalk[1] = "ptr" /\ UnmapWalk[2] = "kbd"
      /\ Len(ReleaseWalk) = 2 /\ ReleaseWalk[1] = "ptr" /\ ReleaseWalk[2] = "kbd"
  BY DEF UnmapWalk, ReleaseWalk
<1>2. UnmapWalk \in Seq(Devices)
  BY WalkTypes
<1> HIDE DEF UnmapWalk, ReleaseWalk
<1>3. /\ Len(UnmapWalk \o UnmapWalk) = 8
      /\ (UnmapWalk \o UnmapWalk)[1] = "ptr" /\ (UnmapWalk \o UnmapWalk)[2] = "kbd"
  <2>1. ASSUME NEW s \in Seq(Devices), Len(s) = 4
        PROVE  Len(s \o s) = 8 /\ (s \o s)[1] = s[1] /\ (s \o s)[2] = s[2]
    <3>1. /\ Len(s \o s) = Len(s) + Len(s)
          /\ \A i \in 1..Len(s) + Len(s) :
                (s \o s)[i] = IF i <= Len(s) THEN s[i] ELSE s[i - Len(s)]
      BY ConcatProperties
    <3>2. QED BY <2>1, <3>1
  <2>2. QED BY <1>1, <1>2, <2>1
<1>4. Len(DeleteWalk) >= 4 /\ DeleteWalk[1] = "ptr" /\ DeleteWalk[2] = "kbd"
      /\ Len(DeleteWalk) \in Nat
  BY <1>1, <1>3 DEF DeleteWalk
<1>5. 1 \in 1..Len(DeleteWalk) /\ 2 \in 1..Len(DeleteWalk)
  BY <1>4
<1>6. /\ 1 \in 1..Len(UnmapWalk) /\ 2 \in 1..Len(UnmapWalk)
      /\ 1 \in 1..Len(ReleaseWalk) /\ 2 \in 1..Len(ReleaseWalk)
  BY <1>1
<1>7. QED BY <1>1, <1>4, <1>5, <1>6 DEF Devices

\* The walk comes to every grab it is to end: those before the next are gone.
LEMMA EndGrabKeepsOwners ==
    ASSUME FreezeInv, OwnersInv, EndGrab
    PROVE  OwnersInv'
<1>1. GrabInv /\ GrabsOK /\ walk \in Seq(Devices)
  BY DEF FreezeInv, GrabInv, RestOK
<1>2. PICK i \in Hits : /\ \A j \in Hits : i <= j
                        /\ DeactivateGrab(walk[i])
                        /\ walk' = SubSeq(walk, i + 1, Len(walk))
  BY DEF EndGrab
<1>3. i \in 1..Len(walk) /\ walk[i] \in Devices
  BY <1>1 DEF Hits
<1>4. /\ grab' = [grab EXCEPT ![walk[i]] = NoGrab]
      /\ UNCHANGED <<goal, passive, window, closeVars>>
  BY <1>2 DEF DeactivateGrab, EndGrab
<1>5. /\ grab'[walk[i]] = NoGrab
      /\ \A d \in Devices : d # walk[i] => grab'[d] = grab[d]
  BY <1>1, <1>3, <1>4 DEF GrabsOK
<1>6. goal # "none"
  BY <1>3 DEF OwnersInv, CloseInv
<1>7. WinInv'
  <2> SUFFICES ASSUME window # "mapped", NEW d \in Devices, grab'[d] # NoGrab,
                      grab'[d].win = "win"
               PROVE  goal \in {"unmap", "delete"} /\ OnWalk(d)'
    BY <1>4 DEF WinInv
  <2>1. d # walk[i] /\ grab'[d] = grab[d]
    BY <1>5
  <2>2. goal \in {"unmap", "delete"} /\ OnWalk(d)
    BY <2>1 DEF OwnersInv, WinInv
  <2>3. PICK j \in 1..Len(walk) : walk[j] = d
    BY <2>2 DEF OnWalk
  <2>4. j \in Hits
    BY <2>1, <2>2, <2>3 DEF Hits
  <2>5. j > i
    BY <1>2, <1>3, <2>1, <2>3, <2>4
  <2>6. /\ Len(walk') = Len(walk) - i
        /\ j - i \in 1..Len(walk) - i
        /\ walk'[j - i] = walk[j]
    BY <1>1, <1>2, <1>3, <2>3, <2>5
  <2>7. OnWalk(d)'
    BY <2>3, <2>6 DEF OnWalk
  <2>8. QED BY <2>2, <2>7
<1>8. CloseInv'
  BY <1>4, <1>6 DEF OwnersInv, CloseInv, Running, closeVars
<1>9. GoneInv'
  BY <1>4, <1>5 DEF OwnersInv, GoneInv, Running, closeVars
<1>10. QED BY <1>7, <1>8, <1>9 DEF OwnersInv

\* Nothing is left that a walk that is done was to end.
LEMMA WalkIsDone ==
    ASSUME FreezeInv, OwnersInv, Hits = {}
    PROVE  /\ goal # "release" /\ window # "mapped" =>
                 \A d \in Devices : grab[d] # NoGrab => grab[d].win # "win"
           /\ goal = "release" /\ walk = ReleaseWalk =>
                 \A d \in Devices : grab[d] # NoGrab => grab[d].client # closing
<1>1. ASSUME goal # "release", window # "mapped", NEW d \in Devices,
             grab[d] # NoGrab, grab[d].win = "win"
      PROVE  FALSE
  BY <1>1 DEF OwnersInv, WinInv, OnWalk, Hits
<1>2. ASSUME goal = "release", walk = ReleaseWalk, NEW d \in Devices,
             grab[d] # NoGrab, grab[d].client = closing
      PROVE  FALSE
  <2>1. PICK i \in 1..Len(walk) : walk[i] = d
    BY <1>2, BothOnWalks
  <2>2. i \in Hits
    BY <1>2, <2>1 DEF Hits
  <2>3. QED BY <2>2
<1>3. QED BY <1>1, <1>2

LEMMA WindowsKeepOwners ==
    ASSUME FreezeInv, OwnersInv,
           \/ MapWindow \/ UnmapWindow \/ DestroyWindow \/ FreeWindow
           \/ WindowUnmapped \/ WindowDeleted
    PROVE  OwnersInv'
<1> USE DEF closeVars, walkVars
<1>0. Owner # NoClient
  BY ClientsAssumption
<1>1. CASE MapWindow
  <2>1. Idle /\ window = "unmapped" /\ window' = "mapped"
        /\ UNCHANGED <<grab, playing, passive, cstate, closing, walk, goal>>
    BY <1>1 DEF MapWindow, grabVars
  <2>2. Running(Owner)
    BY <1>0, <2>1 DEF OwnersInv, CloseInv, Idle
  <2>3. \A d \in Devices : grab[d] # NoGrab => Running(grab[d].client)
    BY <2>2 DEF OwnersInv, GoneInv
  <2>4. WinInv' /\ GoneInv'
    BY <2>1, <2>3 DEF WinInv, GoneInv, Running
  <2>5. CloseInv'
    BY <2>1, <2>2 DEF OwnersInv, CloseInv, Running, Idle
  <2>6. QED BY <2>4, <2>5 DEF OwnersInv
<1>2. CASE UnmapWindow \/ DestroyWindow \/ FreeWindow
  <2>1. /\ window # "gone" /\ window' = "unmapped"
        /\ \/ walk' = UnmapWalk /\ goal' = "unmap"
           \/ walk' = DeleteWalk /\ goal' = "delete"
        /\ UNCHANGED <<grab, playing, passive, cstate, closing>>
        /\ closing = NoClient \/ closing = Owner
        /\ goal = "none"
    BY <1>2 DEF UnmapWindow, DestroyWindow, FreeWindow, DeleteWindow, grabVars,
                Idle, Freeing
  <2>2. WinInv'
    BY <2>1, BothOnWalks DEF WinInv, OnWalk
  <2>3. GoneInv'
    BY <2>1 DEF OwnersInv, GoneInv, Running
  <2>4. CloseInv'
    BY <2>1 DEF OwnersInv, CloseInv, Running
  <2>5. QED BY <2>2, <2>3, <2>4 DEF OwnersInv
<1>3. CASE WindowUnmapped \/ WindowDeleted
  <2>1. /\ ~playing /\ goal \in {"unmap", "delete"} /\ Hits = {}
        /\ goal' = "none" /\ walk' = <<>>
        /\ window' \in {window, "gone"} /\ passive' \subseteq passive
        /\ UNCHANGED <<grab, playing, cstate, closing>>
    BY <1>3 DEF WindowUnmapped, WindowDeleted, WalkDone, grabVars
  <2>2. window = "unmapped" /\ window' # "mapped"
    BY <2>1 DEF OwnersInv, CloseInv
  <2>3. \A d \in Devices : grab[d] # NoGrab => grab[d].win # "win"
    BY <2>1, <2>2, WalkIsDone
  <2>4. WinInv'
    BY <2>1, <2>3 DEF WinInv
  <2>5. GoneInv'
    BY <2>1, <2>2 DEF OwnersInv, GoneInv, Running
  <2>6. CloseInv'
    BY <2>1, <2>2 DEF OwnersInv, CloseInv, Running
  <2>7. QED BY <2>4, <2>5, <2>6 DEF OwnersInv
<1>4. QED BY <1>1, <1>2, <1>3

LEMMA ClosingKeepsOwners ==
    ASSUME FreezeInv, OwnersInv,
           \/ ReleaseAgain \/ GrabsReleased \/ ClientFreed \/ PlayingDone
           \/ \E c \in Closers : CloseDownClient(c)
           \/ \E p \in PassiveGrabs : \/ FreePassiveGrab(p)
                                      \/ GrabButtonOrKey(p)
                                      \/ UngrabButtonOrKey(p)
    PROVE  OwnersInv'
<1> USE DEF closeVars, walkVars, grabVars
<1>1. cstate \in [Clients -> {"running", "gone", "freed"}] /\ RestOK
  BY DEF FreezeInv, RestOK
<1>2. CASE ReleaseAgain
  <2>1. /\ goal = "release" /\ UNCHANGED <<grab, playing, passive, window, cstate, closing, goal>>
    BY <1>2 DEF ReleaseAgain, WalkDone
  <2>2. QED BY <2>1 DEF OwnersInv, WinInv, CloseInv, GoneInv, Running, OnWalk
<1>3. CASE GrabsReleased
  <2>1. /\ ~playing /\ goal = "release" /\ walk = ReleaseWalk /\ Hits = {}
        /\ goal' = "none" /\ walk' = <<>>
        /\ cstate' = [cstate EXCEPT ![closing] = "gone"]
        /\ UNCHANGED <<grab, playing, passive, window, closing>>
    BY <1>3 DEF GrabsReleased, WalkDone
  <2>2. \A d \in Devices : grab[d] # NoGrab => grab[d].client # closing
    BY <2>1, WalkIsDone
  <2>3. /\ \A c : c # closing => cstate'[c] = cstate[c]
        /\ closing # NoClient => cstate'[closing] = "gone"
    BY <1>1, <2>1 DEF RestOK
  <2>4. WinInv'
    BY <2>1 DEF OwnersInv, WinInv
  <2>5. GoneInv'
    BY <2>1, <2>2, <2>3 DEF OwnersInv, GoneInv, Running
  <2>6. CloseInv'
    BY <2>1, <2>3 DEF OwnersInv, CloseInv, Running
  <2>7. QED BY <2>4, <2>5, <2>6 DEF OwnersInv
<1>4. CASE ClientFreed
  <2>1. /\ ~playing /\ goal = "none" /\ closing # NoClient
        /\ \A p \in passive : p.client # closing
        /\ closing = Owner => window = "gone"
        /\ cstate' = [cstate EXCEPT ![closing] = "freed"]
        /\ closing' = NoClient
        /\ UNCHANGED <<grab, playing, passive, window, walk, goal>>
    BY <1>4 DEF ClientFreed, Freeing
  <2>2. ~Running(closing)
    BY <2>1 DEF OwnersInv, CloseInv
  <2>3. \A c : c # closing => cstate'[c] = cstate[c]
    BY <1>1, <2>1 DEF RestOK
  <2>4. cstate'[closing] = "freed"
    BY <1>1, <2>1 DEF RestOK
  <2>5. WinInv'
    BY <2>1 DEF OwnersInv, WinInv
  <2>6. GoneInv'
    BY <2>1, <2>2, <2>3 DEF OwnersInv, GoneInv, Running
  <2>7. CloseInv'
    BY <2>1, <2>2, <2>3, <2>4 DEF OwnersInv, CloseInv, Running
  <2>8. QED BY <2>5, <2>6, <2>7 DEF OwnersInv
<1>5. CASE PlayingDone
  <2>1. ~playing' /\ UNCHANGED <<grab, passive, window, cstate, closing, walk, goal>>
    BY <1>5 DEF PlayingDone
  <2>2. QED BY <2>1 DEF OwnersInv, WinInv, CloseInv, GoneInv, Running, OnWalk
<1>6. CASE \E c \in Closers : CloseDownClient(c)
  <2>1. PICK c \in Closers : CloseDownClient(c)
    BY <1>6
  <2>2. /\ Idle /\ Running(c) /\ closing' = c /\ goal' = "release" /\ c # NoClient
        /\ UNCHANGED <<grab, playing, passive, window, cstate>>
    BY <2>1, ClientsAssumption DEF CloseDownClient
  <2>3. \A p \in passive : p.client # NoClient
    BY <1>1, PassiveFacts, ClientsAssumption DEF RestOK
  <2>4. WinInv'
    BY <2>2 DEF OwnersInv, WinInv, Idle
  <2>5. GoneInv'
    BY <2>2 DEF OwnersInv, GoneInv, Running
  <2>6. CloseInv'
    BY <2>2, <2>3, ClientsAssumption DEF OwnersInv, CloseInv, Running, Idle
  <2>7. QED BY <2>4, <2>5, <2>6 DEF OwnersInv
<1>7. CASE \E p \in PassiveGrabs : \/ FreePassiveGrab(p)
                                   \/ GrabButtonOrKey(p)
                                   \/ UngrabButtonOrKey(p)
  <2>1. PICK p \in PassiveGrabs : \/ FreePassiveGrab(p)
                                  \/ GrabButtonOrKey(p)
                                  \/ UngrabButtonOrKey(p)
    BY <1>7
  <2>2. /\ UNCHANGED <<grab, playing, window, cstate, closing, walk, goal>>
        /\ \A q \in passive' : q \in passive \/ Running(q.client)
    BY <2>1 DEF FreePassiveGrab, GrabButtonOrKey, UngrabButtonOrKey
  <2>3. WinInv' /\ GoneInv'
    BY <2>2 DEF OwnersInv, WinInv, GoneInv, Running, OnWalk
  <2>4. CloseInv'
    BY <2>2 DEF OwnersInv, CloseInv, Running
  <2>5. QED BY <2>3, <2>4 DEF OwnersInv
<1>8. QED BY <1>2, <1>3, <1>4, <1>5, <1>6, <1>7

LEMMA InitOwners == Init => OwnersInv
BY ClientsAssumption DEF Init, OwnersInv, WinInv, CloseInv, GoneInv, Running

LEMMA NextKeepsOwners == FreezeInv /\ OwnersInv /\ [Next]_vars => OwnersInv'
<1> SUFFICES ASSUME FreezeInv, OwnersInv, [Next]_vars PROVE OwnersInv'
  OBVIOUS
<1>1. CASE WaitForSomething \/ UNCHANGED vars
  BY <1>1 DEF WaitForSomething, vars, closeVars, walkVars, grabVars, OwnersInv, WinInv,
              CloseInv, GoneInv, Running, OnWalk
<1>2. (\A k \in Buttons : k \in Details) /\ (\A k \in Keys : k \in Details)
  BY DEF Details
<1>3. "ptr" \in Devices /\ "kbd" \in Devices
  BY DEF Devices
<1>4. CASE ServerStep
  BY <1>4, EventsKeepOwners, ClosingKeepsOwners, EndGrabKeepsOwners, WindowsKeepOwners
  DEF ServerStep
<1>5. QED
  BY <1>1, <1>2, <1>3, <1>4, EventsKeepOwners, ClosingKeepsOwners, RequestsKeepOwners,
     WindowsKeepOwners
  DEF Next

\* Whatever is played while a window is unmapped or deleted and while a client
\* is closed down, the grabs that remain are on windows that can be seen and,
\* but for a passive one of the window's owner, of clients that are there
\* (DeleteWindowFromAnyEvents, ReleaseActiveGrabs).
THEOREM GrabsKeepOwners == Spec => []GrabsHaveOwners
<1>1. Init => OwnersInv
  BY InitOwners
<1>2. FreezeInv /\ OwnersInv /\ [Next]_vars => OwnersInv'
  BY NextKeepsOwners
<1>3. FreezeInv /\ OwnersInv => GrabsHaveOwners
  BY OwnersInvImplies
<1>4. QED BY <1>1, <1>2, <1>3, FreezeInvariant, PTL DEF Spec

-----------------------------------------------------------------------------
(* What the server does on its own comes to an end.  Work weighs an event  *)
(* to play above the grab it may start, and a grab above the pass that     *)
(* ends it; passive grabs are finitely many, since they are made one by    *)
(* one.                                                                    *)

EndInv == FreezeInv /\ OwnersInv /\ IsFiniteSet(passive)

LEMMA FiniteStays ==
    ASSUME IsFiniteSet(passive), [Next]_vars
    PROVE  IsFiniteSet(passive)'
<1>1. CASE passive' \subseteq passive
  BY <1>1, FS_Subset
<1>2. CASE \E p \in PassiveGrabs : GrabButtonOrKey(p)
  <2>1. PICK p \in PassiveGrabs : GrabButtonOrKey(p)
    BY <1>2
  <2>2. passive' \subseteq passive \cup {p}
    BY <2>1 DEF GrabButtonOrKey
  <2>3. IsFiniteSet(passive \cup {p})
    BY FS_AddElement
  <2>4. QED BY <2>2, <2>3, FS_Subset
<1>3. CASE ~ \E p \in PassiveGrabs : GrabButtonOrKey(p)
  <2>1. passive' \subseteq passive
    BY <1>3
    DEF Next, ServerStep, ReplayEvent, PlayEvent, PlayingDone, EndGrab, WindowUnmapped,
        WindowDeleted, ReleaseAgain, GrabsReleased, FreePassiveGrab, FreeWindow,
        DeleteWindow, ClientFreed, WaitForSomething, vars, Press, Release, Motion,
        DeviceEvent, GrabDevice, UngrabDevice, AllowSome, AllowReplay, UngrabButtonOrKey,
        MapWindow, UnmapWindow, DestroyWindow, CloseDownClient
  <2>2. QED BY <1>1, <2>1
<1>4. QED BY <1>2, <1>3

Grabs == OneIf(grab["ptr"] # NoGrab) + OneIf(grab["kbd"] # NoGrab)

Events == Len(pending) + OneIf(replay # NoReplay)

\* What is neither an event nor a grab nor a passive grab.
Chores == Phase + OneIf(playing) + OneIf(goal # "none")
          + OneIf(goal = "release" /\ walk # ReleaseWalk)

LEMMA Regroup ==
    ASSUME NEW a \in Nat, NEW b \in Nat, NEW c \in Nat,
           NEW d \in Nat, NEW e \in Nat, NEW f \in Nat, NEW g \in Nat
    PROVE  100 * a + 10 * b + c + d + e + f + g = 100 * a + 10 * b + c + (d + e + f + g)
OBVIOUS

WorkSplits ==
    /\ Work = 100 * Events + 10 * Grabs + Cardinality(passive) + Chores
    /\ Events \in Nat /\ Grabs \in Nat /\ Chores \in Nat
    /\ Cardinality(passive) \in Nat /\ Phase \in 0..8

LEMMA WorkParts == EndInv => WorkSplits
<1> SUFFICES ASSUME EndInv PROVE WorkSplits
  OBVIOUS
<1>1. Len(pending) \in Nat
  BY DEF EndInv, FreezeInv, RestOK
<1>2. Cardinality(passive) \in Nat
  BY FS_CardinalityType DEF EndInv
<1>3. Phase \in 0..8
  BY DEF Phase
<1> DEFINE r == OneIf(replay # NoReplay)
           gp == OneIf(grab["ptr"] # NoGrab)
           gk == OneIf(grab["kbd"] # NoGrab)
           pl == OneIf(playing)
           go == OneIf(goal # "none")
           wk == OneIf(goal = "release" /\ walk # ReleaseWalk)
<1>4. /\ r \in {0, 1} /\ gp \in {0, 1} /\ gk \in {0, 1}
      /\ pl \in {0, 1} /\ go \in {0, 1} /\ wk \in {0, 1}
  BY DEF OneIf
<1>5. /\ Events = Len(pending) + r /\ Grabs = gp + gk
      /\ Chores = Phase + pl + go + wk
      /\ Work = 100 * (Len(pending) + r) + 10 * (gp + gk)
                + Cardinality(passive) + Phase + pl + go + wk
  BY DEF Work, Events, Grabs, Chores
<1> HIDE DEF r, gp, gk, pl, go, wk
<1>6. /\ Events \in Nat /\ Grabs \in Nat /\ Chores \in Nat
  BY <1>1, <1>3, <1>4, <1>5
<1>7. QED BY <1>2, <1>3, <1>4, <1>5, <1>6, Regroup DEF WorkSplits

LEMMA WorkPartsPrime == EndInv' => WorkSplits'
BY WorkParts, PTL

\* The two devices, of which one changes hands.
LEMMA OneGrabMore ==
    ASSUME NEW d \in Devices, \A x \in Devices : x # d => grab'[x] = grab[x]
    PROVE  Grabs' <= Grabs + 1
<1>1. OneIf(grab["ptr"] # NoGrab) \in {0, 1} /\ OneIf(grab["kbd"] # NoGrab) \in {0, 1}
      /\ OneIf(grab'["ptr"] # NoGrab) \in {0, 1} /\ OneIf(grab'["kbd"] # NoGrab) \in {0, 1}
  BY DEF OneIf
<1>2. CASE d = "ptr"
  <2>1. grab'["kbd"] = grab["kbd"]
    BY <1>2 DEF Devices
  <2>2. QED BY <1>1, <2>1 DEF Grabs
<1>3. CASE d = "kbd"
  <2>1. grab'["ptr"] = grab["ptr"]
    BY <1>3 DEF Devices
  <2>2. QED BY <1>1, <2>1 DEF Grabs
<1>4. QED BY <1>2, <1>3 DEF Devices

LEMMA OneGrabLess ==
    ASSUME NEW d \in Devices, \A x \in Devices : x # d => grab'[x] = grab[x],
           grab[d] # NoGrab, grab'[d] = NoGrab
    PROVE  Grabs' = Grabs - 1
<1>1. CASE d = "ptr"
  <2>1. grab'["kbd"] = grab["kbd"]
    BY <1>1 DEF Devices
  <2>2. QED BY <1>1, <2>1 DEF Grabs, OneIf
<1>2. CASE d = "kbd"
  <2>1. grab'["ptr"] = grab["ptr"]
    BY <1>2 DEF Devices
  <2>2. QED BY <1>2, <2>1 DEF Grabs, OneIf
<1>3. QED BY <1>1, <1>2 DEF Devices

\* The weights: an event outweighs a grab, a grab outweighs two chores.
LEMMA LessWork ==
    ASSUME WorkSplits, WorkSplits',
           \/ /\ Events' <= Events - 1 /\ Grabs' <= Grabs + 1
              /\ Cardinality(passive)' = Cardinality(passive) /\ Chores' = Chores
           \/ /\ Events' = Events /\ Grabs' = Grabs - 1
              /\ Cardinality(passive)' = Cardinality(passive) /\ Chores' <= Chores + 2
           \/ /\ Events' = Events /\ Grabs' = Grabs
              /\ Cardinality(passive)' <= Cardinality(passive)
              /\ Chores' < Chores
           \/ /\ Events' = Events /\ Grabs' = Grabs
              /\ Cardinality(passive)' = Cardinality(passive) - 1
              /\ Chores' = Chores
    PROVE  Work' < Work
<1>1. PICK e \in Nat, g \in Nat, c \in Nat, h \in Nat :
        e = Events /\ g = Grabs /\ c = Cardinality(passive) /\ h = Chores
  BY DEF WorkSplits
<1>2. PICK e2 \in Nat, g2 \in Nat, c2 \in Nat, h2 \in Nat :
        e2 = Events' /\ g2 = Grabs' /\ c2 = Cardinality(passive)' /\ h2 = Chores'
  BY DEF WorkSplits
<1>3. Work = 100 * e + 10 * g + c + h /\ Work' = 100 * e2 + 10 * g2 + c2 + h2
  BY <1>1, <1>2 DEF WorkSplits
<1>4. \/ e2 <= e - 1 /\ g2 <= g + 1 /\ c2 = c /\ h2 = h
      \/ e2 = e /\ g2 = g - 1 /\ c2 = c /\ h2 <= h + 2
      \/ e2 = e /\ g2 = g /\ c2 <= c /\ h2 < h
      \/ e2 = e /\ g2 = g /\ c2 = c - 1 /\ h2 = h
  BY <1>1, <1>2
<1>5. 100 * e2 + 10 * g2 + c2 + h2 < 100 * e + 10 * g + c + h
  BY <1>4
<1>6. QED BY <1>3, <1>5

\* Processing an event touches the grab of its device only.
LEMMA ProcessOneGrab ==
    ASSUME GrabsOK, NEW e \in Event, playing, ProcessDeviceEvent(e)
    PROVE  playing' /\ \A x \in Devices : x # e.dev => grab'[x] = grab[x]
<1>1. e.dev \in Devices
  BY DEF Event
<1>2. \/ ActivatePassiveGrab(e.dev, e, DownAfter(e), "none")
      \/ ActivateImplicitGrab(e.dev, e)
      \/ DeliverOnly
      \/ DeliverGrabbedEvent(e.dev, e)
      \/ DeactivateGrab(e.dev)
  BY DEF ProcessDeviceEvent
<1>3. \/ \E g : grab' = [grab EXCEPT ![e.dev] = g]
      \/ UNCHANGED grab
  BY <1>2 DEF ActivatePassiveGrab, ActivateImplicitGrab, ActivateGrab, DeactivateGrab,
              DeliverOnly, DeliverGrabbedEvent, FreezeThisEvent, grabVars
<1>4. ComputeFreezes \/ UNCHANGED playing
  BY <1>2 DEF ActivatePassiveGrab, ActivateImplicitGrab, ActivateGrab, DeactivateGrab,
              DeliverOnly, DeliverGrabbedEvent, FreezeThisEvent
<1>5. playing'
  BY <1>4, Zenon DEF ComputeFreezes
<1>6. QED BY <1>3, <1>5 DEF GrabsOK

LEMMA ChoresStay ==
    ASSUME playing, playing', UNCHANGED <<window, closeVars, walkVars>>
    PROVE  Chores' = Chores
BY DEF Chores, OneIf, Phase, Running, closeVars, walkVars

LEMMA ReplayLessWork ==
    ASSUME EndInv, WorkSplits, WorkSplits', ReplayEvent
    PROVE  Work' < Work
<1> DEFINE d == replay[1]
           e == syncEvent[d]
<1>1. GrabsOK /\ d \in Devices
  BY DEF EndInv, FreezeInv, GrabInv, RestOK, ReplayEvent
<1>2. /\ \/ ActivatePassiveGrab(d, e, down[d], replay[2])
         \/ ActivateImplicitGrab(d, e)
         \/ DeliverOnly
      /\ playing /\ replay # NoReplay /\ replay' = NoReplay
      /\ UNCHANGED <<eventVars, passive, window, closeVars, walkVars>>
  BY DEF ReplayEvent
<1> HIDE DEF e, d
<1>3. (\E g : grab' = [grab EXCEPT ![d] = g]) \/ UNCHANGED grab
  BY <1>2 DEF ActivatePassiveGrab, ActivateImplicitGrab, ActivateGrab, DeliverOnly, grabVars
<1>4. ComputeFreezes \/ UNCHANGED playing
  BY <1>2 DEF ActivatePassiveGrab, ActivateImplicitGrab, ActivateGrab, DeliverOnly
<1>5. playing'
  BY <1>2, <1>4, Zenon DEF ComputeFreezes
<1>6. Grabs' <= Grabs + 1
  <2>1. PICK x \in Devices : x = d
    BY <1>1
  <2>2. \A y \in Devices : y # x => grab'[y] = grab[y]
    BY <1>1, <1>3, <2>1 DEF GrabsOK
  <2>3. QED BY <2>2, OneGrabMore
<1>7. Chores' = Chores
  BY <1>2, <1>5, ChoresStay
<1>8. Events' <= Events - 1
  <2>1. Len(pending) \in Nat /\ pending' = pending
    BY <1>2 DEF EndInv, FreezeInv, RestOK, eventVars
  <2>2. QED BY <1>2, <2>1 DEF Events, OneIf
<1>9. QED BY <1>2, <1>6, <1>7, <1>8, LessWork

LEMMA PlayLessWork ==
    ASSUME EndInv, WorkSplits, WorkSplits', PlayEvent
    PROVE  Work' < Work
<1>1. GrabsOK /\ pending \in Seq(Event)
  BY DEF EndInv, FreezeInv, GrabInv, RestOK
<1>2. PICK i \in Playable : /\ pending' = RemoveAt(pending, i)
                            /\ ProcessDeviceEvent(pending[i])
  BY DEF PlayEvent
<1>3. i \in 1..Len(pending) /\ pending[i] \in Event
  BY <1>1 DEF Playable
<1>4. /\ playing /\ UNCHANGED replay
      /\ UNCHANGED <<passive, window, closeVars, walkVars>>
  BY DEF PlayEvent
<1>5. PICK e \in Event : e = pending[i]
  BY <1>3
<1>6. e.dev \in Devices
  BY DEF Event
<1>7. playing' /\ \A x \in Devices : x # e.dev => grab'[x] = grab[x]
  BY <1>1, <1>2, <1>4, <1>5, ProcessOneGrab
<1>8. Grabs' <= Grabs + 1
  BY <1>6, <1>7, OneGrabMore
<1>9. Chores' = Chores
  BY <1>4, <1>7, ChoresStay
<1>10. Events' <= Events - 1
  <2>1. Len(pending') = Len(pending) - 1 /\ Len(pending) \in Nat
    BY <1>1, <1>2, <1>3, RemoveAtShape
  <2>2. OneIf(replay # NoReplay)' = OneIf(replay # NoReplay)
        /\ OneIf(replay # NoReplay) \in {0, 1}
    BY <1>4 DEF OneIf
  <2>3. QED BY <2>1, <2>2 DEF Events
<1>11. QED BY <1>4, <1>8, <1>9, <1>10, LessWork

LEMMA EndGrabLessWork ==
    ASSUME EndInv, WorkSplits, WorkSplits', EndGrab
    PROVE  Work' < Work
<1>1. GrabsOK /\ walk \in Seq(Devices) /\ pending \in Seq(Event)
  BY DEF EndInv, FreezeInv, GrabInv, RestOK
<1>2. PICK i \in Hits : DeactivateGrab(walk[i])
  BY DEF EndGrab
<1>3. PICK d \in Devices : d = walk[i] /\ grab[d] # NoGrab
  BY <1>1 DEF Hits
<1>4. grab' = [grab EXCEPT ![d] = NoGrab]
  BY <1>2, <1>3 DEF DeactivateGrab
<1>5. Grabs' = Grabs - 1
  <2>1. grab'[d] = NoGrab /\ \A x \in Devices : x # d => grab'[x] = grab[x]
    BY <1>1, <1>4 DEF GrabsOK
  <2>2. QED BY <1>3, <2>1, OneGrabLess
<1>6. UNCHANGED <<pending, replay, goal, passive, window, cstate, closing>>
  BY DEF EndGrab, eventVars, closeVars
<1>7. Events' = Events
  BY <1>6 DEF Events, OneIf
<1>8. Chores' <= Chores + 2
  <2>1. Phase' = Phase /\ Phase \in 0..8
    BY <1>6 DEF Phase, Running
  <2>2. OneIf(goal # "none")' = OneIf(goal # "none")
    BY <1>6 DEF OneIf
  <2>3. /\ OneIf(goal # "none") \in {0, 1}
        /\ OneIf(playing) \in {0, 1} /\ OneIf(playing)' \in {0, 1}
        /\ OneIf(goal = "release" /\ walk # ReleaseWalk) \in {0, 1}
        /\ OneIf(goal = "release" /\ walk # ReleaseWalk)' \in {0, 1}
    BY DEF OneIf
  <2>4. QED BY <2>1, <2>2, <2>3 DEF Chores
<1>9. QED BY <1>5, <1>6, <1>7, <1>8, LessWork

\* The steps that leave grabs and events alone do away with a chore.
LEMMA ChoresLessWork ==
    ASSUME EndInv, WorkSplits, WorkSplits', UNCHANGED <<grab, pending, replay>>,
           passive' \subseteq passive, Chores' < Chores
    PROVE  Work' < Work
<1>1. Events' = Events /\ Grabs' = Grabs
  BY DEF Events, Grabs, OneIf
<1>2. Cardinality(passive)' <= Cardinality(passive)
  BY FS_Subset DEF EndInv
<1>3. QED BY <1>1, <1>2, LessWork

LEMMA StepsLessWork ==
    ASSUME EndInv, WorkSplits, WorkSplits',
           \/ PlayingDone \/ WindowUnmapped \/ WindowDeleted \/ ReleaseAgain
           \/ GrabsReleased \/ FreeWindow \/ ClientFreed
    PROVE  Work' < Work
<1> USE DEF closeVars, walkVars, grabVars, eventVars
<1>0. /\ closing \in Clients \cup {NoClient} /\ playing \in BOOLEAN
      /\ cstate \in [Clients -> {"running", "gone", "freed"}]
  BY DEF EndInv, FreezeInv, RestOK, GrabInv, GrabsOK
<1>1. CASE PlayingDone
  <2>1. /\ playing /\ ~playing' /\ UNCHANGED <<grab, pending, replay, passive>>
        /\ UNCHANGED <<window, cstate, closing, walk, goal>>
    BY <1>1 DEF PlayingDone
  <2>2. Chores' < Chores
    <3>1. Phase' = Phase /\ Phase \in 0..8
      BY <2>1 DEF Phase, Running
    <3>2. QED BY <2>1, <3>1 DEF Chores, OneIf
  <2>3. QED BY <2>1, <2>2, ChoresLessWork
<1>2. CASE WindowUnmapped
  <2>1. /\ goal = "unmap" /\ goal' = "none"
        /\ UNCHANGED <<grab, pending, replay, passive>>
        /\ UNCHANGED <<window, cstate, closing, playing>>
    BY <1>2 DEF WindowUnmapped, WalkDone
  <2>2. Chores' < Chores
    <3>1. Phase' = Phase /\ Phase \in 0..8
      BY <2>1 DEF Phase, Running
    <3>2. QED BY <2>1, <3>1 DEF Chores, OneIf
  <2>3. QED BY <2>1, <2>2, ChoresLessWork
<1>3. CASE WindowDeleted
  <2>1. /\ goal = "delete" /\ goal' = "none" /\ window' = "gone"
        /\ passive' \subseteq passive /\ UNCHANGED <<grab, pending, replay>>
        /\ UNCHANGED <<cstate, closing, playing>>
    BY <1>3 DEF WindowDeleted, WalkDone
  <2>2. Chores' < Chores
    <3>1. Phase' <= Phase /\ Phase \in 0..8 /\ Phase' \in 0..8
      BY <2>1 DEF Phase, Running
    <3>2. /\ OneIf(goal # "none")' = 0 /\ OneIf(goal # "none") = 1
          /\ OneIf(playing)' = OneIf(playing) /\ OneIf(playing) \in {0, 1}
          /\ OneIf(goal = "release" /\ walk # ReleaseWalk)' = 0
          /\ OneIf(goal = "release" /\ walk # ReleaseWalk) = 0
      BY <2>1 DEF OneIf
    <3>3. QED BY <3>1, <3>2 DEF Chores
  <2>3. QED BY <2>1, <2>2, ChoresLessWork
<1>4. CASE ReleaseAgain
  <2>1. /\ goal = "release" /\ walk # ReleaseWalk /\ walk' = ReleaseWalk
        /\ UNCHANGED <<grab, pending, replay, passive>>
        /\ UNCHANGED <<window, cstate, closing, playing, goal>>
    BY <1>4 DEF ReleaseAgain, WalkDone
  <2>2. Chores' < Chores
    <3>1. Phase' = Phase /\ Phase \in 0..8
      BY <2>1 DEF Phase, Running
    <3>2. QED BY <2>1, <3>1 DEF Chores, OneIf
  <2>3. QED BY <2>1, <2>2, ChoresLessWork
<1>5. CASE GrabsReleased
  <2>1. /\ goal = "release" /\ goal' = "none" /\ walk = ReleaseWalk
        /\ cstate' = [cstate EXCEPT ![closing] = "gone"]
        /\ UNCHANGED <<grab, pending, replay, passive>>
        /\ UNCHANGED <<window, closing, playing>>
    BY <1>5 DEF GrabsReleased, WalkDone
  <2>2. Chores' < Chores
    <3>1. Phase' <= Phase /\ Phase \in 0..8 /\ Phase' \in 0..8
      <4>1. closing = NoClient \/ (closing \in Clients /\ cstate'[closing] = "gone")
        BY <1>0, <2>1
      <4>2. QED BY <2>1, <4>1 DEF Phase, Running
    <3>2. /\ OneIf(goal # "none")' = 0 /\ OneIf(goal # "none") = 1
          /\ OneIf(playing)' = OneIf(playing) /\ OneIf(playing) \in {0, 1}
          /\ OneIf(goal = "release" /\ walk # ReleaseWalk)' = 0
          /\ OneIf(goal = "release" /\ walk # ReleaseWalk) = 0
      BY <2>1 DEF OneIf
    <3>3. QED BY <3>1, <3>2 DEF Chores
  <2>3. QED BY <2>1, <2>2, ChoresLessWork
<1>6. CASE FreeWindow
  <2>1. /\ goal = "none" /\ goal' = "delete" /\ window # "gone" /\ window' = "unmapped"
        /\ closing = Owner /\ closing # NoClient
        /\ UNCHANGED <<grab, pending, replay, passive>>
        /\ UNCHANGED <<cstate, closing, playing>>
    BY <1>6 DEF FreeWindow, Freeing, DeleteWindow
  <2>2. ~Running(closing)
    BY <2>1 DEF EndInv, OwnersInv, CloseInv
  <2>3. Chores' < Chores
    <3>1. Phase' = 4 /\ Phase = 6
      BY <2>1, <2>2 DEF Phase, Running
    <3>2. QED BY <2>1, <3>1 DEF Chores, OneIf
  <2>4. QED BY <2>1, <2>3, ChoresLessWork
<1>7. CASE ClientFreed
  <2>1. /\ goal = "none" /\ closing # NoClient /\ closing' = NoClient
        /\ UNCHANGED <<grab, pending, replay, passive>>
        /\ UNCHANGED <<window, playing, walk, goal>>
    BY <1>7 DEF ClientFreed, Freeing
  <2>2. Chores' < Chores
    <3>1. Phase' = 0 /\ Phase \in 2..8
      BY <2>1 DEF Phase
    <3>2. QED BY <2>1, <3>1 DEF Chores, OneIf
  <2>3. QED BY <2>1, <2>2, ChoresLessWork
<1>8. QED BY <1>1, <1>2, <1>3, <1>4, <1>5, <1>6, <1>7

LEMMA FreePassiveLessWork ==
    ASSUME EndInv, WorkSplits, WorkSplits', NEW p \in PassiveGrabs, FreePassiveGrab(p)
    PROVE  Work' < Work
<1>1. /\ p \in passive /\ passive' = passive \ {p}
      /\ UNCHANGED <<grab, pending, replay, playing, window, cstate, closing, walk, goal>>
  BY DEF FreePassiveGrab, grabVars, eventVars, closeVars, walkVars
<1>2. Cardinality(passive)' = Cardinality(passive) - 1
  BY <1>1, FS_RemoveElement DEF EndInv
<1>3. Events' = Events /\ Grabs' = Grabs
  BY <1>1 DEF Events, Grabs, OneIf
<1>4. Chores' = Chores
  BY <1>1 DEF Chores, OneIf, Phase, Running
<1>5. QED BY <1>2, <1>3, <1>4, LessWork

\* While the server is not idle only the server itself takes steps.
LEMMA BusyStep ==
    ASSUME ~Idle, Next
    PROVE  ServerStep
BY DEF Next, WaitForSomething, Press, Release, Motion, DeviceEvent, GrabDevice,
       UngrabDevice, AllowSome, AllowReplay, GrabButtonOrKey, UngrabButtonOrKey,
       MapWindow, UnmapWindow, DestroyWindow, CloseDownClient

LEMMA WorkIsDone ==
    ASSUME EndInv, EndInv', ~Idle, Next
    PROVE  Work' < Work
<1>1. WorkSplits /\ WorkSplits'
  BY WorkParts, WorkPartsPrime
<1>2. ServerStep
  BY BusyStep
<1>3. QED BY <1>1, <1>2, ReplayLessWork, PlayLessWork, EndGrabLessWork, StepsLessWork,
             FreePassiveLessWork
          DEF ServerStep

\* Playing events, the passes that end grabs and the end of a client come to an
\* end, for any number of clients, grabs and events: each step of the server on
\* its own leaves less to do (ComputeFreezes, PlayReleasedEvents,
\* ReleaseActiveGrabs, CloseDownClient).
THEOREM GrabLoopsEnd == Spec => RequestsEnd
<1>1. Init => IsFiniteSet(passive)
  BY FS_EmptySet DEF Init
<1>2. IsFiniteSet(passive) /\ [Next]_vars => IsFiniteSet(passive)'
  BY FiniteStays
<1>3. FreezeInv /\ OwnersInv /\ IsFiniteSet(passive) => EndInv
  BY DEF EndInv
<1>4. Init => OwnersInv
  BY InitOwners
<1>5. FreezeInv /\ OwnersInv /\ [Next]_vars => OwnersInv'
  BY NextKeepsOwners
<1>6. EndInv /\ EndInv' /\ [Next]_vars => [~Idle => Work' < Work]_vars
  BY WorkIsDone
<1>7. QED BY <1>1, <1>2, <1>3, <1>4, <1>5, <1>6, FreezeInvariant, PTL DEF Spec, RequestsEnd
=============================================================================
