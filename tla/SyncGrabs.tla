------------------------------ MODULE SyncGrabs ------------------------------
(***************************************************************************)
(* dix/events.c: active, passive and implicit grabs of the master pointer  *)
(* and keyboard, how synchronous grabs freeze them, the queue of events    *)
(* that wait for a frozen device, and how AllowEvents and the end of a     *)
(* grab play them again.                                                   *)
(*                                                                         *)
(* ComputeFreezes is recursive: a played event can activate or end a grab, *)
(* which calls ComputeFreezes again.  The inner calls only refresh the     *)
(* frozen flags, because playingEvents is set, so the recursion is a loop: *)
(* a step that changes a grab refreshes the flags and, if something waits, *)
(* sets playing; while it is set, the server takes PlayEvent steps and     *)
(* nothing else.  What the caller has left to do after ComputeFreezes      *)
(* (ReleaseActiveGrabs and DeleteWindowFromAnyEvents walk over the         *)
(* devices) is the list walk.                                              *)
(*                                                                         *)
(* One screen: the root and one other window, under the pointer while it   *)
(* is mapped; the focus is PointerRoot.  Core grabs on any button and any  *)
(* key.  Time stamps, confinement and touches are left out: a request with *)
(* a bad time changes nothing.                                             *)
(***************************************************************************)
EXTENDS Integers, Sequences, FiniteSets, SequencesExt

CONSTANTS
    Clients,        \* clients with a connection
    Closers,        \* those of them that close it
    Owner,          \* the client that created the window
    PassiveGrabs,   \* the passive grabs that clients ask for
    ActiveGrabs,    \* the active grabs that clients ask for
    PressSelected,  \* who selected ButtonPress, and on which window
    Buttons, Keys,  \* the buttons of the pointer, the keys of the keyboard
    NoGrab,         \* NullGrab
    NoEvent,        \* nothing in sync.event
    NoClient,       \* nobody is being closed down
    MaxEvents       \* bound: how many device events happen

Devices == {"ptr", "kbd"}
Windows == {"root", "win"}
Modes == {"sync", "async"}

\* GetPairedDevice
Paired(d) == IF d = "ptr" THEN "kbd" ELSE "ptr"

Details == Buttons \cup Keys

GrabRequest == [client : Clients, win : Windows, dev : Devices,
                own : Modes, oth : Modes]

ASSUME ClientsAssumption ==
    Closers \subseteq Clients /\ Owner \in Clients /\ NoClient \notin Clients
ASSUME GrabsAssumption == PassiveGrabs \cup ActiveGrabs \subseteq GrabRequest
ASSUME SelectionsAssumption == PressSelected \subseteq Clients \X Windows
ASSUME DetailsAssumption == Buttons \cup Keys \subseteq Nat \ {0}
ASSUME BoundAssumption == MaxEvents \in Nat

\* A GrabRec that is active: dev and id stand for its address, passive for
\* fromPassiveGrab, key for activatingKey (0 on the pointer).
Grab == [dev : Devices, id : 0..3, client : Clients, win : Windows,
         passive : BOOLEAN, key : Details \cup {0}]

\* Motion is of no key or button.
Event ==
    {e \in [dev : Devices, kind : {"press", "release", "motion"},
            detail : Details \cup {0}, id : 1..MaxEvents] :
        (e.kind = "motion") = (e.detail = 0)}

ASSUME NoneAssumption == NoGrab \notin Grab /\ NoEvent \notin Event

\* GRAB_STATE_*
FrozenStates == {"frozen_no_event", "frozen_with_event"}
FreezeNext == {"freeze_next", "freeze_both_next"}
States == {"not_grabbed", "thawed"} \cup FreezeNext \cup FrozenStates

VARIABLES
    grab,       \* deviceGrab.grab
    st,         \* deviceGrab.sync.state
    other,      \* deviceGrab.sync.other
    frozen,     \* deviceGrab.sync.frozen
    syncEvent,  \* deviceGrab.sync.event
    pending,    \* syncEvents.pending
    playing,    \* syncEvents.playingEvents
    replay,     \* syncEvents.replayDev, and replayWin
    passive,    \* the passive grabs on the windows
    down,       \* keys and buttons that are down
    last,       \* history: the event of each device processed last
    generated,  \* how many device events happened
    window,     \* the other window
    cstate,     \* clients: running, clientGone, freed
    closing,    \* the client CloseDownClient works on
    walk,       \* the devices that the current request has yet to look at
    goal        \* what it looks at them for

grabVars == <<grab, st, other, frozen, syncEvent>>
eventVars == <<pending, down, last, generated>>
closeVars == <<cstate, closing>>
walkVars == <<walk, goal>>
vars == <<grabVars, eventVars, playing, replay, passive, window, closeVars,
          walkVars>>

NoReplay == <<>>

\* Between requests: Dispatch() looks at the next request or event.
Idle == ~playing /\ goal = "none" /\ closing = NoClient

Running(c) == cstate[c] = "running"

\* The windows between the root and the pointer; CheckMotion leaves out the
\* ones that are not mapped, also when an event is played.
SpriteTrace == IF window = "mapped" THEN Windows ELSE {"root"}

-----------------------------------------------------------------------------
(* Grabs and freezing.                                                     *)

FreezeOnly ==
    /\ frozen' = [d \in Devices |->
                    other'[d] # NoGrab \/ st'[d] \in FrozenStates]
    /\ playing' = (playing \/ replay' # NoReplay)

\* ComputeFreezes, up to the point where it starts to play.
ComputeFreezes ==
    /\ frozen' = [d \in Devices |->
                    other'[d] # NoGrab \/ st'[d] \in FrozenStates]
    /\ playing' = (playing \/ replay' # NoReplay \/ pending' # <<>>)

\* A new grab of the device, at an address no grab in use has.
NewGrab(d, c, w, p, k) ==
    [dev |-> d, client |-> c, win |-> w, passive |-> p, key |-> k,
     id |-> CHOOSE i \in 0..3 :
                \A g \in {grab[d], other["ptr"], other["kbd"]} \ {NoGrab} :
                    ~(g.dev = d /\ g.id = i)]

\* CheckGrabForSyncs: what becomes of the freeze that another grab holds.
OtherAfter(d, g, own, oth) ==
    [x \in Devices |->
       IF x = Paired(d) /\ oth = "sync" THEN g
       ELSE IF /\ x = Paired(d) \/ own = "async"
               /\ other[x] # NoGrab /\ other[x].client = g.client
            THEN NoGrab
       ELSE other[x]]

\* ActivatePointerGrab and ActivateKeyboardGrab, up to CheckGrabForSyncs; a
\* passive grab also keeps the event e that activated it
\* (ActivateGrabNoDelivery).
ActivateGrab(d, g, own, oth, e) ==
    /\ grab' = [grab EXCEPT ![d] = g]
    /\ st' = [st EXCEPT ![d] = IF own = "async" THEN "thawed"
                               ELSE IF e = NoEvent THEN "frozen_no_event"
                               ELSE "frozen_with_event"]
    /\ other' = OtherAfter(d, g, own, oth)
    /\ syncEvent' = IF e = NoEvent THEN syncEvent
                    ELSE [syncEvent EXCEPT ![d] = e]
    /\ ComputeFreezes

DeactivateOwn(d) ==
    /\ grab' = [grab EXCEPT ![d] = NoGrab]
    /\ st' = [st EXCEPT ![d] = "not_grabbed"]
    /\ UNCHANGED <<other, syncEvent>>
    /\ ComputeFreezes

\* DeactivatePointerGrab and DeactivateKeyboardGrab: besides its own, the
\* grab gives up the freeze it holds on any other device.
DeactivateGrab(d) ==
    /\ grab' = [grab EXCEPT ![d] = NoGrab]
    /\ st' = [st EXCEPT ![d] = "not_grabbed"]
    /\ other' = [x \in Devices |-> IF other[x] = grab[d] THEN NoGrab
                                   ELSE other[x]]
    /\ UNCHANGED syncEvent
    /\ ComputeFreezes

-----------------------------------------------------------------------------
(* Processing one event of a device that is not frozen.                    *)

\* The part of the trace that comes after the ancestor.
Below(a) == CASE a = "none" -> SpriteTrace
              [] a = "root" -> SpriteTrace \ {"root"}
              [] a = "win" -> {}

\* CheckDeviceGrabs, when a press of the device leaves the keys nd down: the
\* passive grabs below the ancestor, of which the outermost is activated.
Candidates(d, e, nd, a) ==
    {p \in passive : /\ e.kind = "press" /\ grab[d] = NoGrab
                     /\ d = "ptr" => Cardinality(nd) = 1
                     /\ p.dev = d /\ p.win \in Below(a)}

Outermost(ps) ==
    {p \in ps : p.win = "root" \/ \A q \in ps : q.win # "root"}

ActivatePassiveGrab(d, e, nd, a) ==
    \E p \in Outermost(Candidates(d, e, nd, a)) :
        LET k == IF d = "kbd" THEN e.detail ELSE 0
        IN  ActivateGrab(d, NewGrab(d, p.client, p.win, TRUE, k),
                         p.own, p.oth, e)

\* DeliverDeviceEvents: the client that gets a button press gets the pointer
\* as well, until the buttons are up.
ActivateImplicitGrab(d, e) ==
    /\ d = "ptr" /\ e.kind = "press" /\ grab[d] = NoGrab
    /\ \E s \in PressSelected :
          /\ Running(s[1]) /\ s[2] \in SpriteTrace
          /\ ActivateGrab(d, NewGrab(d, s[1], s[2], TRUE, 0),
                          "async", "async", NoEvent)

\* No grab, or none that the event matters to: it is sent, or nobody wants it.
DeliverOnly == UNCHANGED <<grabVars, playing>>

\* FreezeThisEventIfNeededForSyncGrab, for an event that was delivered.
FreezeThisEvent(d, e) ==
    LET x == Paired(d)
        both == st[d] = "freeze_both_next"
        same == /\ st[x] = "freeze_both_next"
                /\ grab[x].client = grab[d].client
    IN  /\ st' = [st EXCEPT
                    ![d] = "frozen_with_event",
                    ![x] = IF both /\ same THEN "frozen_no_event" ELSE @]
        /\ other' = [other EXCEPT ![x] = IF both /\ ~same THEN grab[d] ELSE @]
        /\ frozen' = [frozen EXCEPT ![d] = TRUE, ![x] = both \/ @]
        /\ syncEvent' = [syncEvent EXCEPT ![d] = e]
        /\ UNCHANGED <<grab, playing>>

\* DeliverGrabbedEvent.  The holder of a pointer grab may not have selected
\* the event; a client that is gone gets nothing.
DeliverGrabbedEvent(d, e) ==
    \/ /\ st[d] \in FreezeNext /\ e.kind # "motion" /\ Running(grab[d].client)
       /\ FreezeThisEvent(d, e)
    \/ /\ \/ st[d] \notin FreezeNext \/ e.kind = "motion"
          \/ d = "ptr" \/ ~Running(grab[d].client)
       /\ DeliverOnly

\* The release that ends a passive grab: of the last button, or of the key.
EndsGrab(d, e, nd) ==
    /\ grab[d] # NoGrab /\ grab[d].passive /\ e.kind = "release"
    /\ IF d = "ptr" THEN nd = {} ELSE e.detail = grab[d].key

DownAfter(e) ==
    CASE e.kind = "press" -> down[e.dev] \cup {e.detail}
      [] e.kind = "release" -> down[e.dev] \ {e.detail}
      [] e.kind = "motion" -> down[e.dev]

\* ProcessDeviceEvent: the realInputProc.
ProcessDeviceEvent(e) ==
    LET d == e.dev
        nd == DownAfter(e)
    IN  /\ down' = [down EXCEPT ![d] = nd]
        /\ last' = [last EXCEPT ![d] = e.id]
        /\ \/ ActivatePassiveGrab(d, e, nd, "none")
           \/ /\ grab[d] = NoGrab /\ Candidates(d, e, nd, "none") = {}
              /\ ActivateImplicitGrab(d, e) \/ DeliverOnly
           \/ /\ grab[d] # NoGrab /\ ~EndsGrab(d, e, nd)
              /\ DeliverGrabbedEvent(d, e)
           \/ EndsGrab(d, e, nd) /\ DeactivateGrab(d)

\* EnqueueEvent: the enqueueInputProc of a frozen device.  Motion is
\* compressed with motion of the device at the end of the queue.
EnqueueEvent(e) ==
    LET n == Len(pending)
        compress == /\ e.kind = "motion" /\ n > 0
                    /\ pending[n].kind = "motion" /\ pending[n].dev = e.dev
    IN  pending' = IF compress THEN [pending EXCEPT ![n] = e]
                   ELSE Append(pending, e)

-----------------------------------------------------------------------------
(* Device events.                                                          *)

\* The key is down on the device, whatever the server has processed so far.
HeldDown(d, k) ==
    LET about == {i \in 1..Len(pending) :
                    pending[i].dev = d /\ pending[i].detail = k}
    IN  IF about = {} THEN k \in down[d]
        ELSE \E i \in about : /\ pending[i].kind = "press"
                              /\ \A j \in about : j <= i

DeviceEvent(d, kind, k) ==
    LET e == [dev |-> d, kind |-> kind, detail |-> k, id |-> generated + 1]
    IN  /\ Idle
        /\ generated < MaxEvents
        /\ generated' = generated + 1
        /\ UNCHANGED replay
        /\ \/ /\ frozen[d] /\ EnqueueEvent(e)
              /\ UNCHANGED <<grabVars, playing, down, last>>
           \/ ~frozen[d] /\ UNCHANGED pending /\ ProcessDeviceEvent(e)
        /\ UNCHANGED <<passive, window, closeVars, walkVars>>

Press(d, k) == ~HeldDown(d, k) /\ DeviceEvent(d, "press", k)
Release(d, k) == HeldDown(d, k) /\ DeviceEvent(d, "release", k)
Motion == DeviceEvent("ptr", "motion", 0)

-----------------------------------------------------------------------------
(* The loop of ComputeFreezes and PlayReleasedEvents.                      *)

ReplayKept ==
    /\ playing /\ replay # NoReplay
    /\ UNCHANGED replay
    /\ LET d == replay[1]
           e == syncEvent[d]
       IN  ActivatePassiveGrab(d, e, down[d], replay[2]) \/ DeliverOnly
    /\ UNCHANGED <<eventVars, passive, window, closeVars, walkVars>>

\* The event that ReplayPointer and ReplayKeyboard send on.
ReplayEvent ==
    /\ playing /\ replay # NoReplay
    /\ replay' = NoReplay
    /\ LET d == replay[1]
           e == syncEvent[d]
       IN  \/ ActivatePassiveGrab(d, e, down[d], replay[2])
           \/ /\ Candidates(d, e, down[d], replay[2]) = {}
              /\ ActivateImplicitGrab(d, e) \/ DeliverOnly
    /\ UNCHANGED <<eventVars, passive, window, closeVars, walkVars>>

\* The events of devices that are not frozen.
Playable == {i \in 1..Len(pending) : ~frozen[pending[i].dev]}

PlayAnyEvent ==
    /\ playing /\ replay = NoReplay
    /\ \E i \in Playable :
          /\ pending' = RemoveAt(pending, i)
          /\ UNCHANGED replay
          /\ ProcessDeviceEvent(pending[i])
    /\ UNCHANGED <<generated, passive, window, closeVars, walkVars>>

PlayEvent ==
    /\ playing /\ replay = NoReplay
    /\ \E i \in Playable :
          /\ \A j \in Playable : i <= j
          /\ pending' = RemoveAt(pending, i)
          /\ UNCHANGED replay
          /\ ProcessDeviceEvent(pending[i])
    /\ UNCHANGED <<generated, passive, window, closeVars, walkVars>>

PlayingDone ==
    /\ playing /\ replay = NoReplay /\ Playable = {}
    /\ playing' = FALSE
    /\ UNCHANGED <<grabVars, eventVars, replay, passive, window, closeVars,
                   walkVars>>

-----------------------------------------------------------------------------
(* Requests.                                                               *)

\* ProcGrabPointer, ProcGrabKeyboard: GrabDevice with status GrabSuccess.
GrabDevice(r) ==
    /\ Idle /\ Running(r.client)
    /\ ~(grab[r.dev] # NoGrab /\ grab[r.dev].client # r.client)
    /\ r.win \in SpriteTrace
    /\ ~(/\ frozen[r.dev]
         /\ other[r.dev] # NoGrab /\ other[r.dev].client # r.client)
    /\ UNCHANGED <<pending, replay>>
    /\ ActivateGrab(r.dev, NewGrab(r.dev, r.client, r.win, FALSE, 0),
                    r.own, r.oth, NoEvent)
    /\ UNCHANGED <<down, last, generated, passive, window, closeVars,
                   walkVars>>

\* ProcUngrabPointer, ProcUngrabKeyboard
UngrabDevice(c, d) ==
    /\ Idle /\ Running(c)
    /\ grab[d] # NoGrab /\ grab[d].client = c
    /\ UNCHANGED <<pending, replay>>
    /\ DeactivateGrab(d)
    /\ UNCHANGED <<down, last, generated, passive, window, closeVars,
                   walkVars>>

\* ProcGrabButton, ProcGrabKey; an equal grab of the same client is replaced.
GrabButtonOrKey(p) ==
    LET same == {q \in passive : q.win = p.win /\ q.dev = p.dev}
    IN  /\ Idle /\ Running(p.client)
        /\ p.win = "win" => window # "gone"
        /\ \A q \in same : q.client = p.client
        /\ passive' = (passive \ same) \cup {p}
        /\ UNCHANGED <<grabVars, eventVars, playing, replay, window,
                       closeVars, walkVars>>

UngrabButtonOrKey(p) ==
    /\ Idle /\ Running(p.client)
    /\ p \in passive
    /\ passive' = passive \ {p}
    /\ UNCHANGED <<grabVars, eventVars, playing, replay, window, closeVars,
                   walkVars>>

-----------------------------------------------------------------------------
(* AllowSome                                                               *)

Holds(c, d) == grab[d] # NoGrab /\ grab[d].client = c
ThisSynced(c, d) ==
    Holds(c, Paired(d)) /\ other[d] = grab[Paired(d)]
OthersFrozen(c, d) == Holds(c, Paired(d)) /\ st[Paired(d)] \in FrozenStates

AllowGuard(c, d) ==
    \/ Holds(c, d) /\ st[d] \in FrozenStates
    \/ ThisSynced(c, d)

\* The states of the devices ds that c holds become s, and c holds none of
\* them by the grab of another.
SetAll(c, ds, s) ==
    /\ st' = [x \in Devices |-> IF x \in ds /\ Holds(c, x) THEN s ELSE st[x]]
    /\ other' = [x \in Devices |->
                   IF x \in ds /\ other[x] # NoGrab /\ other[x].client = c
                   THEN NoGrab ELSE other[x]]

Unsync(c, d) ==
    other' = [other EXCEPT ![d] = IF ThisSynced(c, d) THEN NoGrab ELSE @]

\* AsyncPointer, AsyncKeyboard, and the same modes of the input extension
Thaw(c, d) ==
    /\ st' = [st EXCEPT ![d] = IF Holds(c, d) THEN "thawed" ELSE @]
    /\ Unsync(c, d)

\* SyncPointer, SyncKeyboard
FreezeNextEvent(c, d) ==
    /\ Holds(c, d)
    /\ st' = [st EXCEPT ![d] = "freeze_next"]
    /\ Unsync(c, d)

\* AsyncBoth, SyncBoth, AsyncOthers (of XAllowDeviceEvents)
ThawBoth(c, d) == OthersFrozen(c, d) /\ SetAll(c, Devices, "thawed")
FreezeBothNextEvent(c, d) ==
    OthersFrozen(c, d) /\ SetAll(c, Devices, "freeze_both_next")
ThawOthers(c, d) == OthersFrozen(c, d) /\ SetAll(c, {Paired(d)}, "thawed")

\* ProcAllowEvents, ProcXAllowDeviceEvents, ProcXIAllowEvents
AllowSome(c, d) ==
    /\ Idle /\ Running(c)
    /\ AllowGuard(c, d)
    /\ \/ Thaw(c, d)
       \/ FreezeNextEvent(c, d)
       \/ ThawBoth(c, d)
       \/ FreezeBothNextEvent(c, d)
       \/ ThawOthers(c, d)
    /\ UNCHANGED <<grab, syncEvent, eventVars, replay>>
    /\ ComputeFreezes
    /\ UNCHANGED <<passive, window, closeVars, walkVars>>

ReplayFromTop(c, d) ==
    /\ Idle /\ Running(c)
    /\ Holds(c, d) /\ st[d] = "frozen_with_event"
    /\ replay' = <<d, "none">>
    /\ UNCHANGED eventVars
    /\ DeactivateGrab(d)
    /\ UNCHANGED <<passive, window, closeVars, walkVars>>

\* ReplayPointer, ReplayKeyboard: the grab ends, and the event that is kept
\* goes on to the windows below the one it was grabbed on.
AllowReplay(c, d) ==
    /\ Idle /\ Running(c)
    /\ Holds(c, d) /\ st[d] = "frozen_with_event"
    /\ replay' = <<d, grab[d].win>>
    /\ UNCHANGED eventVars
    /\ grab' = [grab EXCEPT ![d] = NoGrab]
    /\ st' = [st EXCEPT ![d] = "not_grabbed"]
    /\ other' = [x \in Devices |->
                   IF other[x] = grab[d] \/ (x = d /\ ThisSynced(c, d))
                   THEN NoGrab ELSE other[x]]
    /\ UNCHANGED syncEvent
    /\ ComputeFreezes
    /\ UNCHANGED <<passive, window, closeVars, walkVars>>

-----------------------------------------------------------------------------
(* Windows and clients that go away.                                       *)

PointerOnly == <<"ptr">>

\* The devices that DeleteWindowFromAnyEvents goes over: the core pointer and
\* keyboard, and then all devices; DeleteWindow does it in UnmapWindow, if the
\* window is mapped, and in FreeWindowResources.
UnmapWalk == <<"ptr", "kbd", "ptr", "kbd">>
DeleteWalk == IF window = "mapped" THEN UnmapWalk \o UnmapWalk ELSE UnmapWalk

\* One pass of ReleaseActiveGrabs.
ReleaseWalk == <<"ptr", "kbd">>

MapWindow ==
    /\ Idle /\ window = "unmapped"
    /\ window' = "mapped"
    /\ UNCHANGED <<grabVars, eventVars, playing, replay, passive, closeVars,
                   walkVars>>

UnmapWindow ==
    /\ Idle /\ window = "mapped"
    /\ window' = "unmapped"
    /\ walk' = UnmapWalk /\ goal' = "unmap"
    /\ UNCHANGED <<grabVars, eventVars, playing, replay, passive, closeVars>>

DeleteWindow ==
    /\ window # "gone"
    /\ window' = "unmapped"
    /\ walk' = DeleteWalk /\ goal' = "delete"
    /\ UNCHANGED <<grabVars, eventVars, playing, replay, passive, closeVars>>

DestroyWindow == Idle /\ DeleteWindow

\* CloseDownClient begins with ReleaseActiveGrabs.
CloseDownClient(c) ==
    /\ Idle /\ Running(c)
    /\ closing' = c
    /\ walk' = ReleaseWalk /\ goal' = "release"
    /\ UNCHANGED <<grabVars, eventVars, playing, replay, passive, window,
                   cstate>>

\* The places of the walk where there is a grab to end.
Hits ==
    {i \in 1..Len(walk) :
       /\ grab[walk[i]] # NoGrab
       /\ IF goal = "release" THEN grab[walk[i]].client = closing
          ELSE grab[walk[i]].win = "win"}

\* The walk ends the next of them, and the events this lets go are played
\* before it goes on.
EndGrab ==
    /\ ~playing
    /\ UNCHANGED <<eventVars, replay>>
    /\ \E i \in Hits :
          /\ \A j \in Hits : i <= j
          /\ DeactivateGrab(walk[i])
          /\ walk' = SubSeq(walk, i + 1, Len(walk))
    /\ UNCHANGED <<goal, passive, window, closeVars>>

WalkDone(g) == ~playing /\ goal = g /\ Hits = {}

WindowUnmapped ==
    /\ WalkDone("unmap")
    /\ goal' = "none" /\ walk' = <<>>
    /\ UNCHANGED <<grabVars, eventVars, playing, replay, passive, window,
                   closeVars>>

\* The end of DeleteWindow takes the passive grabs on the window along.
WindowDeleted ==
    /\ WalkDone("delete")
    /\ goal' = "none" /\ walk' = <<>>
    /\ window' = "gone"
    /\ passive' = {p \in passive : p.win # "win"}
    /\ UNCHANGED <<grabVars, eventVars, playing, replay, closeVars>>

\* ReleaseActiveGrabs makes another pass unless this one ended no grab; then
\* CloseDownClient sets clientGone.
ReleaseAgain ==
    /\ WalkDone("release") /\ walk # ReleaseWalk
    /\ walk' = ReleaseWalk
    /\ UNCHANGED <<grabVars, eventVars, playing, replay, passive, window,
                   closeVars, goal>>

GrabsReleased ==
    /\ WalkDone("release") /\ walk = ReleaseWalk
    /\ goal' = "none" /\ walk' = <<>>
    /\ cstate' = [cstate EXCEPT ![closing] = "gone"]
    /\ UNCHANGED <<grabVars, eventVars, playing, replay, passive, window,
                   closing>>

\* FreeClientResources, in the order of the resource table.
Freeing == ~playing /\ goal = "none" /\ closing # NoClient

FreePassiveGrab(p) ==
    /\ Freeing
    /\ p \in passive /\ p.client = closing
    /\ passive' = passive \ {p}
    /\ UNCHANGED <<grabVars, eventVars, playing, replay, window, closeVars,
                   walkVars>>

FreeWindow == Freeing /\ closing = Owner /\ DeleteWindow

ClientFreed ==
    /\ Freeing
    /\ \A p \in passive : p.client # closing
    /\ closing = Owner => window = "gone"
    /\ cstate' = [cstate EXCEPT ![closing] = "freed"]
    /\ closing' = NoClient
    /\ UNCHANGED <<grabVars, eventVars, playing, replay, passive, window,
                   walkVars>>

-----------------------------------------------------------------------------
Init ==
    /\ grab = [d \in Devices |-> NoGrab]
    /\ st = [d \in Devices |-> "not_grabbed"]
    /\ other = [d \in Devices |-> NoGrab]
    /\ frozen = [d \in Devices |-> FALSE]
    /\ syncEvent = [d \in Devices |-> NoEvent]
    /\ pending = <<>> /\ playing = FALSE /\ replay = NoReplay
    /\ passive = {}
    /\ down = [d \in Devices |-> {}]
    /\ last = [d \in Devices |-> 0] /\ generated = 0
    /\ window = "mapped"
    /\ cstate = [c \in Clients |-> "running"]
    /\ closing = NoClient /\ walk = <<>> /\ goal = "none"

\* The server has nothing to do, and nothing need ever happen.
WaitForSomething == Idle /\ UNCHANGED vars

\* What the server does without waiting for anybody.
ServerStep ==
    \/ ReplayEvent
    \/ PlayEvent
    \/ PlayingDone
    \/ EndGrab
    \/ WindowUnmapped
    \/ WindowDeleted
    \/ ReleaseAgain
    \/ GrabsReleased
    \/ \E p \in PassiveGrabs : FreePassiveGrab(p)
    \/ FreeWindow
    \/ ClientFreed

Next ==
    \/ ServerStep
    \/ WaitForSomething
    \/ \E k \in Buttons : Press("ptr", k) \/ Release("ptr", k)
    \/ \E k \in Keys : Press("kbd", k) \/ Release("kbd", k)
    \/ Motion
    \/ \E r \in ActiveGrabs : GrabDevice(r)
    \/ \E c \in Clients, d \in Devices :
          \/ UngrabDevice(c, d)
          \/ AllowSome(c, d)
          \/ AllowReplay(c, d)
    \/ \E p \in PassiveGrabs : GrabButtonOrKey(p) \/ UngrabButtonOrKey(p)
    \/ MapWindow
    \/ UnmapWindow
    \/ DestroyWindow
    \/ \E c \in Closers : CloseDownClient(c)

Spec == Init /\ [][Next]_vars

-----------------------------------------------------------------------------
TypeOK ==
    /\ grab \in [Devices -> Grab \cup {NoGrab}]
    /\ st \in [Devices -> States]
    /\ other \in [Devices -> Grab \cup {NoGrab}]
    /\ frozen \in [Devices -> BOOLEAN]
    /\ syncEvent \in [Devices -> Event \cup {NoEvent}]
    /\ pending \in Seq(Event)
    /\ playing \in BOOLEAN
    /\ replay \in (Devices \X Windows) \cup {NoReplay}
    /\ passive \subseteq PassiveGrabs
    /\ down \in [Devices -> SUBSET Details]
    /\ last \in [Devices -> 0..MaxEvents]
    /\ generated \in 0..MaxEvents
    /\ window \in {"mapped", "unmapped", "gone"}
    /\ cstate \in [Clients -> {"running", "gone", "freed"}]
    /\ closing \in Clients \cup {NoClient}
    /\ walk \in Seq(Devices)
    /\ goal \in {"none", "unmap", "delete", "release"}

\* A device is frozen exactly while it is frozen by its own grab or by the
\* grab of the paired device; that grab is the active one, never a freed one
\* (CheckGrabForSyncs, AllowSome and FreezeThisEventIfNeededForSyncGrab
\* dereference sync.other and deviceGrab.grab); and a device that is not
\* grabbed is in no grab state.
FreezeHasGrab ==
    \A d \in Devices :
        /\ frozen[d] = (other[d] # NoGrab \/ st[d] \in FrozenStates)
        /\ other[d] # NoGrab => other[d] = grab[Paired(d)]
        /\ (st[d] = "not_grabbed") = (grab[d] = NoGrab)

\* Between requests no event waits for a device that is not frozen: every
\* path that thaws a device plays what waited for it.
NothingOverdue == Idle => Playable = {}

\* The events of a device are processed in the order they happened in: an
\* event that waits is later than any that was processed, and the event that
\* ReplayPointer and ReplayKeyboard send on, of which there is one, is the last
\* that the device processed.
InOrder ==
    /\ \A i \in 1..Len(pending) :
          /\ pending[i].id > last[pending[i].dev]
          /\ \A j \in 1..i-1 : pending[j].id < pending[i].id
    /\ \A d \in Devices : st[d] = "frozen_with_event" =>
          syncEvent[d] # NoEvent /\ syncEvent[d].id = last[d]

\* Between requests nobody holds a grab on a window that cannot be seen or
\* was freed, whatever was played while it was unmapped.  A client that is
\* gone holds no grab, except a passive one of the client that created the
\* window: deleting the window can end the grab of another client, and what is
\* played then can activate a passive grab that FreeClientResources has not
\* come to yet.
GrabsHaveOwners ==
    /\ Idle => \A d \in Devices : grab[d] # NoGrab => grab[d].win \in SpriteTrace
    /\ \A d \in Devices : grab[d] # NoGrab /\ ~Running(grab[d].client) =>
          grab[d].passive /\ grab[d].client = Owner /\ window # "mapped"

\* The same without the exception, once the client is freed: "Deactivate grabs
\* from any device that has been grabbed by the client" (ReleaseActiveGrabs).
\* If the grab is synchronous, nobody is left to thaw the device.
NoGrabOfFreedClient ==
    \A d \in Devices : grab[d] # NoGrab => cstate[grab[d].client] # "freed"

\* A bound on the steps that are left before the server is idle again: an
\* event to play outweighs the grab it may activate, and a grab outweighs the
\* pass that ends it.
Phase ==
    IF closing = NoClient THEN 0
    ELSE IF Running(closing) THEN 8
    ELSE CASE window = "gone" -> 2 [] goal = "delete" -> 4 [] OTHER -> 6

OneIf(p) == IF p THEN 1 ELSE 0

Work ==
    100 * (Len(pending) + OneIf(replay # NoReplay))
      + 10 * (OneIf(grab["ptr"] # NoGrab) + OneIf(grab["kbd"] # NoGrab))
      + Cardinality(passive) + Phase
      + OneIf(playing) + OneIf(goal # "none")
      + OneIf(goal = "release" /\ walk # ReleaseWalk)

\* Playing, and the loops that end grabs until there is none, come to an end
\* although every event they play can start another grab: no step of the
\* server on its own can be repeated forever.  (That there always is a step
\* until it is idle is the absence of deadlock.)
RequestsEnd == [][~Idle => Work' < Work]_vars
=============================================================================
