---------------------------- MODULE MiEventQueue ----------------------------
(***************************************************************************)
(* mi/mieq.c: the circular buffer between event generation (the input      *)
(* thread, and the main thread when it warps the pointer) and event        *)
(* processing (mieqProcessInputEvents, on the main thread), together with  *)
(* the main-thread operations that must not leave an event of a dead       *)
(* device in it (dix/devices.c: DisableDevice, RemoveDevice;               *)
(* config/config.c: remove_device).                                        *)
(*                                                                         *)
(* The input lock is a recursive mutex (os/inputthread.c).  The input      *)
(* thread enqueues with the lock held, so its mieqEnqueue is one step that *)
(* needs depth = 0; the main thread's holds are counted by depth, because  *)
(* remove_device relies on them nesting.                                   *)
(*                                                                         *)
(* An InternalEvent is the device it originated from, whether it is a      *)
(* motion event, its time stamp, and a serial number that tells events     *)
(* apart.  Screens, handlers and the copy sent to the master device are    *)
(* left out: the queue stores them and never looks at them.                *)
(***************************************************************************)
EXTENDS Integers, FiniteSets, Sequences

CONSTANTS
    Devices,       \* the input devices present at start-up
    NoDevice,      \* lastMotion = 0: the last event was not a motion event
    NoEvent,       \* an unused slot; the main thread processing nothing
    Times,         \* time stamps, in milliseconds
    JumpWindow,    \* 10000: a larger step back is a clock reset, let through
    InitialSize,   \* QUEUE_INITIAL_SIZE
    Sizes,         \* the sizes InitialSize << k an allocation can succeed for
    WordSize,      \* 2^32: the arithmetic of "unsigned int oldtail"
    MaxEvents      \* bound: how many events are generated

ASSUME DevicesAssumption == NoDevice \notin Devices
ASSUME TimesAssumption == Times \subseteq Nat
ASSUME SizesAssumption ==
    /\ Sizes \subseteq Nat
    /\ InitialSize \in Sizes
    /\ \A n \in Sizes : n > 1
ASSUME WordSizeAssumption ==
    WordSize \in Nat \ {0} /\ \A n \in Sizes : WordSize % n = 0
ASSUME BoundsAssumption ==
    MaxEvents \in Nat \ {0} /\ JumpWindow \in Nat

Event == [id : 1..MaxEvents, dev : Devices, motion : BOOLEAN, time : Times]

ASSUME NoEventAssumption == NoEvent \notin Event

VARIABLES
    head, tail,      \* miEventQueue.head, .tail
    nevents,         \* miEventQueue.nevents, the number of slots
    slots,           \* miEventQueue.events[i].events (and .pDev)
    lastMotion,      \* miEventQueue.lastMotion
    lastEventTime,   \* miEventQueue.lastEventTime
    dropped,         \* miEventQueue.dropped
    generated,       \* how many events were handed to mieqEnqueue
    live,            \* history: serial numbers accepted and still owed
    depth,           \* main thread: input_lock() calls not yet undone
    pc,              \* main thread: where it is
    cur,             \* main thread: the event taken off the queue
    task,            \* main thread: what it drains the queue for
    target,          \* main thread: the device it disables or removes
    present,         \* devices not yet freed
    enabled          \* devices with dev->enabled

queueVars == <<head, tail, nevents, slots, lastMotion, lastEventTime>>
threadVars == <<depth, pc, cur, task, target>>
deviceVars == <<present, enabled>>
vars == <<queueVars, dropped, generated, live, threadVars, deviceVars>>

-----------------------------------------------------------------------------
(* The buffer.                                                             *)

\* mieqNumEnqueued, of a buffer of n slots.
NumIn(h, t, n) ==
    LET k == t - h + n
    IN  IF k >= n THEN k - n ELSE k

NumEnqueued == NumIn(head, tail, nevents)

\* The waiting events, oldest first: what a buffer stands for.
Ring(s, h, t, n) == [i \in 1..NumIn(h, t, n) |-> s[(h + i - 1) % n]]

Contents == Ring(slots, head, tail, nevents)

GrownInPlace(s, h, n) ==
    [i \in 0 .. 2 * n - 1 |-> IF i < n THEN s[i] ELSE NoEvent]

\* The two copies of mieqGrowQueue: from head to the end of the old array,
\* then its beginning; the new part holds no event yet.
Grown(s, h, n) ==
    [i \in 0 .. 2 * n - 1 |-> IF i < n - h THEN s[h + i]
                              ELSE IF i < n THEN s[i - (n - h)]
                              ELSE NoEvent]

StoreUnwrapped(e, s, n, i) ==
    /\ slots' = [s EXCEPT ![i] = e]
    /\ nevents' = n
    /\ tail' = i + 1
    /\ lastMotion' = IF e.motion THEN e.dev ELSE NoDevice
    /\ lastEventTime' = e.time

\* The common end of mieqEnqueue: fill slot i of the array s of size n.  The
\* correction of a time that goes backwards is applied to the caller's copy
\* after the memcpy, so the slot and lastEventTime get the original time.
Store(e, s, n, i) ==
    /\ slots' = [s EXCEPT ![i] = e]
    /\ nevents' = n
    /\ tail' = (i + 1) % n
    /\ lastMotion' = IF e.motion THEN e.dev ELSE NoDevice
    /\ lastEventTime' = e.time

MergesBlindly(e) == e.motion /\ lastMotion = e.dev

\* lastMotion outlives the event it describes: only the last test tells
\* that the event is still there to be overwritten.
Merges(e) == e.motion /\ lastMotion = e.dev /\ tail # head

Full == NumEnqueued + 1 = nevents

\* oldtail is unsigned: from 0 it wraps to WordSize - 1.
LastSlot == ((tail - 1) % WordSize) % nevents

\* A motion event overwrites the motion event waiting at the end.
MergeMotion(e) ==
    /\ Merges(e)
    /\ Store(e, slots, nevents, LastSlot)
    /\ live' = (live \ {slots[LastSlot].id}) \cup {e.id}
    /\ UNCHANGED <<head, dropped>>

AppendEvent(e) ==
    /\ ~Merges(e)
    /\ ~Full
    /\ Store(e, slots, nevents, tail)
    /\ live' = live \cup {e.id}
    /\ UNCHANGED <<head, dropped>>

GrowAndAppend(e) ==
    /\ ~Merges(e)
    /\ Full
    /\ 2 * nevents \in Sizes
    /\ Store(e, Grown(slots, head, nevents), 2 * nevents, NumEnqueued)
    /\ head' = 0
    /\ live' = live \cup {e.id}
    /\ UNCHANGED dropped

\* The array cannot be allocated: the event is tossed.
Toss(e) ==
    /\ ~Merges(e)
    /\ Full
    /\ dropped' = dropped + 1
    /\ UNCHANGED <<queueVars, live>>

\* mieqEnqueue with the lock held: by the input thread when the main thread
\* does not hold it, or by the main thread while it handles an event.
mieqEnqueue(d, m, t) ==
    LET e == [id |-> generated + 1, dev |-> d, motion |-> m, time |-> t]
    IN  /\ depth = 0 \/ pc = "handle"
        /\ d \in enabled
        /\ generated < MaxEvents
        /\ generated' = generated + 1
        /\ MergeMotion(e) \/ AppendEvent(e) \/ GrowAndAppend(e) \/ Toss(e)
        /\ UNCHANGED <<threadVars, deviceVars>>

-----------------------------------------------------------------------------
(* The main thread.                                                        *)

PendingButLast == NumEnqueued > 1

\* The condition of the loop in mieqProcessInputEvents.
Pending == head # tail

\* input_lock() and the entry of mieqProcessInputEvents.
StartDraining(t, d) ==
    /\ pc = "dispatch"
    /\ pc' = "loop"
    /\ task' = t
    /\ target' = d
    /\ dropped' = 0
    /\ UNCHANGED <<queueVars, generated, live, cur, deviceVars>>

mieqProcessInputEvents == StartDraining("none", NoDevice) /\ depth' = depth + 1

\* One turn of the loop takes an event and gives the lock up to handle it.
Dequeue ==
    /\ pc = "loop"
    /\ Pending
    /\ cur' = slots[head]
    /\ head' = (head + 1) % nevents
    /\ live' = live \ {slots[head].id}
    /\ depth' = depth - 1
    /\ pc' = "handle"
    /\ UNCHANGED <<tail, nevents, slots, lastMotion, lastEventTime, dropped,
                   generated, task, target, deviceVars>>

\* mieqProcessDeviceEvent looks at cur.dev->enabled and returns, or runs the
\* device's and its master's processInputProc; either way the loop goes on
\* with the lock held again.
HandleEvent ==
    /\ pc = "handle"
    /\ cur' = NoEvent
    /\ depth' = depth + 1
    /\ pc' = "loop"
    /\ UNCHANGED <<queueVars, dropped, generated, live, task, target,
                   deviceVars>>

\* The queue is empty: unlock, and on to what it was drained for.
Drained ==
    /\ pc = "loop"
    /\ ~Pending
    /\ depth' = depth - 1
    /\ pc' = CASE task = "none" -> "dispatch"
               [] task = "disable" -> "off"
               [] task = "remove" -> "free"
    /\ UNCHANGED <<queueVars, dropped, generated, live, cur, task, target,
                   deviceVars>>

\* DisableDevice drains the queue before it ends the touches of the device...
DisableDevice(d) ==
    /\ d \in enabled
    /\ StartDraining("disable", d)
    /\ depth' = depth + 1

\* ...and only then takes the lock to turn the device off.
DeviceOff ==
    /\ pc = "off"
    /\ enabled' = enabled \ {target}
    /\ pc' = "dispatch"
    /\ UNCHANGED <<queueVars, dropped, generated, live, depth, cur, task,
                   target, present>>

EnableDevice(d) ==
    /\ pc = "dispatch"
    /\ d \in present \ enabled
    /\ enabled' = enabled \cup {d}
    /\ UNCHANGED <<queueVars, dropped, generated, live, threadVars, present>>

RemoveUnlocked(d) ==
    d \in present /\ StartDraining("remove", d) /\ depth' = depth + 1

\* remove_device takes the lock before it drains the queue and keeps it, so
\* that nothing is enqueued until the device is gone.
remove_device(d) ==
    d \in present /\ StartDraining("remove", d) /\ depth' = depth + 2

\* RemoveDevice: disable (the queue stays empty, the lock is held), free,
\* and unlock.
RemoveDevice ==
    /\ pc = "free"
    /\ present' = present \ {target}
    /\ enabled' = enabled \ {target}
    /\ depth' = 0
    /\ pc' = "dispatch"
    /\ UNCHANGED <<queueVars, dropped, generated, live, cur, task, target>>

-----------------------------------------------------------------------------
Init ==
    /\ head = 0 /\ tail = 0
    /\ nevents = InitialSize
    /\ slots = [i \in 0 .. InitialSize - 1 |-> NoEvent]
    /\ lastMotion = NoDevice
    /\ lastEventTime \in Times
    /\ dropped = 0 /\ generated = 0 /\ live = {}
    /\ depth = 0 /\ pc = "dispatch" /\ cur = NoEvent
    /\ task = "none" /\ target = NoDevice
    /\ present = Devices /\ enabled = Devices

MainStep ==
    \/ Dequeue
    \/ HandleEvent
    \/ Drained
    \/ DeviceOff
    \/ RemoveDevice

Next ==
    \/ \E d \in Devices, m \in BOOLEAN, t \in Times : mieqEnqueue(d, m, t)
    \/ mieqProcessInputEvents
    \/ MainStep
    \/ \E d \in Devices : DisableDevice(d) \/ EnableDevice(d) \/ remove_device(d)

Spec == Init /\ [][Next]_vars

\* The main thread finishes what it starts, and Dispatch() comes back to
\* ProcessInputEvents() (dix/dispatch.c: InputCheckPending).
FairSpec == Spec /\ WF_vars(MainStep) /\ WF_vars(mieqProcessInputEvents)

-----------------------------------------------------------------------------
(* What the queue must do.                                                 *)

TypeOK ==
    /\ nevents \in Sizes
    /\ head \in 0 .. nevents - 1
    /\ tail \in 0 .. nevents - 1
    /\ slots \in [0 .. nevents - 1 -> Event \cup {NoEvent}]
    /\ lastMotion \in Devices \cup {NoDevice}
    /\ lastEventTime \in Times
    /\ dropped \in Nat
    /\ generated \in 0 .. MaxEvents
    /\ live \subseteq 1 .. MaxEvents
    /\ depth \in 0 .. 2
    /\ pc \in {"dispatch", "loop", "handle", "off", "free"}
    /\ cur \in Event \cup {NoEvent}
    /\ task \in {"none", "disable", "remove"}
    /\ target \in Devices \cup {NoDevice}
    /\ enabled \subseteq present /\ present \subseteq Devices

\* Every event mieqEnqueue accepted is in the buffer until it is handed to
\* the main thread or superseded by a later motion event, and nothing else
\* is: no slot is overwritten, skipped or read twice, through wrap-around,
\* growth and merging.
NoEventLost == live = {Contents[i].id : i \in 1..NumEnqueued}

\* No event in the buffer, and none being handled, belongs to a device that
\* was freed: mieqProcessDeviceEvent dereferences dev->enabled.
NoDanglingDevice ==
    /\ \A i \in 1..NumEnqueued : Contents[i].dev \in present
    /\ cur # NoEvent => cur.dev \in present

\* The circular buffer implements the first-in first-out queue.
Fifo == INSTANCE EventFifo WITH q <- Contents
ImplementsFifo == Fifo!Spec

\* Every accepted event is eventually handed to the main thread or
\* superseded (WaitForSomething and Dispatch keep draining the queue).
EveryEventLeaves ==
    \A i \in 1..MaxEvents : (i \in live) ~> (i \notin live)
=============================================================================
