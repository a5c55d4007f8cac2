# A TLA+ model of the XLibre server

This directory is a verification development for the X server in `src/`: TLA+
modules that model the parts of the server where interleavings, recursion and
object lifetimes make testing hard, TLC configurations that check them on small
instances, and TLAPS proofs of the most important results for every value of
the parameters. `PROJECT.json` lists the components, the runs, the lines of the
source that each definition models, the hazards, and the theorems.

## 1. The system

The server is one process with two threads. The **main thread** runs
`Dispatch()` (`dix/dispatch.c`): it waits for clients and timers
(`WaitForSomething`, `os/WaitFor.c`), processes input events, and carries out
one request after another. The **input thread** (`os/inputthread.c`) reads the
input devices and puts events into a queue. What they share is protected by one
recursive lock (`input_lock`). Everything else is single-threaded, but it is not
sequential in the sense that one can read it from top to bottom: a request calls
a handler, which ends a grab, which plays events that waited, which activate
other grabs; a counter changes, which fires a trigger, which frees the list
that is being walked. Requests of several clients interleave, and a client can
go away at any moment with all its resources, freed in the order of a hash table.

### Components, their state and operations

| component | state | operations | what must hold |
|---|---|---|---|
| event queue, `mi/mieq.c` | circular buffer with head, tail, last motion, time stamps | enqueue (either thread), drain (main thread), grow | a FIFO; nothing lost or read twice; no event of a freed device; it is drained |
| device lifecycle, `dix/devices.c`, `config/config.c` | devices present, enabled | enable, disable, remove | no event of a device outlives it |
| input thread, `os/inputthread.c` | device list, ospoll set, two pipes | register, unregister, wait, read, shut down | the poll set follows the list; no read of an unregistered device; no lost wake-up; shutdown ends |
| grabs, `dix/events.c`, `dix/grabs.c` | active and passive grabs, freeze states, events that wait | grab, ungrab, AllowEvents, device events, unmapping, closing | a frozen device has a live grab that freezes it; thawed events are played, in order; playing ends |
| SYNC, `Xext/sync/sync.c`, `miext/sync/misync.c` | counters, fences, alarms, Awaits, trigger lists | create, change, trigger, await, destroy | no freed trigger on a list; exactly the right clients are released; alarm arithmetic does not wrap; loops end |
| client lifecycle, `dix/dispatch.c`, `dix/resource.c` | client states, resource table | close down, free resources | a client that is gone holds nothing |
| connections and dispatch, `os/connection.c`, `os/io.c`, `os/ospoll.c`, `dix/dispatch.c`, `dix/dixutils.c` | lists of ready and saved clients, ignore counts, input buffers, server grab, sleeping clients, work queue | read a request, reset it, ignore, attend, grab and ungrab the server, sleep, wake up, abort, close | no input is forgotten; requests are neither lost nor split; a server grab excludes; ignored clients come back |
| waiting, `os/WaitFor.c` | sorted list of timers, 32-bit clock | set, cancel, free, force, expire | timers fire once and in order across the wrap of the clock; the server does not sleep past one |
| screen saver and DPMS, `os/WaitFor.c`, `Xext/dpms`, `Xext/saver` | one timer for both, settings, suspensions, time of the last input | expire, light, force, suspend, change settings | a lit screen is watched, an idle one goes dark, no other one does |
| XDMCP, `os/xdmcp.c` | session state, timer | query, request, manage, keep-alive | retransmissions are bounded; late answers do not disturb a session; silence is noticed |
| Present, `Xext/present` | vblanks on two queues, the flip that is pending, the one that is shown, an unflip | present, vblank and flip events, fences, checks of windows, destroying them | the pixmap on the display is held; flips and unflips take turns; only full-screen windows flip; each request completes, once |
| touch, gestures, `dix/touch.c` | listeners and ownership | accept, reject, replay | each touch has one owner |

The rest (RandR, Render, GLX, XKB, RECORD, drawing, hardware layers, ...) is
listed in `PROJECT.json` with the reason why it is not modelled.

### How they interact

Devices are read by the input thread (`InputThread`), which enqueues events
(`MiEventQueue`); the main thread dequeues them and processes them, which
activates and ends grabs (`SyncGrabs`); requests change grabs, windows and
counters; closing a client frees windows, grabs, counters, alarms and Awaits
(`SyncGrabs`, `SyncCounters`); removing a device drains the queue under the
input lock (`MiEventQueue`). All these requests get to their procedures through
the lists of ready clients (`Clients`). Between requests the server waits and
runs timers (`Timers`); the screen saver (`ScreenSaver`) and XDMCP (`Xdmcp`) are
two users of them, which rely on what `TimerSpec` promises and nothing more: a
timer that is set is run once, when it is due, unless it is set or cancelled
before. `Present` is called by requests, by the events of the display driver, by
windows that change and by fences: `miSyncTriggerFence` runs the triggers of
SYNC's Awaits (`SyncCounters`) and of Present with one loop.

### What is hard

* two threads on a ring buffer whose compression looks at an entry that may
  have been taken already;
* a list that is edited by one thread and polled by the other, with file
  descriptors that are used again;
* `ComputeFreezes`, which plays events while it is itself being called by what
  the events do, and callers that go on afterwards with what they read before;
* loops over lists whose elements free their neighbours;
* arithmetic at the ends of the 64-bit range and at a delta of 0;
* requests that fail half way;
* a sorted list under a clock that wraps and may be set back, edited by the
  callbacks that are called while it is walked;
* polling that tells of an event once, so that everything that takes a client
  off a list has to remember that there was something to read;
* datagrams that are lost, late, repeated and from anybody;
* one timer with several masters, any of which may leave it unset;
* pixmaps that are shown by hardware which is told now and obeys later, while
  windows move, are destroyed, or ask for the next pixmap;
* closing a client in the middle of all this.

`PROJECT.json` lists each hazard at its line, with the properties that cover it.

## 2. Plan

Done: `MiEventQueue` with `EventFifo`; `InputThread`;
`SyncGrabs`; `SyncCounters` with `SyncTriggers` and `AwaitSpec`; `Timers` with
`TimerSpec`; `ScreenSaver`; `Xdmcp`; `Clients`; `Present`; proofs about all of them.

Next, in this order:

1. **SyncSystem**: system counters (SERVERTIME, IDLETIME) on top of
   `SyncTriggers` and `TimerSpec`: brackets, `QueryValue`, block and wakeup
   handlers. Questions: does a bracket always wake the server up in time, and
   can a query between two handlers hide a transition?
2. **Touch**: ownership and its listeners.
3. **Present, more of it**: fences that are triggered again after a reset, several
   crtcs, TearFree, syncobjs of DRI3.
4. **Clients, more of them**: clients that are retained (`closeDownMode`),
   output buffers, priorities; then the composition with the closing in
   `SyncGrabs` and `SyncCounters`.

## 3. Modules

### EventFifo, MiEventQueue

`EventFifo` is the abstract queue: events leave in the order they came in, but
a motion event may replace the motion event of the same device that is last.
`MiEventQueue` is the circular buffer. `head`, `tail`, `nevents`, `slots`,
`lastMotion`, `lastEventTime` and `dropped` are the fields of `miEventQueue`.
`mieqEnqueue` has one case per path of the function (merge, append, grow, toss)
and is one step, because the callers hold the lock; `depth` counts the main
thread's holds of the recursive lock. The main thread drains with `Dequeue`,
`HandleEvent` and `Drained`, giving the lock up while an event is handled, as
the code does, so the input thread (or a handler that warps the pointer)
enqueues in between. `DisableDevice`, `DeviceOff`, `EnableDevice`,
`remove_device` and `RemoveDevice` are the device operations that race with it.
`live` is a history variable: the serial numbers of the events that were
accepted and are still owed. `oldtail` is unsigned in the code; `LastSlot` keeps
the wrap-around at `WordSize`.

### InputThread

`devs` is the list of `InputThreadDevice` entries in order; `ptr` stands for the
address of an entry, which `ospoll` keeps (`polled`). Critical sections are one
step; `changed` is read without the lock, as in the code. The hotplug pipe and
the notify pipe are byte counts. The main thread edits the list and then writes
a byte (`WakeThread`); the input thread checks, applies (`Applied` is its pass over
the list), waits, calls back, and
writes a byte (`NotifyMain`, which blocks when the pipe is full: only its read
end is non-blocking). `InputThreadFini` closes the hotplug pipe and joins.

### SyncGrabs

The master pointer and keyboard, the root window and one other window.
`grab`, `st`, `other`, `frozen` and `syncEvent` are the fields of `deviceGrab`
of each; `pending`, `playing`, `replay` those of `syncEvents`. The recursion
of `ComputeFreezes` is a loop: inner calls find `playingEvents` set and only
refresh the flags. What a caller of `DeactivateGrab` has left to do afterwards
(`ReleaseActiveGrabs`, `DeleteWindowFromAnyEvents` walk over devices) is `walk`
with its `goal`. Actions: presses, releases and motion of either device, which
are processed or wait; `GrabDevice`, `UngrabDevice`, `AllowSome`, `AllowReplay`
(all modes of AllowEvents), `GrabButtonOrKey`, `UngrabButtonOrKey`; mapping,
unmapping and destroying the window; `CloseDownClient` with the freeing of
windows and passive grabs in any order.

Abstractions: the focus is PointerRoot; passive grabs are on any button and any
key; whether an event reaches the holder of a pointer grab depends on its event
mask, which is left open; a state of FROZEN_WITH_EVENT is assigned in the step
that activates the grab; the sprite is recomputed when an event is played, so an
unmapped window is never under the pointer; clients close with DestroyAll. Time
stamps, touches, gestures, XI2 grabs, slave devices, confinement and failing
allocations are left out.

### SyncTriggers, AwaitSpec, SyncCounters

`SyncTriggers` has the five tests and the checked addition, over any range
`MinInt..MaxInt` of a two's complement width. `AwaitSpec` is the promise of
Await: a client whose conditions are all false is blocked; the step in which one of
them becomes true, or its object is destroyed, makes its release `due`; all that are
due are released (`Resume`) before anything else happens, and nothing releases any
other client but the end of its own connection (`Leave`, once per client).
`SyncCounters` is the implementation: `triglist` has the triggers on each object,
`doing` the loop that is under way with the node it looks at (`next`), and the
loop takes a step per node. After an Await fires, all its triggers are gone;
`GoOn` restarts at the head if `next` was among them. `SyncAlarmTriggerFired`
is `FiredAlarm`; the number of times it adds delta is the smallest member of
`Additions`, and `Ends` says that there is one. `SyncChangeAlarmAttributes` is
split into what it stores (`Stored`), what `SyncInitTrigger` does, and the error
paths (`ChangeAlarmFails`), which keep what was stored before the error. One of them
is a value type that is neither absolute nor relative (`BadValueType`): it is refused
after delta and the rest of the trigger were stored.

Abstractions: lists are sets, so the loops meet the triggers in any order (the
order is that in which clients asked); a node whose `pTrigger` is NULL is not in
the set; events, thresholds and event selection are not recorded; access checks
and failing allocations are left out; client counters only. A loop that does not
end is a state in which the step is not enabled, and `AlarmUpdateEnds` says that
there is none. The server may be idle forever (`WaitForSomething`).

### TimerSpec, Timers

`TimerSpec` is what users of timers may rely on: an armed timer counts down; its
callback is called once per arming, in the order of what is left, not before
the count is used up (by more than the clock was set back), and the server
does not sleep past it. Users and timers take turns: requests and callbacks set,
disarm and force timers (`Users`); at the timers' own turn nothing but `Expire`
touches one, so a timer that the loops lose, run early or run out of order is not a
step of `TimerSpec`. What a call of a user may do is said call by call
(`CallsKeepPromise`): `TimerSet`, `TimerCancel`, `TimerFree` and `TimerForce` do to
the timer they name what `Set`, `Disarm` and `Force` do, and nothing to the others.
`Timers` is the list of `os/WaitFor.c`: `timers` is
the order, `rec` the fields `expires` and `delta`, `clock` a CARD32 of `2 * Half`
values. `Plus`, `Minus` and `Signed` are the arithmetic of the code, and every
comparison is made the way the code makes it: as a signed difference in
`TimerSet`, `check_timers` and `DoTimers`, as unsigned in `CheckAllTimers`. The
loops take a step per callback, and between two steps the callbacks (`stack`)
call `TimerSet`, `TimerCancel`, `TimerFree` and `TimerForce` on any timer, their
own too; `Return` is the second half of `DoTimer`. `now` is the time `DoTimers`
was called with and does not read again. `wait` is what `ospoll_wait` was given.

Abstractions: the server is at most `MaxLag` late for a timer, since half of the
clock's range is 24 days; `TimerForceOld` and `TimerAbsolute` have no users; a
freed timer that is set again is a new one.

### ScreenSaver

`timer` is `ScreenSaverTimer` as `TimerSpec` counts it. `idle` is the time since
the last input of all devices; `lag` is how old the `now` is that the callback
of the round is given. `ScreenSaverTimeoutExpire` is the whole callback, with
`Deepest` for the three uses of `DPMS_CHECK_MODE`, `NextDPMSTimeout`, and
`Sooner` for the minimum in which 0 means never. `Reached` makes the comparison
of an INT32 with a CARD32. One action per request: `ProcSetScreenSaver`,
`ForceReset`, `ForceActive`, the four of DPMS, suspending and resuming (of
clients that close, too), the loss of a client's saver window, a server reset.
`ProcessInput` is what `mieqProcessInputEvents` does to a dark screen. `lapsed`
is a history variable: the saver was reset in a power saving mode and the display
has not been on with the timer set since (see section 5).

Abstractions: windows of savers, notifications, blanking preferences and access
control are left out; times are small numbers instead of milliseconds.

### Xdmcp

The variables are the globals of `os/xdmcp.c`. `sent` is the set of packets that
the display has sent. The network is not in the code: `Receive` lets an answer to
any of them arrive at any time, any number of times, or never, so that loss,
delay, duplication and reordering need no actions of their own. What managers
answer (`Answers`) is external and follows the protocol; `Junk` is what does not
parse. `XdmcpTimerNotify` is the timer's callback: `timeout` counts, gives up, or
repeats what the state waits for (`Resend`, with the next address of a name that
has several). Each `recv_` function is an operator; `Ignored` are its early
returns. `XdmcpOpenDisplay` and `XdmcpCloseDisplay` are called for all client
connections. The behaviour ends when the server terminates: a reset would begin
again at `XdmcpInit`.

Abstractions: packets carry who and which session, not their layout;
authentication has an outcome only; sending may fail, but only where the code
looks at it.

### Clients

`s` is what the main thread keeps about clients, in one record so that the
functions of the source, which call each other, are functions here: each takes
a server and returns one (`AttendClient`, `UngrabServer`, `CloseDownClient`,
`ResetCurrentRequest`, ...). `s.list` says if the client's `ready` entry is on
`ready_clients`, on `saved_ready_clients` or nowhere; `s.armed` says if `ospoll`
would tell of input: with epoll the kernel arms a descriptor when input comes,
with poll `ospoll_reset_events` and `ospoll_wait` do. `phase` goes round
`WaitForSomething` (work queue, poll) and `Dispatch` (pick, serve). `DoRequest`
reads a request and executes it: those that change the lists are modelled, any
other is `OtherRequest`, whose reply may fail to be written. `s.buf` and `s.avail`
are the input buffer and `AvailableInput`. The indices of clients are those of
`clients[]`, so `NextWaiter` searches the words of `grabWaiters` as the source does,
and `CloseAborted` closes the stragglers in the order of the loop. Its specification
is named `ClientsSpec`, so that one module of proofs can extend it and `Timers`.

Abstractions: output other than its failure, retained clients, requests that do
not fit the buffer, connection setup and priorities are left out; a request is
`ReqLen` units. A client that sleeps is signalled by anyone, at any time of the main
thread, while a request of another client is executed too, and again before the work
queue is processed (up to `MaxWork` times), so that a work procedure can find its
client attended already.

### Present

`s` is what the extension and the driver keep, again in one record: the fields of
each `present_vblank` (`s.vblank`), `present_exec_queue` and `present_flip_queue`
(`s.exec`, `s.flips`), the vblanks of each window (`s.list`), and of the screen
`flip_pending`, `unflip_event_id`, `flip_pixmap` and `flip_window`. `s.pixmapOf` is
`GetWindowPixmap`, `s.full` the window whose clip list is the whole screen.
`s.armed`, `s.flipping`, `s.flipped` and `s.shown` are the driver and the
hardware. A vblank is known by the number of its request, which stands for its
event id, its pixmap and its wait fence.

The functions of the source are operators from a record to a record; a loop over a
list is a function of the number of its rounds. Since `present_execute`,
`present_unflip` and `present_flip_try_ready` call each other, `MakeVisible`,
`Execute` and `TryReady` take the state that the inner call leads to as a parameter.
The driver's answers are `d`: whether it allows a flip, makes it, takes a vblank
event, and whether an unflip sets the mode and is reported before the function
returns (`ms_present_unflip`), in which case the next flip starts inside of
whatever began the unflip. The recursion ends there: no window is flipped after an
unflip. `present_free_window_vblank` includes the taking back of the driver's
event. `missed` and `left` are history: flips that waited in a window when it
stopped covering the screen (`Cover`) and that no check has come to since, and flips
that `present_flip_try_ready` did not come to. `mistaken` is history as well:
`present_event_notify` has taken the event of a frame for the end of a flip
(`TakenForFlip`, see section 5). `Capabilities` are those of the driver:
`PresentOptionAsync` and `PresentOptionAsyncMayTear` are honoured only with the
capability; without it the flip is synchronous. `Abandoned` requests are those whose
wait fence was destroyed before it was triggered.
`wrong` collects assertions that failed and clients that were told twice.
`miSyncTriggerFence` is a step per trigger that fires (`firing`), and the server
does nothing else meanwhile.

Abstractions: one screen and one crtc; the windows are children of the root and
exactly as large as the pixmaps, except that at most one of them is not
obscured; a fence is of one request and triggered once; the clip lists change
and the windows are told in any order; regions, serials, times, notifies to other
windows, event selection, TearFree, fake vblanks, syncobjs and Composite are
left out.

### MC modules

`MCMiEventQueue`, `MCInputThread`, `MCSyncGrabs`, `MCSyncCounters`, `MCTimers`,
`MCScreenSaver`, `MCXdmcp`, `MCClients` and `MCPresent` give the constants small
values and define nothing else.

## 4. Runs

| run | result | what it shows |
|---|---|---|
| `mieq` | passes | two devices, buffer of 2 that can grow to 4 once and then tosses, 5 events: types, `NoEventLost`, `NoDanglingDevice`, the buffer implements `EventFifo`, and every event leaves |
| `thread` | passes | two descriptors, five calls, pipes of 3 and reads of 2 bytes: the poll set matches the list or a wake-up is under way (`PollMatchesList`), nothing is read after its removal, input is read, shutdown returns |
| `sync_grabs` | passes | two clients, three passive and two active grabs of all freezing modes, two buttons, one key, three events: freezes, order, grabs with owners and viewable windows (`GrabsHaveOwners`), and the end of playing |
| `sync_closed_grab` | violated | a client that was freed holds a grab |
| `sync_counters` | passes | three clients, two counters, a fence, an alarm, values -4..3: exact lists, updated alarms, ends of loops, and the implementation of `AwaitSpec`: those whose condition came true, and no others, are released |
| `sync_alarm_error` | violated | a failed ChangeAlarm leaves an alarm whose update does not end |
| `timers` | passes | two timers, callbacks in callbacks, a clock that wraps and is set back: an exact and sorted list, the implementation of `TimerSpec` (once, not early, in order, none lost), calls that touch only their timer, and timers that are due run |
| `saver` | passes | two clients, six calls in any order with the timer: the timer is set when it has to be and only then, the screen goes dark only when idle, and does when idle |
| `xdmcp` | passes | two managers, three sessions, two descriptors, all ways of looking: a session is of one manager and connected, is kept, and silence ends it |
| `clients` | passes | two clients, both backends of polling, server grabs, sleep with repeated wake-ups, imperviousness, failing output, closing: no input is lost or left in the shared buffer, grabs exclude, input is served |
| `present` | passes | three presents of two windows that cover the screen in turn and are destroyed, flips ahead of the next frame, a driver that refuses what it may: the pixmap on the display is held and flips and unflips are followed, in all that is said of the driver unless an event was mistaken; only full-screen windows flip; no request is forgotten but those left behind or abandoned by their fence |
| `present_fence` | violated | a flip that waited for a fence never completes |

### Bounds, and why they are enough

* `mieq`: five events fill the buffer, wrap it, make it grow from a position in
  the middle (the two copies of `mieqGrowQueue`), merge a motion event into the
  last slot when the tail is 0, and overflow it at its largest size. `WordSize`
  is 8, a multiple of the sizes, as 2^32 is. Proved without bounds as well.
* `thread`: five calls let one descriptor be registered, removed and registered
  again before the thread looks, with the other one in use. The notify pipe can
  fill up.
* `sync_grabs`: three events let one be processed, one freeze and one wait, and
  a press and a release wait together. Passive grabs of both clients on both
  windows make replays go from the window to the root, grabs activate while
  playing, and one client freeze the device of the other. The safety results
  are proved for any number.
* `sync_counters`: two clients can wait on the same counter with two conditions
  each, one of the same Await behind or before an alarm; the owner of the
  counter and fence can go away while others wait; 2 + 3 overflows, and delta 2
  runs into the end of the range. The lists and the refinement are proved
  without bounds. Alarm changes offered in this run are those
  that succeed, whose errors are found before anything is stored (a negative delta), or
  that leave only an invalid value type behind, which a later change of the value takes
  for relative; `sync_alarm_error` offers one that leaves more.
* `timers`: a clock of ten ticks wraps many times; delays of 1 and 2 and one of
  half the range (over at once), lateness 1 and a set-back of 1 keep all
  differences below half, as the assumption asks; a slack of 0 stands for the
  250 ms, so that a set-back of one tick is noticed. Two timers and a stack of
  two callbacks let a callback force, free, cancel or set the other timer or its
  own.
* `saver`: six calls suffice to darken, force a level, suspend twice, resume and
  light again. The times include one below that of an earlier mode, which the
  checks of the request let pass.
* `xdmcp`: the limits are the real ones (external, from the protocol's headers):
  intervals from 2 to 32 seconds, 7 timeouts, 4 for keep-alives, 180 seconds of
  dormancy. Two sessions of one manager and one of another let an old answer name
  the wrong session and the wrong manager. A descriptor is used again after it
  was closed.
* `clients`: a request of two units in a buffer of two is read in one piece or in
  two, with another request in the socket. Two clients, one of which may sleep
  and be clogged and the other become impervious, can hold the grab, wait for it,
  and close while the other is under way. Two wake-ups of the sleeping client let the
  first attend it, or close it, before the second is looked at. All but
  `InputIsServed` is proved for any number of clients.
* `present`: three presents are one that is shown, one that is pending and one
  that waits, or an aborted flip with two that wait. Two windows take the screen
  from each other. Frames 0 to 2 are enough for a flip that waits for its own vblank
  event, for one that is asked for two frames ahead while the driver fails to queue its
  event, and for the mistaken event of section 5. The driver can flip at once but not so
  that it may tear, so there are asynchronous flips that are honoured and others that are
  not. One fence is in use at a time. Flips
  that wait for fences are offered as well: the loop of `present_fence` is part
  of the run, and does not break the invariants. The invariants are proved for
  any number of requests, windows and frames.

The models check for deadlock, except `InputThread`, where shutting down can
really block on a full notify pipe, and `Xdmcp`, where the server ends.

### Fairness

* `MiEventQueue`: weak fairness of the main thread's steps and of
  `mieqProcessInputEvents`, because `Dispatch` calls `ProcessInputEvents`
  whenever `InputCheckPending` says so and every loop of it is finite. None of
  the input thread.
* `InputThread`: weak fairness of the input thread and of the main thread's
  pending steps (waking the thread, draining the notify pipe in
  `WaitForSomething`, joining): both are scheduled. None of registrations,
  shutdown or input.
* `SyncGrabs`, `SyncCounters`: none. That their loops end is stated as an action
  property: every step of the server on its own decreases `Work`, and the
  absence of deadlock says that there is a step until it is idle.
* `Timers`: time passes; the server comes back to `WaitForSomething` (strong
  fairness, since requests and callbacks may come before it again and again);
  the loops go on; callbacks return, and one does not return a delay that is over
  at once for ever, which would be an endless recursion in its own right.
* `ScreenSaver`: time passes and `DoTimers` runs when the timer is due and ends;
  that is what `timers` shows of `TimerSpec`. None of input and requests, which
  the bound ends.
* `Xdmcp`: weak fairness of `XdmcpTimerNotify`, for the same reason. None of the
  network, the managers and the clients.
* `Clients`: the main loop goes on (weak fairness of the work queue, of polling
  and of what follows a request). A slice is measured in time, so it ends even
  if its client has more requests (strong fairness of `EndSlice`).
  `SmartScheduleClient` goes round the ready clients of equal priority (strong
  fairness per client). None of what clients send and of who wakes them.
* `Present`: frames and page flips happen, the server reads the driver's events
  when it is not in a loop over triggers, and such a loop goes on (weak fairness
  of each). None of requests, windows and of who triggers a fence.

## 5. What disagrees with the source's own statements

1. `sync_closed_grab`: `CloseDownClient` releases active grabs before passive
   ones are freed (`events.c:1997`, with its own XXX comment); freeing a window
   can activate one in between.
2. `sync_alarm_error`: `SyncChangeAlarmAttributes` stores delta and trigger
   "when we're sure nothing else can go wrong" (`sync.c:934`), but
   `SyncInitTrigger` can still fail.
3. `present_fence`: `miSyncTriggerFence` starts again at the head of the list as
   long as a trigger fires (`misync.c:141-151`). Awaits are freed when they fire;
   Present's trigger says yes as long as it has a callback
   (`present_fence.c:46-51`), which nobody clears, and a vblank that starts a flip
   or is put behind another one lives on. The loop executes it again for ever.

Seen in passing, without a run:

* `BarrierFreeBarrier` and `remove_master_func` call `mieqEnqueue`, which "must be
  called with input_lock held" (`mieq.c:198-201`), before they take the lock
  (`xibarriers.c:707, 776`); an event that the input thread enqueues at the same
  time can be overwritten. `MiEventQueue` has the callers that hold the lock.
* Resetting the saver (ForceScreenSaver) in a power saving mode lights the screen
  but leaves the power level. The timer's callback then only looks at deeper
  levels and, if there is none, is not called again; when the level comes back to
  On nothing is saved, so `DPMSSet` does not set the timer (`dpms.c:290`), and the
  idle screen stays lit. The properties of `ScreenSaver` make an exception of it
  (`lapsed`).
* Present: nothing is checked while an unflip is under way
  (`present_scmd.c:445`), so a flip that waits for its end is made although its
  window has stopped covering the screen (`missed`). The same happens when the check
  itself begins an unflip that is done at once: `present_check_flip_window` unflips
  before it looks at what is queued (`present_scmd.c:461-477`), and the end of the
  unflip tries the flips that wait. `present_flip_try_ready`
  tries the first flip that waits; if that one is copied, skipped or waits for a
  frame, the others stay until the next flip ends (`left`). Destroying a
  window that is shown while a flip of another window is pending restores the
  pixmap of the latter (`present_scmd.c:532-534`). A wait fence that is destroyed
  counts as triggered, but nobody executes the vblank again
  (`present_fence.c:63-68`); `NobodyIsForgotten` makes an exception of it (`Abandoned`).
* Present: a flip that is asked for a frame ahead of the next one is executed at once
  if the driver fails to queue its event. If it then waits behind another flip, a
  frame passes, and the driver can queue events again, `present_execute_wait` queues
  one (`present_execute.c:69-75`) for a vblank that is on the flip queue. When that
  event comes the flip may have been given to the driver, and `present_event_notify`
  takes it for the flip's completion (`present_scmd.c:402-408`): the pixmap before it
  is given back while it is shown, and the driver works on a flip that nobody waits for.
  The behaviour is part of the run `present`: `mistaken` becomes true in it, and with that
  the display may show what was given back (`ShownIsHeld`) and the driver may work on
  flips whose request is over (`FlipIsTracked`); all else that these two say holds all
  the same. `NeverMistaken` says which drivers are safe from it.
* `mieqEnqueue` copies the event before it corrects its time
  (`mieq.c:258-266`), so stored times can decrease, although the comment says
  "Make sure that event times don't go backwards". When `mieqGrowQueue` cannot
  initialise the new part it frees the events of all slots up to there
  (`mieq.c:148-154`), also those that the old array, which stays in use, still
  points to. `QUEUE_MAXIMUM_SIZE` is defined and never enforced, although
  `test/input.c` says "Now make it 4096 (max)".
* `InputThreadUnregisterDev` marks the first entry with the descriptor, also one
  that is being removed already (`inputthread.c:268`). `InputThreadFini` joins a
  thread that may be blocked in a write to the notify pipe
  (`inputthread.c:505-508`).
* `check_timers` decides from the first timer alone that the clock was set back;
  the others may wait longer than they asked for. A delay of 2^31 ms or more is
  over at once (`WaitFor.c:335`), which `security.c:275-280` takes care of.
* `ScreenSaverTimeoutExpire` compares a signed difference with an unsigned time
  (`WaitFor.c:427`): input made by another timer's callback later than the time
  `DoTimers` read makes it -1, and the screen goes dark at once.
  `DarkOnlyWhenIdleBefore` leaves this case out.
* `XdmcpOpenDisplay` does not reset `timeOutRtx`: after three repetitions of
  MANAGE, one keep-alive that is not answered ends the session. Late DECLINE and
  UNWILLING packets end a running session. `XdmcpDeadSession` sends a query
  though the server terminates. Any packet, from anyone, ends the backoff.
* `Dispatch` reads `client->noClientException` (`dispatch.c:575`) of a client that
  may have closed itself with KillClient. `UngrabServer` wakes one client that
  waits for the grab; if that client goes away before it repeats its GrabServer,
  the others are woken by the next UngrabServer only. `mark_client_grab` moves
  impervious clients to the saved list, too, and `MakeClientGrabPervious` leaves
  a client on the ready list, so that one more slice of it may run in the grab
  of another (`s.lapsed`).

## 6. Proofs

`MiEventQueueProofs`, from the assumptions on the constants in `MiEventQueue`
(sizes greater than 1 that divide the word size; any devices, any number of
events):

* `QueueInvariant`: `QueueInv`, which is `TypeOK`, the lock discipline (which
  program points hold the lock how often), and the well-formedness of the
  contents: serial numbers increase, they are exactly `live`, their devices are
  present, and `lastMotion` describes the last event if there is one. The
  last part is what `Merges` relies on; without it the invariant is not
  inductive, since merging would take a `live` number away that is not the last
  one's.
* From it `TypeCorrect`, `DevicesOutliveEvents`, `AcceptedEventsAreKept`, and
  `BufferImplementsFifo`: every step is a step of `EventFifo` or a stutter. The
  lemmas `RingAppend`, `RingReplace`, `RingTail` and `RingGrow` say what the
  buffer operations do to the sequence the buffer stands for.

`SyncGrabsProofs`, for any clients, grabs, keys, buttons and number of events:

* `FreezeInvariant`: `FreezeInv` is `GrabInv` (types of the grabs,
  `FreezeHasGrab`, and that a device frozen with an event has one) with the
  types of the rest and `ReplayHasEvent`. `FreezeHasGrab` is the heart: the
  code keeps a pointer `sync.other` to the grab of the other device, and the
  three ways in which that grab ends must all clear or overwrite it.
* `GrabTypes`, `FreezesAreHeld` follow.
* `EventsInvariant`: `EventsInv` adds `PlayInv` (if something could be played,
  the server is playing), `OrderInv` (waiting events are in order and later
  than what was processed) and `KeptInv` (the event that a frozen device keeps
  is its last). `PlayInv` is needed for the order: an event that is processed
  at once overtakes nothing only because nothing waits for a device that is
  not frozen.
* `ThawedEventsArePlayed` and `EventsStayInOrder` follow; the latter says of the
  event that is replayed as well that it is the device's last.
* `GrabsKeepOwners`: `OwnersInv` is what `GrabsHaveOwners` means in the middle of a
  request. `WinInv`: a grab on a window that cannot be seen is of a device that the
  walk of the unmapping has still to come to. `CloseInv`: which steps of closing a
  client play events. `GoneInv`: only a passive grab of the window's owner can become
  active after its client was closed.
* `GrabLoopsEnd`: the action property `RequestsEnd`. `Work` weighs an event to play
  above the grab that it may start and a grab above the pass that ends it, so every
  step of the server on its own decreases it. This needs passive grabs to be finitely
  many, which is an invariant, since they are made one by one.

`SyncCountersProofs`, for any clients, counters, fences, alarms and requests,
any two's complement width, and with the alarm changes that fail half way:

* `SyncInvariant`: `SyncInv` is `TypeOK`; `ListsInv`, which says trigger by
  trigger what is on a list; `GoneInv` (an object that is gone has no list);
  `LoopInv`, which ties the loop that is under way to the list it walks; and
  `AwaitInv` (a client that waits is ignored, a condition on a fence is tested
  as one, and the client being closed is no longer running). `LoopInv` is what
  makes the invariant inductive and the refinement true: the nodes still to be
  visited are on the list, and every Await that the loop has left behind does
  not fire. A restart at the head keeps this, and going on to a node that an
  Await took along would not.
* `SyncTypes` and `ListsStayExact` follow. That the new test value of an alarm
  is in range is part of the types: the sums that do not fit are the ones after
  which the alarm is inactive.

* `AwaitsAreKept`: the refinement of `AwaitSpec`. The first step of a loop is the
  abstract `Change` or `Destroy`, and `Released` says which clients the loop is going to
  release: they are the ones that are `due`. A later step of the loop in which the
  trigger of an Await fires is the `Resume` of its client, which therefore has to be
  `Released`; the other steps of a loop stutter, and when it ends no such client is left,
  by `LoopInv` for counters and by the empty list for fences and destroyed objects.
* `SyncLoopsEnd`: the action property `LoopsEnd`. `Work` weighs an Await, an alarm, an
  alarm on a counter and an object more than all the nodes of a list, so that a loop
  that starts again at the head is paid for by the Await that is gone. The measure
  needs `FiniteAssumption`: ids have a width and a request a length.
* `AlarmsStayUpdated`: `AlarmsAreUpdated`, of the behaviours in which a ChangeAlarm that
  returns an error leaves the alarm alone (`ErrorsStoreNothing`; `sync_alarm_error` shows
  what the others can do). `AlarmInv` says of each alarm that its test function is the one of the
  type asked for, that its delta has the right sign (`Matched`), that it is on a
  counter if it is active, and that its trigger is not true, unless the loop of
  SyncChangeCounter has still to visit it. `SoundEnds` is the termination of the loop
  that adds delta: a transition is false after one addition, and a comparison has a
  delta other than 0, which leaves the range of the integers at last.

`XdmcpProofs`, for any managers, sessions, descriptors, addresses and limits:

* `SessionInvariant`: `SessionInv` is the types, `SessionIsWhole` and
  `OneManagerIsAsked`: until a manager is chosen nobody has been asked for a
  session, and afterwards only that manager has. The display never goes back
  to choosing without ending the server, so an ACCEPT can only be of the chosen
  manager, however old it is. This is what `HostOwnsSession` lacks to be
  inductive, and why the missing checks of senders do no harm.
* `SessionStaysWhole` and `RunningSessionIsKept` follow.
* `XdmcpTypes`: the intervals between retransmissions stay in their range, although
  they are made by a shift (`Shifted`) of a count that is bounded elsewhere.

`ScreenSaverProofs`, for any clients, times and number of calls:

* `SaverInvariant`: `SaverInv` is `TypeOK`, `SuspensionHolds` and a bound of the
  counts of suspensions. `SaverTypes` follows: `DeepestLevel` says that a deeper
  mode than the one chosen has no time or one that is still to come, so the
  callback never asks for a negative time (`NextTime`).
* `TimerStaysKept`: `WatchInv` adds `PowerSaveIsSaved`, that a display in a power
  saving mode counts as saved. Without it `LitScreenIsWatched` is not inductive,
  since `DPMSSet` sets the timer only of a saved screen; the one step that breaks
  it is a reset of the saver in such a mode, which begins a lapse. `LapseEnds`
  says that both hold again when the lapse is over.
* `DarkOnlyWhenDeserved`: the action property, from the types.

`DispatchProofs`, its first half, for any number of clients, any sizes of requests,
buffers and sockets, and both backends of polling (`ClientsAssumption`):

* `ClientsHold`: `DispatchInv` is `Sane` of the record `s`, and `PhaseInv` (the client
  that is served is there and ready). `Sane` says client by client: nothing is kept for
  a client that is gone (`Absent`); it is ignored once for what it waits for
  (`Counted`); if it is on a list it is not ignored, and if it is ready it may run
  (`Listed`); a request in its buffer, input in its socket and failed output are not
  forgotten (`Kept`, `Heard`, `Found`); the spare buffer is empty (`Spare`). `Heard` is
  stronger than `NoInputLost` with poll: there a client that is not on a list has to be
  armed before input comes, since nothing arms it then. `NoInputLost` is not
  inductive without `Counted` and `Listed`: `AttendClient` puts the client
  back only when the last thing it waits for is over, and is right because it is the
  only one.
* A client whose output fails while its own request runs may be ignored once more
  and be on no list until `Dispatch` looks at it. That client is the parameter `x`
  of `Sane`, which is empty except after a request (`Excused`).
* There is a lemma per function (`AttendKeeps`, `UngrabKeeps`, `CloseDownKeeps`,
  `AbortKeeps`, ...), each from a record of which `Sane` holds to one of which it holds
  again, `Outcome` for requests, and a lemma per action. The loop of
  `EstablishNewConnections` is proved from its first round that fails.
* `ClientsTypes`, `InputIsKept` and `GrabIsExclusive` follow.

Its second half, for any timers, any width of the clock, and delays, lateness and
set-backs that together stay below half of its range (`TimersAssumption`):

* `TimersInvariant`: `TimersInv` is `TypeOK`; `ListInv` (each set timer is in the list
  once, in the order of what is left, and what is left is bounded); `SleepInv` (a
  sleeping server wakes up before the first timer is due); and `RoundInv` (the time
  that `DoTimers` was given is not far from the clock). The bounds in `ListInv` make
  signed differences of CARD32 values behave like those of integers
  (`DistanceDifference`, `TickDistance`, `RewindDistance`); without them a sorted list
  need not stay sorted when the clock wraps.
* `ListStaysExact` follows, and `TimersKeepPromise`: the refinement of `TimerSpec`, and
  the action property `CallsKeepPromise`. The loops of `DoTimers` and `CheckAllTimers` are
  the timers' turn, so each callback they call has to be an `Expire`: the head of a
  sorted list, or a timer that would wait for longer than was asked for.

`InputThreadProofs`, for any descriptors, pipe sizes and number of calls:

* `ThreadInvariant`: `ThreadInv` is `TypeOK`; `ListInv` (addresses differ, and of the
  entries with the same descriptor all but the last are being removed); `PollInv`
  (what the poll set leads to is in the list, what runs is polled); `UserInv` (the
  list is what was registered, and all of it runs when no change is pending); and
  `CallsInv`, which bounds the list and the pipe by the calls. `ListInv` is what
  makes the pass over the list right for a descriptor that was closed and is in use
  again: `PassKeeps` says what the pass leaves.
* `ThreadTypes`, `PollFollowsList` and `UnregisteredIsNotRead` follow.

`PresentProofs`, for any windows, requests, driver capabilities and answers, and number
of frames:

* `PresentInvariant`: `QueueInv` (a vblank is freed or on one queue, and if it is
  queued on the list of its window); `FlipInv` (the driver works on what the extension
  waits for, or, after a mistaken event, on strays whose request is over too, and a pixmap
  is held by one of the vblank, the screen and the client);
  `PixmapInv` (what the display shows and windows draw into is the pending pixmap, the
  current one or the screen's); `TimeInv` (with drivers that queue the events of flips
  asked for ahead, a flip has no event once its frame has come); `ExecInv` and `LeftInv`
  (what each request waits for); `CoverInv` (flips are
  of the window that covers the screen, have been aborted, or were not checked). They
  are predicates of a record, as the functions of the source are operators on it, and
  there is a lemma per function. Two of them hold with exceptions in the middle of a
  function, which are parameters: the vblank that `present_execute` has taken off its
  lists (`L`, `X`) and the windows that are still to be checked (`U`). The loops are
  proved from their first round that fails.
* `ShownStaysHeld`, `FlipsAreTracked`, `OnlyFullScreenFlips` and `NobodyGetsForgotten`
  follow, whatever the driver answers.
* `NeverMistaken`, from `TimeInv`: if the driver does not fail to queue the event of a
  flip that is asked for ahead (`QueueHolds`, a hypothesis of this theorem only), no event
  is mistaken, so that `ShownIsHeld` and `FlipIsTracked` hold without the exception.

Only model-checked: liveness (`EveryEventLeaves`, `InputIsRead`, `FiniReturns`,
`DueTimersRun`, `IdleScreenGoesDark`, `SilenceEnds`, `InputIsServed`,
`EveryPresentCompletes`), since the prover does not handle fairness and ENABLED.

No module declares a RECURSIVE operator, with which the prover loses its SMT back
end, and the theorems of the library that take an operator as a parameter cannot be
used. What a recursive function computes is proved from a least counterexample
instead (`LeastNumber` and its like, from `WFMin` and `NatLessThanWellFounded`).

## 7. Not modelled

Pixels, fonts, colormaps, regions and acceleration (arithmetic without control
worth a model), the hardware layers and drivers, GLX and other generated
dispatch code, access control and security hooks (single lookups), wire formats
and byte swapping, audit and logging, and failing allocations except that of
the event queue. Within the modelled parts: the deferred deletion of `ospoll`
entries, output buffers, retained clients, system counters, XI2 grabs and slave
devices. The parts that are worth a model and have none yet are in the plan.
