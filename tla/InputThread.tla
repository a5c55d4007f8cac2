----------------------------- MODULE InputThread -----------------------------
(***************************************************************************)
(* os/inputthread.c: the thread that reads the input devices, the list of  *)
(* devices it shares with the main thread, and the two pipes that wake the *)
(* one about the other.                                                    *)
(*                                                                         *)
(* The main thread registers and unregisters file descriptors              *)
(* (InputThreadRegisterDev, InputThreadUnregisterDev): it edits the list   *)
(* under the input lock, sets changed, and, after unlocking, writes a byte *)
(* to the hotplug pipe.  The input thread (InputThreadDoWork) looks at     *)
(* changed without the lock, applies the edits to its ospoll under it,     *)
(* waits, runs the callbacks of what is ready and writes a byte to the     *)
(* notify pipe, whose read end the main thread drains when it gets there.  *)
(*                                                                         *)
(* A critical section is one step.  Pipes are byte counts.  A list entry   *)
(* carries a serial number for the pointer that ospoll keeps to it.        *)
(***************************************************************************)
EXTENDS Integers, Sequences, FiniteSets, FiniteSetsExt

CONSTANTS
    Fds,          \* the file descriptors that devices use
    MaxCalls,     \* bound: registrations and unregistrations
    MaxInput,     \* bound: how often one descriptor becomes readable
    NotifySize,   \* capacity of the notify pipe
    ReadMax       \* sizeof(array): what one read takes from a pipe

ASSUME BoundsAssumption ==
    /\ IsFiniteSet(Fds)
    /\ {MaxCalls, MaxInput, NotifySize, ReadMax} \subseteq Nat \ {0}

VARIABLES
    devs,         \* inputThreadInfo->devs: records fd, state, ptr
    changed,      \* inputThreadInfo->changed
    running,      \* inputThreadInfo->running
    polled,       \* inputThreadInfo->fds: the entry a descriptor leads to
    hotplug,      \* bytes in the hotplug pipe
    hotplugOpen,  \* hotplugPipeWrite is not closed
    notify,       \* bytes in the notify pipe
    tpc,          \* input thread: where it is
    fired,        \* input thread: descriptors the wait reported, not yet called
    mpc,          \* main thread: where it is
    registered,   \* descriptors for which the last call was a registration
    missed,       \* history: descriptors whose last unregistration marked an
                  \* entry that was being removed, and not the live one
    ready,        \* descriptors with unread input
    calls,        \* how many calls were made
    inputs        \* how often each descriptor became readable

threadVars == <<running, polled, tpc, fired>>
pipeVars == <<hotplug, hotplugOpen, notify>>
userVars == <<registered, missed>>
envVars == <<ready, calls, inputs>>
vars == <<devs, changed, threadVars, pipeVars, mpc, userVars, envVars>>

HotplugFd == "hotplug"    \* hotplugPipeRead
NoEntry == 0              \* descriptor not in the ospoll

Entry == [fd : Fds, state : {"added", "running", "removed"}, ptr : 1..MaxCalls]

-----------------------------------------------------------------------------
(* Main thread.                                                            *)

\* An address no live entry has.
FreshPtr == CHOOSE p \in 1..MaxCalls : \A i \in 1..Len(devs) : devs[i].ptr # p

NewEntry(f) == [fd |-> f, state |-> "added", ptr |-> FreshPtr]

AddEntryInFront(f) == <<NewEntry(f)>> \o devs

\* Appended, so that an entry with the same descriptor that is being removed
\* is processed first.
AddEntry(f) == Append(devs, NewEntry(f))

\* Every call ends by waking the thread up, outside the critical section.
CallDone ==
    /\ mpc' = "wake"
    /\ calls' = calls + 1
    /\ UNCHANGED <<threadVars, pipeVars, ready, inputs>>

\* What makes an entry the one to use again for the descriptor.
Reusable(e, f) == e.fd = f /\ e.state # "removed"

InputThreadRegisterDev(f) ==
    /\ mpc = "run" /\ calls < MaxCalls
    /\ devs' = IF \E i \in 1..Len(devs) : Reusable(devs[i], f)
               THEN devs
               ELSE AddEntry(f)
    /\ changed' = TRUE
    /\ registered' = registered \cup {f}
    /\ missed' = missed \ {f}
    /\ CallDone

\* The first entry with the descriptor, whatever its state, is marked.
InputThreadUnregisterDev(f) ==
    LET found == {i \in 1..Len(devs) : devs[i].fd = f}
    IN  /\ mpc = "run" /\ calls < MaxCalls
        /\ found # {}
        /\ devs' = [devs EXCEPT ![Min(found)].state = "removed"]
        /\ changed' = TRUE
        /\ registered' = registered \ {f}
        /\ missed' = IF /\ devs[Min(found)].state = "removed"
                        /\ \E i \in found : devs[i].state # "removed"
                     THEN missed \cup {f}
                     ELSE missed \ {f}
        /\ CallDone

\* The unregistration of a descriptor that has no entry returns 0.
UnregisterUnknown(f) ==
    /\ mpc = "run" /\ calls < MaxCalls
    /\ \A i \in 1..Len(devs) : devs[i].fd # f
    /\ calls' = calls + 1
    /\ UNCHANGED <<devs, changed, threadVars, pipeVars, mpc, userVars, ready,
                   inputs>>

WakeNobody ==
    /\ mpc = "wake"
    /\ mpc' = "run"
    /\ UNCHANGED <<devs, changed, threadVars, pipeVars, userVars, envVars>>

\* InputThreadFillPipe(hotplugPipeWrite).
WakeThread ==
    /\ mpc = "wake"
    /\ hotplug' = hotplug + 1
    /\ mpc' = "run"
    /\ UNCHANGED <<devs, changed, threadVars, hotplugOpen, notify, userVars,
                   envVars>>

DrainFull ==
    /\ mpc = "run"
    /\ notify > 0
    /\ notify' = notify - ReadMax
    /\ UNCHANGED <<devs, changed, threadVars, hotplug, hotplugOpen, mpc,
                   userVars, envVars>>

\* InputThreadNotifyPipe, called by WaitForSomething.
DrainNotify ==
    /\ mpc = "run"
    /\ notify > 0
    /\ notify' = IF notify > ReadMax THEN notify - ReadMax ELSE 0
    /\ UNCHANGED <<devs, changed, threadVars, hotplug, hotplugOpen, mpc,
                   userVars, envVars>>

\* InputThreadFini: close the hotplug pipe and wait for the thread to end...
InputThreadFini ==
    /\ mpc = "run"
    /\ hotplugOpen' = FALSE
    /\ mpc' = "join"
    /\ UNCHANGED <<devs, changed, threadVars, hotplug, notify, userVars,
                   envVars>>

\* ...then free the entries and the ospoll.
Join ==
    /\ mpc = "join" /\ tpc = "exit"
    /\ devs' = << >>
    /\ polled' = [f \in Fds |-> NoEntry]
    /\ registered' = {}
    /\ missed' = {}
    /\ changed' = FALSE
    /\ mpc' = "done"
    /\ UNCHANGED <<running, tpc, fired, pipeVars, envVars>>

-----------------------------------------------------------------------------
(* Input thread.                                                           *)

StartThread ==
    /\ tpc = "start"
    /\ running' = TRUE
    /\ tpc' = "check"
    /\ UNCHANGED <<devs, changed, polled, fired, pipeVars, mpc, userVars,
                   envVars>>

\* The loop condition and the unlocked test of changed.
CheckChanged ==
    /\ tpc = "check"
    /\ tpc' = IF ~running THEN "exit" ELSE IF changed THEN "apply" ELSE "wait"
    /\ UNCHANGED <<devs, changed, running, polled, fired, pipeVars, mpc,
                   userVars, envVars>>

\* The last entry of the list that changes what the ospoll does with f.
LastChange(f) ==
    LET s == {i \in 1..Len(devs) : devs[i].fd = f /\ devs[i].state # "running"}
    IN  IF s = {} THEN 0 ELSE Max(s)

\* What one pass over the list leaves of its first n entries: what was removed
\* is unlinked and freed, all else runs.
Applied(list) ==
    LET pass[n \in 0..Len(list)] ==
          IF n = 0 THEN << >>
          ELSE IF list[n].state = "removed" THEN pass[n - 1]
          ELSE Append(pass[n - 1], [list[n] EXCEPT !.state = "running"])
    IN  pass[Len(list)]

\* The pass calls ospoll_add for what was added and ospoll_remove (by
\* descriptor) for what was removed.
ApplyChanges ==
    /\ tpc = "apply"
    /\ changed' = FALSE
    /\ polled' = [f \in Fds |->
                    LET i == LastChange(f)
                    IN  IF i = 0 THEN polled[f]
                        ELSE IF devs[i].state = "added" THEN devs[i].ptr
                        ELSE NoEntry]
    /\ devs' = Applied(devs)
    /\ tpc' = "wait"
    /\ UNCHANGED <<running, fired, pipeVars, mpc, userVars, envVars>>

\* ospoll_wait: level triggered, every descriptor with something to read; the
\* closed hotplug pipe reads as end of file.
Readable ==
    {f \in Fds : polled[f] # NoEntry /\ f \in ready}
      \cup (IF hotplug > 0 \/ ~hotplugOpen THEN {HotplugFd} ELSE {})

Wait ==
    /\ tpc = "wait"
    /\ Readable # {}
    /\ fired' = Readable
    /\ tpc' = "callbacks"
    /\ UNCHANGED <<devs, changed, running, polled, pipeVars, mpc, userVars,
                   envVars>>

AlwaysRead(e) == TRUE

\* What InputReady asks about the entry, with the lock held.
MayRead(e) == e.state = "running"

\* InputReady: the driver reads all there is, unless the entry was marked
\* since the wait returned.
InputReady(f) ==
    /\ tpc = "callbacks" /\ f \in fired
    /\ \E i \in 1..Len(devs) :
          /\ devs[i].ptr = polled[f]
          /\ ready' = IF MayRead(devs[i]) THEN ready \ {f} ELSE ready
    /\ fired' = fired \ {f}
    /\ UNCHANGED <<devs, changed, running, polled, tpc, pipeVars, mpc,
                   userVars, calls, inputs>>

PipeNotifyIgnoresEof ==
    /\ tpc = "callbacks" /\ HotplugFd \in fired
    /\ hotplug' = IF hotplug > ReadMax THEN hotplug - ReadMax ELSE 0
    /\ fired' = fired \ {HotplugFd}
    /\ UNCHANGED <<devs, changed, running, polled, tpc, hotplugOpen, notify,
                   mpc, userVars, envVars>>

\* InputThreadPipeNotify: a read of nothing means that the pipe was closed.
InputThreadPipeNotify ==
    /\ tpc = "callbacks" /\ HotplugFd \in fired
    /\ running' = (running /\ hotplug > 0)
    /\ hotplug' = IF hotplug > ReadMax THEN hotplug - ReadMax ELSE 0
    /\ fired' = fired \ {HotplugFd}
    /\ UNCHANGED <<devs, changed, polled, tpc, hotplugOpen, notify, mpc,
                   userVars, envVars>>

\* InputThreadFillPipe(writePipe): a blocking write, after every wait.
NotifyMain ==
    /\ tpc = "callbacks" /\ fired = {}
    /\ notify < NotifySize
    /\ notify' = notify + 1
    /\ tpc' = "check"
    /\ UNCHANGED <<devs, changed, running, polled, fired, hotplug, hotplugOpen,
                   mpc, userVars, envVars>>

\* The environment: a device has input.
Arrive(f) ==
    /\ f \notin ready /\ inputs[f] < MaxInput
    /\ ready' = ready \cup {f}
    /\ inputs' = [inputs EXCEPT ![f] = @ + 1]
    /\ UNCHANGED <<devs, changed, threadVars, pipeVars, mpc, userVars, calls>>

-----------------------------------------------------------------------------
Init ==
    /\ devs = << >> /\ changed = FALSE
    /\ running = FALSE /\ polled = [f \in Fds |-> NoEntry]
    /\ hotplug = 0 /\ hotplugOpen = TRUE /\ notify = 0
    /\ tpc = "start" /\ fired = {}
    /\ mpc = "run" /\ registered = {}
    /\ missed = {}
    /\ ready = {} /\ calls = 0 /\ inputs = [f \in Fds |-> 0]

ThreadStep ==
    \/ StartThread
    \/ CheckChanged
    \/ ApplyChanges
    \/ Wait
    \/ \E f \in Fds : InputReady(f)
    \/ InputThreadPipeNotify
    \/ NotifyMain

MainStep == WakeThread \/ DrainNotify \/ Join

Finished == mpc = "done" /\ UNCHANGED vars

Next ==
    \/ \E f \in Fds : \/ InputThreadRegisterDev(f)
                      \/ InputThreadUnregisterDev(f)
                      \/ UnregisterUnknown(f)
                      \/ Arrive(f)
    \/ MainStep
    \/ InputThreadFini
    \/ ThreadStep
    \/ Finished

\* Both threads are scheduled; the main loop returns to its pipe.
Spec == Init /\ [][Next]_vars /\ WF_vars(ThreadStep) /\ WF_vars(MainStep)

-----------------------------------------------------------------------------
TypeOK ==
    /\ devs \in Seq(Entry)
    /\ changed \in BOOLEAN /\ running \in BOOLEAN
    /\ polled \in [Fds -> 0..MaxCalls]
    /\ hotplug \in 0..MaxCalls /\ hotplugOpen \in BOOLEAN
    /\ notify \in 0..NotifySize
    /\ tpc \in {"start", "check", "apply", "wait", "callbacks", "exit"}
    /\ fired \subseteq Fds \cup {HotplugFd}
    /\ mpc \in {"run", "wake", "join", "done"}
    /\ registered \subseteq Fds /\ ready \subseteq Fds
    /\ missed \subseteq Fds \ registered
    /\ calls \in 0..MaxCalls /\ inputs \in [Fds -> 0..MaxInput]

Polled == {f \in Fds : polled[f] # NoEntry}

\* The pointers that ospoll hands to InputReady lead to entries that were not
\* freed, and every running entry is really polled.  When no change is
\* outstanding the thread polls exactly the descriptors that are registered,
\* but for those whose unregistration marked the wrong entry: no other change
\* gets lost between the two threads.
PollMatchesList ==
    /\ \A f \in Polled : \E i \in 1..Len(devs) : devs[i].ptr = polled[f] /\ devs[i].fd = f
    /\ \A i \in 1..Len(devs) :
          devs[i].state = "running" => polled[devs[i].fd] = devs[i].ptr
    /\ ~changed => Polled = registered \cup missed

\* After InputThreadUnregisterDev has marked the device's entry, the driver's
\* readInputProc is not called any more: the driver may be gone.
NoReadAfterUnregister ==
    [][\A f \in ready \ ready' : f \in registered \cup missed]_vars

\* Input of a registered device is read, unless the device is unregistered
\* or the server shuts down first: no wake-up is lost, however the two
\* threads interleave and although the notify pipe can fill up.
InputIsRead ==
    \A f \in Fds : (f \in ready /\ f \in registered)
                     ~> (f \notin ready \/ f \notin registered \/ mpc = "join")

\* "Close the pipe to get the input thread to shut down": InputThreadFini
\* returns, if the notify pipe can still take what the thread writes before
\* it sees the end of file: the wait it is in, one wait per ReadMax bytes
\* left in the hotplug pipe, and the last one.
FiniReturns ==
    (mpc = "join" /\ notify + hotplug + 2 <= NotifySize) ~> mpc = "done"
=============================================================================
