------------------------------ MODULE Clients -------------------------------
(***************************************************************************)
(* How requests of clients get from their sockets to Dispatch              *)
(* (dix/dispatch.c, os/connection.c, os/io.c, os/ospoll.c,                 *)
(* dix/dixutils.c).                                                        *)
(*                                                                         *)
(* The descriptors of clients are polled edge-triggered: an event is told  *)
(* once.  From then on it is the list of ready clients that remembers that *)
(* there is something to read, until a read finds nothing.  Clients are    *)
(* taken off the list and put back by everything that keeps them from      *)
(* running: the server grab of another client, sleeping, waiting for the   *)
(* grab.                                                                   *)
(*                                                                         *)
(* What the main thread keeps is one record, s, so that the operations can *)
(* call each other as the functions of the source do.  A request is ReqLen *)
(* units of input.                                                         *)
(*                                                                         *)
(* Left out: output except for its failure, clients that are retained when *)
(* they close, requests that are too long, priorities (any ready client    *)
(* may be next), connection setup and fonts.                               *)
(***************************************************************************)
EXTENDS Integers, FiniteSets, FiniteSetsExt

CONSTANTS
    MaxClients,         \* currentMaxClients, with the server's own entry
    ReqLen,             \* the length of a request
    BufSize,            \* the size of an input buffer
    MaxSock,            \* bound: what a socket holds
    MaxWork,            \* bound: work procedures queued for a client
    Backends,           \* implementations of ospoll: epoll, poll
    Sleepers,           \* clients that make requests that have to wait
    Testers,            \* clients that use XTestGrabControl
    Clogged,            \* clients to which a write may fail
    None

\* Indices of clients.
Client == 1 .. MaxClients - 1

ASSUME ClientsAssumption ==
    /\ {MaxClients, ReqLen, BufSize, MaxSock, MaxWork} \subseteq Nat \ {0}
    /\ ReqLen <= BufSize
    /\ Backends \subseteq {"epoll", "poll"}
    /\ Sleepers \cup Testers \cup Clogged \subseteq Client
    /\ None \notin Nat

VARIABLES
    s,          \* what the server keeps, and the sockets
    phase,      \* where Dispatch is; "yield": isItTimeToYield is set
    cur,        \* the client that Dispatch serves
    backend

clientsVars == <<s, phase, cur, backend>>

Server ==
    [up : SUBSET Client,                            \* clients[]
     list : [Client -> {"none", "ready", "saved"}], \* the list that ready is on
     ignoreCount : [Client -> 0 .. 2],
     impervious : SUBSET Client,                    \* OS_COMM_GRAB_IMPERVIOUS
     lapsed : SUBSET Client,                        \* history: were impervious in this grab
     aborted : SUBSET Client,                       \* trans_conn is NULL, noClientException
     armed : SUBSET Client,                         \* ospoll would tell that there is input
     grab : Client \cup {None},                     \* grabClient and GrabInProgress
     waiters : SUBSET Client,                       \* grabWaiters
     asleep : SUBSET Client,                        \* sleepQueue
     work : [Client -> 0 .. MaxWork],               \* workQueue: entries of each client
     buf : [Client -> 0 .. BufSize],                \* input not yet taken as a request
     again : SUBSET Client,                         \* the next request is a GrabServer that waited
     avail : Client \cup {None},                    \* AvailableInput
     sock : [Client -> 0 .. MaxSock],               \* input that waits in the socket
     closed : SUBSET Client]                        \* the other side has closed

-----------------------------------------------------------------------------
(* Polling and the lists.                                                  *)

listen_to_client(t, c) ==
    /\ t.ignoreCount[c] = 0
    /\ t.grab \in {None, c} \/ c \in t.impervious

\* Listening to a descriptor arms it, in all the implementations of ospoll.
set_poll_clients(t, C) ==
    [t EXCEPT !.armed = @ \cup {c \in (C \cap t.up) \ t.aborted : listen_to_client(t, c)}]

\* epoll forgets what it told by itself, poll has to be told to.
ospoll_reset_events(t, c) ==
    IF backend = "poll" /\ c \notin t.aborted THEN [t EXCEPT !.armed = @ \cup {c}] ELSE t

mark_client_ready(t, c) ==
    IF t.list[c] = "none" THEN [t EXCEPT !.list[c] = "ready"] ELSE t

GrabMovesNone(t, g) == t

mark_client_grab(t, g) ==
    [t EXCEPT !.list = [c \in Client |-> IF @[c] = "ready" /\ c # g THEN "saved" ELSE @[c]]]

UngrabForgets(t) == t

mark_client_ungrab(t) ==
    [t EXCEPT !.list = [c \in Client |-> IF @[c] = "saved" THEN "ready" ELSE @[c]]]

IgnoreClient(t, c) ==
    [t EXCEPT !.ignoreCount[c] = @ + 1,
              !.list[c] = IF t.ignoreCount[c] = 0 THEN "none" ELSE @]

AttendQuietly(t, c) ==
    LET u == [t EXCEPT !.ignoreCount[c] = @ - 1]
    IN  IF u.ignoreCount[c] > 0 THEN u ELSE set_poll_clients(u, {c})

AttendClient(t, c) ==
    LET u == [t EXCEPT !.ignoreCount[c] = @ - 1]
        v == set_poll_clients(u, {c})
    IN  IF u.ignoreCount[c] > 0 THEN u
        ELSE IF v.list[c] # "none" THEN v
        ELSE [v EXCEPT !.list[c] = IF listen_to_client(v, c) THEN "ready" ELSE "saved"]

-----------------------------------------------------------------------------
(* Closing.                                                                *)

ListenToAllClients(t) ==
    IF t.grab = None THEN t ELSE set_poll_clients([t EXCEPT !.grab = None, !.lapsed = {}], Client)

\* The words of grabWaiters are searched from the last one on, a word from its
\* first bit.
NextWaiter(W) ==
    LET word == Max({c \div 32 : c \in W})
    IN  Min({c \in W : c \div 32 = word})

\* One of the clients that wait for the grab may try again.
UngrabServer(t) ==
    LET u == mark_client_ungrab(ListenToAllClients(t))
    IN  IF u.waiters = {} THEN u
        ELSE LET w == NextWaiter(u.waiters)
             IN  AttendClient([u EXCEPT !.waiters = @ \ {w}], w)

\* The client's work procedures run for the last time (ProcessWorkQueueZombies),
\* its descriptor and its buffers are given back.
CloseDownClient(t, c) ==
    LET u == IF t.grab = c THEN UngrabServer(t) ELSE t
    IN  [u EXCEPT !.up = @ \ {c}, !.list[c] = "none", !.ignoreCount[c] = 0,
                  !.impervious = @ \ {c}, !.lapsed = @ \ {c}, !.aborted = @ \ {c},
                  !.armed = @ \ {c},
                  !.waiters = @ \ {c}, !.asleep = @ \ {c}, !.work[c] = 0,
                  !.buf[c] = 0, !.again = @ \ {c},
                  !.sock[c] = 0, !.closed = @ \ {c},
                  !.avail = IF @ = c THEN None ELSE @]

\* A write to the client fails.  It is put on the list so that Dispatch finds
\* out.
AbortClient(t, c) ==
    IF c \in t.aborted THEN t
    ELSE mark_client_ready([t EXCEPT !.aborted = @ \cup {c}, !.armed = @ \ {c}], c)

-----------------------------------------------------------------------------
(* WaitForSomething.                                                       *)

WakesUnchecked ==
    /\ phase = "work"
    /\ \/ \E c \in Client :
             /\ s.work[c] > 0
             /\ s' = AttendClient([s EXCEPT !.work[c] = @ - 1, !.asleep = @ \ {c}], c)
             /\ UNCHANGED phase
       \/ /\ \A c \in Client : s.work[c] = 0
          /\ phase' = "poll"
          /\ UNCHANGED s
    /\ UNCHANGED <<cur, backend>>

\* A work procedure wakes its client up, if it still sleeps.
ProcessWorkQueue ==
    /\ phase = "work"
    /\ \/ \E c \in Client :
             /\ s.work[c] > 0
             /\ LET t == [s EXCEPT !.work[c] = @ - 1]
                IN  s' = IF c \in t.asleep
                         THEN AttendClient([t EXCEPT !.asleep = @ \ {c}], c) ELSE t
             /\ UNCHANGED phase
       \/ /\ \A c \in Client : s.work[c] = 0
          /\ phase' = "poll"
          /\ UNCHANGED s
    /\ UNCHANGED <<cur, backend>>

HasInput(c) == s.sock[c] > 0 \/ c \in s.closed

\* ospoll_wait tells of all the clients with input that are armed.  With poll a
\* client that has none is armed again, if the call finds anything at all.
Told == {c \in s.up \ s.aborted : listen_to_client(s, c) /\ c \in s.armed /\ HasInput(c)}

Rearmed ==
    IF backend = "poll" /\ \E c \in s.up \ s.aborted : listen_to_client(s, c) /\ HasInput(c)
    THEN {c \in s.up \ s.aborted : ~ HasInput(c)} ELSE {}

ospoll_wait ==
    /\ phase = "poll"
    /\ s' = [s EXCEPT !.armed = (@ \ Told) \cup Rearmed,
                      !.list = [c \in Client |->
                                  IF c \in Told /\ @[c] = "none" THEN "ready" ELSE @[c]]]
    /\ phase' = IF \E c \in Client : s'.list[c] = "ready" THEN "pick" ELSE "work"
    /\ UNCHANGED <<cur, backend>>

\* ClientReady, called with X_NOTIFY_ERROR.
ClientReadyError(c) ==
    /\ phase = "poll"
    /\ c \in (s.up \ s.aborted) \cap s.closed
    /\ s' = CloseDownClient(s, c)
    /\ UNCHANGED <<phase, cur, backend>>

\* EstablishNewConnections also closes the clients whose output has failed.
CloseAborted(t) ==
    LET closed[c \in 0 .. MaxClients - 1] ==
            IF c = 0 THEN t
            ELSE IF c \in t.aborted THEN CloseDownClient(closed[c - 1], c)
            ELSE closed[c - 1]
    IN  closed[MaxClients - 1]

EstablishNewConnections(c) ==
    /\ phase = "poll" /\ c \notin s.up
    /\ LET t == CloseAborted(s)
       IN  s' = set_poll_clients([t EXCEPT !.up = @ \cup {c}], {c})
    /\ UNCHANGED <<phase, cur, backend>>

-----------------------------------------------------------------------------
(* Dispatch.                                                               *)

SmartScheduleClient(c) ==
    /\ phase = "pick" /\ s.list[c] = "ready"
    /\ cur' = c /\ phase' = "serve"
    /\ UNCHANGED <<s, backend>>

\* The time slice is over, or the last request was an error.
EndSlice ==
    /\ phase = "serve"
    /\ phase' = "work" /\ cur' = None
    /\ UNCHANGED <<s, backend>>

\* A buffer that was left empty is given to the next client that needs one.
NextAvailableInput(t, c) ==
    IF t.avail \in {None, c} THEN [t EXCEPT !.avail = None]
    ELSE [t EXCEPT !.buf[t.avail] = 0, !.avail = None]

\* What a read adds to the client's buffer: nothing if it has a request already.
Amount(c) ==
    IF s.buf[c] >= ReqLen \/ c \in s.aborted THEN 0 ELSE Min({s.sock[c], BufSize - s.buf[c]})

Filled(c) ==
    [NextAvailableInput(s, c) EXCEPT !.buf[c] = @ + Amount(c), !.sock[c] = @ - Amount(c)]

\* ReadRequestFromClient finds part of a request.  The client stays ready.
ReadPart(c) ==
    /\ phase = "serve" /\ cur = c
    /\ Amount(c) > 0 /\ s.buf[c] + Amount(c) < ReqLen
    /\ s' = ospoll_reset_events(Filled(c), c)
    /\ phase' = "work" /\ cur' = None
    /\ UNCHANGED backend

\* ReadRequestFromClient finds nothing, and nothing will come or nothing has
\* come yet.
ReadNothing(c) ==
    /\ phase = "serve" /\ cur = c
    /\ s.buf[c] < ReqLen /\ Amount(c) = 0
    /\ \/ /\ c \in s.aborted \cup s.closed
          /\ s' = CloseDownClient(Filled(c), c)
       \/ /\ c \notin s.aborted \cup s.closed
          /\ s' = ospoll_reset_events([Filled(c) EXCEPT !.list[c] = "none"], c)
    /\ phase' = "work" /\ cur' = None
    /\ UNCHANGED backend

\* ReadRequestFromClient returns a request; a buffer without more is available.
Taken(c) ==
    LET t == [Filled(c) EXCEPT !.buf[c] = @ - ReqLen, !.again = @ \ {c}]
    IN  IF t.buf[c] = 0 THEN [t EXCEPT !.avail = c] ELSE t

\* The request will be read again.
ResetCurrentRequest(t, c) ==
    LET u == [t EXCEPT !.buf[c] = @ + ReqLen, !.avail = IF @ = c THEN None ELSE @]
    IN  IF listen_to_client(u, c) THEN mark_client_ready(u, c) ELSE u

\* The request's procedure makes t of the server.
Request(c, t, yields) ==
    /\ s' = t
    /\ phase' = IF yields THEN "yield" ELSE "after"
    /\ UNCHANGED <<cur, backend>>

GrabServer(t, c) ==
    IF t.grab \notin {None, c}
    THEN LET u == ResetCurrentRequest([t EXCEPT !.waiters = @ \cup {c}, !.again = @ \cup {c}], c)
         IN  IgnoreClient(u, c)
    ELSE LET u == IF t.grab = None THEN set_poll_clients([t EXCEPT !.grab = c], Client) ELSE t
         IN  mark_client_grab(u, c)

ProcGrabServer(c) ==
    Request(c, GrabServer(Taken(c), c), s.grab \notin {None, c})

ProcUngrabServer(c) == Request(c, UngrabServer(Taken(c)), FALSE)

MakeClientGrabImpervious(t, c) ==
    set_poll_clients([t EXCEPT !.impervious = @ \cup {c}, !.lapsed = @ \ {c}], {c})

MakeClientGrabPervious(t, c) ==
    set_poll_clients([t EXCEPT !.impervious = @ \ {c},
                               !.lapsed = IF t.grab \in {None, c} THEN @ ELSE @ \cup {c}], {c})

ProcXTestGrabControl(c) ==
    /\ c \in Testers
    /\ \/ Request(c, MakeClientGrabImpervious(Taken(c), c), FALSE)
       \/ Request(c, MakeClientGrabPervious(Taken(c), c), TRUE)

ProcKillClient(c) ==
    \E d \in s.up : Request(c, CloseDownClient(Taken(c), d), c = d)

\* A request that has to wait: it goes on when it is woken up, or is read again.
ClientSleep(c) ==
    /\ c \in Sleepers
    /\ \E t \in {Taken(c), ResetCurrentRequest(Taken(c), c)} :
        Request(c, IgnoreClient([t EXCEPT !.asleep = @ \cup {c}], c), TRUE)

\* Any other request.  It may send to a client that does not take it.
OtherRequest(c) ==
    \/ Request(c, Taken(c), FALSE)
    \/ \E d \in s.up \cap Clogged : Request(c, AbortClient(Taken(c), d), FALSE)

DoRequest(c) ==
    /\ phase = "serve" /\ cur = c
    /\ s.buf[c] + Amount(c) >= ReqLen
    /\ \/ ProcGrabServer(c)
       \/ /\ c \notin s.again
          /\ \/ ProcUngrabServer(c) \/ ProcXTestGrabControl(c) \/ ProcKillClient(c)
             \/ ClientSleep(c) \/ OtherRequest(c)

\* What Dispatch does with the client after a request, if it is still there.
AfterRequest ==
    /\ \/ /\ phase \in {"after", "yield"} /\ cur \in s.aborted
          /\ s' = CloseDownClient(s, cur)
          /\ phase' = "work" /\ cur' = None
       \/ /\ phase = "after" /\ cur \notin s.aborted
          /\ phase' = "serve" /\ UNCHANGED <<s, cur>>
       \/ /\ phase = "yield" /\ cur \notin s.aborted
          /\ phase' = "work" /\ cur' = None /\ UNCHANGED s
    /\ UNCHANGED backend

-----------------------------------------------------------------------------
(* The clients, and those who wake them up.                                *)

\* For epoll new input is a new event.
Edge(t, c) ==
    IF backend = "epoll" /\ c \notin t.aborted THEN [t EXCEPT !.armed = @ \cup {c}] ELSE t

Send(c) ==
    /\ c \in s.up \ s.closed /\ s.sock[c] < MaxSock
    /\ s' = Edge([s EXCEPT !.sock[c] = @ + 1], c)
    /\ UNCHANGED <<phase, cur, backend>>

Close(c) ==
    /\ c \in s.up \ s.closed
    /\ s' = Edge([s EXCEPT !.closed = @ \cup {c}], c)
    /\ UNCHANGED <<phase, cur, backend>>

\* dixClientSignal and ClientSignalAll, from a driver, a timer or a font server
\* while the server waits, or from a request.  The client stays on sleepQueue
\* until its work procedure runs, so it may be signalled again before that.
ClientSignal(c) ==
    /\ phase \in {"poll", "after", "yield"}
    /\ c \in s.asleep /\ s.work[c] < MaxWork
    /\ s' = [s EXCEPT !.work[c] = @ + 1]
    /\ UNCHANGED <<phase, cur, backend>>

-----------------------------------------------------------------------------
ClientsInit ==
    /\ s = [up |-> {}, list |-> [c \in Client |-> "none"],
            ignoreCount |-> [c \in Client |-> 0], impervious |-> {}, lapsed |-> {}, aborted |-> {},
            armed |-> {}, grab |-> None, waiters |-> {}, asleep |-> {},
            work |-> [c \in Client |-> 0], buf |-> [c \in Client |-> 0],
            again |-> {}, avail |-> None,
            sock |-> [c \in Client |-> 0], closed |-> {}]
    /\ phase = "work" /\ cur = None
    /\ backend \in Backends

Dispatch ==
    \/ ProcessWorkQueue \/ ospoll_wait \/ EndSlice \/ AfterRequest
    \/ \E c \in Client :
          \/ ClientReadyError(c) \/ EstablishNewConnections(c) \/ SmartScheduleClient(c)
          \/ ReadPart(c) \/ ReadNothing(c) \/ DoRequest(c)

ClientsNext ==
    \/ Dispatch
    \/ \E c \in Client : Send(c) \/ Close(c) \/ ClientSignal(c)

ClientsFairness ==
    /\ WF_clientsVars(ProcessWorkQueue \/ ospoll_wait) /\ WF_clientsVars(AfterRequest)
    /\ SF_clientsVars(EndSlice)
    /\ \A c \in Client : SF_clientsVars(SmartScheduleClient(c))

ClientsSpec == ClientsInit /\ [][ClientsNext]_clientsVars /\ ClientsFairness

-----------------------------------------------------------------------------
(* Properties.                                                             *)

ClientsTypeOK ==
    /\ s \in Server
    /\ phase \in {"work", "poll", "pick", "serve", "after", "yield"}
    /\ cur \in Client \cup {None}
    /\ backend \in Backends
    /\ \A c \in Client \ s.aborted : s.ignoreCount[c] =
          Cardinality({c} \cap s.asleep) + Cardinality({c} \cap s.waiters)

\* Polling is edge-triggered, so what was told once must not be forgotten: a
\* client that nobody ignores and that has a request in its buffer is on a
\* list, and one with input in its socket is on a list or will be told about.
\* A client whose output has failed is on a list, where Dispatch finds it, even
\* if it is ignored (ReadRequestFromClient, AttendClient, AbortClient).  And the
\* buffer that NextAvailableInput takes away belongs to a client that is there
\* and holds nothing of its input, though the request in it may be read again
\* (ResetCurrentRequest) and its client may close meanwhile.
NoInputLost ==
    /\ \A c \in s.up \ s.aborted : s.ignoreCount[c] = 0 =>
          /\ s.buf[c] >= ReqLen => s.list[c] # "none"
          /\ HasInput(c) /\ listen_to_client(s, c) => s.list[c] # "none" \/ c \in s.armed
    /\ \A c \in s.aborted : s.list[c] # "none" \/ (phase \in {"after", "yield"} /\ cur = c)
    /\ s.avail # None => s.avail \in s.up /\ s.buf[s.avail] = 0

\* During a server grab requests of the client that grabs are executed, and of
\* clients that are impervious or were so in this grab: MakeClientGrabPervious
\* leaves them on the list.  The last request of a client whose output has
\* failed may be one more (mark_client_grab, AttendClient).
GrabExcludes ==
    [][\A c \in Client : DoRequest(c) =>
          s.grab \in {None, c} \/ c \in s.impervious \cup s.lapsed \cup s.aborted]_clientsVars

\* Input is read and requests in the buffer are executed, unless the client is
\* ignored or another client grabs the server, again and again: no client is
\* forgotten on the wrong list (mark_client_ungrab, ospoll_reset_events).
InputIsServed ==
    \A c \in Client :
        []<>(\/ c \notin s.up \/ s.ignoreCount[c] > 0 \/ s.grab \notin {None, c}
             \/ ~ (HasInput(c) \/ s.buf[c] >= ReqLen)
             \/ cur = c)
=============================================================================
