------------------------------- MODULE Xdmcp --------------------------------
(***************************************************************************)
(* The display's side of the X Display Manager Control Protocol            *)
(* (os/xdmcp.c): the server looks for a manager, asks it for a session,    *)
(* has it managed, and then asks from time to time if it is alive.         *)
(*                                                                         *)
(* Packets are datagrams: they are lost, delayed, duplicated and           *)
(* reordered.  The model keeps the set of what the display has sent; an    *)
(* answer to any of it may arrive at any later time, any number of times,  *)
(* or never.  A manager connects as a client, over a stream of its own,    *)
(* and so does anybody else.                                               *)
(*                                                                         *)
(* Left out: the options of the command line, the layout of packets,       *)
(* authentication (its outcome is a choice) and the access list that an    *)
(* accepted session changes.                                               *)
(***************************************************************************)
EXTENDS Integers, Sequences

CONSTANTS
    Host,           \* managers
    Session,        \* session identifiers
    Owner,          \* the manager that gives out each of them
    Sock,           \* descriptors of client connections
    MgrAddr,        \* addresses of the name given to -query and -indirect
    InitStates,     \* XDM_INIT_STATE: what the command line can ask for
    MIN_RTX, MAX_RTX, RTX_LIMIT, KA_RTX_LIMIT, DEF_DORMANCY,
    None

ASSUME XdmcpAssumption ==
    /\ Owner \in [Session -> Host]
    /\ MgrAddr \in Seq(Host) /\ Len(MgrAddr) > 0
    /\ InitStates \subseteq {"QUERY", "BROADCAST", "MULTICAST", "INDIRECT"}
    /\ {MIN_RTX, MAX_RTX, RTX_LIMIT, KA_RTX_LIMIT, DEF_DORMANCY} \subseteq Nat \ {0}
    /\ KA_RTX_LIMIT <= RTX_LIMIT /\ MIN_RTX <= MAX_RTX
    /\ None \notin Host \cup Session \cup Sock \cup Nat

VARIABLES
    XDM_INIT_STATE, \* how managers are looked for
    state,          \* of the protocol
    timeOutRtx,     \* timeouts since a packet arrived
    mgr,            \* mgrAddr: the address in use, an index of MgrAddr
    host,           \* req_sockaddr: the manager that was chosen
    SessionID,
    timer,          \* xdmcp_timer: seconds, None while it is not set
    sessionSocket,  \* the connection that is the session
    conns,          \* open client connections
    sent,           \* packets sent to managers
    ended           \* dispatchException has DE_TERMINATE, or FatalError was called

vars == <<XDM_INIT_STATE, state, timeOutRtx, mgr, host, SessionID, timer,
          sessionSocket, conns, sent, ended>>

Collect == [QUERY |-> "COLLECT_QUERY", BROADCAST |-> "COLLECT_BROADCAST_QUERY",
            MULTICAST |-> "COLLECT_MULTICAST_QUERY", INDIRECT |-> "COLLECT_INDIRECT_QUERY"]

Collecting == {Collect[q] : q \in DOMAIN Collect}

States == DOMAIN Collect \cup Collecting \cup
    {"START_CONNECTION", "AWAIT_REQUEST_RESPONSE", "MANAGE", "AWAIT_MANAGE_RESPONSE",
     "RUN_SESSION", "KEEPALIVE", "AWAIT_ALIVE_RESPONSE"}

Running == {"RUN_SESSION", "AWAIT_ALIVE_RESPONSE"}

\* What is sent, to whom, and the session it names.
Packet == [type : {"QUERY", "REQUEST"}, to : Host, id : {None}]
          \cup [type : {"MANAGE", "KEEPALIVE"}, to : Host, id : Session]

-----------------------------------------------------------------------------
(* Sending.                                                                *)

\* A query goes to the address in use, or to everybody; a manager that gets an
\* indirect query passes it on, so that others may answer.
Queried(q) == IF q = "QUERY" THEN {MgrAddr[mgr']} ELSE Host

send_query_msg(q) ==
    /\ state' = Collect[q]
    /\ sent' = sent \cup [type : {"QUERY"}, to : Queried(q), id : {None}]

\* The state moves on only if the packet has been sent.
send_request_msg ==
    /\ \/ /\ state' = "AWAIT_REQUEST_RESPONSE"
          /\ sent' = sent \cup {[type |-> "REQUEST", to |-> host', id |-> None]}
       \/ /\ state' = "START_CONNECTION"
          /\ UNCHANGED sent

\* The state moves on if there is room to write the packet.
send_manage_msg ==
    /\ \/ /\ state' = "AWAIT_MANAGE_RESPONSE"
          /\ sent' = sent \cup {[type |-> "MANAGE", to |-> host', id |-> SessionID']}
       \/ /\ state' = "MANAGE"
          /\ UNCHANGED sent

send_keepalive_msg ==
    /\ state' = "AWAIT_ALIVE_RESPONSE"
    /\ sent' = sent \cup {[type |-> "KEEPALIVE", to |-> host', id |-> SessionID']}

\* XDM_MIN_RTX << n: each shift doubles.
Shifted[n \in 0 .. RTX_LIMIT] == IF n = 0 THEN MIN_RTX ELSE 2 * Shifted[n - 1]

BackoffUncapped(n) == Shifted[n]

\* Retransmissions come at growing intervals.
Backoff(n) == IF Shifted[n] > MAX_RTX THEN MAX_RTX ELSE Shifted[n]

\* Send what state s calls for, and wait for the answer.
send_packet(s) ==
    /\ \/ s \in DOMAIN Collect /\ send_query_msg(s)
       \/ s = "START_CONNECTION" /\ send_request_msg
       \/ s = "MANAGE" /\ send_manage_msg
       \/ s = "KEEPALIVE" /\ send_keepalive_msg
    /\ timer' = Backoff(timeOutRtx')

XdmcpDeadSession ==
    /\ timeOutRtx' = 0
    /\ ended' = "terminate"
    /\ send_packet(XDM_INIT_STATE)

XdmcpFatal ==
    /\ ended' = "fatal"
    /\ UNCHANGED <<state, timer, sent>>

-----------------------------------------------------------------------------
(* The timer.                                                              *)

NextRtxSaturated(n) == IF n + 1 = RTX_LIMIT THEN n ELSE n + 1

NextRtx(n) == n + 1

\* The state that repeats what a state waits for.
Resend(s) ==
    IF \E q \in DOMAIN Collect : Collect[q] = s
    THEN CHOOSE q \in DOMAIN Collect : Collect[q] = s
    ELSE CASE s = "AWAIT_REQUEST_RESPONSE" -> "START_CONNECTION"
           [] s = "AWAIT_MANAGE_RESPONSE"  -> "MANAGE"
           [] s = "AWAIT_ALIVE_RESPONSE"   -> "KEEPALIVE"
           [] OTHER -> s

timeout ==
    LET n == NextRtx(timeOutRtx)
    IN  \/ /\ state = "AWAIT_ALIVE_RESPONSE" /\ n >= KA_RTX_LIMIT
           /\ UNCHANGED mgr
           /\ XdmcpDeadSession
        \/ /\ ~ (state = "AWAIT_ALIVE_RESPONSE" /\ n >= KA_RTX_LIMIT)
           /\ n >= RTX_LIMIT
           /\ timeOutRtx' = n
           /\ ended' = "terminate"
           /\ timer' = None
           /\ UNCHANGED <<state, mgr, sent>>
        \/ /\ ~ (state = "AWAIT_ALIVE_RESPONSE" /\ n >= KA_RTX_LIMIT)
           /\ n < RTX_LIMIT
           /\ timeOutRtx' = n
           /\ mgr' = IF state \in {"COLLECT_QUERY", "COLLECT_INDIRECT_QUERY"}
                     THEN (mgr % Len(MgrAddr)) + 1 ELSE mgr
           /\ send_packet(Resend(state))
           /\ UNCHANGED ended

\* DoTimer has taken the timer off the list; the callback returns 0.
XdmcpTimerNotify ==
    /\ ended = "no" /\ timer # None
    /\ UNCHANGED <<XDM_INIT_STATE, host, SessionID, sessionSocket, conns>>
    /\ \/ /\ state = "RUN_SESSION"
          /\ UNCHANGED <<timeOutRtx, mgr, ended>>
          /\ send_packet("KEEPALIVE")
       \/ /\ state # "RUN_SESSION"
          /\ timeout

-----------------------------------------------------------------------------
(* Receiving.  Whether a packet has the right length and authentication is *)
(* its field ok.  Nothing checks whom a packet comes from.                 *)

\* An answer, from whom, to what it answers, and whether it is in order.
Answer ==
    [type : {"WILLING", "UNWILLING", "ACCEPT", "DECLINE", "REFUSE", "FAILED", "ALIVE"},
     from : Host, id : Session \cup {None}, running : BOOLEAN, ok : BOOLEAN]

Question == [WILLING |-> "QUERY", UNWILLING |-> "QUERY", ACCEPT |-> "REQUEST",
             DECLINE |-> "REQUEST", REFUSE |-> "MANAGE", FAILED |-> "MANAGE",
             ALIVE |-> "KEEPALIVE"]

\* What a manager may answer.
Answers(a, p) ==
    /\ p.type = Question[a.type] /\ p.to = a.from
    /\ CASE a.type = "ACCEPT" -> a.id \in Session /\ Owner[a.id] = a.from
         [] a.type = "ALIVE"  -> a.id \in (IF a.running THEN {p.id} ELSE {p.id, None})
         [] OTHER             -> a.id = p.id
    /\ a.type # "ALIVE" => ~ a.running

Ignored == UNCHANGED <<state, host, SessionID, timer, sent, ended>>

XdmcpSelectHost(h) ==
    /\ host' = h
    /\ UNCHANGED <<SessionID, ended>>
    /\ send_packet("START_CONNECTION")

WillingAlways(a) ==
    \/ a.ok /\ XdmcpSelectHost(a.from)
    \/ ~ a.ok /\ Ignored

recv_willing_msg(a) ==
    \/ a.ok /\ state \in Collecting /\ XdmcpSelectHost(a.from)
    \/ ~ (a.ok /\ state \in Collecting) /\ Ignored

AcceptAlways(a) ==
    IF a.ok
    THEN /\ SessionID' = a.id
         /\ UNCHANGED <<host, ended>>
         /\ send_packet("MANAGE")
    ELSE XdmcpFatal /\ UNCHANGED <<host, SessionID>>

\* Here ok is what XdmcpCheckAuthentication says; a packet of the wrong length
\* is Junk.
recv_accept_msg(a) ==
    IF state # "AWAIT_REQUEST_RESPONSE" THEN Ignored
    ELSE IF a.ok
    THEN /\ SessionID' = a.id
         /\ UNCHANGED <<host, ended>>
         /\ send_packet("MANAGE")
    ELSE XdmcpFatal /\ UNCHANGED <<host, SessionID>>

recv_decline_msg(a) ==
    IF a.ok THEN XdmcpFatal /\ UNCHANGED <<host, SessionID>> ELSE Ignored

Refers(a) == state = "AWAIT_MANAGE_RESPONSE" /\ a.ok /\ a.id = SessionID

recv_refuse_msg(a) ==
    \/ /\ Refers(a)
       /\ UNCHANGED <<host, SessionID, ended>>
       /\ send_packet("START_CONNECTION")
    \/ ~ Refers(a) /\ Ignored

recv_failed_msg(a) ==
    \/ Refers(a) /\ XdmcpFatal /\ UNCHANGED <<host, SessionID>>
    \/ ~ Refers(a) /\ Ignored

recv_alive_msg(a) ==
    IF state # "AWAIT_ALIVE_RESPONSE" \/ ~ a.ok THEN Ignored
    ELSE IF a.running /\ a.id = SessionID
    THEN /\ state' = "RUN_SESSION"
         /\ timer' = DEF_DORMANCY
         /\ UNCHANGED <<host, SessionID, sent, ended>>
    ELSE /\ UNCHANGED <<host, SessionID>>
         /\ XdmcpDeadSession

\* Any packet ends the backoff, before anything else is looked at.
Receive(a) ==
    /\ ended = "no"
    /\ \E p \in sent : Answers(a, p)
    /\ timeOutRtx' = 0
    /\ UNCHANGED <<XDM_INIT_STATE, mgr, sessionSocket, conns>>
    /\ CASE a.type = "WILLING"   -> recv_willing_msg(a)
         [] a.type = "UNWILLING" -> XdmcpFatal /\ UNCHANGED <<host, SessionID>>
         [] a.type = "ACCEPT"    -> recv_accept_msg(a)
         [] a.type = "DECLINE"   -> recv_decline_msg(a)
         [] a.type = "REFUSE"    -> recv_refuse_msg(a)
         [] a.type = "FAILED"    -> recv_failed_msg(a)
         [] a.type = "ALIVE"     -> recv_alive_msg(a)

\* A packet of another version, or that does not parse.
Junk ==
    /\ ended = "no"
    /\ timeOutRtx' = 0
    /\ Ignored
    /\ UNCHANGED <<XDM_INIT_STATE, mgr, sessionSocket, conns>>

receive_packet == Junk \/ \E a \in Answer : Receive(a)

-----------------------------------------------------------------------------
(* Client connections.                                                     *)

\* The first client that connects while the answer to MANAGE is due is taken
\* for the manager.
XdmcpOpenDisplay(s) ==
    /\ ended = "no" /\ s \notin conns
    /\ conns' = conns \cup {s}
    /\ \/ /\ state = "AWAIT_MANAGE_RESPONSE"
          /\ state' = "RUN_SESSION"
          /\ timer' = DEF_DORMANCY
          /\ sessionSocket' = s
       \/ /\ state # "AWAIT_MANAGE_RESPONSE"
          /\ UNCHANGED <<state, timer, sessionSocket>>
    /\ UNCHANGED <<XDM_INIT_STATE, timeOutRtx, mgr, host, SessionID, sent, ended>>

XdmcpCloseDisplay(s) ==
    /\ ended = "no" /\ s \in conns
    /\ conns' = conns \ {s}
    /\ \/ /\ state \in Running /\ sessionSocket = s
          /\ state' = XDM_INIT_STATE
          /\ ended' = "terminate"
       \/ /\ ~ (state \in Running /\ sessionSocket = s)
          /\ UNCHANGED <<state, ended>>
    /\ UNCHANGED <<XDM_INIT_STATE, timeOutRtx, mgr, host, SessionID, timer,
                   sessionSocket, sent>>

-----------------------------------------------------------------------------
\* XdmcpInit: xdmcp_reset sends the first query.
XdmcpInit ==
    /\ XDM_INIT_STATE \in InitStates
    /\ state = Collect[XDM_INIT_STATE]
    /\ timeOutRtx = 0
    /\ mgr = 1
    /\ host = None
    /\ SessionID = None
    /\ timer = Backoff(0)
    /\ sessionSocket = None
    /\ conns = {}
    /\ sent = [type : {"QUERY"}, id : {None},
               to : IF XDM_INIT_STATE = "QUERY" THEN {MgrAddr[1]} ELSE Host]
    /\ ended = "no"

Next ==
    \/ XdmcpTimerNotify
    \/ receive_packet
    \/ \E s \in Sock : XdmcpOpenDisplay(s) \/ XdmcpCloseDisplay(s)

\* DoTimers runs a timer that is due; TimerSpec promises it.
Spec == XdmcpInit /\ [][Next]_vars /\ WF_vars(XdmcpTimerNotify)

-----------------------------------------------------------------------------
(* Properties.                                                             *)

\* Every variable has its type.  The display waits in a state in which it has
\* something to send only when sending failed, gives up at RTX_LIMIT timeouts,
\* and repeats no packet later than MAX_RTX (send_packet, timeout).
TypeOK ==
    /\ XDM_INIT_STATE \in InitStates
    /\ state \in States
    /\ state \in DOMAIN Collect \cup {"KEEPALIVE"} => ended = "terminate"
    /\ timeOutRtx \in 0 .. RTX_LIMIT
    /\ timeOutRtx = RTX_LIMIT => ended = "terminate"
    /\ mgr \in 1 .. Len(MgrAddr)
    /\ host \in Host \cup {None}
    /\ SessionID \in Session \cup {None}
    /\ timer \in MIN_RTX .. MAX_RTX \cup {DEF_DORMANCY, None}
    /\ sessionSocket \in Sock \cup {None}
    /\ conns \subseteq Sock
    /\ sent \subseteq Packet
    /\ ended \in {"no", "terminate", "fatal"}

\* While the session runs its connection is open, so that the end of the
\* manager is noticed: the session's descriptor is never that of a connection
\* opened after the session's was closed (XdmcpOpenDisplay, XdmcpCloseDisplay).
SessionIsConnected == ended = "no" /\ state \in Running => sessionSocket \in conns

\* From MANAGE on, the display talks about a session to the manager that gave
\* it out, though answers of every manager, of every age, may arrive and are
\* not checked for their sender (recv_willing_msg, recv_accept_msg).
HostOwnsSession ==
    /\ state \in Running \cup {"MANAGE", "AWAIT_MANAGE_RESPONSE"}
            => SessionID \in Session /\ host = Owner[SessionID]
    /\ \A p \in sent : p.id # None => p.to = Owner[p.id]

\* Both of them: what a session is made of belongs together.
SessionIsWhole == SessionIsConnected /\ HostOwnsSession

\* A session that runs keeps its manager, its identifier and its connection
\* until the server ends, whatever old answers still arrive.
SessionIsKept ==
    [][ended' = "no" /\ state \in Running =>
          /\ state' \in Running
          /\ UNCHANGED <<host, SessionID, sessionSocket>>]_vars

\* Silence ends the search and the session: unless packets arrive again and
\* again, the server ends (timeout).
SilenceEnds == <>(ended # "no") \/ []<><<receive_packet>>_vars
=============================================================================
