---------------------------- MODULE XdmcpProofs -----------------------------
(***************************************************************************)
(* Proofs about Xdmcp, for any managers, sessions, descriptors and limits, *)
(* and any network: the variables keep their types, the retransmission     *)
(* interval its bounds; the session is whole and is kept.                  *)
(***************************************************************************)
EXTENDS Xdmcp, NaturalsInduction, WellFoundedInduction, TLAPS

\* TypeOK without the timer, which has an invariant of its own.
Types ==
    /\ XDM_INIT_STATE \in InitStates
    /\ state \in States
    /\ state \in DOMAIN Collect \cup {"KEEPALIVE"} => ended = "terminate"
    /\ timeOutRtx \in 0 .. RTX_LIMIT
    /\ timeOutRtx = RTX_LIMIT => ended = "terminate"
    /\ mgr \in 1 .. Len(MgrAddr)
    /\ host \in Host \cup {None}
    /\ SessionID \in Session \cup {None}
    /\ sessionSocket \in Sock \cup {None}
    /\ conns \subseteq Sock
    /\ sent \subseteq Packet
    /\ ended \in {"no", "terminate", "fatal"}

\* Until a manager is chosen nobody has been asked for a session, and
\* afterwards only that manager has: an ACCEPT, however old, is from it.
OneManagerIsAsked ==
    ended = "no" =>
        IF state \in Collecting
        THEN \A p \in sent : p.type # "REQUEST"
        ELSE /\ host \in Host
             /\ \A p \in sent : p.type = "REQUEST" => p.to = host

SessionInv == Types /\ OneManagerIsAsked /\ SessionIsWhole

-----------------------------------------------------------------------------
(* The states.                                                             *)

LEMMA QueryStates ==
    DOMAIN Collect = {"QUERY", "BROADCAST", "MULTICAST", "INDIRECT"}
BY DEF Collect

LEMMA CollectStates ==
    /\ Collecting = {"COLLECT_QUERY", "COLLECT_BROADCAST_QUERY",
                     "COLLECT_MULTICAST_QUERY", "COLLECT_INDIRECT_QUERY"}
    /\ \A q \in DOMAIN Collect : Collect[q] \in Collecting
BY DEF Collect, Collecting

LEMMA AllStates ==
    States = {"QUERY", "BROADCAST", "MULTICAST", "INDIRECT",
              "COLLECT_QUERY", "COLLECT_BROADCAST_QUERY",
              "COLLECT_MULTICAST_QUERY", "COLLECT_INDIRECT_QUERY",
              "START_CONNECTION", "AWAIT_REQUEST_RESPONSE", "MANAGE",
              "AWAIT_MANAGE_RESPONSE", "RUN_SESSION", "KEEPALIVE", "AWAIT_ALIVE_RESPONSE"}
BY QueryStates, CollectStates DEF States

\* What is repeated in each state that waits.
LEMMA Repeated ==
    ASSUME state \in States,
           state \notin DOMAIN Collect \cup {"KEEPALIVE", "RUN_SESSION"}
    PROVE  \/ state \in Collecting /\ Resend(state) \in DOMAIN Collect
           \/ state \in {"START_CONNECTION", "AWAIT_REQUEST_RESPONSE"}
              /\ Resend(state) = "START_CONNECTION"
           \/ state \in {"MANAGE", "AWAIT_MANAGE_RESPONSE"} /\ Resend(state) = "MANAGE"
           \/ state = "AWAIT_ALIVE_RESPONSE" /\ Resend(state) = "KEEPALIVE"
<1>1. CASE state \in Collecting
  <2>1. \E q \in DOMAIN Collect : Collect[q] = state
    BY <1>1 DEF Collecting
  <2>2. Resend(state) \in DOMAIN Collect
    BY <2>1 DEF Resend
  <2> QED BY <1>1, <2>2
<1>2. CASE state \notin Collecting
  <2>1. ~ \E q \in DOMAIN Collect : Collect[q] = state
    BY <1>2 DEF Collecting
  <2>2. state \in {"START_CONNECTION", "AWAIT_REQUEST_RESPONSE", "MANAGE",
                   "AWAIT_MANAGE_RESPONSE", "AWAIT_ALIVE_RESPONSE"}
    BY <1>2 DEF States
  <2> QED BY <2>1, <2>2 DEF Resend
<1> QED BY <1>1, <1>2

-----------------------------------------------------------------------------
(* What sending does.                                                      *)

\* A query leaves no session.
LEMMA ToCollect ==
    ASSUME SessionInv, NEW q \in DOMAIN Collect, send_query_msg(q),
           mgr' \in 1 .. Len(MgrAddr),
           (state \in Collecting /\ ended = "no") \/ ended' # "no",
           UNCHANGED host
    PROVE  /\ state' \in Collecting
           /\ sent' \subseteq Packet
           /\ OneManagerIsAsked'
           /\ SessionIsWhole'
<1> USE XdmcpAssumption
<1>1. state' \in Collecting
  BY CollectStates DEF send_query_msg
<1>2. Queried(q) \subseteq Host
  BY DEF Queried
<1>3. \A p \in sent' : p \in sent \/ (p.type = "QUERY" /\ p.id = None /\ p \in Packet)
  BY <1>2 DEF send_query_msg, Packet
<1>4. sent' \subseteq Packet
  BY <1>3 DEF SessionInv, Types
<1>5. OneManagerIsAsked'
  BY <1>1, <1>3 DEF OneManagerIsAsked, SessionInv, Collecting
<1>6. SessionIsWhole'
  BY <1>1, <1>3, CollectStates
  DEF SessionIsWhole, SessionIsConnected, HostOwnsSession, SessionInv, Running
<1> QED BY <1>1, <1>4, <1>5, <1>6

\* A request for a session goes to the manager that is chosen, for good.
LEMMA ToRequest ==
    ASSUME SessionInv, send_request_msg, ended = "no", host' \in Host,
           state \in Collecting \/ UNCHANGED host
    PROVE  /\ state' \in {"START_CONNECTION", "AWAIT_REQUEST_RESPONSE"}
           /\ sent' \subseteq Packet
           /\ OneManagerIsAsked'
           /\ SessionIsWhole'
<1>1. state' \in {"START_CONNECTION", "AWAIT_REQUEST_RESPONSE"}
  BY DEF send_request_msg
<1>2. \A p \in sent' : p \in sent
                       \/ (p.type = "REQUEST" /\ p.to = host' /\ p.id = None /\ p \in Packet)
  BY DEF send_request_msg, Packet
<1>3. sent' \subseteq Packet
  BY <1>2 DEF SessionInv, Types
<1>4. OneManagerIsAsked'
  BY <1>1, <1>2, CollectStates DEF OneManagerIsAsked, SessionInv
<1>5. SessionIsWhole'
  BY <1>1, <1>2 DEF SessionIsWhole, SessionIsConnected, HostOwnsSession, SessionInv, Running
<1> QED BY <1>1, <1>3, <1>4, <1>5

\* A session is named to its owner only.
LEMMA ToManage ==
    ASSUME SessionInv, send_manage_msg, ended = "no", state \notin Collecting,
           SessionID' \in Session, host = Owner[SessionID'], UNCHANGED host
    PROVE  /\ state' \in {"MANAGE", "AWAIT_MANAGE_RESPONSE"}
           /\ sent' \subseteq Packet
           /\ OneManagerIsAsked'
           /\ SessionIsWhole'
<1>1. state' \in {"MANAGE", "AWAIT_MANAGE_RESPONSE"}
  BY DEF send_manage_msg
<1>h. host \in Host
  BY DEF SessionInv, OneManagerIsAsked
<1>2. \A p \in sent' : p \in sent
                       \/ (p.type = "MANAGE" /\ p.to = host' /\ p.id = SessionID' /\ p \in Packet)
  BY <1>h DEF send_manage_msg, Packet
<1>3. sent' \subseteq Packet
  BY <1>2 DEF SessionInv, Types
<1>4. OneManagerIsAsked'
  BY <1>1, <1>2, CollectStates DEF OneManagerIsAsked, SessionInv
<1>5. SessionIsWhole'
  BY <1>1, <1>2 DEF SessionIsWhole, SessionIsConnected, HostOwnsSession, SessionInv, Running
<1> QED BY <1>1, <1>3, <1>4, <1>5

\* So is a question if it is alive.
LEMMA ToKeepalive ==
    ASSUME SessionInv, send_keepalive_msg, ended = "no", state \in Running,
           UNCHANGED <<host, SessionID, sessionSocket, conns>>
    PROVE  /\ state' = "AWAIT_ALIVE_RESPONSE"
           /\ sent' \subseteq Packet
           /\ OneManagerIsAsked'
           /\ SessionIsWhole'
<1>1. state' = "AWAIT_ALIVE_RESPONSE"
  BY DEF send_keepalive_msg
<1>h. host \in Host /\ SessionID \in Session /\ host = Owner[SessionID]
  BY CollectStates
  DEF SessionInv, OneManagerIsAsked, Running, SessionIsWhole, HostOwnsSession
<1>2. \A p \in sent' : p \in sent
                       \/ (p.type = "KEEPALIVE" /\ p.to = host /\ p.id = SessionID /\ p \in Packet)
  BY <1>h DEF send_keepalive_msg, Packet
<1>3. sent' \subseteq Packet
  BY <1>2 DEF SessionInv, Types
<1>4. OneManagerIsAsked'
  BY <1>1, <1>2, <1>h, CollectStates DEF OneManagerIsAsked, SessionInv, Running
<1>5. SessionIsWhole'
  BY <1>1, <1>2, <1>h
  DEF SessionIsWhole, SessionIsConnected, HostOwnsSession, SessionInv, Running
<1> QED BY <1>1, <1>3, <1>4, <1>5

\* Ending at once leaves everything as it is.
LEMMA ToFatal ==
    ASSUME SessionInv, XdmcpFatal, UNCHANGED <<host, SessionID>>
    PROVE  OneManagerIsAsked' /\ SessionIsWhole'
BY DEF XdmcpFatal, SessionInv, OneManagerIsAsked, SessionIsWhole, SessionIsConnected,
       HostOwnsSession

LEMMA ToIgnored ==
    ASSUME SessionInv, Ignored, UNCHANGED <<sessionSocket, conns>>
    PROVE  OneManagerIsAsked' /\ SessionIsWhole'
BY DEF Ignored, SessionInv, OneManagerIsAsked, SessionIsWhole, SessionIsConnected,
       HostOwnsSession, Running

-----------------------------------------------------------------------------
(* The steps.                                                              *)

\* send_packet does what the state calls for.
LEMMA Sends ==
    ASSUME NEW st, send_packet(st)
    PROVE  /\ st \in DOMAIN Collect => send_query_msg(st)
           /\ st = "START_CONNECTION" => send_request_msg
           /\ st = "MANAGE" => send_manage_msg
           /\ st = "KEEPALIVE" => send_keepalive_msg
BY QueryStates DEF send_packet

LEMMA DeadSession ==
    ASSUME SessionInv, XdmcpDeadSession, mgr' \in 1 .. Len(MgrAddr),
           UNCHANGED <<XDM_INIT_STATE, host, SessionID, sessionSocket, conns>>
    PROVE  SessionInv'
<1>1. XDM_INIT_STATE \in DOMAIN Collect
  BY XdmcpAssumption, QueryStates DEF SessionInv, Types
<1>2. send_query_msg(XDM_INIT_STATE) /\ ended' = "terminate" /\ timeOutRtx' = 0
  BY <1>1, Sends DEF XdmcpDeadSession
<1>3. state' \in Collecting /\ sent' \subseteq Packet /\ OneManagerIsAsked' /\ SessionIsWhole'
  BY <1>1, <1>2, ToCollect
<1>4. Types'
  BY <1>2, <1>3, XdmcpAssumption DEF Types, SessionInv, States
<1> QED BY <1>3, <1>4 DEF SessionInv

LEMMA TimeoutStep ==
    ASSUME SessionInv, ended = "no", state # "RUN_SESSION", timeout,
           UNCHANGED <<XDM_INIT_STATE, host, SessionID, sessionSocket, conns>>
    PROVE  SessionInv'
<1> DEFINE n == NextRtx(timeOutRtx)
<1>t. /\ timeOutRtx \in Nat /\ timeOutRtx < RTX_LIMIT /\ n \in 0 .. RTX_LIMIT
      /\ RTX_LIMIT \in Nat
  BY XdmcpAssumption DEF SessionInv, Types, NextRtx
<1>1. CASE /\ state = "AWAIT_ALIVE_RESPONSE" /\ n >= KA_RTX_LIMIT
           /\ UNCHANGED mgr /\ XdmcpDeadSession
  BY <1>1, DeadSession DEF SessionInv, Types
<1>2. CASE /\ timeOutRtx' = n /\ ended' = "terminate"
           /\ UNCHANGED <<state, mgr, sent>>
  <2>1. Types'
    BY <1>2, <1>t DEF SessionInv, Types
  <2>2. OneManagerIsAsked' /\ SessionIsWhole'
    BY <1>2 DEF SessionInv, OneManagerIsAsked, SessionIsWhole, SessionIsConnected, HostOwnsSession
  <2> QED BY <2>1, <2>2 DEF SessionInv
<1>3. CASE /\ n < RTX_LIMIT /\ timeOutRtx' = n
           /\ mgr' = IF state \in {"COLLECT_QUERY", "COLLECT_INDIRECT_QUERY"}
                     THEN (mgr % Len(MgrAddr)) + 1 ELSE mgr
           /\ send_packet(Resend(state)) /\ UNCHANGED ended
  <2>1. mgr' \in 1 .. Len(MgrAddr)
    BY <1>3, XdmcpAssumption DEF SessionInv, Types
  <2>2. state \notin DOMAIN Collect \cup {"KEEPALIVE", "RUN_SESSION"} /\ state \in States
    BY DEF SessionInv, Types
  <2>3. CASE state \in Collecting /\ Resend(state) \in DOMAIN Collect
    <3>1. /\ state' \in Collecting
          /\ sent' \subseteq Packet /\ OneManagerIsAsked' /\ SessionIsWhole'
      BY <1>3, <2>1, <2>3, Sends, ToCollect
    <3> QED BY <3>1, <1>3, <1>t, <2>1, AllStates, QueryStates, CollectStates
            DEF SessionInv, Types
  <2>4. CASE state \in {"START_CONNECTION", "AWAIT_REQUEST_RESPONSE"}
             /\ Resend(state) = "START_CONNECTION"
    <3>1. host \in Host
      BY <2>4, CollectStates DEF SessionInv, OneManagerIsAsked
    <3>2. /\ state' \in {"START_CONNECTION", "AWAIT_REQUEST_RESPONSE"}
          /\ sent' \subseteq Packet /\ OneManagerIsAsked' /\ SessionIsWhole'
      BY <1>3, <2>4, <3>1, Sends, ToRequest
    <3> QED BY <3>2, <1>3, <1>t, <2>1, AllStates, QueryStates DEF SessionInv, Types
  <2>5. CASE state \in {"MANAGE", "AWAIT_MANAGE_RESPONSE"} /\ Resend(state) = "MANAGE"
    <3>1. SessionID \in Session /\ host = Owner[SessionID] /\ state \notin Collecting
      BY <2>5, CollectStates DEF SessionInv, SessionIsWhole, HostOwnsSession
    <3>2. /\ state' \in {"MANAGE", "AWAIT_MANAGE_RESPONSE"}
          /\ sent' \subseteq Packet /\ OneManagerIsAsked' /\ SessionIsWhole'
      BY <1>3, <2>5, <3>1, Sends, ToManage
    <3> QED BY <3>2, <1>3, <1>t, <2>1, AllStates, QueryStates DEF SessionInv, Types
  <2>6. CASE state = "AWAIT_ALIVE_RESPONSE" /\ Resend(state) = "KEEPALIVE"
    <3>1. /\ state' = "AWAIT_ALIVE_RESPONSE"
          /\ sent' \subseteq Packet /\ OneManagerIsAsked' /\ SessionIsWhole'
      BY <1>3, <2>6, Sends, ToKeepalive DEF Running
    <3> QED BY <3>1, <1>3, <1>t, <2>1, AllStates, QueryStates DEF SessionInv, Types
  <2> QED BY <2>2, <2>3, <2>4, <2>5, <2>6, Repeated
<1> QED BY <1>1, <1>2, <1>3 DEF timeout

LEMMA TimerStep ==
    ASSUME SessionInv, XdmcpTimerNotify
    PROVE  SessionInv'
<1>1. CASE /\ state = "RUN_SESSION" /\ UNCHANGED <<timeOutRtx, mgr, ended>>
           /\ send_packet("KEEPALIVE")
  <2>1. /\ state' = "AWAIT_ALIVE_RESPONSE"
        /\ sent' \subseteq Packet /\ OneManagerIsAsked' /\ SessionIsWhole'
    BY <1>1, Sends, ToKeepalive DEF Running, XdmcpTimerNotify
  <2> QED BY <1>1, <2>1, AllStates, QueryStates DEF SessionInv, Types, XdmcpTimerNotify
<1>2. CASE state # "RUN_SESSION" /\ timeout
  BY <1>2, TimeoutStep DEF XdmcpTimerNotify
<1> QED BY <1>1, <1>2 DEF XdmcpTimerNotify

LEMMA ReceiveStep ==
    ASSUME SessionInv, NEW a \in Answer, Receive(a)
    PROVE  SessionInv'
<1> USE DEF Receive
<1>u. /\ ended = "no" /\ timeOutRtx' = 0
      /\ UNCHANGED <<XDM_INIT_STATE, mgr, sessionSocket, conns>>
      /\ RTX_LIMIT \in Nat \ {0}
  BY XdmcpAssumption
<1>n. state \notin DOMAIN Collect \cup {"KEEPALIVE"}
  BY <1>u DEF SessionInv, Types
<1>f. ASSUME XdmcpFatal, UNCHANGED <<host, SessionID>>
      PROVE  SessionInv'
  BY <1>f, <1>u, <1>n, ToFatal, XdmcpAssumption DEF SessionInv, Types, XdmcpFatal
<1>i. ASSUME Ignored
      PROVE  SessionInv'
  BY <1>i, <1>u, ToIgnored, XdmcpAssumption DEF SessionInv, Types, Ignored
<1>1. CASE a.type = "WILLING"
  <2>1. CASE Ignored
    BY <2>1, <1>i
  <2>2. CASE state \in Collecting /\ XdmcpSelectHost(a.from)
    <3>1. host' \in Host /\ UNCHANGED <<SessionID, ended>> /\ send_request_msg
      BY <2>2, Sends DEF XdmcpSelectHost, Answer
    <3>2. /\ state' \in {"START_CONNECTION", "AWAIT_REQUEST_RESPONSE"}
          /\ sent' \subseteq Packet /\ OneManagerIsAsked' /\ SessionIsWhole'
      BY <1>u, <2>2, <3>1, ToRequest
    <3> QED BY <1>u, <3>1, <3>2, AllStates, QueryStates DEF SessionInv, Types
  <2> QED BY <1>1, <2>1, <2>2 DEF recv_willing_msg
<1>2. CASE a.type = "UNWILLING"
  BY <1>2, <1>f
<1>3. CASE a.type = "ACCEPT"
  <2>1. CASE Ignored
    BY <2>1, <1>i
  <2>2. CASE XdmcpFatal /\ UNCHANGED <<host, SessionID>>
    BY <2>2, <1>f
  <2>3. CASE /\ state = "AWAIT_REQUEST_RESPONSE" /\ SessionID' = a.id
             /\ UNCHANGED <<host, ended>> /\ send_packet("MANAGE")
    <3>1. PICK p \in sent : Answers(a, p)
      OBVIOUS
    <3>2. p.type = "REQUEST" /\ p.to = a.from /\ a.id \in Session /\ Owner[a.id] = a.from
      BY <1>3, <3>1 DEF Answers, Question
    <3>3. host = a.from /\ state \notin Collecting
      BY <1>u, <2>3, <3>2, CollectStates DEF SessionInv, OneManagerIsAsked
    <3>4. /\ state' \in {"MANAGE", "AWAIT_MANAGE_RESPONSE"}
          /\ sent' \subseteq Packet /\ OneManagerIsAsked' /\ SessionIsWhole'
      BY <1>u, <2>3, <3>2, <3>3, Sends, ToManage
    <3> QED BY <1>u, <2>3, <3>2, <3>4, AllStates, QueryStates DEF SessionInv, Types
  <2> QED BY <1>3, <2>1, <2>2, <2>3 DEF recv_accept_msg
<1>4. CASE a.type = "DECLINE"
  BY <1>4, <1>f, <1>i DEF recv_decline_msg
<1>5. CASE a.type = "REFUSE"
  <2>1. CASE Ignored
    BY <2>1, <1>i
  <2>2. CASE /\ Refers(a) /\ UNCHANGED <<host, SessionID, ended>>
             /\ send_packet("START_CONNECTION")
    <3>1. host \in Host
      BY <1>u, <2>2, CollectStates DEF SessionInv, OneManagerIsAsked, Refers
    <3>2. /\ state' \in {"START_CONNECTION", "AWAIT_REQUEST_RESPONSE"}
          /\ sent' \subseteq Packet /\ OneManagerIsAsked' /\ SessionIsWhole'
      BY <1>u, <2>2, <3>1, Sends, ToRequest
    <3> QED BY <1>u, <2>2, <3>2, AllStates, QueryStates DEF SessionInv, Types
  <2> QED BY <1>5, <2>1, <2>2 DEF recv_refuse_msg
<1>6. CASE a.type = "FAILED"
  BY <1>6, <1>f, <1>i DEF recv_failed_msg
<1>7. CASE a.type = "ALIVE"
  <2>1. CASE Ignored
    BY <2>1, <1>i
  <2>2. CASE /\ state = "AWAIT_ALIVE_RESPONSE" /\ state' = "RUN_SESSION"
             /\ UNCHANGED <<host, SessionID, sent, ended>>
    <3>1. OneManagerIsAsked' /\ SessionIsWhole'
      BY <1>u, <2>2, CollectStates
      DEF SessionInv, OneManagerIsAsked, SessionIsWhole, SessionIsConnected,
          HostOwnsSession, Running
    <3> QED BY <1>u, <2>2, <3>1, AllStates, QueryStates DEF SessionInv, Types
  <2>3. CASE UNCHANGED <<host, SessionID>> /\ XdmcpDeadSession
    BY <1>u, <2>3, DeadSession DEF SessionInv, Types
  <2> QED BY <1>7, <2>1, <2>2, <2>3 DEF recv_alive_msg
<1>8. a.type \in {"WILLING", "UNWILLING", "ACCEPT", "DECLINE", "REFUSE", "FAILED", "ALIVE"}
  BY DEF Answer
<1> QED BY <1>1, <1>2, <1>3, <1>4, <1>5, <1>6, <1>7, <1>8

LEMMA JunkStep ==
    ASSUME SessionInv, Junk
    PROVE  SessionInv'
BY ToIgnored, XdmcpAssumption DEF Junk, SessionInv, Types, Ignored

LEMMA OpenStep ==
    ASSUME SessionInv, NEW s \in Sock, XdmcpOpenDisplay(s)
    PROVE  SessionInv'
<1> USE DEF XdmcpOpenDisplay
<1>1. CASE state = "AWAIT_MANAGE_RESPONSE" /\ state' = "RUN_SESSION" /\ sessionSocket' = s
  <2>1. OneManagerIsAsked' /\ SessionIsWhole'
    BY <1>1, CollectStates
    DEF SessionInv, OneManagerIsAsked, SessionIsWhole, SessionIsConnected, HostOwnsSession, Running
  <2> QED BY <1>1, <2>1, AllStates, QueryStates DEF SessionInv, Types
<1>2. CASE UNCHANGED <<state, sessionSocket>>
  <2>1. OneManagerIsAsked' /\ SessionIsWhole'
    BY <1>2
    DEF SessionInv, OneManagerIsAsked, SessionIsWhole, SessionIsConnected, HostOwnsSession, Running
  <2> QED BY <1>2, <2>1 DEF SessionInv, Types
<1> QED BY <1>1, <1>2

LEMMA CloseStep ==
    ASSUME SessionInv, NEW s \in Sock, XdmcpCloseDisplay(s)
    PROVE  SessionInv'
<1> USE DEF XdmcpCloseDisplay
<1>1. CASE state' = XDM_INIT_STATE /\ ended' = "terminate"
  <2>1. XDM_INIT_STATE \in DOMAIN Collect
    BY XdmcpAssumption, QueryStates DEF SessionInv, Types
  <2>2. OneManagerIsAsked' /\ SessionIsWhole'
    BY <1>1, <2>1, QueryStates
    DEF SessionInv, OneManagerIsAsked, SessionIsWhole, SessionIsConnected, HostOwnsSession, Running
  <2> QED BY <1>1, <2>1, <2>2, AllStates, QueryStates DEF SessionInv, Types
<1>2. CASE /\ ~ (state \in Running /\ sessionSocket = s)
           /\ UNCHANGED <<state, ended>>
  <2>1. OneManagerIsAsked' /\ SessionIsWhole'
    BY <1>2
    DEF SessionInv, OneManagerIsAsked, SessionIsWhole, SessionIsConnected, HostOwnsSession, Running
  <2> QED BY <1>2, <2>1 DEF SessionInv, Types
<1> QED BY <1>1, <1>2

LEMMA SessionInit == XdmcpInit => SessionInv
<1> SUFFICES ASSUME XdmcpInit PROVE SessionInv
  OBVIOUS
<1> USE XdmcpAssumption DEF XdmcpInit
<1>1. XDM_INIT_STATE \in DOMAIN Collect /\ state \in Collecting
  BY QueryStates, CollectStates
<1>2. \A p \in sent : p.type = "QUERY" /\ p.id = None /\ p \in Packet
  BY DEF Packet
<1>3. Types
  BY <1>1, <1>2, AllStates, QueryStates, CollectStates DEF Types
<1>4. OneManagerIsAsked /\ SessionIsWhole
  BY <1>1, <1>2, CollectStates
  DEF OneManagerIsAsked, SessionIsWhole, SessionIsConnected, HostOwnsSession, Running
<1> QED BY <1>3, <1>4 DEF SessionInv

LEMMA SessionStutter ==
    ASSUME SessionInv, UNCHANGED vars
    PROVE  SessionInv'
BY DEF vars, SessionInv, Types, OneManagerIsAsked, SessionIsWhole, SessionIsConnected,
       HostOwnsSession, Running, Collecting

-----------------------------------------------------------------------------
(* The results.                                                            *)

\* SessionInv is an invariant: along every behaviour of timer, network and
\* connections at most one manager is ever asked for a session, which is why
\* the missing checks of the senders of packets do no harm.
THEOREM SessionInvariant == Spec => []SessionInv
<1>1. XdmcpInit => SessionInv
  BY SessionInit
<1>2. SessionInv /\ [Next]_vars => SessionInv'
  <2> SUFFICES ASSUME SessionInv, [Next]_vars PROVE SessionInv'
    OBVIOUS
  <2>1. CASE XdmcpTimerNotify
    BY <2>1, TimerStep
  <2>2. CASE receive_packet
    BY <2>2, JunkStep, ReceiveStep DEF receive_packet
  <2>3. CASE \E s \in Sock : XdmcpOpenDisplay(s) \/ XdmcpCloseDisplay(s)
    BY <2>3, OpenStep, CloseStep
  <2>4. CASE UNCHANGED vars
    BY <2>4, SessionStutter
  <2> QED BY <2>1, <2>2, <2>3, <2>4 DEF Next
<1> QED BY <1>1, <1>2, PTL DEF Spec

\* The session is whole: its connection is open while it runs, and it is
\* talked about with the manager that gave it out (XdmcpOpenDisplay,
\* recv_accept_msg).
THEOREM SessionStaysWhole == Spec => []SessionIsWhole
<1>1. SessionInv => SessionIsWhole
  BY DEF SessionInv
<1> QED BY <1>1, SessionInvariant, PTL

\* One step does not take a running session's manager, identifier or
\* connection away, unless the server ends.
LEMMA KeptByStep ==
    ASSUME SessionInv, [Next]_vars, ended' = "no", state \in Running
    PROVE  state' \in Running /\ UNCHANGED <<host, SessionID, sessionSocket>>
<1>0. /\ state \in {"RUN_SESSION", "AWAIT_ALIVE_RESPONSE"} /\ state \notin Collecting
      /\ state # "AWAIT_MANAGE_RESPONSE" /\ state # "AWAIT_REQUEST_RESPONSE"
  BY CollectStates DEF Running
<1>1. CASE XdmcpTimerNotify
  <2>1. CASE state = "RUN_SESSION" /\ send_packet("KEEPALIVE")
    BY <1>1, <2>1, Sends DEF XdmcpTimerNotify, send_keepalive_msg, Running
  <2>2. CASE state # "RUN_SESSION" /\ timeout
    <3>1. state = "AWAIT_ALIVE_RESPONSE" /\ state \in States
      BY <1>0, <2>2 DEF SessionInv, Types
    <3>2. Resend(state) = "KEEPALIVE"
      BY <3>1, Repeated, QueryStates, CollectStates
    <3>3. send_packet(Resend(state))
      BY <2>2 DEF timeout, XdmcpDeadSession
    <3> QED BY <1>1, <3>2, <3>3, Sends DEF XdmcpTimerNotify, send_keepalive_msg, Running
  <2> QED BY <1>1, <2>1, <2>2 DEF XdmcpTimerNotify
<1>2. CASE receive_packet
  <2>1. CASE Junk
    BY <2>1 DEF Junk, Ignored, Running
  <2>2. ASSUME NEW a \in Answer, Receive(a)
        PROVE  state' \in Running /\ UNCHANGED <<host, SessionID, sessionSocket>>
    <3>1. CASE Ignored
      BY <2>2, <3>1 DEF Receive, Ignored, Running
    <3>2. CASE a.type = "ALIVE" /\ recv_alive_msg(a)
      BY <2>2, <3>1, <3>2 DEF Receive, recv_alive_msg, XdmcpDeadSession, Running
    <3>3. CASE a.type # "ALIVE"
      BY <1>0, <2>2, <3>1, <3>3
      DEF Receive, Answer, recv_willing_msg, recv_accept_msg, recv_decline_msg,
          recv_refuse_msg, recv_failed_msg, Refers, XdmcpFatal
    <3> QED BY <2>2, <3>2, <3>3 DEF Receive
  <2> QED BY <1>2, <2>1, <2>2 DEF receive_packet
<1>3. CASE \E s \in Sock : XdmcpOpenDisplay(s) \/ XdmcpCloseDisplay(s)
  BY <1>0, <1>3 DEF XdmcpOpenDisplay, XdmcpCloseDisplay, Running
<1>4. CASE UNCHANGED vars
  BY <1>4 DEF vars, Running
<1> QED BY <1>1, <1>2, <1>3, <1>4 DEF Next

\* A running session is kept until the server ends, whatever answers arrive,
\* of any age and from anyone (recv_alive_msg, recv_accept_msg).
THEOREM RunningSessionIsKept == Spec => SessionIsKept
<1>1. SessionInv /\ [Next]_vars
        => [ended' = "no" /\ state \in Running =>
              /\ state' \in Running
              /\ UNCHANGED <<host, SessionID, sessionSocket>>]_vars
  BY KeptByStep
<1> QED BY <1>1, SessionInvariant, PTL DEF Spec, SessionIsKept

-----------------------------------------------------------------------------
(* The intervals between retransmissions.                                  *)

LEMMA LeastNat ==
    ASSUME NEW S \in SUBSET Nat, S # {}
    PROVE  \E x \in S : \A y \in S : x <= y
<1> DEFINE R == OpToRel(<, Nat)
<1>1. IsWellFoundedOn(R, Nat)
  BY NatLessThanWellFounded
<1>2. \A x, y \in Nat : ~(<<y, x>> \in R) => x <= y
  BY DEF OpToRel
<1> HIDE DEF R
<1>3. \E x \in S : \A y \in S : ~(<<y, x>> \in R)
  BY <1>1, WFMin
<1> QED BY <1>2, <1>3

\* One shift, given the value before it.
Double(g, n) == IF n = 0 THEN MIN_RTX ELSE 2 * g[n - 1]

\* The function of all shifts exists, by taking the least number of them for
\* which it would not.
LEMMA ShiftedExists == \E g : g = [n \in 0 .. RTX_LIMIT |-> Double(g, n)]
<1> DEFINE Good(m) == \E g : g = [n \in 0 .. m |-> Double(g, n)]
           Bad == {m \in 0 .. RTX_LIMIT : ~Good(m)}
<1>0. RTX_LIMIT \in Nat
  BY XdmcpAssumption
<1> SUFFICES ASSUME Bad # {} PROVE FALSE
  <2>1. RTX_LIMIT \notin Bad => Good(RTX_LIMIT)
    BY <1>0
  <2> QED BY <2>1
<1>1. Bad \in SUBSET Nat
  BY <1>0
<1>2. PICK m \in Bad : \A k \in Bad : m <= k
  <2> HIDE DEF Bad
  <2> QED BY <1>1, LeastNat
<1>3. m \in 0 .. RTX_LIMIT /\ ~Good(m)
  OBVIOUS
<1>4. CASE m = 0
  <2> DEFINE g == [n \in 0 .. 0 |-> MIN_RTX]
  <2>1. g = [n \in 0 .. 0 |-> Double(g, n)]
    BY DEF Double
  <2> QED BY <2>1, <1>3, <1>4
<1>5. CASE m # 0
  <2>1. m - 1 \in 0 .. RTX_LIMIT /\ ~(m <= m - 1) /\ m \in Nat
    BY <1>0, <1>3, <1>5
  <2>2. Good(m - 1)
    BY <2>1, <1>2
  <2>3. PICK g : g = [n \in 0 .. m - 1 |-> Double(g, n)]
    BY <2>2
  <2> DEFINE h == [n \in 0 .. m |-> IF n = m THEN Double(g, m) ELSE g[n]]
  <2>4. ASSUME NEW n \in 0 .. m PROVE h[n] = Double(h, n)
    <3>1. CASE n = m
      <4>1. h[m - 1] = g[m - 1]
        BY <2>1
      <4>2. h[n] = Double(g, m)
        BY <3>1
      <4> HIDE DEF h
      <4> QED BY <3>1, <4>1, <4>2 DEF Double
    <3>2. CASE n # m
      <4>1. n \in 0 .. m - 1 /\ h[n] = g[n]
        BY <3>2, <2>1
      <4>2. g[n] = Double(g, n)
        BY <4>1, <2>3
      <4>3. n # 0 => h[n - 1] = g[n - 1]
        BY <4>1, <2>1
      <4> HIDE DEF h
      <4> QED BY <4>1, <4>2, <4>3 DEF Double
    <3> QED BY <3>1, <3>2
  <2>5. h = [n \in 0 .. m |-> Double(h, n)]
    <3>1. h = [n \in 0 .. m |-> h[n]]
      OBVIOUS
    <3> HIDE DEF h
    <3> QED BY <3>1, <2>4
  <2> HIDE DEF h
  <2> QED BY <2>5, <1>3
<1> QED BY <1>4, <1>5

LEMMA ShiftedUnfolds ==
    \A n \in 0 .. RTX_LIMIT : Shifted[n] = IF n = 0 THEN MIN_RTX ELSE 2 * Shifted[n - 1]
<1> DEFINE g == CHOOSE g : g = [n \in 0 .. RTX_LIMIT |-> Double(g, n)]
<1>1. g = [n \in 0 .. RTX_LIMIT |-> Double(g, n)]
  BY ShiftedExists
<1>2. Shifted = g
  BY DEF Shifted, Double
<1> HIDE DEF g
<1> QED BY <1>1, <1>2 DEF Double

\* A shift makes nothing smaller.
LEMMA ShiftedGrows ==
    \A n \in 0 .. RTX_LIMIT : Shifted[n] \in Nat /\ Shifted[n] >= MIN_RTX
<1> DEFINE Bad == {n \in 0 .. RTX_LIMIT : ~(Shifted[n] \in Nat /\ Shifted[n] >= MIN_RTX)}
<1>0. RTX_LIMIT \in Nat /\ MIN_RTX \in Nat
  BY XdmcpAssumption
<1> SUFFICES ASSUME Bad # {} PROVE FALSE
  OBVIOUS
<1>1. Bad \in SUBSET Nat
  BY <1>0
<1>2. PICK m \in Bad : \A k \in Bad : m <= k
  <2> HIDE DEF Bad
  <2> QED BY <1>1, LeastNat
<1>3. CASE m = 0
  BY <1>0, <1>3, ShiftedUnfolds
<1>4. CASE m # 0
  <2>1. m - 1 \in 0 .. RTX_LIMIT /\ ~(m <= m - 1)
    BY <1>0, <1>4
  <2>2. Shifted[m - 1] \in Nat /\ Shifted[m - 1] >= MIN_RTX
    BY <2>1, <1>2
  <2>3. Shifted[m] = 2 * Shifted[m - 1]
    BY <1>4, ShiftedUnfolds
  <2> QED BY <1>0, <2>2, <2>3
<1> QED BY <1>3, <1>4

\* No interval is shorter than the least or longer than the greatest.
LEMMA BackoffInBounds ==
    ASSUME NEW n \in 0 .. RTX_LIMIT
    PROVE  Backoff(n) \in MIN_RTX .. MAX_RTX
BY ShiftedGrows, XdmcpAssumption DEF Backoff

TimerOK == timer \in MIN_RTX .. MAX_RTX \cup {DEF_DORMANCY, None}

LEMMA TimerInit == XdmcpInit => TimerOK
<1>1. 0 \in 0 .. RTX_LIMIT
  BY XdmcpAssumption
<1>2. Backoff(0) \in MIN_RTX .. MAX_RTX
  BY <1>1, BackoffInBounds
<1> QED BY <1>2 DEF XdmcpInit, TimerOK

\* The timer is set by send_packet, to the interval of the timeouts so far,
\* and for a session that runs.
LEMMA TimerKept ==
    ASSUME SessionInv, SessionInv', TimerOK, [Next]_vars
    PROVE  TimerOK'
<1>r. timeOutRtx' \in 0 .. RTX_LIMIT
  BY DEF SessionInv, Types
<1>s. ASSUME timer' = Backoff(timeOutRtx') PROVE TimerOK'
  <2>1. PICK n \in 0 .. RTX_LIMIT : n = timeOutRtx'
    BY <1>r
  <2>2. Backoff(n) \in MIN_RTX .. MAX_RTX
    BY BackoffInBounds
  <2> QED BY <1>s, <2>1, <2>2 DEF TimerOK
<1>u. ASSUME UNCHANGED timer PROVE TimerOK'
  BY <1>u DEF TimerOK
<1>d. ASSUME timer' \in {DEF_DORMANCY, None} PROVE TimerOK'
  BY <1>d DEF TimerOK
<1>1. CASE XdmcpTimerNotify
  <2>1. timer' = Backoff(timeOutRtx') \/ timer' = None
    BY <1>1 DEF XdmcpTimerNotify, timeout, XdmcpDeadSession, send_packet
  <2> QED BY <2>1, <1>s, <1>d
<1>2. CASE Junk
  BY <1>2, <1>u DEF Junk, Ignored
<1>3. ASSUME NEW a \in Answer, Receive(a) PROVE TimerOK'
  <2>0. a.type \in {"WILLING", "UNWILLING", "ACCEPT", "DECLINE", "REFUSE", "FAILED", "ALIVE"}
    BY DEF Answer
  <2>1. \/ timer' = Backoff(timeOutRtx')
        \/ timer' = DEF_DORMANCY
        \/ UNCHANGED timer
    BY <1>3, <2>0
    DEF Receive, recv_willing_msg, recv_accept_msg, recv_decline_msg, recv_refuse_msg,
        recv_failed_msg, recv_alive_msg, XdmcpSelectHost, XdmcpDeadSession, XdmcpFatal,
        Ignored, send_packet
  <2> QED BY <2>1, <1>s, <1>d, <1>u
<1>4. CASE \E s \in Sock : XdmcpOpenDisplay(s) \/ XdmcpCloseDisplay(s)
  <2>1. timer' = DEF_DORMANCY \/ UNCHANGED timer
    BY <1>4 DEF XdmcpOpenDisplay, XdmcpCloseDisplay
  <2> QED BY <2>1, <1>d, <1>u
<1>5. CASE UNCHANGED vars
  BY <1>5, <1>u DEF vars
<1> QED BY <1>1, <1>2, <1>3, <1>4, <1>5 DEF Next, receive_packet

\* Every variable has its type: above all, what is repeated is repeated after
\* an interval between XDM_MIN_RTX and XDM_MAX_RTX, for any limits, and the
\* server never goes on after XDM_RTX_LIMIT timeouts (send_packet, timeout).
THEOREM XdmcpTypes == Spec => []TypeOK
<1>1. XdmcpInit => TimerOK
  BY TimerInit
<1>2. SessionInv /\ SessionInv' /\ TimerOK /\ [Next]_vars => TimerOK'
  BY TimerKept
<1>3. SessionInv /\ TimerOK => TypeOK
  BY DEF SessionInv, Types, TimerOK, TypeOK
<1> QED BY <1>1, <1>2, <1>3, SessionInvariant, PTL DEF Spec
=============================================================================
