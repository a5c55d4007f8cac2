--------------------------- MODULE DispatchProofs ---------------------------
(***************************************************************************)
(* Proofs about the loop of the main thread: Dispatch with the requests of *)
(* clients, and the timers that WaitForSomething runs.                     *)
(*                                                                         *)
(* Clients, for any number of them and any sizes of buffers: no input is   *)
(* forgotten between the edge-triggered poll, the lists of ready clients   *)
(* and the buffers, and a server grab keeps other clients out.  The proof  *)
(* takes the functions of the source one by one: each turns a record of    *)
(* which Sane holds into one of which it holds again, up to a client that  *)
(* is excused while its request runs.                                      *)
(*                                                                         *)
(* Timers, for any set of them and any width of the clock: the list is     *)
(* exact and sorted, and the list, the wrapping clock and the poll         *)
(* implement the promise of TimerSpec.                                     *)
(***************************************************************************)
EXTENDS Clients, Timers, NaturalsInduction, WellFoundedInduction, FiniteSetTheorems,
        SequenceTheorems, TLAPS

-----------------------------------------------------------------------------
(* Clients: what holds of each, between the functions that Dispatch calls. *)

\* How many times the client waits.
Held(t, c) ==
    (IF c \in t.asleep THEN 1 ELSE 0) + (IF c \in t.waiters THEN 1 ELSE 0)

\* Nothing is kept for a client that is not there.
Absent(t, c) ==
    c \notin t.up =>
        /\ c \notin t.impervious /\ c \notin t.lapsed /\ c \notin t.aborted
        /\ c \notin t.armed /\ c \notin t.waiters /\ c \notin t.asleep
        /\ c \notin t.again /\ c \notin t.closed
        /\ t.grab # c /\ t.avail # c
        /\ t.list[c] = "none" /\ t.ignoreCount[c] = 0
        /\ t.buf[c] = 0 /\ t.sock[c] = 0

\* The client is ignored once for each thing that it waits for, unless its
\* output has failed and it has run a request since then (x).
Counted(t, x, c) ==
    /\ c \notin x => t.ignoreCount[c] = Held(t, c) /\ Held(t, c) <= 1
    /\ c \in x => Held(t, c) <= t.ignoreCount[c]

\* A client on a list is not ignored, and a ready one may run.
Listed(t, c) ==
    c \notin t.aborted /\ t.list[c] # "none" =>
        /\ t.ignoreCount[c] = 0
        /\ t.list[c] = "ready" =>
              t.grab \in {None, c} \/ c \in t.impervious \/ c \in t.lapsed

\* A request in the buffer is not forgotten.
Kept(t, c) ==
    c \in t.up /\ c \notin t.aborted /\ t.ignoreCount[c] = 0
      /\ t.buf[c] >= ReqLen => t.list[c] # "none"

\* Input in the socket is not forgotten; poll has to be armed before it comes.
Heard(t, c) ==
    /\ c \in t.up /\ c \notin t.aborted /\ listen_to_client(t, c)
    /\ t.sock[c] > 0 \/ c \in t.closed \/ backend = "poll"
    => t.list[c] # "none" \/ c \in t.armed

\* Dispatch will find out that the output has failed.
Found(t, x, c) == c \in t.aborted /\ c \notin x => t.list[c] # "none"

\* The buffer that is available is empty.
Spare(t, c) == t.avail = c => t.buf[c] = 0

Quiet(t, x, c) ==
    /\ Absent(t, c) /\ Counted(t, x, c) /\ Listed(t, c) /\ Kept(t, c)
    /\ Found(t, x, c) /\ Spare(t, c)

Sane(t, x) ==
    /\ t \in Server
    /\ \A c \in Client : Quiet(t, x, c) /\ Heard(t, c)

\* The client whose output has failed and that has run a request.
Excused == IF phase \in {"after", "yield"} THEN {cur} \cap s.aborted ELSE {}

PhaseInv ==
    /\ phase \in {"work", "poll", "pick", "serve", "after", "yield"}
    /\ backend \in Backends
    /\ phase \in {"work", "poll", "pick"} => cur = None
    /\ phase \in {"serve", "after", "yield"} => cur \in Client
    /\ phase = "serve" \/ (phase = "after" /\ cur \notin s.aborted) =>
          cur \in s.up /\ s.list[cur] = "ready"

DispatchInv == Sane(s, Excused) /\ PhaseInv

LEMMA Sizes ==
    /\ MaxClients \in Nat /\ MaxClients >= 1
    /\ ReqLen \in Nat /\ ReqLen >= 1 /\ BufSize \in Nat /\ BufSize >= ReqLen
    /\ MaxSock \in Nat /\ MaxSock >= 1 /\ MaxWork \in Nat /\ MaxWork >= 1
    /\ Client \subseteq Nat /\ None \notin Client
    /\ \A c \in Client : c # None
BY ClientsAssumption DEF Client

\* The fields of the record.
LEMMA Fields ==
    ASSUME NEW t \in Server
    PROVE  /\ t.up \subseteq Client
           /\ t.list \in [Client -> {"none", "ready", "saved"}]
           /\ t.ignoreCount \in [Client -> 0 .. 2]
           /\ t.impervious \subseteq Client /\ t.lapsed \subseteq Client
           /\ t.aborted \subseteq Client /\ t.armed \subseteq Client
           /\ t.grab \in Client \cup {None}
           /\ t.waiters \subseteq Client /\ t.asleep \subseteq Client
           /\ t.work \in [Client -> 0 .. MaxWork]
           /\ t.buf \in [Client -> 0 .. BufSize]
           /\ t.again \subseteq Client /\ t.avail \in Client \cup {None}
           /\ t.sock \in [Client -> 0 .. MaxSock] /\ t.closed \subseteq Client
BY DEF Server

\* Nothing that the predicates look at is different for client d.
Same(t, u, d) ==
    /\ u.grab = t.grab /\ (u.avail = d => t.avail = d)
    /\ u.list[d] = t.list[d] /\ u.ignoreCount[d] = t.ignoreCount[d]
    /\ u.buf[d] = t.buf[d] /\ u.sock[d] = t.sock[d]
    /\ d \in u.up <=> d \in t.up
    /\ d \in u.impervious <=> d \in t.impervious
    /\ d \in u.lapsed <=> d \in t.lapsed
    /\ d \in u.aborted <=> d \in t.aborted
    /\ d \in u.armed <=> d \in t.armed
    /\ d \in u.waiters <=> d \in t.waiters
    /\ d \in u.asleep <=> d \in t.asleep
    /\ d \in u.again <=> d \in t.again
    /\ d \in u.closed <=> d \in t.closed

LEMMA SameQuiet ==
    ASSUME NEW t, NEW u, NEW x, NEW y, NEW d, Same(t, u, d), d \in x <=> d \in y,
           Quiet(t, x, d)
    PROVE  Quiet(u, y, d)
<1>1. Held(u, d) = Held(t, d)
  BY DEF Held, Same
<1>2. Absent(u, d) /\ Listed(u, d) /\ Kept(u, d)
  BY DEF Quiet, Absent, Listed, Kept, Same
<1>3. Counted(u, y, d) /\ Found(u, y, d) /\ Spare(u, d)
  BY <1>1 DEF Quiet, Counted, Found, Spare, Same
<1> QED BY <1>2, <1>3 DEF Quiet

LEMMA SameHeard ==
    ASSUME NEW t, NEW u, NEW d, Same(t, u, d), Heard(t, d)
    PROVE  Heard(u, d)
BY DEF Heard, Same, listen_to_client

LEMMA SameSane ==
    ASSUME NEW t, NEW u \in Server, NEW x, NEW c,
           \A d \in Client : d # c => Same(t, u, d), Sane(t, x),
           c \in Client => Quiet(u, x, c) /\ Heard(u, c)
    PROVE  Sane(u, x)
<1>1. ASSUME NEW d \in Client, d # c
      PROVE  Quiet(u, x, d) /\ Heard(u, d)
  <2>1. Same(t, u, d) /\ Quiet(t, x, d) /\ Heard(t, d) /\ (d \in x <=> d \in x)
    BY <1>1 DEF Sane
  <2> QED BY <2>1, SameQuiet, SameHeard
<1> QED BY <1>1 DEF Sane

-----------------------------------------------------------------------------
(* Polling and the lists.                                                  *)

LEMMA SetPoll ==
    ASSUME NEW t \in Server, NEW C \in SUBSET Client, NEW x,
           \A c \in Client : Quiet(t, x, c),
           \A c \in Client \ C : Heard(t, c)
    PROVE  LET u == set_poll_clients(t, C)
           IN  /\ Sane(u, x) /\ u.grab = t.grab /\ u.list = t.list
               /\ u.up = t.up /\ u.aborted = t.aborted /\ u.waiters = t.waiters
               /\ u.impervious = t.impervious /\ u.lapsed = t.lapsed
               /\ u.ignoreCount = t.ignoreCount /\ u.asleep = t.asleep
               /\ u.buf = t.buf /\ u.avail = t.avail
<1> DEFINE new == {c \in (C \cap t.up) \ t.aborted : listen_to_client(t, c)}
           u == set_poll_clients(t, C)
<1>1. u = [t EXCEPT !.armed = @ \cup new] /\ new \subseteq Client
      /\ \A c \in new : c \in t.up
  BY Fields DEF set_poll_clients
<1>2. \A c \in C : c \in t.up /\ c \notin t.aborted /\ listen_to_client(t, c) =>
          c \in new
  OBVIOUS
<1> HIDE DEF new, u
<1>3. /\ u.grab = t.grab /\ u.list = t.list /\ u.up = t.up
      /\ u.aborted = t.aborted /\ u.waiters = t.waiters
      /\ u.impervious = t.impervious /\ u.lapsed = t.lapsed
      /\ u.ignoreCount = t.ignoreCount /\ u.asleep = t.asleep
      /\ u.buf = t.buf /\ u.avail = t.avail /\ u.again = t.again
      /\ u.sock = t.sock /\ u.closed = t.closed /\ u.armed = t.armed \cup new
      /\ u \in Server
  BY <1>1 DEF Server
<1>4. ASSUME NEW c \in Client
      PROVE  Quiet(u, x, c) /\ Heard(u, c)
  <2>1. Held(u, c) = Held(t, c) /\ (listen_to_client(u, c) <=> listen_to_client(t, c))
    BY <1>3 DEF Held, listen_to_client
  <2>2. Quiet(u, x, c)
    BY <1>1, <1>3, <2>1
       DEF Quiet, Absent, Counted, Listed, Kept, Found, Spare
  <2>3. Heard(u, c)
    <3>1. CASE c \in C
      BY <1>2, <1>3, <2>1, <3>1 DEF Heard
    <3>2. CASE c \notin C
      BY <1>3, <2>1, <3>2 DEF Heard
    <3> QED BY <3>1, <3>2
  <2> QED BY <2>2, <2>3
<1> QED BY <1>3, <1>4 DEF Sane, u

\* ospoll_reset_events and the edges of epoll only arm a client that is there.
LEMMA ArmingKeeps ==
    ASSUME NEW t, NEW x, NEW c \in Client, Sane(t, x), c \in t.up
    PROVE  /\ Sane(ospoll_reset_events(t, c), x) /\ Sane(Edge(t, c), x)
           /\ Sane([t EXCEPT !.armed = @ \cup {c}], x)
<1> DEFINE u == [t EXCEPT !.armed = @ \cup {c}]
<1>1. /\ u.grab = t.grab /\ u.list = t.list /\ u.up = t.up
      /\ u.aborted = t.aborted /\ u.waiters = t.waiters
      /\ u.impervious = t.impervious /\ u.lapsed = t.lapsed
      /\ u.ignoreCount = t.ignoreCount /\ u.asleep = t.asleep
      /\ u.buf = t.buf /\ u.avail = t.avail /\ u.again = t.again
      /\ u.sock = t.sock /\ u.closed = t.closed /\ u.armed = t.armed \cup {c}
      /\ u \in Server
  BY DEF Sane, Server
<1> HIDE DEF u
<1>2. \A d \in Client : d # c => Same(t, u, d)
  BY <1>1 DEF Same
<1>3. Quiet(t, x, c)
  BY DEF Sane
<1>4. Held(u, c) = Held(t, c)
  BY <1>1 DEF Held
<1>5. Quiet(u, x, c)
  BY <1>1, <1>3, <1>4 DEF Quiet, Absent, Counted, Listed, Kept, Found, Spare
<1>6. Heard(u, c)
  BY <1>1 DEF Heard
<1>7. Sane(u, x)
  BY <1>1, <1>2, <1>5, <1>6, SameSane
<1> QED BY <1>7 DEF u, ospoll_reset_events, Edge

\* What AttendClient needs: the client waits for one thing less already.
Attended(t, x, c) ==
    /\ c \in t.up /\ Listed(t, c) /\ Found(t, x, c) /\ Spare(t, c)
    /\ t.ignoreCount[c] >= 1
    /\ c \notin x => t.ignoreCount[c] = 1 /\ Held(t, c) = 0
    /\ c \in x => c \in t.aborted /\ Held(t, c) <= t.ignoreCount[c] - 1

\* What the functions that attend to clients leave alone.
Stays(t, u) ==
    /\ u.up = t.up /\ u.aborted = t.aborted
    /\ u.impervious = t.impervious /\ u.buf = t.buf /\ u.sock = t.sock
    /\ u.avail = t.avail /\ u.again = t.again /\ u.closed = t.closed
    /\ u.work = t.work
    /\ \A d \in Client : t.list[d] = "ready" => u.list[d] = "ready"

LEMMA AttendKeeps ==
    ASSUME NEW t \in Server, NEW x, NEW c \in Client, Attended(t, x, c),
           \A d \in Client : d # c => Quiet(t, x, d) /\ Heard(t, d)
    PROVE  LET u == AttendClient(t, c)
           IN  /\ Sane(u, x) /\ Stays(t, u) /\ u.grab = t.grab
               /\ u.waiters = t.waiters /\ u.asleep = t.asleep
               /\ u.lapsed = t.lapsed
<1> DEFINE u == [t EXCEPT !.ignoreCount[c] = @ - 1]
           new == {d \in ({c} \cap u.up) \ u.aborted : listen_to_client(u, d)}
           v == set_poll_clients(u, {c})
           place == IF listen_to_client(v, c) THEN "ready" ELSE "saved"
           w == [v EXCEPT !.list[c] = place]
           r == AttendClient(t, c)
<1>1. t.ignoreCount \in [Client -> 0 .. 2] /\ t.ignoreCount[c] \in 1 .. 2
  BY Fields DEF Attended
<1> DEFINE n == [t.ignoreCount EXCEPT ![c] = @ - 1]
<1>a. n \in [Client -> 0 .. 2] /\ n[c] = t.ignoreCount[c] - 1
      /\ \A d \in Client : d # c => n[d] = t.ignoreCount[d]
  BY <1>1
<1>b. u = [t EXCEPT !.ignoreCount = n]
  OBVIOUS
<1> HIDE DEF n
<1>2. /\ u \in Server /\ u.ignoreCount[c] = t.ignoreCount[c] - 1
      /\ \A d \in Client : d # c => u.ignoreCount[d] = t.ignoreCount[d]
      /\ u.grab = t.grab /\ u.list = t.list /\ u.up = t.up
      /\ u.aborted = t.aborted /\ u.waiters = t.waiters
      /\ u.impervious = t.impervious /\ u.lapsed = t.lapsed
      /\ u.asleep = t.asleep /\ u.work = t.work
      /\ u.buf = t.buf /\ u.avail = t.avail /\ u.again = t.again
      /\ u.sock = t.sock /\ u.closed = t.closed /\ u.armed = t.armed
  <2> HIDE DEF u
  <2> QED BY <1>a, <1>b DEF Server
<1>3. r = IF u.ignoreCount[c] > 0 THEN u ELSE IF v.list[c] # "none" THEN v ELSE w
  BY DEF AttendClient
<1>4. v = [u EXCEPT !.armed = @ \cup new] /\ new \subseteq {c}
  BY DEF set_poll_clients
<1> HIDE DEF u, new
<1>c. t.armed \cup new \subseteq Client
  BY <1>4, Fields
<1>5. /\ v \in Server /\ v.ignoreCount = u.ignoreCount
      /\ v.grab = t.grab /\ v.list = t.list /\ v.up = t.up
      /\ v.aborted = t.aborted /\ v.waiters = t.waiters
      /\ v.impervious = t.impervious /\ v.lapsed = t.lapsed
      /\ v.asleep = t.asleep /\ v.work = t.work
      /\ v.buf = t.buf /\ v.avail = t.avail /\ v.again = t.again
      /\ v.sock = t.sock /\ v.closed = t.closed /\ v.armed = t.armed \cup new
  <2> HIDE DEF v
  <2> QED BY <1>2, <1>4, <1>c DEF Server
<1> HIDE DEF v
<1>6. place \in {"ready", "saved"}
  OBVIOUS
<1>7. listen_to_client(v, c) => t.grab \in {None, c} \/ c \in t.impervious
  BY <1>5 DEF listen_to_client
<1>8. place = "ready" => t.grab \in {None, c} \/ c \in t.impervious
  BY <1>7
<1> HIDE DEF place
<1>9. /\ w \in Server /\ w.ignoreCount = u.ignoreCount
      /\ w.list[c] = place
      /\ \A d \in Client : d # c => w.list[d] = t.list[d]
      /\ w.grab = t.grab /\ w.up = t.up
      /\ w.aborted = t.aborted /\ w.waiters = t.waiters
      /\ w.impervious = t.impervious /\ w.lapsed = t.lapsed
      /\ w.asleep = t.asleep /\ w.work = t.work
      /\ w.buf = t.buf /\ w.avail = t.avail /\ w.again = t.again
      /\ w.sock = t.sock /\ w.closed = t.closed /\ w.armed = v.armed
  BY <1>5, <1>6 DEF Server
<1> HIDE DEF w
<1>10. /\ r \in Server /\ r.ignoreCount[c] = t.ignoreCount[c] - 1
       /\ \A d \in Client : d # c => /\ r.ignoreCount[d] = t.ignoreCount[d]
                                     /\ r.list[d] = t.list[d]
       /\ r.grab = t.grab /\ r.up = t.up
       /\ r.aborted = t.aborted /\ r.waiters = t.waiters
       /\ r.impervious = t.impervious /\ r.lapsed = t.lapsed
       /\ r.asleep = t.asleep /\ r.work = t.work
       /\ r.buf = t.buf /\ r.avail = t.avail /\ r.again = t.again
       /\ r.sock = t.sock /\ r.closed = t.closed
       /\ r.armed = t.armed \/ r.armed = t.armed \cup new
  BY <1>2, <1>3, <1>5, <1>9
<1>11. \/ r.list[c] = t.list[c] /\ (t.list[c] # "none" \/ r.ignoreCount[c] > 0)
       \/ t.list[c] = "none" /\ r.list[c] = place
  BY <1>2, <1>3, <1>5, <1>9
<1> HIDE DEF r
<1>12. \A d \in Client : d # c => Same(t, r, d)
  BY <1>4, <1>10 DEF Same
<1>13. Held(r, c) = Held(t, c)
  BY <1>10 DEF Held
<1>14. r.ignoreCount[c] > 0 => c \in t.aborted
  BY <1>1, <1>10 DEF Attended
<1>15. Quiet(r, x, c) /\ Heard(r, c)
  <2>1. Absent(r, c) /\ Spare(r, c)
    BY <1>10 DEF Absent, Spare, Attended
  <2>2. Counted(r, x, c)
    BY <1>1, <1>10, <1>13 DEF Counted, Attended
  <2>3. Found(r, x, c)
    BY <1>6, <1>10, <1>11 DEF Found, Attended
  <2>4. c \notin t.aborted => r.ignoreCount[c] = 0 /\ t.list[c] = "none"
    BY <1>1, <1>10, <1>14 DEF Attended, Listed
  <2>5. c \notin t.aborted => r.list[c] = place
    BY <1>11, <2>4
  <2>6. Listed(r, c)
    BY <1>8, <1>10, <2>4, <2>5 DEF Listed
  <2>7. Kept(r, c) /\ Heard(r, c)
    BY <1>6, <1>10, <2>5 DEF Kept, Heard
  <2> QED BY <2>1, <2>2, <2>3, <2>6, <2>7 DEF Quiet
<1>16. Sane(r, x)
  <2>1. ASSUME NEW d \in Client, d # c
        PROVE  Quiet(r, x, d) /\ Heard(r, d)
    <3>1. Same(t, r, d) /\ Quiet(t, x, d) /\ Heard(t, d) /\ (d \in x <=> d \in x)
      BY <2>1, <1>12
    <3> QED BY <3>1, SameQuiet, SameHeard
  <2> QED BY <1>10, <1>15, <2>1 DEF Sane
<1>17. Stays(t, r)
  BY <1>10, <1>11 DEF Stays
<1> QED BY <1>10, <1>16, <1>17 DEF r

LEMMA ListenToAllKeeps ==
    ASSUME NEW t, NEW x, Sane(t, x)
    PROVE  LET u == ListenToAllClients(t)
           IN  /\ Sane(u, x) /\ Stays(t, u) /\ u.grab = None
               /\ u.waiters = t.waiters /\ u.asleep = t.asleep
               /\ u.ignoreCount = t.ignoreCount
<1>0. t \in Server
  BY DEF Sane
<1>1. CASE t.grab = None
  BY <1>0, <1>1 DEF ListenToAllClients, Stays
<1>2. CASE t.grab # None
  <2> DEFINE v == [t EXCEPT !.grab = None, !.lapsed = {}]
             u == set_poll_clients(v, Client)
  <2>1. /\ v \in Server /\ v.grab = None /\ v.lapsed = {} /\ v.work = t.work
        /\ v.list = t.list /\ v.up = t.up
        /\ v.aborted = t.aborted /\ v.waiters = t.waiters
        /\ v.impervious = t.impervious /\ v.ignoreCount = t.ignoreCount
        /\ v.asleep = t.asleep /\ v.armed = t.armed
        /\ v.buf = t.buf /\ v.avail = t.avail /\ v.again = t.again
        /\ v.sock = t.sock /\ v.closed = t.closed
    BY <1>0 DEF Server
  <2> HIDE DEF v
  <2>2. ASSUME NEW c \in Client
        PROVE  Quiet(v, x, c)
    <3>1. Held(v, c) = Held(t, c)
      BY <2>1 DEF Held
    <3>2. Quiet(t, x, c)
      BY DEF Sane
    <3> QED BY <2>1, <3>1, <3>2, Sizes
            DEF Quiet, Absent, Counted, Listed, Kept, Found, Spare
  <2>3. /\ Sane(u, x) /\ u.grab = v.grab /\ u.list = v.list
        /\ u.up = v.up /\ u.aborted = v.aborted /\ u.waiters = v.waiters
        /\ u.impervious = v.impervious /\ u.ignoreCount = v.ignoreCount
        /\ u.asleep = v.asleep /\ u.buf = v.buf /\ u.avail = v.avail
    <3>1. Client \in SUBSET Client /\ \A c \in Client \ Client : Heard(v, c)
      OBVIOUS
    <3> QED BY <2>1, <2>2, <3>1, SetPoll
  <2>4. u.work = v.work /\ u.again = v.again /\ u.sock = v.sock /\ u.closed = v.closed
    BY <2>1 DEF set_poll_clients, Server
  <2>5. ListenToAllClients(t) = u
    BY <1>2 DEF ListenToAllClients, v
  <2> HIDE DEF u
  <2> QED BY <2>1, <2>3, <2>4, <2>5 DEF Stays
<1> QED BY <1>1, <1>2

LEMMA MarkUngrabKeeps ==
    ASSUME NEW t, NEW x, Sane(t, x), t.grab = None
    PROVE  LET u == mark_client_ungrab(t)
           IN  /\ Sane(u, x) /\ Stays(t, u) /\ u.grab = None
               /\ u.waiters = t.waiters /\ u.asleep = t.asleep
               /\ u.ignoreCount = t.ignoreCount
<1> DEFINE new == [c \in Client |-> IF t.list[c] = "saved" THEN "ready" ELSE t.list[c]]
           u == mark_client_ungrab(t)
<1>0. t \in Server
  BY DEF Sane
<1>1. u = [t EXCEPT !.list = new]
  BY DEF mark_client_ungrab
<1>2. new \in [Client -> {"none", "ready", "saved"}]
  BY <1>0, Fields
<1>3. \A c \in Client : /\ new[c] = "none" <=> t.list[c] = "none"
                        /\ t.list[c] = "ready" => new[c] = "ready"
  OBVIOUS
<1> HIDE DEF new, u
<1>4. /\ u \in Server /\ u.list = new /\ u.grab = t.grab /\ u.lapsed = t.lapsed
      /\ u.up = t.up /\ u.work = t.work
      /\ u.aborted = t.aborted /\ u.waiters = t.waiters
      /\ u.impervious = t.impervious /\ u.ignoreCount = t.ignoreCount
      /\ u.asleep = t.asleep /\ u.armed = t.armed
      /\ u.buf = t.buf /\ u.avail = t.avail /\ u.again = t.again
      /\ u.sock = t.sock /\ u.closed = t.closed
  BY <1>0, <1>1, <1>2 DEF Server
<1>5. ASSUME NEW c \in Client
      PROVE  Quiet(u, x, c) /\ Heard(u, c)
  <2>1. Held(u, c) = Held(t, c) /\ (listen_to_client(u, c) <=> listen_to_client(t, c))
    BY <1>4 DEF Held, listen_to_client
  <2>2. Quiet(t, x, c) /\ Heard(t, c)
    BY DEF Sane
  <2>3. u.list[c] = "none" <=> t.list[c] = "none"
    BY <1>3, <1>4
  <2>4. Quiet(u, x, c)
    BY <1>4, <2>1, <2>2, <2>3
       DEF Quiet, Absent, Counted, Listed, Kept, Found, Spare
  <2>5. Heard(u, c)
    BY <1>4, <2>1, <2>2, <2>3 DEF Heard
  <2> QED BY <2>4, <2>5
<1> QED BY <1>3, <1>4, <1>5 DEF Sane, Stays, u

LEMMA LeastNumber ==
    ASSUME NEW S \in SUBSET Nat, S # {}
    PROVE  Min(S) \in S /\ \A b \in S : Min(S) <= b
<1> DEFINE R == OpToRel(<, Nat)
<1>1. IsWellFoundedOn(R, Nat)
  BY NatLessThanWellFounded
<1>2. \E a \in S : \A b \in S : ~(<<b, a>> \in R)
  <2> HIDE DEF R
  <2> QED BY <1>1, WFMin
<1>3. \A a, b \in Nat : ~(<<b, a>> \in R) => a <= b
  BY DEF OpToRel
<1> HIDE DEF R
<1>4. \E a \in S : \A b \in S : a <= b
  BY <1>2, <1>3
<1> QED BY <1>4 DEF Min

LEMMA NextWaiterWaits ==
    ASSUME NEW W \in SUBSET Client, W # {}
    PROVE  NextWaiter(W) \in W
<1> DEFINE word == Max({c \div 32 : c \in W})
           Left == {MaxClients - (c \div 32) : c \in W}
           First == {c \in W : c \div 32 = word}
<1>1. \A c \in W : c \in Nat /\ c \div 32 \in Nat /\ MaxClients - (c \div 32) \in Nat
  BY Sizes DEF Client
<1>2. Left \in SUBSET Nat /\ Left # {}
  BY <1>1
<1>3. Min(Left) \in Left /\ \A b \in Left : Min(Left) <= b
  <2> HIDE DEF Left
  <2> QED BY <1>2, LeastNumber
<1>4. PICK a \in W : \A c \in W : MaxClients - (a \div 32) <= MaxClients - (c \div 32)
  BY <1>3
<1>5. \A c \in W : a \div 32 >= c \div 32
  BY <1>1, <1>4, Sizes
<1>6. word \in {c \div 32 : c \in W}
  BY <1>5 DEF Max
<1>7. First \in SUBSET Nat /\ First # {}
  BY <1>1, <1>6
<1>8. Min(First) \in First
  <2> HIDE DEF First
  <2> QED BY <1>7, LeastNumber
<1> QED BY <1>8 DEF NextWaiter

LEMMA StaysOn ==
    ASSUME NEW t, NEW u, NEW v, Stays(t, u), Stays(u, v)
    PROVE  Stays(t, v)
BY DEF Stays

\* The grab ends; the first client that waits for it is attended to.
LEMMA UngrabKeeps ==
    ASSUME NEW t, NEW x, x \subseteq t.aborted, Sane(t, x)
    PROVE  /\ Sane(UngrabServer(t), x) /\ Stays(t, UngrabServer(t))
           /\ UngrabServer(t).grab = None
<1> DEFINE l == ListenToAllClients(t)
           u == mark_client_ungrab(l)
<1>1. Sane(l, x) /\ Stays(t, l) /\ l.grab = None
  BY ListenToAllKeeps
<1>2. Sane(u, x) /\ Stays(l, u) /\ u.grab = None
  BY <1>1, MarkUngrabKeeps
<1>3. Stays(t, u)
  BY <1>1, <1>2, StaysOn
<1>4. UngrabServer(t) =
        IF u.waiters = {} THEN u
        ELSE AttendClient([u EXCEPT !.waiters = @ \ {NextWaiter(u.waiters)}], NextWaiter(u.waiters))
  BY DEF UngrabServer
<1> HIDE DEF l, u
<1>5. CASE u.waiters = {}
  BY <1>2, <1>3, <1>4, <1>5
<1>6. CASE u.waiters # {}
  <2> DEFINE w == NextWaiter(u.waiters)
             v == [u EXCEPT !.waiters = @ \ {w}]
  <2>1. u \in Server /\ u.waiters \in SUBSET Client
    BY <1>2, Fields DEF Sane
  <2>2. w \in u.waiters /\ w \in Client
    BY <1>6, <2>1, NextWaiterWaits
  <2> HIDE DEF w
  <2>3. /\ v \in Server /\ v.waiters = u.waiters \ {w}
        /\ v.grab = u.grab /\ v.lapsed = u.lapsed /\ v.list = u.list
        /\ v.up = u.up /\ v.work = u.work /\ v.aborted = u.aborted
        /\ v.impervious = u.impervious /\ v.ignoreCount = u.ignoreCount
        /\ v.asleep = u.asleep /\ v.armed = u.armed
        /\ v.buf = u.buf /\ v.avail = u.avail /\ v.again = u.again
        /\ v.sock = u.sock /\ v.closed = u.closed
    BY <2>1 DEF Server
  <2> HIDE DEF v
  <2>4. \A d \in Client : d # w => Quiet(v, x, d) /\ Heard(v, d)
    <3> SUFFICES ASSUME NEW d \in Client, d # w
                 PROVE  Quiet(v, x, d) /\ Heard(v, d)
      OBVIOUS
    <3>1. Same(u, v, d)
      BY <2>3 DEF Same
    <3>2. Quiet(u, x, d) /\ Heard(u, d) /\ (d \in x <=> d \in x)
      BY <1>2 DEF Sane
    <3> QED BY <3>1, <3>2, SameQuiet, SameHeard
  <2>5. Attended(v, x, w)
    <3>1. Quiet(u, x, w)
      BY <1>2, <2>2 DEF Sane
    <3>2. Held(u, w) = Held(v, w) + 1 /\ Held(v, w) \in 0 .. 1
      BY <2>2, <2>3 DEF Held
    <3>3. u.ignoreCount[w] \in 0 .. 2
      BY <2>1, <2>2, Fields
    <3>4. Held(u, w) <= u.ignoreCount[w]
          /\ (w \notin x => u.ignoreCount[w] = Held(u, w) /\ Held(u, w) <= 1)
      BY <3>1, <3>2, <3>3 DEF Quiet, Counted
    <3>5. /\ v.ignoreCount[w] >= 1
          /\ w \notin x => v.ignoreCount[w] = 1 /\ Held(v, w) = 0
          /\ w \in x => Held(v, w) <= v.ignoreCount[w] - 1
      BY <2>3, <3>2, <3>3, <3>4
    <3>6. /\ w \in v.up /\ Listed(v, w) /\ Found(v, x, w) /\ Spare(v, w)
      BY <2>2, <2>3, <3>1 DEF Quiet, Absent, Listed, Found, Spare
    <3>7. w \in x => w \in v.aborted
      BY <1>3, <2>3 DEF Stays
    <3> QED BY <3>5, <3>6, <3>7 DEF Attended
  <2>6. /\ Sane(AttendClient(v, w), x) /\ Stays(v, AttendClient(v, w))
        /\ AttendClient(v, w).grab = v.grab
    BY <2>2, <2>3, <2>4, <2>5, AttendKeeps
  <2>7. Stays(u, v)
    BY <2>3 DEF Stays
  <2>8. UngrabServer(t) = AttendClient(v, w)
    BY <1>4, <1>6 DEF v, w
  <2> QED BY <1>2, <1>3, <2>3, <2>6, <2>7, <2>8, StaysOn
<1> QED BY <1>5, <1>6

-----------------------------------------------------------------------------
(* Closing.                                                                *)

LEMMA CloseDownKeeps ==
    ASSUME NEW t, NEW x, x \subseteq t.aborted, Sane(t, x), NEW c \in Client
    PROVE  LET w == CloseDownClient(t, c)
           IN  /\ Sane(w, x \ {c})
               /\ w.up = t.up \ {c} /\ w.aborted = t.aborted \ {c}
               /\ \A d \in Client : d # c /\ t.list[d] = "ready" => w.list[d] = "ready"
<1> DEFINE u == IF t.grab = c THEN UngrabServer(t) ELSE t
           w == CloseDownClient(t, c)
<1>1. Sane(u, x) /\ Stays(t, u) /\ u.grab # c
  BY UngrabKeeps, Sizes DEF Stays
<1>2. w = [u EXCEPT !.up = @ \ {c}, !.list[c] = "none", !.ignoreCount[c] = 0,
                  !.impervious = @ \ {c}, !.lapsed = @ \ {c}, !.aborted = @ \ {c},
                  !.armed = @ \ {c},
                  !.waiters = @ \ {c}, !.asleep = @ \ {c}, !.work[c] = 0,
                  !.buf[c] = 0, !.again = @ \ {c},
                  !.sock[c] = 0, !.closed = @ \ {c},
                  !.avail = IF @ = c THEN None ELSE @]
  BY DEF CloseDownClient
<1> HIDE DEF u, w
<1> DEFINE li == [u.list EXCEPT ![c] = "none"]
           ic == [u.ignoreCount EXCEPT ![c] = 0]
           wk == [u.work EXCEPT ![c] = 0]
           bf == [u.buf EXCEPT ![c] = 0]
           so == [u.sock EXCEPT ![c] = 0]
           av == IF u.avail = c THEN None ELSE u.avail
<1>3. u \in Server
  BY <1>1 DEF Sane
<1>4. /\ li \in [Client -> {"none", "ready", "saved"}]
      /\ ic \in [Client -> 0 .. 2] /\ wk \in [Client -> 0 .. MaxWork]
      /\ bf \in [Client -> 0 .. BufSize] /\ so \in [Client -> 0 .. MaxSock]
      /\ av \in Client \cup {None}
  BY <1>3, Fields, Sizes
<1>5. /\ li[c] = "none" /\ ic[c] = 0 /\ bf[c] = 0 /\ so[c] = 0 /\ av # c
      /\ \A d \in Client : d # c =>
            /\ li[d] = u.list[d] /\ ic[d] = u.ignoreCount[d]
            /\ bf[d] = u.buf[d] /\ so[d] = u.sock[d]
      /\ \A d \in Client : av = d => u.avail = d
  BY <1>3, Fields, Sizes
<1>6. w = [u EXCEPT !.up = @ \ {c}, !.list = li, !.ignoreCount = ic,
                  !.impervious = @ \ {c}, !.lapsed = @ \ {c}, !.aborted = @ \ {c},
                  !.armed = @ \ {c},
                  !.waiters = @ \ {c}, !.asleep = @ \ {c}, !.work = wk,
                  !.buf = bf, !.again = @ \ {c},
                  !.sock = so, !.closed = @ \ {c},
                  !.avail = av]
  BY <1>2
<1> HIDE DEF li, ic, wk, bf, so, av
<1>7. /\ w \in Server /\ w.grab = u.grab /\ w.list = li /\ w.ignoreCount = ic
      /\ w.buf = bf /\ w.sock = so /\ w.avail = av
      /\ w.up = u.up \ {c} /\ w.aborted = u.aborted \ {c}
      /\ w.impervious = u.impervious \ {c} /\ w.lapsed = u.lapsed \ {c}
      /\ w.armed = u.armed \ {c} /\ w.waiters = u.waiters \ {c}
      /\ w.asleep = u.asleep \ {c} /\ w.again = u.again \ {c}
      /\ w.closed = u.closed \ {c}
  BY <1>3, <1>4, <1>6 DEF Server
<1>8. ASSUME NEW d \in Client, d # c
      PROVE  Quiet(w, x \ {c}, d) /\ Heard(w, d)
  <2>1. Same(u, w, d)
    BY <1>5, <1>7, <1>8 DEF Same
  <2>2. Quiet(u, x, d) /\ Heard(u, d) /\ (d \in x <=> d \in x \ {c})
    BY <1>1, <1>8 DEF Sane
  <2> QED BY <2>1, <2>2, SameQuiet, SameHeard
<1>9. Quiet(w, x \ {c}, c) /\ Heard(w, c)
  <2>1. Held(w, c) = 0
    BY <1>7 DEF Held
  <2>2. Absent(w, c) /\ Listed(w, c) /\ Kept(w, c) /\ Heard(w, c)
    BY <1>1, <1>5, <1>7 DEF Absent, Listed, Kept, Heard
  <2>3. Counted(w, x \ {c}, c) /\ Found(w, x \ {c}, c) /\ Spare(w, c)
    BY <1>5, <1>7, <2>1 DEF Counted, Found, Spare
  <2> QED BY <2>2, <2>3 DEF Quiet
<1>10. Sane(w, x \ {c})
  BY <1>7, <1>8, <1>9 DEF Sane
<1>11. \A d \in Client : d # c /\ t.list[d] = "ready" => w.list[d] = "ready"
  BY <1>1, <1>5, <1>7 DEF Stays
<1>12. w.up = t.up \ {c} /\ w.aborted = t.aborted \ {c}
  BY <1>1, <1>7 DEF Stays
<1> QED BY <1>10, <1>11, <1>12 DEF w

LEMMA AbortKeeps ==
    ASSUME NEW t, NEW x, x \subseteq t.aborted, Sane(t, x), NEW c \in t.up
    PROVE  LET w == AbortClient(t, c)
           IN  /\ Sane(w, x) /\ w.up = t.up /\ w.aborted = t.aborted \cup {c}
               /\ \A d \in Client : t.list[d] = "ready" => w.list[d] = "ready"
<1>0. t \in Server /\ c \in Client
  BY Fields DEF Sane
<1>1. CASE c \in t.aborted
  BY <1>1 DEF AbortClient
<1>2. CASE c \notin t.aborted
  <2> DEFINE li == IF t.list[c] = "none" THEN [t.list EXCEPT ![c] = "ready"] ELSE t.list
             w == AbortClient(t, c)
  <2>1. w = [t EXCEPT !.aborted = @ \cup {c}, !.armed = @ \ {c}, !.list = li]
    BY <1>0, <1>2 DEF AbortClient, mark_client_ready, Server
  <2>2. /\ li \in [Client -> {"none", "ready", "saved"}] /\ li[c] # "none"
        /\ \A d \in Client : d # c => li[d] = t.list[d]
        /\ \A d \in Client : t.list[d] = "ready" => li[d] = "ready"
    BY <1>0, Fields
  <2> HIDE DEF li, w
  <2>3. /\ w \in Server /\ w.list = li /\ w.aborted = t.aborted \cup {c}
        /\ w.armed = t.armed \ {c} /\ w.grab = t.grab /\ w.lapsed = t.lapsed
        /\ w.up = t.up /\ w.waiters = t.waiters
        /\ w.impervious = t.impervious /\ w.ignoreCount = t.ignoreCount
        /\ w.asleep = t.asleep /\ w.buf = t.buf /\ w.avail = t.avail
        /\ w.again = t.again /\ w.sock = t.sock /\ w.closed = t.closed
    BY <1>0, <2>1, <2>2 DEF Server
  <2>4. \A d \in Client : d # c => Same(t, w, d)
    BY <2>2, <2>3 DEF Same
  <2>5. Quiet(w, x, c) /\ Heard(w, c)
    <3>1. Held(w, c) = Held(t, c) /\ Quiet(t, x, c)
      BY <1>0, <2>3 DEF Held, Sane
    <3>2. Absent(w, c) /\ Listed(w, c) /\ Kept(w, c) /\ Heard(w, c)
      BY <2>3 DEF Absent, Listed, Kept, Heard
    <3>3. Counted(w, x, c) /\ Found(w, x, c) /\ Spare(w, c)
      BY <2>2, <2>3, <3>1 DEF Counted, Found, Spare, Quiet
    <3> QED BY <3>2, <3>3 DEF Quiet
  <2>6. Sane(w, x)
    BY <2>3, <2>4, <2>5, SameSane
  <2> QED BY <2>2, <2>3, <2>6 DEF w
<1> QED BY <1>1, <1>2

\* More may be excused.
LEMMA ExcusedKeeps ==
    ASSUME NEW t, NEW c, Sane(t, {})
    PROVE  Sane(t, {c})
<1>1. ASSUME NEW d \in Client
      PROVE  Quiet(t, {c}, d) /\ Heard(t, d)
  <2>1. Quiet(t, {}, d) /\ Heard(t, d)
    BY DEF Sane
  <2>2. Held(t, d) \in 0 .. 2
    BY DEF Held
  <2>3. Counted(t, {c}, d) /\ Found(t, {c}, d)
    BY <2>1, <2>2 DEF Quiet, Counted, Found
  <2> QED BY <2>1, <2>3 DEF Quiet
<1> QED BY <1>1 DEF Sane

-----------------------------------------------------------------------------
(* Reading requests.                                                       *)

\* The client that Dispatch serves.
Served(c) == Sane(s, {}) /\ c \in s.up /\ s.list[c] = "ready"

LEMMA FilledFacts ==
    ASSUME NEW c \in Client, Served(c)
    PROVE  LET u == Filled(c)
           IN  /\ Sane(u, {}) /\ c \in u.up /\ u.list = s.list
               /\ u.up = s.up /\ u.aborted = s.aborted /\ u.avail = None
               /\ u.buf[c] = s.buf[c] + Amount(c) /\ u.sock[c] = s.sock[c] - Amount(c)
               /\ u.closed = s.closed /\ u.ignoreCount = s.ignoreCount /\ u.grab = s.grab
               /\ Amount(c) \in Nat
<1> DEFINE a == Amount(c)
           u == Filled(c)
           n == NextAvailableInput(s, c)
           bf == [s.buf EXCEPT ![c] = @ + a]
           so == [s.sock EXCEPT ![c] = @ - a]
<1>0. s \in Server /\ s.buf[c] \in 0 .. BufSize /\ s.sock[c] \in 0 .. MaxSock
  BY Fields DEF Served, Sane
<1>1. /\ a \in Nat /\ s.buf[c] + a \in 0 .. BufSize /\ s.sock[c] - a \in 0 .. MaxSock
  <2>1. CASE s.buf[c] >= ReqLen \/ c \in s.aborted
    <3>1. a = 0
      BY <2>1 DEF Amount
    <3> QED BY <3>1, <1>0, Sizes
  <2>2. CASE ~(s.buf[c] >= ReqLen \/ c \in s.aborted)
    <3> DEFINE p == s.sock[c]
               q == BufSize - s.buf[c]
    <3>1. p \in Nat /\ q \in Nat
      BY <1>0, Sizes
    <3>2. a = Min({p, q})
      BY <2>2 DEF Amount
    <3> HIDE DEF p, q
    <3>3. \E m \in {p, q} : \A k \in {p, q} : m <= k
      BY <3>1
    <3>4. a \in {p, q} /\ a <= p /\ a <= q
      BY <3>2, <3>3 DEF Min
    <3> HIDE DEF a
    <3> QED BY <3>1, <3>4, <1>0, Sizes DEF p, q
  <2> QED BY <2>1, <2>2
<1> HIDE DEF a
<1>2. n = [s EXCEPT !.avail = None]
  <2>1. CASE s.avail \in {None, c}
    BY <2>1 DEF NextAvailableInput
  <2>2. CASE s.avail \notin {None, c}
    <3>1. s.avail \in Client /\ s.buf[s.avail] = 0
      BY <1>0, <2>2, Fields DEF Served, Sane, Quiet, Spare
    <3>2. [s.buf EXCEPT ![s.avail] = 0] = s.buf
      BY <1>0, <3>1, Fields
    <3>3. n = [s EXCEPT !.buf = [s.buf EXCEPT ![s.avail] = 0], !.avail = None]
      BY <2>2 DEF NextAvailableInput
    <3> QED BY <1>0, <3>2, <3>3 DEF Server
  <2> QED BY <2>1, <2>2
<1> HIDE DEF n
<1>3. u = [n EXCEPT !.buf[c] = @ + a, !.sock[c] = @ - a]
  BY DEF Filled, n, a
<1>4. u = [s EXCEPT !.buf = bf, !.sock = so, !.avail = None]
  BY <1>0, <1>2, <1>3 DEF Server
<1>5. /\ bf \in [Client -> 0 .. BufSize] /\ so \in [Client -> 0 .. MaxSock]
      /\ bf[c] = s.buf[c] + a /\ so[c] = s.sock[c] - a
      /\ \A d \in Client : d # c => bf[d] = s.buf[d] /\ so[d] = s.sock[d]
  BY <1>0, <1>1, Fields
<1> HIDE DEF bf, so, u
<1>6. /\ u \in Server /\ u.buf = bf /\ u.sock = so /\ u.avail = None
      /\ u.list = s.list /\ u.aborted = s.aborted
      /\ u.armed = s.armed /\ u.grab = s.grab /\ u.lapsed = s.lapsed
      /\ u.up = s.up /\ u.waiters = s.waiters
      /\ u.impervious = s.impervious /\ u.ignoreCount = s.ignoreCount
      /\ u.asleep = s.asleep /\ u.again = s.again /\ u.closed = s.closed
  BY <1>0, <1>4, <1>5 DEF Server
<1>7. \A d \in Client : d # c => Same(s, u, d)
  BY <1>5, <1>6, Sizes DEF Same
<1>8. Quiet(u, {}, c) /\ Heard(u, c)
  <2>1. Held(u, c) = Held(s, c) /\ Quiet(s, {}, c)
    BY <1>6 DEF Held, Served, Sane
  <2>2. Absent(u, c) /\ Listed(u, c)
    BY <1>6, <2>1 DEF Absent, Listed, Quiet, Served
  <2>3. Kept(u, c) /\ Heard(u, c)
    BY <1>6 DEF Kept, Heard, Served
  <2>4. Counted(u, {}, c) /\ Found(u, {}, c) /\ Spare(u, c)
    BY <1>6, <2>1, Sizes DEF Counted, Found, Spare, Quiet
  <2> QED BY <2>2, <2>3, <2>4 DEF Quiet
<1>9. Sane(u, {})
  BY <1>6, <1>7, <1>8, SameSane DEF Served
<1> QED BY <1>1, <1>5, <1>6, <1>9 DEF u, Served, a

LEMMA TakenFacts ==
    ASSUME NEW c \in Client, Served(c), s.buf[c] + Amount(c) >= ReqLen
    PROVE  LET u == Taken(c)
           IN  /\ Sane(u, {}) /\ c \in u.up /\ u.list = s.list
               /\ u.up = s.up /\ u.aborted = s.aborted /\ u.grab = s.grab
               /\ u.buf[c] \in 0 .. BufSize - ReqLen
               /\ u.ignoreCount = s.ignoreCount
<1> DEFINE f == Filled(c)
           bf == [f.buf EXCEPT ![c] = @ - ReqLen]
           v == [f EXCEPT !.buf[c] = @ - ReqLen, !.again = @ \ {c}]
           u == Taken(c)
           av == IF bf[c] = 0 THEN c ELSE None
<1>1. /\ Sane(f, {}) /\ c \in f.up /\ f.list = s.list
      /\ f.up = s.up /\ f.aborted = s.aborted /\ f.avail = None /\ f.grab = s.grab
      /\ f.buf[c] = s.buf[c] + Amount(c) /\ f.ignoreCount = s.ignoreCount
  BY FilledFacts
<1>2. f \in Server /\ f.buf[c] \in 0 .. BufSize /\ f.buf[c] >= ReqLen
  BY <1>1, Fields DEF Sane
<1>3. u = IF v.buf[c] = 0 THEN [v EXCEPT !.avail = c] ELSE v
  BY DEF Taken
<1> HIDE DEF f, u
<1>4. v = [f EXCEPT !.buf = bf, !.again = @ \ {c}]
  OBVIOUS
<1>5. /\ bf \in [Client -> 0 .. BufSize] /\ bf[c] = f.buf[c] - ReqLen
      /\ \A d \in Client : d # c => bf[d] = f.buf[d]
      /\ bf[c] \in 0 .. BufSize - ReqLen
  <2>1. f.buf[c] - ReqLen \in 0 .. BufSize - ReqLen /\ f.buf[c] - ReqLen \in 0 .. BufSize
    BY <1>2, Sizes
  <2> QED BY <1>2, <2>1, Fields
<1> HIDE DEF bf
<1>6. u = [f EXCEPT !.buf = bf, !.again = @ \ {c}, !.avail = av]
  BY <1>1, <1>2, <1>3, <1>4 DEF Server
<1>7. av \in Client \cup {None} /\ (av = c => bf[c] = 0)
      /\ (\A d \in Client : d # c => av # d)
  BY Sizes
<1> HIDE DEF av, v
<1>8. /\ u \in Server /\ u.buf = bf /\ u.sock = f.sock /\ u.avail = av
      /\ u.list = f.list /\ u.aborted = f.aborted
      /\ u.armed = f.armed /\ u.grab = f.grab /\ u.lapsed = f.lapsed
      /\ u.up = f.up /\ u.waiters = f.waiters
      /\ u.impervious = f.impervious /\ u.ignoreCount = f.ignoreCount
      /\ u.asleep = f.asleep /\ u.again = f.again \ {c} /\ u.closed = f.closed
  BY <1>2, <1>5, <1>6, <1>7 DEF Server
<1>9. \A d \in Client : d # c => Same(f, u, d)
  BY <1>5, <1>7, <1>8 DEF Same
<1>10. Quiet(u, {}, c) /\ Heard(u, c)
  <2>1. Held(u, c) = Held(f, c) /\ Quiet(f, {}, c) /\ f.list[c] = "ready"
    BY <1>1, <1>8 DEF Held, Served, Sane
  <2>2. Absent(u, c) /\ Listed(u, c)
    BY <1>1, <1>8, <2>1 DEF Absent, Listed, Quiet
  <2>3. Kept(u, c) /\ Heard(u, c)
    BY <1>8, <2>1 DEF Kept, Heard
  <2>4. Counted(u, {}, c) /\ Found(u, {}, c) /\ Spare(u, c)
    BY <1>7, <1>8, <2>1 DEF Counted, Found, Spare, Quiet
  <2> QED BY <2>2, <2>3, <2>4 DEF Quiet
<1>11. Sane(u, {})
  BY <1>1, <1>8, <1>9, <1>10, SameSane
<1> QED BY <1>1, <1>5, <1>8, <1>11 DEF u

-----------------------------------------------------------------------------
(* Requests.                                                               *)

\* What is left of the record when client c has made a request.
Outcome(c, u, yields) ==
    /\ Sane(u, {c} \cap u.aborted)
    /\ ~yields /\ c \notin u.aborted => c \in u.up /\ u.list[c] = "ready"

LEMMA SaneOutcome ==
    ASSUME NEW c, NEW u, NEW yields, Sane(u, {}),
           ~yields /\ c \notin u.aborted => c \in u.up /\ u.list[c] = "ready"
    PROVE  Outcome(c, u, yields)
<1>1. CASE c \in u.aborted
  <2>1. {c} \cap u.aborted = {c}
    BY <1>1
  <2> QED BY <2>1, ExcusedKeeps DEF Outcome
<1>2. CASE c \notin u.aborted
  <2>1. {c} \cap u.aborted = {}
    BY <1>2
  <2> QED BY <2>1 DEF Outcome
<1> QED BY <1>1, <1>2

\* A client that begins to wait, in a record v in which it waits already but is
\* not yet ignored.
LEMMA SuspendKeeps ==
    ASSUME NEW c \in Client, NEW t, Sane(t, {}), c \in t.up, t.list[c] = "ready",
           NEW v \in Server, \A d \in Client : d # c => Same(t, v, d),
           v.up = t.up, v.aborted = t.aborted, v.list = t.list, v.grab = t.grab,
           v.ignoreCount = t.ignoreCount, v.avail = c => v.buf[c] = 0,
           Held(v, c) <= Held(t, c) + 1, Held(t, c) = 0 => Held(v, c) = 1
    PROVE  Outcome(c, IgnoreClient(v, c), TRUE)
<1> DEFINE u == IgnoreClient(v, c)
           n == [v.ignoreCount EXCEPT ![c] = @ + 1]
           li == [v.list EXCEPT ![c] = IF v.ignoreCount[c] = 0 THEN "none" ELSE @]
           x == {c} \cap t.aborted
<1>1. t \in Server /\ Quiet(t, {}, c)
  BY DEF Sane
<1>2. Held(t, c) \in 0 .. 2 /\ Held(v, c) \in 0 .. 2
  BY DEF Held
<1>3. t.ignoreCount[c] = Held(t, c) /\ Held(t, c) \in 0 .. 1
  BY <1>1, <1>2 DEF Quiet, Counted
<1>4. u = [v EXCEPT !.ignoreCount = n, !.list = li]
  BY DEF IgnoreClient
<1>5. /\ n \in [Client -> 0 .. 2] /\ n[c] = t.ignoreCount[c] + 1
      /\ \A d \in Client : d # c => n[d] = v.ignoreCount[d]
  <2>1. v.ignoreCount[c] + 1 \in 0 .. 2
    BY <1>3
  <2> QED BY <2>1, Fields
<1>6. /\ li \in [Client -> {"none", "ready", "saved"}]
      /\ t.ignoreCount[c] = 0 => li[c] = "none"
      /\ \A d \in Client : d # c => li[d] = v.list[d]
  BY Fields
<1> HIDE DEF u, n, li
<1>7. /\ u \in Server /\ u.ignoreCount = n /\ u.list = li
      /\ u.buf = v.buf /\ u.sock = v.sock /\ u.avail = v.avail
      /\ u.aborted = t.aborted
      /\ u.armed = v.armed /\ u.grab = v.grab /\ u.lapsed = v.lapsed
      /\ u.up = t.up /\ u.waiters = v.waiters
      /\ u.impervious = v.impervious
      /\ u.asleep = v.asleep /\ u.again = v.again /\ u.closed = v.closed
  BY <1>4, <1>5, <1>6 DEF Server
<1>8. ASSUME NEW d \in Client, d # c
      PROVE  Quiet(u, x, d) /\ Heard(u, d)
  <2>1. Same(t, v, d)
    BY <1>8
  <2>2. Same(t, u, d)
    BY <1>5, <1>6, <1>7, <1>8, <2>1 DEF Same
  <2>3. Quiet(t, {}, d) /\ Heard(t, d) /\ (d \in {} <=> d \in x)
    BY <1>8 DEF Sane
  <2> QED BY <2>2, <2>3, SameQuiet, SameHeard
<1>9. Quiet(u, x, c) /\ Heard(u, c)
  <2>1. Held(u, c) = Held(v, c)
    BY <1>7 DEF Held
  <2>2. u.ignoreCount[c] = Held(t, c) + 1 /\ u.ignoreCount[c] # 0
    BY <1>3, <1>5, <1>7
  <2>3. Absent(u, c) /\ Kept(u, c) /\ Heard(u, c) /\ Spare(u, c)
    BY <1>7, <2>2 DEF Absent, Kept, Heard, Spare, listen_to_client
  <2>4. Found(u, x, c)
    BY <1>7 DEF Found
  <2>5. c \notin t.aborted => t.ignoreCount[c] = 0
    BY <1>1 DEF Quiet, Listed
  <2>6. Listed(u, c)
    BY <1>6, <1>7, <2>5 DEF Listed
  <2>7. Counted(u, x, c)
    BY <1>2, <1>3, <2>1, <2>2, <2>5 DEF Counted
  <2> QED BY <2>3, <2>4, <2>6, <2>7 DEF Quiet
<1>10. Sane(u, x)
  BY <1>7, <1>8, <1>9 DEF Sane
<1> QED BY <1>7, <1>10 DEF Outcome, u

\* The request goes back into the buffer; the client is on the list already.
LEMMA ResetFacts ==
    ASSUME NEW c \in Client, NEW t \in Server, t.list[c] = "ready",
           t.buf[c] \in 0 .. BufSize - ReqLen
    PROVE  LET u == ResetCurrentRequest(t, c)
           IN  /\ u \in Server /\ u.list = t.list /\ u.aborted = t.aborted
               /\ u.armed = t.armed /\ u.grab = t.grab /\ u.lapsed = t.lapsed
               /\ u.up = t.up /\ u.waiters = t.waiters
               /\ u.impervious = t.impervious /\ u.ignoreCount = t.ignoreCount
               /\ u.asleep = t.asleep /\ u.again = t.again /\ u.closed = t.closed
               /\ u.sock = t.sock /\ u.avail # c
               /\ \A d \in Client : d # c => /\ u.buf[d] = t.buf[d]
                                             /\ u.avail = d => t.avail = d
<1> DEFINE bf == [t.buf EXCEPT ![c] = @ + ReqLen]
           av == IF t.avail = c THEN None ELSE t.avail
           v == [t EXCEPT !.buf[c] = @ + ReqLen, !.avail = IF @ = c THEN None ELSE @]
           u == ResetCurrentRequest(t, c)
<1>1. v = [t EXCEPT !.buf = bf, !.avail = av]
  OBVIOUS
<1>2. /\ bf \in [Client -> 0 .. BufSize] /\ \A d \in Client : d # c => bf[d] = t.buf[d]
      /\ av \in Client \cup {None} /\ av # c /\ \A d \in Client : av = d => t.avail = d
  <2>1. t.buf[c] + ReqLen \in 0 .. BufSize
    BY Sizes
  <2> QED BY <2>1, Fields, Sizes
<1> HIDE DEF bf, av
<1>3. /\ v \in Server /\ v.list = t.list /\ v.aborted = t.aborted
      /\ v.armed = t.armed /\ v.grab = t.grab /\ v.lapsed = t.lapsed
      /\ v.up = t.up /\ v.waiters = t.waiters
      /\ v.impervious = t.impervious /\ v.ignoreCount = t.ignoreCount
      /\ v.asleep = t.asleep /\ v.again = t.again /\ v.closed = t.closed
      /\ v.sock = t.sock /\ v.avail = av /\ v.buf = bf
  <2> HIDE DEF v
  <2> QED BY <1>1, <1>2 DEF Server
<1>4. u = v
  <2>1. u = IF listen_to_client(v, c) THEN mark_client_ready(v, c) ELSE v
    BY DEF ResetCurrentRequest
  <2> HIDE DEF v
  <2> QED BY <1>3, <2>1 DEF mark_client_ready
<1> HIDE DEF v, u
<1> QED BY <1>2, <1>3, <1>4 DEF u

LEMMA GrabWaits ==
    ASSUME NEW c \in Client, Served(c), s.buf[c] + Amount(c) >= ReqLen,
           s.grab \notin {None, c}
    PROVE  Outcome(c, GrabServer(Taken(c), c), TRUE)
<1> DEFINE t == Taken(c)
           v == [t EXCEPT !.waiters = @ \cup {c}, !.again = @ \cup {c}]
           u == ResetCurrentRequest(v, c)
<1>1. /\ Sane(t, {}) /\ c \in t.up /\ t.list[c] = "ready" /\ t \in Server
      /\ t.buf[c] \in 0 .. BufSize - ReqLen /\ t.grab = s.grab
  BY TakenFacts DEF Served, Sane
<1>2. GrabServer(t, c) = IgnoreClient(u, c)
  BY <1>1 DEF GrabServer
<1> HIDE DEF t
<1>3. /\ v \in Server /\ v.list = t.list /\ v.aborted = t.aborted
      /\ v.armed = t.armed /\ v.grab = t.grab /\ v.lapsed = t.lapsed
      /\ v.up = t.up /\ v.waiters = t.waiters \cup {c}
      /\ v.impervious = t.impervious /\ v.ignoreCount = t.ignoreCount
      /\ v.asleep = t.asleep /\ v.again = t.again \cup {c} /\ v.closed = t.closed
      /\ v.sock = t.sock /\ v.avail = t.avail /\ v.buf = t.buf
  BY <1>1 DEF Server
<1> HIDE DEF v
<1>4. v.list[c] = "ready" /\ v.buf[c] \in 0 .. BufSize - ReqLen
  BY <1>1, <1>3
<1>5. /\ u \in Server /\ u.list = v.list /\ u.aborted = v.aborted
      /\ u.armed = v.armed /\ u.grab = v.grab /\ u.lapsed = v.lapsed
      /\ u.up = v.up /\ u.waiters = v.waiters
      /\ u.impervious = v.impervious /\ u.ignoreCount = v.ignoreCount
      /\ u.asleep = v.asleep /\ u.again = v.again /\ u.closed = v.closed
      /\ u.sock = v.sock /\ u.avail # c
      /\ \A d \in Client : d # c => /\ u.buf[d] = v.buf[d]
                                    /\ u.avail = d => v.avail = d
  BY <1>3, <1>4, ResetFacts
<1> HIDE DEF u
<1>6. \A d \in Client : d # c => Same(t, u, d)
  BY <1>3, <1>5 DEF Same
<1>7. Held(u, c) <= Held(t, c) + 1 /\ (Held(t, c) = 0 => Held(u, c) = 1)
  BY <1>3, <1>5 DEF Held
<1>8. /\ u.up = t.up /\ u.aborted = t.aborted /\ u.list = t.list /\ u.grab = t.grab
      /\ u.ignoreCount = t.ignoreCount /\ (u.avail = c => u.buf[c] = 0)
  BY <1>3, <1>5
<1>9. Outcome(c, IgnoreClient(u, c), TRUE)
  BY <1>1, <1>5, <1>6, <1>7, <1>8, SuspendKeeps
<1> QED BY <1>2, <1>9 DEF t

LEMMA SleepWaits ==
    ASSUME NEW c \in Client, Served(c), s.buf[c] + Amount(c) >= ReqLen,
           NEW v \in {Taken(c), ResetCurrentRequest(Taken(c), c)}
    PROVE  Outcome(c, IgnoreClient([v EXCEPT !.asleep = @ \cup {c}], c), TRUE)
<1> DEFINE t == Taken(c)
           u == [v EXCEPT !.asleep = @ \cup {c}]
<1>1. /\ Sane(t, {}) /\ c \in t.up /\ t.list[c] = "ready" /\ t \in Server
      /\ t.buf[c] \in 0 .. BufSize - ReqLen /\ t.grab = s.grab
  BY TakenFacts DEF Served, Sane
<1> HIDE DEF t
<1>2. /\ v \in Server /\ v.list = t.list /\ v.aborted = t.aborted
      /\ v.armed = t.armed /\ v.grab = t.grab /\ v.lapsed = t.lapsed
      /\ v.up = t.up /\ v.waiters = t.waiters
      /\ v.impervious = t.impervious /\ v.ignoreCount = t.ignoreCount
      /\ v.asleep = t.asleep /\ v.again = t.again /\ v.closed = t.closed
      /\ v.sock = t.sock /\ (v.avail = c => v.buf[c] = 0)
      /\ \A d \in Client : d # c => /\ v.buf[d] = t.buf[d]
                                    /\ v.avail = d => t.avail = d
  <2>1. CASE v = t
    BY <1>1, <2>1 DEF Sane, Quiet, Spare
  <2>2. CASE v = ResetCurrentRequest(t, c)
    BY <1>1, <2>2, ResetFacts
  <2> QED BY <2>1, <2>2 DEF t
<1>3. /\ u \in Server /\ u.list = v.list /\ u.aborted = v.aborted
      /\ u.armed = v.armed /\ u.grab = v.grab /\ u.lapsed = v.lapsed
      /\ u.up = v.up /\ u.waiters = v.waiters
      /\ u.impervious = v.impervious /\ u.ignoreCount = v.ignoreCount
      /\ u.asleep = v.asleep \cup {c} /\ u.again = v.again /\ u.closed = v.closed
      /\ u.sock = v.sock /\ u.avail = v.avail /\ u.buf = v.buf
  BY <1>2 DEF Server
<1> HIDE DEF u
<1>4. \A d \in Client : d # c => Same(t, u, d)
  BY <1>2, <1>3 DEF Same
<1>5. Held(u, c) <= Held(t, c) + 1 /\ (Held(t, c) = 0 => Held(u, c) = 1)
  BY <1>2, <1>3 DEF Held
<1>6. /\ u.up = t.up /\ u.aborted = t.aborted /\ u.list = t.list /\ u.grab = t.grab
      /\ u.ignoreCount = t.ignoreCount /\ (u.avail = c => u.buf[c] = 0)
  BY <1>2, <1>3
<1>7. Outcome(c, IgnoreClient(u, c), TRUE)
  BY <1>1, <1>3, <1>4, <1>5, <1>6, SuspendKeeps
<1> QED BY <1>7 DEF u

\* The server is grabbed: the clients that are ready are put aside.
LEMMA GrabGranted ==
    ASSUME NEW c \in Client, Served(c), s.buf[c] + Amount(c) >= ReqLen,
           s.grab \in {None, c}
    PROVE  Outcome(c, GrabServer(Taken(c), c), FALSE)
<1> DEFINE t == Taken(c)
           li == [d \in Client |-> IF t.list[d] = "ready" /\ d # c THEN "saved" ELSE t.list[d]]
           v == [t EXCEPT !.grab = c, !.list = li]
           u == set_poll_clients([t EXCEPT !.grab = c], Client)
           w == set_poll_clients(v, Client)
<1>1. /\ Sane(t, {}) /\ c \in t.up /\ t.list[c] = "ready" /\ t \in Server
      /\ t.grab \in {None, c}
  BY TakenFacts DEF Served, Sane
<1>2. GrabServer(t, c) = mark_client_grab(IF t.grab = None THEN u ELSE t, c)
  BY <1>1 DEF GrabServer
<1> HIDE DEF t
<1>3. /\ li \in [Client -> {"none", "ready", "saved"}] /\ li[c] = "ready"
      /\ \A d \in Client : /\ li[d] = "none" <=> t.list[d] = "none"
                           /\ li[d] = "ready" => d = c
  BY <1>1, Fields
<1>4. /\ v \in Server /\ v.grab = c /\ v.list = li /\ v.lapsed = t.lapsed
      /\ v.up = t.up /\ v.aborted = t.aborted /\ v.waiters = t.waiters
      /\ v.impervious = t.impervious /\ v.ignoreCount = t.ignoreCount
      /\ v.asleep = t.asleep /\ v.armed = t.armed
      /\ v.buf = t.buf /\ v.avail = t.avail /\ v.again = t.again
      /\ v.sock = t.sock /\ v.closed = t.closed
  <2> HIDE DEF li
  <2> QED BY <1>1, <1>3 DEF Server
<1>5. \A d \in Client : Quiet(v, {}, d)
  <2> SUFFICES ASSUME NEW d \in Client PROVE Quiet(v, {}, d)
    OBVIOUS
  <2> HIDE DEF li, v
  <2>1. Held(v, d) = Held(t, d) /\ Quiet(t, {}, d)
    BY <1>1, <1>4 DEF Held, Sane
  <2>2. Absent(v, d) /\ Listed(v, d)
    BY <1>1, <1>3, <1>4, <2>1 DEF Absent, Listed, Quiet
  <2>3. Kept(v, d) /\ Counted(v, {}, d) /\ Found(v, {}, d) /\ Spare(v, d)
    BY <1>3, <1>4, <2>1 DEF Kept, Counted, Found, Spare, Quiet
  <2> QED BY <2>2, <2>3 DEF Quiet
<1>6. GrabServer(t, c) = w \/ (t.grab = c /\ GrabServer(t, c) = v)
  <2>1. CASE t.grab = None
    <3> DEFINE p == [t EXCEPT !.grab = c]
               new == {d \in (Client \cap t.up) \ t.aborted : listen_to_client(p, d)}
               nev == {d \in (Client \cap t.up) \ t.aborted : listen_to_client(v, d)}
    <3>1. /\ p.ignoreCount = t.ignoreCount /\ p.grab = c /\ p.impervious = t.impervious
          /\ p.up = t.up /\ p.aborted = t.aborted /\ p.list = t.list
          /\ p.armed = t.armed /\ p \in Server
      BY <1>1 DEF Server
    <3>2. new = nev
      BY <1>4, <3>1 DEF listen_to_client
    <3>3. u = [t EXCEPT !.grab = c, !.armed = @ \cup new]
      BY <1>1, <3>1 DEF set_poll_clients, Server
    <3>4. w = [v EXCEPT !.armed = @ \cup nev]
      BY <1>4 DEF set_poll_clients
    <3> HIDE DEF new, nev, w, u
    <3>5. u.list = t.list
      BY <1>1, <3>3 DEF Server
    <3>6. mark_client_grab(u, c) = [u EXCEPT !.list = li]
      BY <3>5 DEF mark_client_grab
    <3> HIDE DEF li
    <3>7. [u EXCEPT !.list = li] = w
      BY <1>1, <3>2, <3>3, <3>4 DEF Server
    <3> QED BY <1>2, <2>1, <3>6, <3>7
  <2>2. CASE t.grab = c
    <3>1. mark_client_grab(t, c) = [t EXCEPT !.list = li]
      BY DEF mark_client_grab
    <3> HIDE DEF li
    <3>2. [t EXCEPT !.list = li] = v
      BY <1>1, <2>2 DEF Server
    <3>3. t.grab # None
      BY <2>2, Sizes
    <3> QED BY <1>2, <2>2, <3>1, <3>2, <3>3
  <2> QED BY <1>1, <2>1, <2>2
<1> HIDE DEF li, v, u, w
<1>7. Sane(w, {}) /\ w.up = v.up /\ w.list = v.list
  <2>1. Client \in SUBSET Client /\ \A d \in Client \ Client : Heard(v, d)
    OBVIOUS
  <2> QED BY <1>4, <1>5, <2>1, SetPoll DEF w
<1>8. ASSUME t.grab = c PROVE Sane(v, {})
  <2>1. ASSUME NEW d \in Client PROVE Heard(v, d)
    <3>1. Heard(t, d) /\ (listen_to_client(v, d) <=> listen_to_client(t, d))
      BY <1>1, <1>4, <1>8 DEF Sane, listen_to_client
    <3> QED BY <1>3, <1>4, <3>1 DEF Heard
  <2> QED BY <1>4, <1>5, <2>1 DEF Sane
<1>9. /\ Sane(GrabServer(t, c), {}) /\ c \in GrabServer(t, c).up
      /\ GrabServer(t, c).list[c] = "ready"
  BY <1>1, <1>3, <1>4, <1>6, <1>7, <1>8
<1> QED BY <1>9, SaneOutcome DEF t

\* XTestGrabControl: the client is polled, or is no longer.
LEMMA ControlKeeps ==
    ASSUME NEW c \in Client, Served(c), s.buf[c] + Amount(c) >= ReqLen
    PROVE  /\ Outcome(c, MakeClientGrabImpervious(Taken(c), c), FALSE)
           /\ Outcome(c, MakeClientGrabPervious(Taken(c), c), TRUE)
<1> DEFINE t == Taken(c)
           p == [t EXCEPT !.impervious = @ \cup {c}, !.lapsed = @ \ {c}]
           la == IF t.grab \in {None, c} THEN t.lapsed ELSE t.lapsed \cup {c}
           q == [t EXCEPT !.impervious = @ \ {c}, !.lapsed = la]
<1>1. /\ Sane(t, {}) /\ c \in t.up /\ t.list[c] = "ready" /\ t \in Server
  BY TakenFacts DEF Served, Sane
<1>2. /\ MakeClientGrabImpervious(t, c) = set_poll_clients(p, {c})
      /\ MakeClientGrabPervious(t, c) = set_poll_clients(q, {c})
  BY DEF MakeClientGrabImpervious, MakeClientGrabPervious
<1> HIDE DEF t
<1>3. /\ la \subseteq Client /\ (t.grab \in {None, c} \/ c \in la)
      /\ \A d \in Client : d # c => (d \in la <=> d \in t.lapsed)
  BY <1>1, Fields
<1> HIDE DEF la
<1>4. ASSUME NEW v \in {p, q}
      PROVE  /\ v \in Server /\ v.list = t.list /\ v.aborted = t.aborted
             /\ v.armed = t.armed /\ v.grab = t.grab
             /\ v.up = t.up /\ v.waiters = t.waiters /\ v.ignoreCount = t.ignoreCount
             /\ v.asleep = t.asleep /\ v.again = t.again /\ v.closed = t.closed
             /\ v.sock = t.sock /\ v.avail = t.avail /\ v.buf = t.buf
             /\ t.grab \in {None, c} \/ c \in v.impervious \cup v.lapsed
             /\ \A d \in Client : d # c => /\ d \in v.impervious <=> d \in t.impervious
                                           /\ d \in v.lapsed <=> d \in t.lapsed
  <2>1. CASE v = p
    BY <1>1, <2>1 DEF Server
  <2>2. CASE v = q
    BY <1>1, <1>3, <2>2 DEF Server
  <2> QED BY <1>4, <2>1, <2>2
<1> HIDE DEF p, q
<1>5. ASSUME NEW v \in {p, q}
      PROVE  Sane(set_poll_clients(v, {c}), {}) /\ set_poll_clients(v, {c}).up = t.up
             /\ set_poll_clients(v, {c}).list = t.list
  <2>1. ASSUME NEW d \in Client, d # c PROVE Quiet(v, {}, d) /\ Heard(v, d)
    <3>1. Same(t, v, d)
      BY <1>4, <2>1 DEF Same
    <3>2. Quiet(t, {}, d) /\ Heard(t, d) /\ (d \in {} <=> d \in {})
      BY <1>1 DEF Sane
    <3> QED BY <3>1, <3>2, SameQuiet, SameHeard
  <2>2. Quiet(v, {}, c)
    <3>1. Held(v, c) = Held(t, c) /\ Quiet(t, {}, c)
      BY <1>1, <1>4 DEF Held, Sane
    <3>2. Absent(v, c) /\ Listed(v, c)
      BY <1>1, <1>4, <3>1 DEF Absent, Listed, Quiet
    <3>3. Kept(v, c) /\ Counted(v, {}, c) /\ Found(v, {}, c) /\ Spare(v, c)
      BY <1>4, <3>1 DEF Kept, Counted, Found, Spare, Quiet
    <3> QED BY <3>2, <3>3 DEF Quiet
  <2>3. {c} \in SUBSET Client /\ (\A d \in Client : Quiet(v, {}, d))
        /\ \A d \in Client \ {c} : Heard(v, d)
    BY <2>1, <2>2
  <2> QED BY <1>4, <2>3, SetPoll
<1>6. /\ Outcome(c, set_poll_clients(p, {c}), FALSE)
      /\ Outcome(c, set_poll_clients(q, {c}), TRUE)
  BY <1>1, <1>5, SaneOutcome
<1> QED BY <1>2, <1>6 DEF t

\* What a request does, whichever it is.
LEMMA RequestOutcome ==
    ASSUME NEW c \in Client, Served(c), DoRequest(c)
    PROVE  /\ Outcome(c, s', phase' = "yield") /\ phase' \in {"after", "yield"}
           /\ cur' = c /\ backend' = backend
<1> DEFINE t == Taken(c)
<1>1. cur = c /\ s.buf[c] + Amount(c) >= ReqLen
  BY DEF DoRequest
<1>2. /\ Sane(t, {}) /\ c \in t.up /\ t.list[c] = "ready" /\ t \in Server
      /\ t.up = s.up /\ t.grab = s.grab
  BY <1>1, TakenFacts DEF Served, Sane
<1> DEFINE Done == \E u : \E yields \in BOOLEAN :
                      Request(c, u, yields) /\ Outcome(c, u, yields)
<1>3. Done
  <2>1. CASE ProcGrabServer(c)
    <3>1. CASE s.grab \in {None, c}
      BY <1>1, <2>1, <3>1, GrabGranted DEF ProcGrabServer
    <3>2. CASE s.grab \notin {None, c}
      BY <1>1, <2>1, <3>2, GrabWaits DEF ProcGrabServer
    <3> QED BY <3>1, <3>2
  <2>2. CASE ProcUngrabServer(c)
    <3>1. Sane(UngrabServer(t), {}) /\ Stays(t, UngrabServer(t))
      <4>1. {} \subseteq t.aborted
        OBVIOUS
      <4> QED BY <1>2, <4>1, UngrabKeeps
    <3>2. Outcome(c, UngrabServer(t), FALSE)
      BY <1>2, <3>1, SaneOutcome DEF Stays
    <3> QED BY <2>2, <3>2 DEF ProcUngrabServer
  <2>3. CASE ProcXTestGrabControl(c)
    BY <1>1, <2>3, ControlKeeps DEF ProcXTestGrabControl
  <2>4. CASE ProcKillClient(c)
    <3>1. PICK d \in s.up : Request(c, CloseDownClient(t, d), c = d)
      BY <2>4 DEF ProcKillClient
    <3>2. d \in Client /\ {} \subseteq t.aborted /\ {} \ {d} = {}
      BY <1>2, Fields
    <3> DEFINE w == CloseDownClient(t, d)
    <3>3. /\ Sane(w, {}) /\ w.up = t.up \ {d}
          /\ \A e \in Client : e # d /\ t.list[e] = "ready" => w.list[e] = "ready"
      BY <1>2, <3>2, CloseDownKeeps
    <3> HIDE DEF w
    <3>4. Outcome(c, w, c = d)
      BY <1>2, <3>3, SaneOutcome
    <3> QED BY <3>1, <3>4 DEF w
  <2>5. CASE ClientSleep(c)
    BY <1>1, <2>5, SleepWaits DEF ClientSleep
  <2>6. CASE OtherRequest(c)
    <3>1. CASE Request(c, t, FALSE)
      <4>1. Outcome(c, t, FALSE)
        BY <1>2, SaneOutcome
      <4> QED BY <3>1, <4>1
    <3>2. CASE \E d \in s.up \cap Clogged : Request(c, AbortClient(t, d), FALSE)
      <4>1. PICK d \in s.up : Request(c, AbortClient(t, d), FALSE)
        BY <3>2
      <4>2. {} \subseteq t.aborted /\ d \in t.up
        BY <1>2
      <4>3. /\ Sane(AbortClient(t, d), {}) /\ AbortClient(t, d).up = t.up
            /\ AbortClient(t, d).list[c] = "ready"
        BY <1>2, <4>2, AbortKeeps
      <4>4. Outcome(c, AbortClient(t, d), FALSE)
        BY <1>2, <4>3, SaneOutcome
      <4> QED BY <4>1, <4>4
    <3> QED BY <2>6, <3>1, <3>2 DEF OtherRequest
  <2> QED BY <2>1, <2>2, <2>3, <2>4, <2>5, <2>6 DEF DoRequest
<1>4. PICK u : \E yields \in BOOLEAN : Request(c, u, yields) /\ Outcome(c, u, yields)
  BY <1>3
<1> QED BY <1>1, <1>4 DEF Request, Outcome

-----------------------------------------------------------------------------
(* The steps.                                                              *)

\* What each step has to establish.
Lands == backend' = backend /\ Sane(s', Excused') /\ PhaseInv'

LEMMA LandsIsInv ==
    ASSUME Lands
    PROVE  DispatchInv'
<1>1. /\ s' \in Server /\ backend' = backend
      /\ \A c \in Client : Quiet(s', Excused', c) /\ Heard(s', c)
  BY DEF Lands, Sane
<1>2. \A c \in Client : Heard(s, c)'
  BY <1>1 DEF Heard
<1>3. Sane(s, Excused)'
  BY <1>1, <1>2 DEF Sane
<1> QED BY <1>3 DEF DispatchInv, Lands

\* Between requests nobody is excused.
LEMMA NobodyExcused ==
    ASSUME DispatchInv, phase \notin {"after", "yield"}
    PROVE  Sane(s, {}) /\ s \in Server
BY DEF DispatchInv, Excused, Sane

\* A step from which Dispatch goes on to look for something to do.
LEMMA LandsAtRest ==
    ASSUME PhaseInv, backend' = backend, Sane(s', {}),
           phase' \in {"work", "poll", "pick"}, cur' = None
    PROVE  Lands
<1>1. Excused' = {}
  BY DEF Excused
<1>2. PhaseInv'
  BY DEF PhaseInv
<1> QED BY <1>1, <1>2 DEF Lands

\* The number of work procedures is no concern of the lists.
LEMMA WorkKeeps ==
    ASSUME NEW t, NEW x, Sane(t, x), NEW w \in [Client -> 0 .. MaxWork]
    PROVE  LET u == [t EXCEPT !.work = w]
           IN  /\ Sane(u, x) /\ \A d \in Client : Same(t, u, d)
               /\ u.up = t.up /\ u.list = t.list /\ u.aborted = t.aborted
               /\ u.asleep = t.asleep /\ u \in Server
<1> DEFINE u == [t EXCEPT !.work = w]
<1>1. /\ u \in Server /\ u.list = t.list /\ u.aborted = t.aborted
      /\ u.armed = t.armed /\ u.grab = t.grab /\ u.lapsed = t.lapsed
      /\ u.up = t.up /\ u.waiters = t.waiters
      /\ u.impervious = t.impervious /\ u.ignoreCount = t.ignoreCount
      /\ u.asleep = t.asleep /\ u.again = t.again /\ u.closed = t.closed
      /\ u.sock = t.sock /\ u.avail = t.avail /\ u.buf = t.buf
  BY DEF Sane, Server
<1> HIDE DEF u
<1>2. \A d \in Client : Same(t, u, d)
  BY <1>1 DEF Same
<1>3. ASSUME NEW d \in Client PROVE Quiet(u, x, d) /\ Heard(u, d)
  <2>1. Same(t, u, d) /\ Quiet(t, x, d) /\ Heard(t, d) /\ (d \in x <=> d \in x)
    BY <1>2 DEF Sane
  <2> QED BY <2>1, SameQuiet, SameHeard
<1> QED BY <1>1, <1>2, <1>3 DEF Sane, u

LEMMA WorkStep ==
    ASSUME DispatchInv, ProcessWorkQueue
    PROVE  Lands
<1>1. /\ Sane(s, {}) /\ s \in Server /\ PhaseInv
      /\ phase = "work" /\ cur = None /\ cur' = cur /\ backend' = backend
  BY NobodyExcused DEF ProcessWorkQueue, DispatchInv, PhaseInv
<1>2. CASE UNCHANGED s /\ phase' = "poll"
  BY <1>1, <1>2, LandsAtRest
<1>3. ASSUME NEW c \in Client, s.work[c] > 0, phase' = phase,
             LET t == [s EXCEPT !.work[c] = @ - 1]
             IN  s' = IF c \in t.asleep
                      THEN AttendClient([t EXCEPT !.asleep = @ \ {c}], c) ELSE t
      PROVE  Lands
  <2> DEFINE wk == [s.work EXCEPT ![c] = @ - 1]
             t == [s EXCEPT !.work = wk]
             v == [t EXCEPT !.asleep = @ \ {c}]
  <2>1. wk \in [Client -> 0 .. MaxWork]
    BY <1>1, <1>3, Fields, Sizes
  <2>2. s' = IF c \in t.asleep THEN AttendClient(v, c) ELSE t
    BY <1>3
  <2> HIDE DEF wk
  <2>3. /\ Sane(t, {}) /\ t \in Server
    BY <1>1, <2>1, WorkKeeps
  <2> HIDE DEF t
  <2>4. CASE c \notin t.asleep
    BY <1>1, <1>3, <2>2, <2>3, <2>4, LandsAtRest
  <2>5. CASE c \in t.asleep
    <3>1. /\ v \in Server /\ v.list = t.list /\ v.aborted = t.aborted
          /\ v.armed = t.armed /\ v.grab = t.grab /\ v.lapsed = t.lapsed
          /\ v.up = t.up /\ v.waiters = t.waiters
          /\ v.impervious = t.impervious /\ v.ignoreCount = t.ignoreCount
          /\ v.asleep = t.asleep \ {c} /\ v.again = t.again /\ v.closed = t.closed
          /\ v.sock = t.sock /\ v.avail = t.avail /\ v.buf = t.buf
      BY <2>3 DEF Server
    <3> HIDE DEF v
    <3>2. \A d \in Client : d # c => Quiet(v, {}, d) /\ Heard(v, d)
      <4> SUFFICES ASSUME NEW d \in Client, d # c PROVE Quiet(v, {}, d) /\ Heard(v, d)
        OBVIOUS
      <4>1. Same(t, v, d)
        BY <3>1 DEF Same
      <4>2. Quiet(t, {}, d) /\ Heard(t, d) /\ (d \in {} <=> d \in {})
        BY <2>3 DEF Sane
      <4> QED BY <4>1, <4>2, SameQuiet, SameHeard
    <3>3. Quiet(t, {}, c)
      BY <2>3 DEF Sane
    <3>4. Held(t, c) = Held(v, c) + 1 /\ Held(v, c) \in 0 .. 1
      BY <2>5, <3>1 DEF Held
    <3>5. t.ignoreCount[c] = 1 /\ Held(v, c) = 0
      BY <3>3, <3>4 DEF Quiet, Counted
    <3>6. c \in v.up /\ Listed(v, c) /\ Found(v, {}, c) /\ Spare(v, c)
      BY <2>5, <3>1, <3>3 DEF Quiet, Absent, Listed, Found, Spare
    <3>7. Attended(v, {}, c)
      BY <3>1, <3>5, <3>6 DEF Attended
    <3>8. Sane(AttendClient(v, c), {})
      BY <3>1, <3>2, <3>7, AttendKeeps
    <3> QED BY <1>1, <1>3, <2>2, <2>5, <3>8, LandsAtRest
  <2> QED BY <2>4, <2>5
<1> QED BY <1>2, <1>3 DEF ProcessWorkQueue

LEMMA WaitStep ==
    ASSUME DispatchInv, ospoll_wait
    PROVE  Lands
<1>1. /\ Sane(s, {}) /\ s \in Server /\ PhaseInv
      /\ phase = "poll" /\ cur = None /\ cur' = cur /\ backend' = backend
      /\ phase' \in {"work", "poll", "pick"}
  BY NobodyExcused DEF ospoll_wait, DispatchInv, PhaseInv
<1> DEFINE ar == (s.armed \ Told) \cup Rearmed
           li == [c \in Client |-> IF c \in Told /\ s.list[c] = "none" THEN "ready" ELSE s.list[c]]
           u == [s EXCEPT !.armed = ar, !.list = li]
<1>2. s' = u
  BY DEF ospoll_wait
<1>3. /\ \A c \in Told : c \in s.up /\ c \notin s.aborted /\ listen_to_client(s, c)
      /\ Rearmed \subseteq s.up /\ Told \subseteq Client
  BY <1>1, Fields DEF Told, Rearmed
<1>4. /\ ar \subseteq Client /\ li \in [Client -> {"none", "ready", "saved"}]
      /\ \A c \in Client : /\ s.list[c] # "none" => li[c] = s.list[c]
                           /\ s.list[c] = "none" /\ c \notin Told => li[c] = "none"
                           /\ c \in Told => li[c] # "none"
                           /\ c \in s.armed /\ c \notin Told => c \in ar
                           /\ c \in ar => c \in s.armed \/ c \in s.up
  BY <1>1, <1>3, Fields
<1> HIDE DEF ar, li
<1>5. /\ u \in Server /\ u.list = li /\ u.aborted = s.aborted
      /\ u.armed = ar /\ u.grab = s.grab /\ u.lapsed = s.lapsed
      /\ u.up = s.up /\ u.waiters = s.waiters
      /\ u.impervious = s.impervious /\ u.ignoreCount = s.ignoreCount
      /\ u.asleep = s.asleep /\ u.again = s.again /\ u.closed = s.closed
      /\ u.sock = s.sock /\ u.avail = s.avail /\ u.buf = s.buf
  BY <1>1, <1>4 DEF Server
<1> HIDE DEF u
<1>6. ASSUME NEW c \in Client PROVE Quiet(u, {}, c) /\ Heard(u, c)
  <2>1. Held(u, c) = Held(s, c) /\ (listen_to_client(u, c) <=> listen_to_client(s, c))
    BY <1>5 DEF Held, listen_to_client
  <2>2. Quiet(s, {}, c) /\ Heard(s, c)
    BY <1>1 DEF Sane
  <2>3. Absent(u, c)
    BY <1>3, <1>4, <1>5, <2>2 DEF Absent, Quiet
  <2>4. Listed(u, c)
    <3>1. CASE c \in Told
      <4>1. listen_to_client(s, c)
        BY <1>3, <3>1
      <4> QED BY <1>5, <4>1 DEF Listed, listen_to_client
    <3>2. CASE c \notin Told
      BY <1>4, <1>5, <2>2, <3>2 DEF Listed, Quiet
    <3> QED BY <3>1, <3>2
  <2>5. Counted(u, {}, c) /\ Kept(u, c) /\ Found(u, {}, c) /\ Spare(u, c)
    BY <1>4, <1>5, <2>1, <2>2 DEF Counted, Kept, Found, Spare, Quiet
  <2>6. Heard(u, c)
    BY <1>4, <1>5, <2>1, <2>2 DEF Heard
  <2> QED BY <2>3, <2>4, <2>5, <2>6 DEF Quiet
<1>7. Sane(u, {})
  BY <1>5, <1>6 DEF Sane
<1> QED BY <1>1, <1>2, <1>7, LandsAtRest

LEMMA ErrorStep ==
    ASSUME DispatchInv, NEW c \in Client, ClientReadyError(c)
    PROVE  Lands
<1>1. /\ Sane(s, {}) /\ PhaseInv /\ phase' = "poll" /\ cur' = None
      /\ backend' = backend /\ s' = CloseDownClient(s, c)
  BY NobodyExcused DEF ClientReadyError, DispatchInv, PhaseInv
<1>2. {} \subseteq s.aborted /\ {} \ {c} = {}
  OBVIOUS
<1>3. Sane(s', {})
  BY <1>1, <1>2, CloseDownKeeps
<1> QED BY <1>1, <1>3, LandsAtRest

-----------------------------------------------------------------------------
(* New connections.                                                        *)

\* What the loop of EstablishNewConnections makes of the record at client n.
CloseRound(g, t, n) ==
    IF n = 0 THEN t
    ELSE IF n \in t.aborted THEN CloseDownClient(g[n - 1], n)
    ELSE g[n - 1]

\* The function that the loop computes exists, by taking the least number of
\* clients for which it would not.
LEMMA LoopExists ==
    ASSUME NEW t
    PROVE  \E g : g = [n \in 0 .. MaxClients - 1 |-> CloseRound(g, t, n)]
<1> DEFINE Good(m) == \E g : g = [n \in 0 .. m |-> CloseRound(g, t, n)]
           Bad == {m \in 0 .. MaxClients - 1 : ~Good(m)}
<1>0. MaxClients - 1 \in Nat
  BY Sizes
<1> SUFFICES ASSUME Bad # {} PROVE FALSE
  <2>1. MaxClients - 1 \notin Bad => Good(MaxClients - 1)
    BY <1>0
  <2> QED BY <2>1
<1>1. Bad \in SUBSET Nat
  BY <1>0
<1>2. PICK m \in Bad : \A k \in Bad : m <= k
  <2> HIDE DEF Bad
  <2> QED BY <1>1, LeastNumber
<1>3. m \in 0 .. MaxClients - 1 /\ ~Good(m)
  OBVIOUS
<1>4. CASE m = 0
  <2> DEFINE g == [n \in 0 .. 0 |-> t]
  <2>1. g = [n \in 0 .. 0 |-> CloseRound(g, t, n)]
    BY DEF CloseRound
  <2> QED BY <2>1, <1>3, <1>4
<1>5. CASE m # 0
  <2>1. m - 1 \in 0 .. MaxClients - 1 /\ ~(m <= m - 1) /\ m \in Nat
    BY <1>0, <1>3, <1>5
  <2>2. Good(m - 1)
    BY <2>1, <1>2
  <2>3. PICK g : g = [n \in 0 .. m - 1 |-> CloseRound(g, t, n)]
    BY <2>2
  <2> DEFINE h == [n \in 0 .. m |-> IF n = m THEN CloseRound(g, t, m) ELSE g[n]]
  <2>4. ASSUME NEW n \in 0 .. m PROVE h[n] = CloseRound(h, t, n)
    <3>1. CASE n = m
      <4>1. h[m - 1] = g[m - 1]
        BY <2>1
      <4>2. h[n] = CloseRound(g, t, m)
        BY <3>1
      <4> HIDE DEF h
      <4> QED BY <3>1, <4>1, <4>2 DEF CloseRound
    <3>2. CASE n # m
      <4>1. n \in 0 .. m - 1 /\ h[n] = g[n]
        BY <3>2, <2>1
      <4>2. g[n] = CloseRound(g, t, n)
        BY <4>1, <2>3
      <4>3. n # 0 => h[n - 1] = g[n - 1]
        BY <4>1, <2>1
      <4> HIDE DEF h
      <4> QED BY <4>1, <4>2, <4>3 DEF CloseRound
    <3> QED BY <3>1, <3>2
  <2>5. h = [n \in 0 .. m |-> CloseRound(h, t, n)]
    <3>1. h = [n \in 0 .. m |-> h[n]]
      OBVIOUS
    <3> HIDE DEF h
    <3> QED BY <3>1, <2>4
  <2> HIDE DEF h
  <2> QED BY <2>5, <1>3
<1> QED BY <1>4, <1>5

LEMMA CloseAbortedKeeps ==
    ASSUME NEW t, Sane(t, {})
    PROVE  Sane(CloseAborted(t), {}) /\ CloseAborted(t).up \subseteq t.up
<1> DEFINE g == CHOOSE g : g = [n \in 0 .. MaxClients - 1 |-> CloseRound(g, t, n)]
           Good(u) == Sane(u, {}) /\ u.up \subseteq t.up
           Bad == {n \in 0 .. MaxClients - 1 : ~Good(g[n])}
<1>0. MaxClients - 1 \in Nat
  BY Sizes
<1>1. g = [n \in 0 .. MaxClients - 1 |-> CloseRound(g, t, n)]
  BY LoopExists
<1>2. CloseAborted(t) = g[MaxClients - 1]
  BY DEF CloseAborted, CloseRound
<1> HIDE DEF g
<1> SUFFICES ASSUME Bad # {} PROVE FALSE
  BY <1>0, <1>2
<1>3. Bad \in SUBSET Nat
  BY <1>0
<1>4. PICK m \in Bad : \A k \in Bad : m <= k
  <2> HIDE DEF Bad
  <2> QED BY <1>3, LeastNumber
<1>5. m \in 0 .. MaxClients - 1 /\ ~Good(g[m]) /\ g[m] = CloseRound(g, t, m)
  BY <1>1
<1>6. CASE m = 0
  <2>1. g[m] = t
    BY <1>5, <1>6 DEF CloseRound
  <2> QED BY <2>1, <1>5
<1>7. CASE m # 0
  <2>1. m \in Client /\ m - 1 \in 0 .. MaxClients - 1 /\ ~(m <= m - 1)
    BY <1>0, <1>5, <1>7 DEF Client
  <2>2. Good(g[m - 1])
    BY <2>1, <1>4
  <2> DEFINE u == g[m - 1]
  <2> HIDE DEF u
  <2>3. Sane(u, {}) /\ u.up \subseteq t.up
    BY <2>2 DEF u
  <2>4. {} \subseteq u.aborted /\ {} \ {m} = {}
    OBVIOUS
  <2>5. /\ Sane(CloseDownClient(u, m), {}) /\ CloseDownClient(u, m).up = u.up \ {m}
    BY <2>1, <2>3, <2>4, CloseDownKeeps
  <2>6. g[m] = IF m \in t.aborted THEN CloseDownClient(u, m) ELSE u
    BY <1>5, <1>7 DEF CloseRound, u
  <2>7. Good(g[m])
    BY <2>3, <2>5, <2>6
  <2> QED BY <2>7, <1>5
<1> QED BY <1>6, <1>7

LEMMA ConnectStep ==
    ASSUME DispatchInv, NEW c \in Client, EstablishNewConnections(c)
    PROVE  Lands
<1> DEFINE t == CloseAborted(s)
           u == [t EXCEPT !.up = @ \cup {c}]
<1>1. /\ Sane(s, {}) /\ PhaseInv /\ phase' = "poll" /\ cur' = None
      /\ backend' = backend /\ c \notin s.up /\ s' = set_poll_clients(u, {c})
  BY NobodyExcused DEF EstablishNewConnections, DispatchInv, PhaseInv
<1>2. Sane(t, {}) /\ c \notin t.up
  BY <1>1, CloseAbortedKeeps
<1> HIDE DEF t
<1>3. /\ u \in Server /\ u.list = t.list /\ u.aborted = t.aborted
      /\ u.armed = t.armed /\ u.grab = t.grab /\ u.lapsed = t.lapsed
      /\ u.up = t.up \cup {c} /\ u.waiters = t.waiters
      /\ u.impervious = t.impervious /\ u.ignoreCount = t.ignoreCount
      /\ u.asleep = t.asleep /\ u.again = t.again /\ u.closed = t.closed
      /\ u.sock = t.sock /\ u.avail = t.avail /\ u.buf = t.buf
  BY <1>2 DEF Sane, Server
<1> HIDE DEF u
<1>4. ASSUME NEW d \in Client, d # c PROVE Quiet(u, {}, d) /\ Heard(u, d)
  <2>1. Same(t, u, d)
    BY <1>3, <1>4 DEF Same
  <2>2. Quiet(t, {}, d) /\ Heard(t, d) /\ (d \in {} <=> d \in {})
    BY <1>2 DEF Sane
  <2> QED BY <2>1, <2>2, SameQuiet, SameHeard
<1>5. Quiet(u, {}, c)
  <2>1. Quiet(t, {}, c) /\ Held(u, c) = Held(t, c)
    BY <1>2, <1>3 DEF Sane, Held
  <2>2. Absent(u, c) /\ Listed(u, c) /\ Spare(u, c)
    BY <1>2, <1>3, <2>1 DEF Absent, Listed, Spare, Quiet
  <2>3. Kept(u, c)
    BY <1>2, <1>3, <2>1, Sizes DEF Absent, Kept, Quiet
  <2>4. Counted(u, {}, c) /\ Found(u, {}, c)
    BY <1>3, <2>1 DEF Counted, Found, Quiet
  <2> QED BY <2>2, <2>3, <2>4 DEF Quiet
<1>6. {c} \in SUBSET Client /\ (\A d \in Client : Quiet(u, {}, d))
      /\ \A d \in Client \ {c} : Heard(u, d)
  BY <1>4, <1>5
<1>7. Sane(set_poll_clients(u, {c}), {})
  BY <1>3, <1>6, SetPoll
<1> QED BY <1>1, <1>7, LandsAtRest

-----------------------------------------------------------------------------
(* Dispatch.                                                               *)

LEMMA ScheduleStep ==
    ASSUME DispatchInv, NEW c \in Client, SmartScheduleClient(c) \/ EndSlice
    PROVE  Lands
<1>1. /\ Sane(s, {}) /\ PhaseInv /\ s' = s /\ backend' = backend
      /\ phase' \in {"work", "serve"}
  BY NobodyExcused DEF SmartScheduleClient, EndSlice, DispatchInv
<1>2. CASE EndSlice
  BY <1>1, <1>2, LandsAtRest DEF EndSlice
<1>3. CASE SmartScheduleClient(c)
  <2>1. s.list[c] = "ready" /\ cur' = c /\ phase' = "serve"
    BY <1>3 DEF SmartScheduleClient
  <2>2. c \in s.up
    BY <1>1, <2>1 DEF Sane, Quiet, Absent
  <2>3. Excused' = {}
    BY <2>1 DEF Excused
  <2>4. PhaseInv'
    BY <1>1, <2>1, <2>2 DEF PhaseInv
  <2> QED BY <1>1, <2>3, <2>4 DEF Lands
<1> QED BY <1>2, <1>3

\* Dispatch serves a client that is on the list.
LEMMA ServedFacts ==
    ASSUME DispatchInv, NEW c, phase = "serve", cur = c
    PROVE  Served(c) /\ c \in Client /\ s \in Server
BY NobodyExcused DEF Served, DispatchInv, PhaseInv

LEMMA ReadStep ==
    ASSUME DispatchInv, NEW c \in Client, ReadPart(c)
    PROVE  Lands
<1>1. /\ Served(c) /\ PhaseInv /\ phase' = "work" /\ cur' = None
      /\ backend' = backend /\ s' = ospoll_reset_events(Filled(c), c)
  BY ServedFacts DEF ReadPart, DispatchInv
<1>2. Sane(Filled(c), {}) /\ c \in Filled(c).up
  BY <1>1, FilledFacts
<1>3. Sane(s', {})
  BY <1>1, <1>2, ArmingKeeps
<1> QED BY <1>1, <1>3, LandsAtRest

\* Nothing to read: the client leaves the list, and will be told about.
LEMMA NothingStep ==
    ASSUME DispatchInv, NEW c \in Client, ReadNothing(c)
    PROVE  Lands
<1> DEFINE f == Filled(c)
           v == [f EXCEPT !.list[c] = "none"]
<1>1. /\ Served(c) /\ PhaseInv /\ phase' = "work" /\ cur' = None
      /\ backend' = backend /\ s.buf[c] < ReqLen /\ Amount(c) = 0 /\ s \in Server
  BY ServedFacts DEF ReadNothing, DispatchInv
<1>2. /\ Sane(f, {}) /\ c \in f.up /\ f.list = s.list /\ f.aborted = s.aborted
      /\ f.buf[c] = s.buf[c] + Amount(c) /\ f.sock[c] = s.sock[c] - Amount(c)
      /\ f.closed = s.closed
  BY <1>1, FilledFacts
<1>3. CASE s' = CloseDownClient(f, c)
  <2>1. {} \subseteq f.aborted /\ {} \ {c} = {}
    OBVIOUS
  <2> HIDE DEF f
  <2>2. Sane(s', {})
    BY <1>2, <1>3, <2>1, CloseDownKeeps
  <2> QED BY <1>1, <2>2, LandsAtRest
<1>4. CASE c \notin s.aborted \cup s.closed /\ s' = ospoll_reset_events(v, c)
  <2>1. s.buf[c] \in Nat /\ s.sock[c] \in Nat
    BY <1>1, Fields, Sizes
  <2>2. s.sock[c] = 0
    <3> DEFINE p == s.sock[c]
               q == BufSize - s.buf[c]
    <3>1. p \in Nat /\ q \in Nat /\ q # 0
      BY <1>1, <2>1, Sizes
    <3>2. Amount(c) = Min({p, q})
      BY <1>1, <1>4, <2>1, Sizes DEF Amount
    <3> HIDE DEF p, q
    <3>3. Min({p, q}) \in {p, q}
      BY <3>1, LeastNumber
    <3> QED BY <1>1, <3>1, <3>2, <3>3 DEF p
  <2>3. f.buf[c] < ReqLen /\ f.sock[c] = 0 /\ f \in Server
    BY <1>1, <1>2, <2>1, <2>2 DEF Sane
  <2> DEFINE li == [f.list EXCEPT ![c] = "none"]
             ar == IF backend = "poll" THEN f.armed \cup {c} ELSE f.armed
             r == [f EXCEPT !.list = li, !.armed = ar]
  <2> HIDE DEF f
  <2>4. /\ li \in [Client -> {"none", "ready", "saved"}] /\ li[c] = "none"
        /\ \A d \in Client : d # c => li[d] = f.list[d]
    BY <2>3, Fields
  <2>5. /\ ar \subseteq Client /\ (backend = "poll" => c \in ar)
        /\ \A d \in Client : d # c => (d \in ar <=> d \in f.armed)
    BY <2>3, Fields
  <2>6. v = [f EXCEPT !.list = li]
    OBVIOUS
  <2> HIDE DEF li, v
  <2>7. v.aborted = f.aborted /\ v.armed = f.armed
    BY <2>3, <2>6 DEF Server
  <2>8. s' = r
    <3>1. s' = IF backend = "poll" THEN [v EXCEPT !.armed = @ \cup {c}] ELSE v
      BY <1>2, <1>4, <2>7 DEF ospoll_reset_events
    <3> QED BY <2>3, <2>6, <3>1 DEF Server
  <2> HIDE DEF ar
  <2>9. /\ r \in Server /\ r.list = li /\ r.aborted = f.aborted
        /\ r.armed = ar /\ r.grab = f.grab /\ r.lapsed = f.lapsed
        /\ r.up = f.up /\ r.waiters = f.waiters
        /\ r.impervious = f.impervious /\ r.ignoreCount = f.ignoreCount
        /\ r.asleep = f.asleep /\ r.again = f.again /\ r.closed = f.closed
        /\ r.sock = f.sock /\ r.avail = f.avail /\ r.buf = f.buf
    BY <2>3, <2>4, <2>5 DEF Server
  <2> HIDE DEF r
  <2>10. \A d \in Client : d # c => Same(f, r, d)
    BY <2>4, <2>5, <2>9 DEF Same
  <2>11. Quiet(r, {}, c)
    <3>1. Quiet(f, {}, c) /\ Held(r, c) = Held(f, c)
      BY <1>2, <2>9 DEF Sane, Held
    <3>2. f.buf[c] \in Nat
      BY <2>3, Fields
    <3>3. Absent(r, c) /\ Listed(r, c) /\ Spare(r, c) /\ Found(r, {}, c)
      BY <1>2, <1>4, <2>4, <2>9, <3>1 DEF Absent, Listed, Spare, Found, Quiet
    <3>4. Kept(r, c)
      BY <2>3, <2>9, <3>2, Sizes DEF Kept
    <3>5. Counted(r, {}, c)
      BY <2>9, <3>1 DEF Counted, Quiet
    <3> QED BY <3>3, <3>4, <3>5 DEF Quiet
  <2>12. Heard(r, c)
    BY <1>2, <1>4, <2>3, <2>5, <2>9 DEF Heard
  <2>13. Sane(r, {})
    BY <1>2, <2>9, <2>10, <2>11, <2>12, SameSane
  <2> QED BY <1>1, <2>8, <2>13, LandsAtRest
<1> QED BY <1>3, <1>4 DEF ReadNothing

LEMMA RequestStep ==
    ASSUME DispatchInv, NEW c \in Client, DoRequest(c)
    PROVE  Lands
<1>1. Served(c) /\ PhaseInv
  BY ServedFacts DEF DoRequest, DispatchInv
<1>2. /\ Outcome(c, s', phase' = "yield") /\ phase' \in {"after", "yield"}
      /\ cur' = c /\ backend' = backend
  BY <1>1, RequestOutcome
<1>3. Excused' = {c} \cap s'.aborted
  BY <1>2 DEF Excused
<1>4. Sane(s', Excused')
  BY <1>2, <1>3 DEF Outcome
<1>5. phase' = "after" /\ c \notin s'.aborted => c \in s'.up /\ s'.list[c] = "ready"
  BY <1>2 DEF Outcome
<1>6. PhaseInv'
  BY <1>1, <1>2, <1>5 DEF PhaseInv
<1> QED BY <1>2, <1>4, <1>6 DEF Lands

LEMMA AfterStep ==
    ASSUME DispatchInv, AfterRequest
    PROVE  Lands
<1>1. /\ Sane(s, {cur} \cap s.aborted) /\ PhaseInv /\ cur \in Client
      /\ backend' = backend /\ phase \in {"after", "yield"}
  BY DEF AfterRequest, DispatchInv, PhaseInv, Excused
<1>2. CASE cur \in s.aborted
  <2>1. {cur} \cap s.aborted = {cur} /\ {cur} \subseteq s.aborted /\ {cur} \ {cur} = {}
    BY <1>2
  <2>2. s' = CloseDownClient(s, cur) /\ phase' = "work" /\ cur' = None
    BY <1>2 DEF AfterRequest
  <2>3. Sane(s', {})
    BY <1>1, <2>1, <2>2, CloseDownKeeps
  <2> QED BY <1>1, <2>2, <2>3, LandsAtRest
<1>3. CASE cur \notin s.aborted
  <2>1. Sane(s, {})
    <3>1. {cur} \cap s.aborted = {}
      BY <1>3
    <3> QED BY <1>1, <3>1
  <2>2. CASE phase = "yield"
    BY <1>1, <1>3, <2>1, <2>2, LandsAtRest DEF AfterRequest
  <2>3. CASE phase = "after"
    <3>1. s' = s /\ cur' = cur /\ phase' = "serve"
      BY <1>3, <2>3 DEF AfterRequest
    <3>2. Excused' = {}
      BY <3>1 DEF Excused
    <3>3. PhaseInv'
      BY <1>1, <1>3, <2>3, <3>1 DEF PhaseInv
    <3> QED BY <1>1, <2>1, <3>1, <3>2, <3>3 DEF Lands
  <2> QED BY <1>1, <2>2, <2>3
<1> QED BY <1>2, <1>3

-----------------------------------------------------------------------------
(* The clients.                                                            *)

\* The record changes in nothing that the phases speak of.
LEMMA LandsInPlace ==
    ASSUME PhaseInv, NEW x, x = Excused, Sane(s', x), UNCHANGED <<phase, cur, backend>>,
           s'.up = s.up, s'.list = s.list, s'.aborted = s.aborted
    PROVE  Lands
<1>1. Excused' = x
  BY DEF Excused
<1>2. PhaseInv'
  BY DEF PhaseInv
<1> QED BY <1>1, <1>2 DEF Lands

\* Input comes, or the end of it: poll has been told to listen before, epoll is
\* told now.
LEMMA EdgeKeeps ==
    ASSUME NEW t, NEW x, Sane(t, x), backend \in Backends, NEW c \in t.up,
           NEW so \in [Client -> 0 .. MaxSock], NEW cl \in SUBSET Client,
           \A d \in Client : d # c => so[d] = t.sock[d] /\ (d \in cl <=> d \in t.closed)
    PROVE  LET v == [t EXCEPT !.sock = so, !.closed = cl]
           IN  /\ Sane(Edge(v, c), x) /\ Edge(v, c).up = t.up
               /\ Edge(v, c).list = t.list /\ Edge(v, c).aborted = t.aborted
<1> DEFINE v == [t EXCEPT !.sock = so, !.closed = cl]
           ar == IF backend = "epoll" /\ c \notin t.aborted THEN t.armed \cup {c} ELSE t.armed
           r == [t EXCEPT !.sock = so, !.closed = cl, !.armed = ar]
<1>0. t \in Server /\ c \in Client
  BY Fields DEF Sane
<1>1. Edge(v, c) = r
  <2>1. v.aborted = t.aborted /\ v.armed = t.armed
    BY <1>0 DEF Server
  <2> QED BY <1>0, <2>1 DEF Edge, Server
<1>2. /\ ar \subseteq Client /\ (backend = "epoll" /\ c \notin t.aborted => c \in ar)
      /\ t.armed \subseteq ar
      /\ \A d \in Client : d # c => (d \in ar <=> d \in t.armed)
  BY <1>0, Fields
<1> HIDE DEF ar
<1>3. /\ r \in Server /\ r.list = t.list /\ r.aborted = t.aborted
      /\ r.armed = ar /\ r.grab = t.grab /\ r.lapsed = t.lapsed
      /\ r.up = t.up /\ r.waiters = t.waiters
      /\ r.impervious = t.impervious /\ r.ignoreCount = t.ignoreCount
      /\ r.asleep = t.asleep /\ r.again = t.again /\ r.closed = cl
      /\ r.sock = so /\ r.avail = t.avail /\ r.buf = t.buf
  BY <1>0, <1>2 DEF Server
<1> HIDE DEF r, v
<1>4. \A d \in Client : d # c => Same(t, r, d)
  BY <1>2, <1>3 DEF Same
<1>5. Quiet(r, x, c)
  <2>1. Quiet(t, x, c) /\ Held(r, c) = Held(t, c)
    BY <1>0, <1>3 DEF Sane, Held
  <2> QED BY <1>3, <2>1 DEF Quiet, Absent, Counted, Listed, Kept, Found, Spare
<1>6. Heard(r, c)
  <2>1. Heard(t, c) /\ (listen_to_client(r, c) <=> listen_to_client(t, c))
    BY <1>0, <1>3 DEF Sane, listen_to_client
  <2>2. backend \in {"epoll", "poll"}
    BY ClientsAssumption
  <2>3. CASE backend = "epoll"
    BY <1>2, <1>3, <2>3 DEF Heard
  <2>4. CASE backend = "poll"
    BY <1>2, <1>3, <2>1, <2>4 DEF Heard
  <2> QED BY <2>2, <2>3, <2>4
<1>7. Sane(r, x)
  BY <1>3, <1>4, <1>5, <1>6, SameSane
<1> QED BY <1>1, <1>3, <1>7 DEF v

LEMMA ClientStep ==
    ASSUME DispatchInv, NEW c \in Client, Send(c) \/ Close(c) \/ ClientSignal(c)
    PROVE  Lands
<1>1. /\ PhaseInv /\ s \in Server /\ backend \in Backends
      /\ UNCHANGED <<phase, cur, backend>>
  BY DEF DispatchInv, PhaseInv, Sane, Send, Close, ClientSignal
<1>2. PICK x : x = Excused
  OBVIOUS
<1>3. Sane(s, x)
  BY <1>2 DEF DispatchInv
<1>4. CASE Send(c)
  <2> DEFINE so == [s.sock EXCEPT ![c] = @ + 1]
             v == [s EXCEPT !.sock = so, !.closed = s.closed]
  <2>1. c \in s.up /\ s.sock[c] < MaxSock /\ s' = Edge([s EXCEPT !.sock = so], c)
    BY <1>4 DEF Send
  <2>2. s.sock \in [Client -> 0 .. MaxSock] /\ s.sock[c] + 1 \in 0 .. MaxSock
        /\ s.closed \in SUBSET Client
    BY <1>1, <2>1, Fields, Sizes
  <2>3. so \in [Client -> 0 .. MaxSock]
        /\ \A d \in Client : d # c => so[d] = s.sock[d] /\ (d \in s.closed <=> d \in s.closed)
    BY <2>2
  <2> HIDE DEF so
  <2>4. [s EXCEPT !.sock = so] = v
    BY <1>1 DEF Server
  <2>5. s' = Edge(v, c)
    BY <2>1, <2>4
  <2>6. /\ Sane(Edge(v, c), x) /\ Edge(v, c).up = s.up
        /\ Edge(v, c).list = s.list /\ Edge(v, c).aborted = s.aborted
    BY <1>1, <1>3, <2>1, <2>2, <2>3, EdgeKeeps
  <2> HIDE DEF v
  <2> QED BY <1>1, <1>2, <2>5, <2>6, LandsInPlace
<1>5. CASE Close(c)
  <2> DEFINE cl == s.closed \cup {c}
             v == [s EXCEPT !.sock = s.sock, !.closed = cl]
  <2>1. c \in s.up /\ s' = Edge([s EXCEPT !.closed = cl], c)
    BY <1>5 DEF Close
  <2>2. s.sock \in [Client -> 0 .. MaxSock] /\ cl \in SUBSET Client
        /\ \A d \in Client : d # c => s.sock[d] = s.sock[d] /\ (d \in cl <=> d \in s.closed)
    BY <1>1, Fields
  <2> HIDE DEF cl
  <2>3. [s EXCEPT !.closed = cl] = v
    BY <1>1 DEF Server
  <2>4. s' = Edge(v, c)
    BY <2>1, <2>3
  <2>5. /\ Sane(Edge(v, c), x) /\ Edge(v, c).up = s.up
        /\ Edge(v, c).list = s.list /\ Edge(v, c).aborted = s.aborted
    BY <1>1, <1>3, <2>1, <2>2, EdgeKeeps
  <2> HIDE DEF v
  <2> QED BY <1>1, <1>2, <2>4, <2>5, LandsInPlace
<1>6. CASE ClientSignal(c)
  <2> DEFINE wk == [s.work EXCEPT ![c] = @ + 1]
  <2>1. s.work[c] < MaxWork /\ s' = [s EXCEPT !.work = wk]
    BY <1>6 DEF ClientSignal
  <2>2. wk \in [Client -> 0 .. MaxWork]
    BY <1>1, <2>1, Fields, Sizes
  <2> HIDE DEF wk
  <2>3. /\ Sane(s', x) /\ s'.up = s.up /\ s'.list = s.list /\ s'.aborted = s.aborted
    BY <1>3, <2>1, <2>2, WorkKeeps
  <2> QED BY <1>1, <1>2, <2>3, LandsInPlace
<1> QED BY <1>4, <1>5, <1>6

-----------------------------------------------------------------------------
(* What the invariant says of the clients.                                 *)

LEMMA ClientsStart ==
    ASSUME ClientsInit
    PROVE  DispatchInv
<1>1. /\ s.up = {} /\ s.list = [c \in Client |-> "none"]
      /\ s.ignoreCount = [c \in Client |-> 0] /\ s.impervious = {} /\ s.lapsed = {}
      /\ s.aborted = {} /\ s.armed = {} /\ s.grab = None /\ s.waiters = {}
      /\ s.asleep = {} /\ s.work = [c \in Client |-> 0]
      /\ s.buf = [c \in Client |-> 0] /\ s.again = {} /\ s.avail = None
      /\ s.sock = [c \in Client |-> 0] /\ s.closed = {}
      /\ phase = "work" /\ cur = None /\ backend \in Backends
  BY DEF ClientsInit
<1>2. /\ [c \in Client |-> "none"] \in [Client -> {"none", "ready", "saved"}]
      /\ [c \in Client |-> 0] \in [Client -> 0 .. 2]
      /\ [c \in Client |-> 0] \in [Client -> 0 .. MaxWork]
      /\ [c \in Client |-> 0] \in [Client -> 0 .. BufSize]
      /\ [c \in Client |-> 0] \in [Client -> 0 .. MaxSock]
  BY Sizes
<1>3. s \in Server
  BY <1>2 DEF ClientsInit, Server
<1>4. ASSUME NEW c \in Client PROVE Quiet(s, {}, c) /\ Heard(s, c)
  <2>1. Held(s, c) = 0
    BY <1>1 DEF Held
  <2> QED BY <1>1, <2>1, Sizes
          DEF Quiet, Heard, Absent, Counted, Listed, Kept, Found, Spare
<1>5. Excused = {}
  BY <1>1 DEF Excused
<1> QED BY <1>1, <1>3, <1>4, <1>5 DEF DispatchInv, Sane, PhaseInv

LEMMA ClientsStep ==
    ASSUME DispatchInv, [ClientsNext]_clientsVars
    PROVE  DispatchInv'
<1>1. CASE UNCHANGED clientsVars
  BY <1>1 DEF clientsVars, DispatchInv, Sane, Heard, PhaseInv, Excused
<1>2. CASE Dispatch
  <2>1. CASE ProcessWorkQueue
    BY <2>1, WorkStep, LandsIsInv
  <2>2. CASE ospoll_wait
    BY <2>2, WaitStep, LandsIsInv
  <2>3. CASE AfterRequest
    BY <2>3, AfterStep, LandsIsInv
  <2>4. CASE EndSlice
    <3>1. cur \in Client
      BY <2>4 DEF EndSlice, DispatchInv, PhaseInv
    <3> QED BY <2>4, <3>1, ScheduleStep, LandsIsInv
  <2>5. ASSUME NEW c \in Client,
               \/ ClientReadyError(c) \/ EstablishNewConnections(c) \/ SmartScheduleClient(c)
               \/ ReadPart(c) \/ ReadNothing(c) \/ DoRequest(c)
        PROVE  DispatchInv'
    BY <2>5, ErrorStep, ConnectStep, ScheduleStep, ReadStep, NothingStep, RequestStep,
       LandsIsInv
  <2> QED BY <1>2, <2>1, <2>2, <2>3, <2>4, <2>5 DEF Dispatch
<1>3. CASE \E c \in Client : Send(c) \/ Close(c) \/ ClientSignal(c)
  BY <1>3, ClientStep, LandsIsInv
<1> QED BY <1>1, <1>2, <1>3 DEF ClientsNext

\* DispatchInv is an invariant: what is kept for each client fits together
\* between any two steps of Dispatch.
THEOREM ClientsHold == ClientsSpec => []DispatchInv
BY ClientsStart, ClientsStep, PTL DEF ClientsSpec

\* The types, and a client is ignored as many times as it sleeps and waits for
\* the grab (IgnoreClient, AttendClient).
THEOREM ClientsTypes == ClientsSpec => []ClientsTypeOK
<1>1. ASSUME DispatchInv PROVE ClientsTypeOK
  <2>1. s \in Server /\ PhaseInv /\ Excused \subseteq s.aborted
    BY <1>1 DEF DispatchInv, Sane, Excused
  <2>2. ASSUME NEW c \in Client \ s.aborted
        PROVE  s.ignoreCount[c] =
                 Cardinality({c} \cap s.asleep) + Cardinality({c} \cap s.waiters)
    <3>1. s.ignoreCount[c] = Held(s, c)
      BY <1>1, <2>1 DEF DispatchInv, Sane, Quiet, Counted
    <3>2. ASSUME NEW S PROVE Cardinality({c} \cap S) = IF c \in S THEN 1 ELSE 0
      <4>1. CASE c \in S
        <5>1. {c} \cap S = {c}
          BY <4>1
        <5> QED BY <4>1, <5>1, FS_Singleton
      <4>2. CASE c \notin S
        <5>1. {c} \cap S = {}
          BY <4>2
        <5> QED BY <4>2, <5>1, FS_EmptySet
      <4> QED BY <4>1, <4>2
    <3> QED BY <3>1, <3>2 DEF Held
  <2> QED BY <2>1, <2>2 DEF ClientsTypeOK, PhaseInv
<1> QED BY <1>1, ClientsHold, PTL

\* No input is lost: a client with a request in its buffer is on a list, one
\* with input in its socket is on a list or will be told about, one whose
\* output has failed is found by Dispatch, and the spare buffer is empty.
THEOREM InputIsKept == ClientsSpec => []NoInputLost
<1>1. ASSUME DispatchInv PROVE NoInputLost
  <2>1. s \in Server /\ Excused \subseteq {cur} /\ PhaseInv
        /\ \A c \in Client : Quiet(s, Excused, c) /\ Heard(s, c)
    BY <1>1 DEF DispatchInv, Sane, Excused
  <2>2. ASSUME NEW c \in s.up \ s.aborted, s.ignoreCount[c] = 0
        PROVE  /\ s.buf[c] >= ReqLen => s.list[c] # "none"
               /\ HasInput(c) /\ listen_to_client(s, c) => s.list[c] # "none" \/ c \in s.armed
    <3>1. c \in Client
      BY <2>1, Fields
    <3> QED BY <2>1, <2>2, <3>1 DEF Quiet, Kept, Heard, HasInput
  <2>3. ASSUME NEW c \in s.aborted
        PROVE  s.list[c] # "none" \/ (phase \in {"after", "yield"} /\ cur = c)
    <3>1. c \in Client
      BY <2>1, Fields
    <3>2. c \in Excused => phase \in {"after", "yield"} /\ cur = c
      BY DEF Excused
    <3> QED BY <2>1, <3>1, <3>2 DEF Quiet, Found
  <2>4. s.avail # None => s.avail \in s.up /\ s.buf[s.avail] = 0
    <3>1. s.avail # None => s.avail \in Client
      BY <2>1, Fields
    <3> QED BY <2>1, <3>1 DEF Quiet, Absent, Spare
  <2> QED BY <2>2, <2>3, <2>4 DEF NoInputLost
<1> QED BY <1>1, ClientsHold, PTL

\* A server grab keeps the requests of the other clients from being executed.
THEOREM GrabIsExclusive == ClientsSpec => GrabExcludes
<1>1. ASSUME DispatchInv, NEW c \in Client, DoRequest(c)
      PROVE  s.grab \in {None, c} \/ c \in s.impervious \cup s.lapsed \cup s.aborted
  <2>1. Served(c)
    BY <1>1, ServedFacts DEF DoRequest
  <2>2. Quiet(s, {}, c) /\ s.list[c] = "ready"
    BY <2>1 DEF Served, Sane
  <2> QED BY <2>2 DEF Quiet, Listed
<1>2. DispatchInv /\ [ClientsNext]_clientsVars =>
        [\A c \in Client : DoRequest(c) =>
            s.grab \in {None, c} \/ c \in s.impervious \cup s.lapsed \cup s.aborted]_clientsVars
  BY <1>1
<1> QED BY <1>2, ClientsHold, PTL DEF ClientsSpec, GrabExcludes

-----------------------------------------------------------------------------
(* Timers: CARD32 arithmetic.                                              *)

LEMMA Constants ==
    /\ Half \in Nat \ {0} /\ MaxDelta \in Nat \ {0}
    /\ MaxLag \in Nat \ {0} /\ MaxDepth \in Nat \ {0}
    /\ Slack \in Nat /\ MaxSkew \in Nat
    /\ MaxDelta + MaxSkew + MaxLag < Half
    /\ MaxDelta + Slack < Half
    /\ FarDelays \subseteq Half .. 2 * Half - 1
    /\ Off \notin Record
    /\ Off \notin [left : Int, asked : Int]
BY TimersAssumption DEF Record, Card32, Near

LEMMA CardTypes ==
    ASSUME NEW a \in Card32, NEW b \in Card32
    PROVE  /\ Plus(a, b) \in Card32 /\ Minus(a, b) \in Card32
           /\ Signed(Minus(a, b)) \in -Half .. Half - 1
           /\ Signed(Minus(a, b)) < 0 <=> Minus(a, b) >= Half
BY Constants DEF Card32, Plus, Minus, Signed

\* The signed difference is the difference modulo the range of the clock.
LEMMA SignedIsModular ==
    ASSUME NEW a \in Card32, NEW b \in Card32, NEW w \in -Half .. Half - 1
    PROVE  Signed(Minus(a, b)) = w
             <=> (a - b = w \/ a - b = w + 2 * Half \/ a - b = w - 2 * Half)
BY Constants DEF Card32, Minus, Signed

LEMMA SetDistance ==
    ASSUME NEW c \in Card32, NEW d \in 0 .. 2 * Half - 1
    PROVE  Signed(Minus(Plus(c, d), c)) = IF d < Half THEN d ELSE d - 2 * Half
BY Constants DEF Card32, Plus, Minus, Signed

LEMMA TickDistance ==
    ASSUME NEW e \in Card32, NEW c \in Card32, Signed(Minus(e, c)) > -Half
    PROVE  Signed(Minus(e, Plus(c, 1))) = Signed(Minus(e, c)) - 1
BY Constants DEF Card32, Plus, Minus, Signed

LEMMA TickForward ==
    ASSUME NEW e \in Card32, NEW c \in Card32, Signed(Minus(c, e)) < Half - 1
    PROVE  Signed(Minus(Plus(c, 1), e)) = Signed(Minus(c, e)) + 1
BY Constants DEF Card32, Plus, Minus, Signed

LEMMA RewindDistance ==
    ASSUME NEW e \in Card32, NEW c \in Card32, NEW r \in 0 .. MaxSkew,
           Signed(Minus(e, c)) + r < Half
    PROVE  Signed(Minus(e, Minus(c, r))) = Signed(Minus(e, c)) + r
BY Constants DEF Card32, Plus, Minus, Signed

LEMMA RewindBackward ==
    ASSUME NEW e \in Card32, NEW c \in Card32, NEW r \in 0 .. MaxSkew,
           Signed(Minus(c, e)) - r >= -Half
    PROVE  Signed(Minus(Minus(c, r), e)) = Signed(Minus(c, e)) - r
BY Constants DEF Card32, Plus, Minus, Signed

\* Two deadlines seen from the same clock compare as their distances do.
LEMMA DistanceDifference ==
    ASSUME NEW a \in Card32, NEW b \in Card32, NEW c \in Card32,
           Signed(Minus(a, c)) - Signed(Minus(b, c)) \in -Half .. Half - 1
    PROVE  Signed(Minus(a, b)) = Signed(Minus(a, c)) - Signed(Minus(b, c))
BY Constants DEF Card32, Minus, Signed

\* A deadline seen from two clocks.
LEMMA DistanceSum ==
    ASSUME NEW e \in Card32, NEW c \in Card32, NEW m \in Card32,
           Signed(Minus(e, c)) + Signed(Minus(c, m)) \in -Half .. Half - 1
    PROVE  Signed(Minus(e, m)) = Signed(Minus(e, c)) + Signed(Minus(c, m))
BY Constants DEF Card32, Minus, Signed

-----------------------------------------------------------------------------
(* The list of timers.                                                     *)

LEMMA RemoveAtFacts ==
    ASSUME NEW S, NEW seq \in Seq(S), NEW p \in 1 .. Len(seq)
    PROVE  /\ RemoveAt(seq, p) \in Seq(S)
           /\ Len(RemoveAt(seq, p)) = Len(seq) - 1
           /\ \A i \in 1 .. Len(seq) - 1 :
                 RemoveAt(seq, p)[i] = IF i < p THEN seq[i] ELSE seq[i + 1]
<1> DEFINE a == SubSeq(seq, 1, p - 1)
           b == SubSeq(seq, p + 1, Len(seq))
<1>1. a \in Seq(S) /\ Len(a) = p - 1 /\ \A i \in 1 .. p - 1 : a[i] = seq[i]
  OBVIOUS
<1>2. /\ b \in Seq(S) /\ Len(b) = Len(seq) - p
      /\ \A i \in 1 .. Len(seq) - p : b[i] = seq[p + i]
  OBVIOUS
<1>3. RemoveAt(seq, p) = a \o b
  BY DEF RemoveAt
<1> HIDE DEF a, b
<1>4. Len(seq) \in Nat
  OBVIOUS
<1>5. a \o b \in Seq(S) /\ Len(a \o b) = Len(seq) - 1
  <2>1. a \o b \in Seq(S) /\ Len(a \o b) = Len(a) + Len(b)
    BY <1>1, <1>2, ConcatProperties
  <2> QED BY <2>1, <1>1, <1>2, <1>4
<1>6. \A i \in 1 .. Len(seq) - 1 : (a \o b)[i] = IF i < p THEN seq[i] ELSE seq[i + 1]
  BY <1>1, <1>2, <1>4
<1> QED BY <1>3, <1>5, <1>6

LEMMA InsertAtFacts ==
    ASSUME NEW S, NEW seq \in Seq(S), NEW p \in 1 .. Len(seq), NEW e \in S
    PROVE  /\ InsertAt(seq, p, e) \in Seq(S)
           /\ Len(InsertAt(seq, p, e)) = Len(seq) + 1
           /\ \A i \in 1 .. Len(seq) + 1 :
                 InsertAt(seq, p, e)[i] =
                    IF i < p THEN seq[i] ELSE IF i = p THEN e ELSE seq[i - 1]
BY DEF InsertAt

Distinct(seq) == \A i, j \in 1 .. Len(seq) : i < j => seq[i] # seq[j]

\* r is seq without t, the others in their order.
Without(r, seq, t) ==
    /\ \A i \in 1 .. Len(r) : r[i] # t /\ \E k \in 1 .. Len(seq) : r[i] = seq[k]
    /\ \A k \in 1 .. Len(seq) : seq[k] # t => \E i \in 1 .. Len(r) : r[i] = seq[k]
    /\ \A i, j \in 1 .. Len(r) : i < j =>
          \E k, l \in 1 .. Len(seq) : k < l /\ r[i] = seq[k] /\ r[j] = seq[l]

LEMMA RemoveFacts ==
    ASSUME NEW S, NEW seq \in Seq(S), NEW t, Distinct(seq)
    PROVE  RemoveFirst(seq, t) \in Seq(S) /\ Without(RemoveFirst(seq, t), seq, t)
<1> DEFINE r == RemoveFirst(seq, t)
           I == {i \in 1 .. Len(seq) : seq[i] = t}
<1>0. Len(seq) \in Nat
  OBVIOUS
<1>1. CASE I = {}
  <2>1. r = seq
    BY <1>1 DEF RemoveFirst
  <2>2. \A i \in 1 .. Len(seq) : seq[i] # t
    BY <1>1
  <2> HIDE DEF r
  <2>3. Without(r, seq, t)
    BY <2>1, <2>2 DEF Without
  <2> QED BY <2>1, <2>3 DEF r
<1>2. CASE I # {}
  <2> DEFINE p == Min(I)
  <2>0. I \in SUBSET Nat
    BY <1>0
  <2>1. p \in I
    <3> HIDE DEF I
    <3> QED BY <2>0, <1>2, LeastNumber
  <2>2. r = RemoveAt(seq, p)
    BY <1>2 DEF RemoveFirst, SelectInSeq
  <2> HIDE DEF p, r
  <2>3. p \in 1 .. Len(seq) /\ seq[p] = t
    BY <2>1
  <2>4. /\ r \in Seq(S)
        /\ Len(r) = Len(seq) - 1
        /\ \A i \in 1 .. Len(seq) - 1 : r[i] = IF i < p THEN seq[i] ELSE seq[i + 1]
    BY <2>2, <2>3, RemoveAtFacts
  <2>5. \A i \in 1 .. Len(seq) : i # p => seq[i] # t
    BY <1>0, <2>3 DEF Distinct
  <2>6. ASSUME NEW i \in 1 .. Len(r)
        PROVE  r[i] # t /\ \E k \in 1 .. Len(seq) : r[i] = seq[k]
    <3>1. CASE i < p
      BY <3>1, <1>0, <2>3, <2>4, <2>5
    <3>2. CASE ~(i < p)
      <4>1. i + 1 \in 1 .. Len(seq) /\ i + 1 # p /\ r[i] = seq[i + 1]
        BY <3>2, <1>0, <2>3, <2>4
      <4> QED BY <4>1, <2>5
    <3> QED BY <3>1, <3>2
  <2>7. ASSUME NEW k \in 1 .. Len(seq), seq[k] # t
        PROVE  \E i \in 1 .. Len(r) : r[i] = seq[k]
    <3>1. CASE k < p
      BY <3>1, <1>0, <2>3, <2>4
    <3>2. CASE ~(k < p)
      <4>1. k > p
        BY <2>3, <2>7, <3>2
      <4>2. k - 1 \in 1 .. Len(r) /\ r[k - 1] = seq[k]
        BY <4>1, <1>0, <2>3, <2>4
      <4> QED BY <4>2
    <3> QED BY <3>1, <3>2
  <2>8. ASSUME NEW i \in 1 .. Len(r), NEW j \in 1 .. Len(r), i < j
        PROVE  \E k, l \in 1 .. Len(seq) : k < l /\ r[i] = seq[k] /\ r[j] = seq[l]
    <3> DEFINE k == IF i < p THEN i ELSE i + 1
               l == IF j < p THEN j ELSE j + 1
    <3>1. k \in 1 .. Len(seq) /\ l \in 1 .. Len(seq) /\ k < l
      BY <1>0, <2>3, <2>4, <2>8
    <3>2. r[i] = seq[k] /\ r[j] = seq[l]
      BY <1>0, <2>3, <2>4
    <3> HIDE DEF k, l
    <3> QED BY <3>1, <3>2
  <2>9. Without(r, seq, t)
    BY <2>6, <2>7, <2>8 DEF Without
  <2> QED BY <2>4, <2>9 DEF r
<1> QED BY <1>1, <1>2

-----------------------------------------------------------------------------
(* The inductive invariant of the timers.                                  *)

\* A timer that is set is in the list once, in its place.
ListInv ==
    /\ timers \in Seq(Timer)
    /\ rec \in [Timer -> Record \cup {Off}]
    /\ clock \in Card32 /\ skew \in 0 .. MaxSkew
    /\ Distinct(timers)
    /\ \A t \in Timer : Pending(t) <=> \E i \in 1 .. Len(timers) : timers[i] = t
    /\ \A i, j \in 1 .. Len(timers) : i < j =>
          Wait(timers[i], clock) <= Wait(timers[j], clock)
    /\ \A t \in Timer : Pending(t) =>
          /\ Wait(t, clock) >= -MaxLag
          /\ Wait(t, clock) <= rec[t].delta + skew

\* While the server sleeps, it wakes up before a timer is due.
SleepInv ==
    pc = "sleep" =>
       /\ stack = <<>>
       /\ wait = Forever => timers = <<>>
       /\ wait > 0 => \A t \in Timer : Pending(t) => wait <= Wait(t, clock)

\* The time DoTimers was called with is at most skew ahead of the clock.
RoundInv ==
    pc = "DoTimers" => /\ Signed(Minus(clock, now)) >= -skew
                       /\ Signed(Minus(clock, now)) <= MaxLag

TimersInv ==
    /\ TypeOK
    /\ ListInv
    /\ \A t \in Timer : Pending(t) => t \in live
    /\ SleepInv
    /\ RoundInv

LEMMA PendingFacts ==
    ASSUME ListInv, NEW t \in Timer, Pending(t)
    PROVE  /\ rec[t] \in Record
           /\ rec[t].expires \in Card32 /\ rec[t].delta \in Near
           /\ Wait(t, clock) \in -MaxLag .. MaxDelta + MaxSkew
           /\ Wait(t, clock) <= rec[t].delta + skew
<1>1. rec[t] \in Record
  BY DEF ListInv, Pending
<1>2. rec[t].expires \in Card32 /\ rec[t].delta \in Near
  BY <1>1 DEF Record
<1>3. Wait(t, clock) \in Int
  BY <1>2, CardTypes, Constants DEF ListInv, Wait
<1>4. Wait(t, clock) >= -MaxLag /\ Wait(t, clock) <= rec[t].delta + skew
  BY DEF ListInv
<1>5. skew \in 0 .. MaxSkew
  BY DEF ListInv
<1>6. Wait(t, clock) <= MaxDelta + MaxSkew
  BY <1>2, <1>3, <1>4, <1>5, Constants DEF Near
<1> QED BY <1>1, <1>2, <1>3, <1>4, <1>6, Constants

LEMMA UnlinkKeeps ==
    ASSUME ListInv, NEW t \in Timer, Unlink(t), UNCHANGED <<clock, skew>>
    PROVE  /\ ListInv'
           /\ ~Pending(t)'
           /\ \A u \in Timer \ {t} : /\ rec'[u] = rec[u]
                                     /\ Pending(u)' <=> Pending(u)
                                     /\ Wait(u, clock)' = Wait(u, clock)
<1>1. /\ timers \in Seq(Timer) /\ Distinct(timers)
      /\ timers' = RemoveFirst(timers, t)
  BY DEF ListInv, Unlink, Unlinked
<1>2. /\ timers' \in Seq(Timer)
      /\ \A i \in 1 .. Len(timers') :
            timers'[i] # t /\ \E k \in 1 .. Len(timers) : timers'[i] = timers[k]
      /\ \A k \in 1 .. Len(timers) :
            timers[k] # t => \E i \in 1 .. Len(timers') : timers'[i] = timers[k]
      /\ \A i, j \in 1 .. Len(timers') : i < j =>
            \E k, l \in 1 .. Len(timers) :
               k < l /\ timers'[i] = timers[k] /\ timers'[j] = timers[l]
  <2>1. timers' \in Seq(Timer) /\ Without(timers', timers, t)
    BY <1>1, RemoveFacts
  <2> QED BY <2>1 DEF Without
<1>3. rec' = [rec EXCEPT ![t] = Off] /\ rec \in [Timer -> Record \cup {Off}]
  BY DEF ListInv, Unlink
<1>4. rec' \in [Timer -> Record \cup {Off}] /\ rec'[t] = Off
  BY <1>3
<1>5. \A u \in Timer \ {t} : rec'[u] = rec[u]
  BY <1>3
<1>6. ~Pending(t)'
  BY <1>4 DEF Pending
<1>7. \A u \in Timer \ {t} : /\ Pending(u)' <=> Pending(u)
                             /\ Wait(u, clock)' = Wait(u, clock)
  BY <1>5 DEF Pending, Wait
<1>8. Distinct(timers')
  BY <1>1, <1>2 DEF Distinct
<1>9. ASSUME NEW u \in Timer
      PROVE  Pending(u)' <=> \E i \in 1 .. Len(timers') : timers'[i] = u
  <2>1. CASE u = t
    BY <2>1, <1>2, <1>6
  <2>2. CASE u # t
    <3>1. Pending(u)' <=> \E k \in 1 .. Len(timers) : timers[k] = u
      BY <2>2, <1>7 DEF ListInv
    <3>2. (\E k \in 1 .. Len(timers) : timers[k] = u)
            => \E i \in 1 .. Len(timers') : timers'[i] = u
      BY <2>2, <1>2
    <3>3. (\E i \in 1 .. Len(timers') : timers'[i] = u)
            => \E k \in 1 .. Len(timers) : timers[k] = u
      BY <1>2
    <3> QED BY <3>1, <3>2, <3>3
  <2> QED BY <2>1, <2>2
<1>10. ASSUME NEW i \in 1 .. Len(timers'), NEW j \in 1 .. Len(timers'), i < j
       PROVE  Wait(timers[i], clock)' <= Wait(timers[j], clock)'
  <2>1. PICK k, l \in 1 .. Len(timers) :
           k < l /\ timers'[i] = timers[k] /\ timers'[j] = timers[l]
    BY <1>2, <1>10
  <2>2. Wait(timers[k], clock) <= Wait(timers[l], clock)
    BY <2>1 DEF ListInv
  <2>3. timers'[i] \in Timer \ {t} /\ timers'[j] \in Timer \ {t}
    BY <1>2
  <2>4. /\ Wait(timers[i], clock)' = Wait(timers[k], clock)
        /\ Wait(timers[j], clock)' = Wait(timers[l], clock)
    BY <2>1, <2>3, <1>5 DEF Wait
  <2> QED BY <2>1, <2>2, <2>4
<1>11. ASSUME NEW u \in Timer, Pending(u)'
       PROVE  /\ Wait(u, clock)' >= -MaxLag
              /\ Wait(u, clock)' <= rec'[u].delta + skew'
  <2>1. u # t
    BY <1>6, <1>11
  <2> QED BY <2>1, <1>5, <1>7, <1>11 DEF ListInv
<1>12. clock' \in Card32 /\ skew' \in 0 .. MaxSkew
  BY DEF ListInv
<1>13. ListInv'
  BY <1>2, <1>4, <1>8, <1>9, <1>10, <1>11, <1>12 DEF ListInv
<1> QED BY <1>5, <1>6, <1>7, <1>13

\* A list sorted by the time left, none of it out of range, in which t is not.
LEMMA SortedFacts ==
    ASSUME ListInv, NEW t \in Timer, NEW d \in Near, NEW u \in Seq(Timer),
           \A i \in 1 .. Len(u) : Pending(u[i]),
           \A i, j \in 1 .. Len(u) :
              i < j => Wait(u[i], clock) <= Wait(u[j], clock)
    PROVE  \E p \in 1 .. Len(u) + 1 :
              /\ Sorted(u, t, Plus(clock, d)) \in Seq(Timer)
              /\ Len(Sorted(u, t, Plus(clock, d))) = Len(u) + 1
              /\ \A i \in 1 .. Len(u) + 1 :
                    Sorted(u, t, Plus(clock, d))[i] =
                       IF i < p THEN u[i] ELSE IF i = p THEN t ELSE u[i - 1]
              /\ \A i \in 1 .. Len(u) :
                    IF i < p THEN Wait(u[i], clock) <= d ELSE Wait(u[i], clock) > d
<1> DEFINE e == Plus(clock, d)
           later == Later(u, e)
           q == Sorted(u, t, e)
<1>1. clock \in Card32 /\ d \in 0 .. 2 * Half - 1 /\ d < Half /\ d \in Card32
  BY Constants DEF ListInv, Near, Card32
<1>2. e \in Card32 /\ Signed(Minus(e, clock)) = d
  BY <1>1, CardTypes, SetDistance
<1> HIDE DEF e
<1>3. Len(u) \in Nat /\ \A i \in 1 .. Len(u) : u[i] \in Timer
  OBVIOUS
<1>4. ASSUME NEW i \in 1 .. Len(u)
      PROVE  /\ Wait(u[i], clock) \in Int
             /\ Signed(Minus(rec[u[i]].expires, e)) = Wait(u[i], clock) - d
  <2>1. /\ rec[u[i]].expires \in Card32
        /\ Wait(u[i], clock) \in -MaxLag .. MaxDelta + MaxSkew
    BY <1>3, PendingFacts
  <2>2. Wait(u[i], clock) - d \in -Half .. Half - 1
    BY <2>1, <1>1, Constants DEF Near
  <2>3. Wait(u[i], clock) = Signed(Minus(rec[u[i]].expires, clock))
    BY DEF Wait
  <2>4. Signed(Minus(rec[u[i]].expires, e)) = Wait(u[i], clock) - d
    BY <1>1, <1>2, <2>1, <2>2, <2>3, DistanceDifference
  <2> QED BY <2>1, <2>4, Constants
<1>5. later = {i \in 1 .. Len(u) : Wait(u[i], clock) > d}
  <2>1. d \in Int
    BY <1>1
  <2>2. \A i \in 1 .. Len(u) :
           Signed(Minus(rec[u[i]].expires, e)) > 0 <=> Wait(u[i], clock) > d
    BY <1>4, <2>1
  <2> QED BY <2>2 DEF Later
<1> HIDE DEF later
<1>6. CASE later = {}
  <2> DEFINE p == Len(u) + 1
  <2>1. q = Append(u, t)
    BY <1>6 DEF Sorted, later
  <2>2. q \in Seq(Timer) /\ Len(q) = Len(u) + 1
    BY <2>1
  <2>3. \A i \in 1 .. Len(u) + 1 :
           q[i] = IF i < p THEN u[i] ELSE IF i = p THEN t ELSE u[i - 1]
    BY <1>3, <2>1
  <2>4. \A i \in 1 .. Len(u) : i < p /\ Wait(u[i], clock) <= d
    BY <1>3, <1>4, <1>5, <1>6, <1>1
  <2>5. p \in 1 .. Len(u) + 1
    BY <1>3
  <2> HIDE DEF p, q
  <2> QED BY <2>2, <2>3, <2>4, <2>5 DEF q, e
<1>7. CASE later # {}
  <2> DEFINE p == Min(later)
  <2>1. q = InsertAt(u, p, t)
    BY <1>7 DEF Sorted, later
  <2>2. later \in SUBSET Nat
    BY <1>3, <1>5
  <2>3. p \in later /\ \A i \in later : p <= i
    BY <1>7, <2>2, LeastNumber
  <2> HIDE DEF p
  <2>4. p \in 1 .. Len(u) /\ Wait(u[p], clock) > d
    BY <2>3, <1>5
  <2>5. /\ q \in Seq(Timer) /\ Len(q) = Len(u) + 1
        /\ \A i \in 1 .. Len(u) + 1 :
              q[i] = IF i < p THEN u[i] ELSE IF i = p THEN t ELSE u[i - 1]
    <3>1. /\ InsertAt(u, p, t) \in Seq(Timer) /\ Len(InsertAt(u, p, t)) = Len(u) + 1
          /\ \A i \in 1 .. Len(u) + 1 :
                InsertAt(u, p, t)[i] =
                   IF i < p THEN u[i] ELSE IF i = p THEN t ELSE u[i - 1]
      BY <2>4, InsertAtFacts
    <3> HIDE DEF q
    <3> QED BY <2>1, <3>1
  <2>6. ASSUME NEW i \in 1 .. Len(u)
        PROVE  IF i < p THEN Wait(u[i], clock) <= d ELSE Wait(u[i], clock) > d
    <3>1. CASE i < p
      <4>1. i \notin later
        BY <2>3, <2>4, <3>1
      <4> QED BY <3>1, <4>1, <1>1, <1>4, <1>5
    <3>2. CASE i = p
      BY <3>2, <2>4
    <3>3. CASE i > p
      <4>1. Wait(u[p], clock) <= Wait(u[i], clock)
        BY <3>3, <2>4
      <4>2. Wait(u[p], clock) \in Int /\ Wait(u[i], clock) \in Int
        BY <1>4, <2>4
      <4>3. Wait(u[i], clock) > d
        BY <4>1, <4>2, <2>4, <1>1
      <4> QED BY <3>3, <4>3, <2>4
    <3> QED BY <3>1, <3>2, <3>3, <2>4
  <2>7. p \in 1 .. Len(u) + 1
    BY <1>3, <2>4
  <2> HIDE DEF q
  <2> QED BY <2>5, <2>6, <2>7 DEF q, e
<1> QED BY <1>6, <1>7

SetNear(t, d) ==
    /\ timers' = Sorted(Unlinked(t), t, Plus(clock, d))
    /\ rec' = [rec EXCEPT ![t] = [expires |-> Plus(clock, d), delta |-> d]]

\* Setting a timer moves it to its place, whether it was in the list or not.
LEMMA SetKeeps ==
    ASSUME ListInv, NEW t \in Timer, NEW d \in Near, SetNear(t, d),
           UNCHANGED <<clock, skew>>
    PROVE  /\ ListInv'
           /\ Pending(t)' /\ Wait(t, clock)' = d /\ rec'[t].delta = d
           /\ \A u \in Timer \ {t} : /\ rec'[u] = rec[u]
                                     /\ Pending(u)' <=> Pending(u)
                                     /\ Wait(u, clock)' = Wait(u, clock)
<1> DEFINE e == Plus(clock, d)
           l == Unlinked(t)
<1>1. clock \in Card32 /\ d \in 0 .. 2 * Half - 1 /\ d < Half /\ d \in Card32
      /\ d \in Int /\ skew \in 0 .. MaxSkew
  BY Constants DEF ListInv, Near, Card32
<1>2. e \in Card32 /\ Signed(Minus(e, clock)) = d
  BY <1>1, CardTypes, SetDistance
<1>3. l \in Seq(Timer) /\ Without(l, timers, t)
  BY RemoveFacts DEF ListInv, Unlinked
<1>4. timers' = Sorted(l, t, e) /\ rec' = [rec EXCEPT ![t] = [expires |-> e, delta |-> d]]
  BY DEF SetNear
<1> HIDE DEF e
<1>5. rec' \in [Timer -> Record \cup {Off}] /\ rec'[t] = [expires |-> e, delta |-> d]
  <2>1. [expires |-> e, delta |-> d] \in Record
    BY <1>2 DEF Record
  <2> QED BY <1>4, <2>1 DEF ListInv
<1>6. \A u \in Timer \ {t} : rec'[u] = rec[u]
  BY <1>4 DEF ListInv
<1>7. Pending(t)' /\ Wait(t, clock)' = d /\ rec'[t].delta = d
  <2>1. rec'[t] \in Record
    BY <1>2, <1>5 DEF Record
  <2>2. Pending(t)'
    BY <2>1, Constants DEF Pending
  <2>3. Wait(t, clock)' = d
    BY <1>2, <1>5 DEF Wait
  <2> QED BY <2>2, <2>3, <1>5
<1>8. \A u \in Timer \ {t} : /\ Pending(u)' <=> Pending(u)
                             /\ Wait(u, clock)' = Wait(u, clock)
  BY <1>6 DEF Pending, Wait
<1> HIDE DEF l
<1>9. \A i \in 1 .. Len(l) : l[i] \in Timer \ {t} /\ Pending(l[i])
  <2>1. ASSUME NEW i \in 1 .. Len(l) PROVE l[i] \in Timer \ {t} /\ Pending(l[i])
    <3>1. PICK k \in 1 .. Len(timers) : l[i] = timers[k]
      BY <1>3 DEF Without
    <3>2. l[i] \in Timer /\ l[i] # t
      BY <1>3 DEF Without
    <3> QED BY <3>1, <3>2 DEF ListInv
  <2> QED BY <2>1
<1>10. \A i, j \in 1 .. Len(l) : i < j =>
          l[i] # l[j] /\ Wait(l[i], clock) <= Wait(l[j], clock)
  <2> SUFFICES ASSUME NEW i \in 1 .. Len(l), NEW j \in 1 .. Len(l), i < j
               PROVE  l[i] # l[j] /\ Wait(l[i], clock) <= Wait(l[j], clock)
    OBVIOUS
  <2>1. PICK k, m \in 1 .. Len(timers) : k < m /\ l[i] = timers[k] /\ l[j] = timers[m]
    BY <1>3 DEF Without
  <2> QED BY <2>1 DEF ListInv, Distinct
<1>11. PICK p \in 1 .. Len(l) + 1 :
          /\ timers' \in Seq(Timer)
          /\ Len(timers') = Len(l) + 1
          /\ \A i \in 1 .. Len(l) + 1 :
                timers'[i] = IF i < p THEN l[i] ELSE IF i = p THEN t ELSE l[i - 1]
          /\ \A i \in 1 .. Len(l) :
                IF i < p THEN Wait(l[i], clock) <= d ELSE Wait(l[i], clock) > d
  BY <1>3, <1>4, <1>9, <1>10, SortedFacts DEF e
<1>12. Len(l) \in Nat
  BY <1>3
<1>13. \A i \in 1 .. Len(l) : Wait(l[i], clock) \in Int
  BY <1>9, PendingFacts, Constants
<1> DEFINE W(x) == Signed(Minus(rec'[x].expires, clock))
<1>14. \A i \in 1 .. Len(l) : W(l[i]) = Wait(l[i], clock)
  BY <1>6, <1>9 DEF Wait
<1>15. W(t) = d
  BY <1>2, <1>5
<1>16. ASSUME NEW i \in 1 .. Len(timers'), NEW j \in 1 .. Len(timers'), i < j
       PROVE  timers'[i] # timers'[j] /\ W(timers'[i]) <= W(timers'[j])
  <2> HIDE DEF W
  <2>0. i \in 1 .. Len(l) + 1 /\ j \in 1 .. Len(l) + 1
    BY <1>11
  <2>1. CASE j < p
    <3>1. /\ timers'[i] = l[i] /\ timers'[j] = l[j]
          /\ i \in 1 .. Len(l) /\ j \in 1 .. Len(l)
      BY <2>0, <2>1, <1>11, <1>12, <1>16
    <3> QED BY <3>1, <1>10, <1>14, <1>16
  <2>2. CASE j = p
    <3>1. timers'[i] = l[i] /\ timers'[j] = t /\ i \in 1 .. Len(l) /\ i < p
      BY <2>0, <2>2, <1>11, <1>12, <1>16
    <3>2. Wait(l[i], clock) <= d
      BY <3>1, <1>11
    <3> QED BY <3>1, <3>2, <1>9, <1>14, <1>15
  <2>3. CASE j > p /\ i = p
    <3>1. /\ timers'[i] = t /\ timers'[j] = l[j - 1]
          /\ j - 1 \in 1 .. Len(l) /\ ~(j - 1 < p)
      BY <2>0, <2>3, <1>11, <1>12, <1>16
    <3>2. Wait(l[j - 1], clock) > d /\ Wait(l[j - 1], clock) \in Int
      BY <3>1, <1>11, <1>13
    <3>3. d <= W(l[j - 1])
      BY <3>1, <3>2, <1>1, <1>14
    <3> QED BY <3>1, <3>3, <1>9, <1>15
  <2>4. CASE j > p /\ i < p
    <3>1. /\ timers'[i] = l[i] /\ timers'[j] = l[j - 1]
          /\ i \in 1 .. Len(l) /\ j - 1 \in 1 .. Len(l) /\ i < j - 1
      BY <2>0, <2>4, <1>11, <1>12, <1>16
    <3> QED BY <3>1, <1>10, <1>14
  <2>5. CASE j > p /\ i > p
    <3>1. /\ timers'[i] = l[i - 1] /\ timers'[j] = l[j - 1]
          /\ i - 1 \in 1 .. Len(l) /\ j - 1 \in 1 .. Len(l) /\ i - 1 < j - 1
      BY <2>0, <2>5, <1>11, <1>12, <1>16
    <3> QED BY <3>1, <1>10, <1>14
  <2> QED BY <2>0, <2>1, <2>2, <2>3, <2>4, <2>5
<1>17. \A i, j \in 1 .. Len(timers') : i < j =>
          Wait(timers[i], clock)' <= Wait(timers[j], clock)'
  BY <1>16 DEF Wait
<1>18. Distinct(timers)'
  BY <1>16 DEF Distinct
<1>19. ASSUME NEW u \in Timer
       PROVE  Pending(u)' <=> \E i \in 1 .. Len(timers') : timers'[i] = u
  <2>1. CASE u = t
    <3>1. p \in 1 .. Len(timers') /\ timers'[p] = t
      BY <1>11, <1>12
    <3> QED BY <2>1, <3>1, <1>7
  <2>2. CASE u # t
    <3>1. Pending(u)' <=> \E k \in 1 .. Len(timers) : timers[k] = u
      BY <2>2, <1>8 DEF ListInv
    <3>2. ASSUME NEW k \in 1 .. Len(timers), timers[k] = u
          PROVE  \E i \in 1 .. Len(timers') : timers'[i] = u
      <4>1. PICK m \in 1 .. Len(l) : l[m] = u
        BY <2>2, <3>2, <1>3 DEF Without
      <4>2. CASE m < p
        <5>1. m \in 1 .. Len(timers') /\ timers'[m] = u
          BY <4>1, <4>2, <1>11, <1>12
        <5> QED BY <5>1
      <4>3. CASE ~(m < p)
        <5>1. /\ m + 1 \in 1 .. Len(l) + 1 /\ ~(m + 1 < p) /\ m + 1 # p
              /\ (m + 1) - 1 = m
          BY <4>1, <4>3, <1>12
        <5>2. timers'[m + 1] = l[(m + 1) - 1]
          BY <5>1, <1>11
        <5> QED BY <4>1, <5>1, <5>2, <1>11
      <4> QED BY <4>2, <4>3
    <3>3. ASSUME NEW i \in 1 .. Len(timers'), timers'[i] = u
          PROVE  \E k \in 1 .. Len(timers) : timers[k] = u
      <4>1. PICK m \in 1 .. Len(l) : l[m] = u
        <5>1. CASE i < p
          BY <5>1, <3>3, <1>11, <1>12
        <5>2. CASE ~(i < p)
          <6>1. i - 1 \in 1 .. Len(l) /\ timers'[i] = l[i - 1]
            BY <5>2, <3>3, <2>2, <1>11, <1>12
          <6> QED BY <6>1, <3>3
        <5> QED BY <5>1, <5>2
      <4> QED BY <4>1, <1>3 DEF Without
    <3> QED BY <3>1, <3>2, <3>3
  <2> QED BY <2>1, <2>2
<1>20. ASSUME NEW u \in Timer, Pending(u)'
       PROVE  /\ Wait(u, clock)' >= -MaxLag
              /\ Wait(u, clock)' <= rec'[u].delta + skew'
  <2>1. CASE u = t
    BY <2>1, <1>1, <1>7, Constants DEF Near
  <2>2. CASE u # t
    BY <2>2, <1>6, <1>8, <1>20 DEF ListInv
  <2> QED BY <2>1, <2>2
<1>21. clock' \in Card32 /\ skew' \in 0 .. MaxSkew
  BY <1>1
<1>22. ListInv'
  BY <1>5, <1>11, <1>17, <1>18, <1>19, <1>20, <1>21 DEF ListInv
<1> QED BY <1>6, <1>7, <1>8, <1>22

-----------------------------------------------------------------------------
(* The initial state and the calls.                                        *)

LEMMA InitHolds == Init => TimersInv
<1> SUFFICES ASSUME Init PROVE TimersInv
  OBVIOUS
<1>1. \A t \in Timer : ~Pending(t)
  BY DEF Init, Pending
<1>2. 0 \in Card32 /\ 0 \in 0 .. MaxSkew /\ 0 \in -1 .. MaxDelta + MaxSkew
  BY Constants DEF Card32
<1>3. timers = <<>> /\ timers \in Seq(Timer) /\ Len(timers) = 0 /\ stack \in Seq(Timer)
  BY DEF Init
<1>4. rec \in [Timer -> Record \cup {Off}]
  BY DEF Init
<1>5. TypeOK
  BY <1>2, <1>3, <1>4 DEF Init, TypeOK
<1>6. ListInv
  BY <1>1, <1>2, <1>3, <1>4 DEF Init, ListInv, Distinct
<1> QED BY <1>1, <1>5, <1>6 DEF Init, TimersInv, SleepInv, RoundInv

LEMMA ListStutters ==
    ASSUME ListInv, UNCHANGED <<timers, rec, clock, skew>>
    PROVE  ListInv'
BY DEF ListInv, Distinct, Pending, Wait

\* What is left of the invariant after a call: nobody calls while the server
\* sleeps.
LEMMA CallHolds ==
    ASSUME TimersInv, ListInv', pc # "sleep", live' \subseteq Timer,
           stack' \in Seq(Timer), UNCHANGED <<clock, skew, pc, now, wait>>,
           \A t \in Timer : Pending(t)' => t \in live'
    PROVE  TimersInv'
<1>1. TypeOK'
  BY DEF TimersInv, TypeOK, ListInv
<1>2. SleepInv' /\ RoundInv'
  BY DEF TimersInv, SleepInv, RoundInv
<1> QED BY <1>1, <1>2 DEF TimersInv

LEMMA NobodyCallsAsleep ==
    ASSUME TimersInv, Calling \/ stack # <<>> PROVE pc # "sleep"
BY DEF TimersInv, SleepInv, Calling

LEMMA SetToSteps ==
    ASSUME ListInv, NEW t \in Timer, NEW d \in Near \cup FarDelays,
           NEW frames \in Seq(Timer), SetTo(t, d, frames), UNCHANGED <<clock, skew>>
    PROVE  /\ ListInv' /\ stack' \in Seq(Timer)
           /\ \A u \in Timer \ {t} : /\ rec'[u] = rec[u]
                                     /\ Pending(u)' <=> Pending(u)
                                     /\ Wait(u, clock)' = Wait(u, clock)
           /\ \/ /\ d \in Near /\ stack' = frames
                 /\ Pending(t)' /\ Wait(t, clock)' = d /\ rec'[t].delta = d
              \/ /\ d \in FarDelays /\ stack' = Append(frames, t)
                 /\ ~Pending(t)'
<1>1. clock \in Card32 /\ d \in 0 .. 2 * Half - 1
  BY Constants DEF ListInv, Near
<1>2. Signed(Minus(Plus(clock, d), clock)) = IF d < Half THEN d ELSE d - 2 * Half
  BY <1>1, SetDistance
<1>3. CASE d \in Near
  <2>1. Signed(Minus(Plus(clock, d), clock)) > 0
    BY <1>2, <1>3, Constants DEF Near
  <2>2. SetNear(t, d) /\ stack' = frames
    BY <2>1, <1>1, <1>2, Constants DEF SetTo, SetNear
  <2> QED BY <2>2, <1>3, SetKeeps
<1>4. CASE d \in FarDelays
  <2>1. Signed(Minus(Plus(clock, d), clock)) <= 0 /\ ~(Signed(Minus(Plus(clock, d), clock)) > 0)
    BY <1>1, <1>2, <1>4, Constants
  <2>2. Unlink(t) /\ stack' = Append(frames, t)
    BY <2>1 DEF SetTo, Unlink
  <2>3. stack' \in Seq(Timer)
    BY <2>2
  <2> QED BY <2>2, <2>3, <1>4, UnlinkKeeps
<1> QED BY <1>3, <1>4

LEMMA TimerSetHolds ==
    ASSUME TimersInv, NEW t \in Timer, NEW d \in Near \cup FarDelays, TimerSet(t, d)
    PROVE  TimersInv'
<1>1. ListInv /\ stack \in Seq(Timer) /\ live \subseteq Timer
  BY DEF TimersInv, TypeOK
<1>2. /\ ListInv' /\ stack' \in Seq(Timer)
      /\ \A u \in Timer \ {t} : Pending(u)' <=> Pending(u)
  <2>1. SetTo(t, d, stack) /\ UNCHANGED <<clock, skew>>
    BY DEF TimerSet
  <2> QED BY <2>1, <1>1, SetToSteps
<1>3. \A u \in Timer : Pending(u)' => u \in live'
  BY <1>2 DEF TimersInv, TimerSet
<1>4. pc # "sleep"
  BY NobodyCallsAsleep DEF TimerSet
<1> QED BY <1>1, <1>2, <1>3, <1>4, CallHolds DEF TimerSet

LEMMA TimerCancelHolds ==
    ASSUME TimersInv, NEW t \in Timer, TimerCancel(t) PROVE TimersInv'
<1>1. ListInv /\ stack \in Seq(Timer) /\ live \subseteq Timer
  BY DEF TimersInv, TypeOK
<1>2. ListInv' /\ \A u \in Timer : Pending(u)' => Pending(u)
  <2>1. Unlink(t) /\ UNCHANGED <<clock, skew>>
    BY DEF TimerCancel
  <2> QED BY <2>1, <1>1, UnlinkKeeps
<1>3. pc # "sleep"
  BY NobodyCallsAsleep DEF TimerCancel
<1> QED BY <1>1, <1>2, <1>3, CallHolds DEF TimerCancel, TimersInv

LEMMA TimerFreeHolds ==
    ASSUME TimersInv, NEW t \in Timer, TimerFree(t) PROVE TimersInv'
<1>1. ListInv /\ stack \in Seq(Timer) /\ live \subseteq Timer
  BY DEF TimersInv, TypeOK
<1>2. ListInv' /\ \A u \in Timer : Pending(u)' => Pending(u) /\ u # t
  <2>1. Unlink(t) /\ UNCHANGED <<clock, skew>>
    BY DEF TimerFree
  <2> QED BY <2>1, <1>1, UnlinkKeeps
<1>3. pc # "sleep"
  BY NobodyCallsAsleep DEF TimerFree
<1> QED BY <1>1, <1>2, <1>3, CallHolds DEF TimerFree, TimersInv

LEMMA TimerForceHolds ==
    ASSUME TimersInv, NEW t \in Timer, TimerForce(t) PROVE TimersInv'
<1>1. ListInv /\ stack \in Seq(Timer) /\ live \subseteq Timer
  BY DEF TimersInv, TypeOK
<1>2. ListInv' /\ \A u \in Timer : Pending(u)' => Pending(u)
  <2>1. Unlink(t) /\ UNCHANGED <<clock, skew>>
    BY DEF TimerForce, DoTimer
  <2> QED BY <2>1, <1>1, UnlinkKeeps
<1>3. pc # "sleep"
  BY NobodyCallsAsleep DEF TimerForce
<1>4. stack' \in Seq(Timer)
  BY <1>1 DEF TimerForce, DoTimer
<1> QED BY <1>1, <1>2, <1>3, <1>4, CallHolds DEF TimerForce, TimersInv

LEMMA TopOfStack ==
    ASSUME stack \in Seq(Timer), stack # <<>>
    PROVE  /\ Last(stack) \in Timer /\ Front(stack) \in Seq(Timer)
           /\ Last(stack) = stack[Len(stack)]
           /\ Front(stack) = SubSeq(stack, 1, Len(stack) - 1)
BY DEF Last, Front

LEMMA ReturnHolds ==
    ASSUME TimersInv, Return PROVE TimersInv'
<1> DEFINE t == Last(stack)
           frames == Front(stack)
<1>1. ListInv /\ stack \in Seq(Timer) /\ live \subseteq Timer /\ stack # <<>>
  BY DEF TimersInv, TypeOK, Return
<1>2. t \in Timer /\ frames \in Seq(Timer)
  BY <1>1, TopOfStack
<1>3. pc # "sleep"
  BY <1>1, NobodyCallsAsleep
<1> HIDE DEF t, frames
<1>4. CASE stack' = frames /\ UNCHANGED <<timers, rec>>
  <2>1. ListInv' /\ \A u \in Timer : Pending(u)' <=> Pending(u)
    BY <1>1, <1>4, ListStutters DEF Return, Pending
  <2> QED BY <2>1, <1>1, <1>2, <1>3, <1>4, CallHolds DEF Return, TimersInv
<1>5. CASE t \in live /\ \E d \in Near \cup FarDelays : SetTo(t, d, frames)
  <2>1. PICK d \in Near \cup FarDelays : SetTo(t, d, frames)
    BY <1>5
  <2>2. /\ ListInv' /\ stack' \in Seq(Timer)
        /\ \A u \in Timer \ {t} : Pending(u)' <=> Pending(u)
    <3>1. UNCHANGED <<clock, skew>>
      BY DEF Return
    <3> QED BY <2>1, <3>1, <1>1, <1>2, SetToSteps
  <2>3. \A u \in Timer : Pending(u)' => u \in live'
    BY <2>2, <1>5 DEF TimersInv, Return
  <2> QED BY <2>2, <2>3, <1>1, <1>3, CallHolds DEF Return
<1> QED BY <1>4, <1>5 DEF Return, t, frames

-----------------------------------------------------------------------------
(* WaitForSomething.                                                       *)

LEMMA HeadFacts ==
    ASSUME ListInv, timers # <<>>
    PROVE  /\ Head(timers) \in Timer /\ Pending(Head(timers))
           /\ \A t \in Timer : Pending(t) =>
                 Wait(Head(timers), clock) <= Wait(t, clock)
<1>1. timers \in Seq(Timer) /\ Len(timers) \in Nat \ {0} /\ Head(timers) = timers[1]
  BY DEF ListInv
<1>2. 1 \in 1 .. Len(timers) /\ Head(timers) \in Timer
  BY <1>1
<1>3. Pending(Head(timers))
  BY <1>1, <1>2 DEF ListInv
<1>4. ASSUME NEW t \in Timer, Pending(t)
      PROVE  Wait(Head(timers), clock) <= Wait(t, clock)
  <2>1. PICK i \in 1 .. Len(timers) : timers[i] = t
    BY <1>4 DEF ListInv
  <2>2. CASE i = 1
    <3>1. Wait(t, clock) \in Int
      BY <1>4, PendingFacts, Constants
    <3> QED BY <2>1, <2>2, <3>1, <1>1
  <2>3. CASE i # 1
    <3>1. 1 < i
      BY <2>3, <1>1
    <3> QED BY <2>1, <3>1, <1>1, <1>2 DEF ListInv
  <2> QED BY <2>2, <2>3
<1> QED BY <1>2, <1>3, <1>4

\* What GoToSleep leaves: the wait ends before the first timer is due.
LEMMA SleepHolds ==
    ASSUME TimersInv, NEW ms \in -1 .. MaxDelta + MaxSkew, GoToSleep(ms),
           stack = <<>>, UNCHANGED <<timers, rec, live, clock, skew, stack>>,
           ms = Forever => timers = <<>>,
           ms > 0 => \A t \in Timer : Pending(t) => ms <= Wait(t, clock)
    PROVE  TimersInv'
<1>1. ListInv'
  BY ListStutters DEF TimersInv
<1>2. pc' = "sleep" /\ now' = 0 /\ (wait' = 0 \/ wait' = ms)
  BY DEF GoToSleep, Forever
<1>3. 0 \in Card32 /\ wait' \in -1 .. MaxDelta + MaxSkew
  BY <1>2, Constants DEF Card32
<1>4. TypeOK'
  BY <1>1, <1>2, <1>3 DEF TimersInv, TypeOK, ListInv
<1>5. SleepInv'
  <2>1. wait' = Forever => timers' = <<>>
    BY <1>2 DEF Forever
  <2>2. ASSUME wait' > 0, NEW t \in Timer, Pending(t)'
        PROVE  wait' <= Wait(t, clock)'
    <3>1. wait' = ms /\ ms > 0
      BY <2>2, <1>2
    <3>2. Pending(t)
      BY <2>2 DEF Pending
    <3>3. ms <= Wait(t, clock)
      BY <3>1, <3>2
    <3> QED BY <3>1, <3>3 DEF Wait
  <2> QED BY <1>2, <2>1, <2>2 DEF SleepInv
<1>6. RoundInv'
  BY <1>2 DEF RoundInv
<1>7. \A t \in Timer : Pending(t)' => t \in live'
  BY DEF TimersInv, Pending
<1> QED BY <1>1, <1>4, <1>5, <1>6, <1>7 DEF TimersInv

LEMMA CheckTimersHolds ==
    ASSUME TimersInv, check_timers PROVE TimersInv'
<1> DEFINE h == Head(timers)
           timeout == Wait(h, clock)
<1>1. UNCHANGED <<timers, rec, live, clock, skew, stack>> /\ stack = <<>>
  BY DEF check_timers
<1>2. CASE timers = <<>> /\ GoToSleep(Forever)
  <2>1. Forever \in -1 .. MaxDelta + MaxSkew /\ ~(Forever > 0)
    BY Constants DEF Forever
  <2> QED BY <2>1, <1>1, <1>2, SleepHolds
<1>3. ASSUME timers # <<>> PROVE
        /\ ListInv /\ h \in Timer /\ Pending(h)
        /\ timeout \in -MaxLag .. MaxDelta + MaxSkew
        /\ \A t \in Timer : Pending(t) => timeout <= Wait(t, clock)
  <2>1. ListInv
    BY DEF TimersInv
  <2>2. /\ h \in Timer /\ Pending(h)
        /\ \A t \in Timer : Pending(t) => timeout <= Wait(t, clock)
    BY <1>3, <2>1, HeadFacts
  <2>3. timeout \in -MaxLag .. MaxDelta + MaxSkew
    BY <2>1, <2>2, PendingFacts
  <2> QED BY <2>1, <2>2, <2>3
<1> HIDE DEF timeout, h
<1>4. CASE timers # <<>> /\ timeout <= 0 /\ pc' = "DoTimers" /\ now' = clock /\ UNCHANGED wait
  <2>1. ListInv'
    BY <1>1, ListStutters DEF TimersInv
  <2>2. TypeOK'
    BY <1>1, <1>4, <2>1 DEF TimersInv, TypeOK, ListInv
  <2>3. Signed(Minus(clock, now))' = 0
    <3>1. Signed(Minus(clock, clock)) = 0
      BY Constants DEF Signed, Minus, TimersInv, TypeOK, Card32
    <3> QED BY <3>1, <1>1, <1>4
  <2>4. RoundInv'
    <3>1. skew \in 0 .. MaxSkew /\ skew' = skew
      BY <1>1 DEF TimersInv, TypeOK
    <3>2. -skew <= 0 /\ 0 <= MaxLag
      BY <3>1, Constants
    <3> QED BY <2>3, <3>1, <3>2 DEF RoundInv
  <2>5. SleepInv' /\ \A t \in Timer : Pending(t)' => t \in live'
    BY <1>1, <1>4 DEF SleepInv, Pending, TimersInv
  <2> QED BY <2>1, <2>2, <2>4, <2>5 DEF TimersInv
<1>5. CASE timers # <<>> /\ timeout > 0 /\ GoToSleep(timeout)
  <2>1. timeout \in -1 .. MaxDelta + MaxSkew /\ timeout # Forever
    BY <1>3, <1>5, Constants DEF Forever
  <2>2. \A t \in Timer : Pending(t) => timeout <= Wait(t, clock)
    BY <1>3, <1>5
  <2> QED BY <2>1, <2>2, <1>1, <1>5, SleepHolds
<1>6. CASE timers # <<>> /\ pc' = "CheckAllTimers" /\ UNCHANGED <<now, wait>>
  <2>1. ListInv'
    BY <1>1, ListStutters DEF TimersInv
  <2>2. TypeOK'
    BY <1>1, <1>6, <2>1 DEF TimersInv, TypeOK, ListInv
  <2>3. /\ SleepInv' /\ RoundInv'
        /\ \A t \in Timer : Pending(t)' => t \in live'
    BY <1>1, <1>6 DEF SleepInv, RoundInv, Pending, TimersInv
  <2> QED BY <2>1, <2>2, <2>3 DEF TimersInv
<1> QED BY <1>2, <1>4, <1>5, <1>6 DEF check_timers, timeout, h

\* A timer that DoTimers or CheckAllTimers runs.
LEMMA RunHolds ==
    ASSUME TimersInv, NEW t \in Timer, DoTimer(t), pc # "sleep",
           UNCHANGED <<live, clock, skew, pc, now, wait>>
    PROVE  TimersInv'
<1>1. ListInv /\ stack \in Seq(Timer) /\ live \subseteq Timer
  BY DEF TimersInv, TypeOK
<1>2. ListInv' /\ \A u \in Timer : Pending(u)' => Pending(u)
  <2>1. Unlink(t) /\ UNCHANGED <<clock, skew>>
    BY DEF DoTimer
  <2> QED BY <2>1, <1>1, UnlinkKeeps
<1>3. stack' \in Seq(Timer)
  BY <1>1 DEF DoTimer
<1> QED BY <1>1, <1>2, <1>3, CallHolds DEF TimersInv

LEMMA DoTimersHolds ==
    ASSUME TimersInv, DoTimers PROVE TimersInv'
<1>1. CASE FirstIsDue(now) /\ DoTimer(Head(timers)) /\ UNCHANGED <<pc, now, wait>>
  <2>1. Head(timers) \in Timer
    BY <1>1, HeadFacts DEF FirstIsDue, TimersInv
  <2>2. pc # "sleep" /\ UNCHANGED <<live, clock, skew, pc, now, wait>>
    BY <1>1 DEF DoTimers
  <2> QED BY <2>1, <2>2, <1>1, RunHolds
<1>2. CASE GoToSleep(0) /\ UNCHANGED <<timers, rec, stack>>
  <2>1. stack = <<>> /\ UNCHANGED <<timers, rec, live, clock, skew, stack>>
    BY <1>2 DEF DoTimers
  <2>2. 0 \in -1 .. MaxDelta + MaxSkew /\ 0 # Forever
    BY Constants DEF Forever
  <2> QED BY <2>1, <2>2, <1>2, SleepHolds
<1> QED BY <1>1, <1>2 DEF DoTimers

LEMMA FirstAffected ==
    ASSUME ListInv, NEW A, A = {i \in 1 .. Len(timers) : Affected(timers[i])}, A # {}
    PROVE  /\ Min(A) \in 1 .. Len(timers) /\ Affected(timers[Min(A)])
           /\ \A i \in 1 .. Len(timers) : i < Min(A) => ~Affected(timers[i])
           /\ timers[Min(A)] \in Timer /\ Pending(timers[Min(A)])
<1>1. timers \in Seq(Timer) /\ Len(timers) \in Nat
  BY DEF ListInv
<1>2. A \in SUBSET Nat
  BY <1>1
<1>3. Min(A) \in A /\ \A i \in A : Min(A) <= i
  BY <1>2, LeastNumber
<1>4. Min(A) \in 1 .. Len(timers) /\ Affected(timers[Min(A)])
  BY <1>3
<1>5. timers[Min(A)] \in Timer /\ Pending(timers[Min(A)])
  BY <1>1, <1>4 DEF ListInv
<1>6. ASSUME NEW i \in 1 .. Len(timers), i < Min(A), Affected(timers[i]) PROVE FALSE
  <2>1. i \in A
    BY <1>6
  <2> QED BY <2>1, <1>1, <1>3, <1>4, <1>6
<1> QED BY <1>4, <1>5, <1>6

LEMMA CheckAllTimersHolds ==
    ASSUME TimersInv, CheckAllTimers PROVE TimersInv'
<1> DEFINE A == {i \in 1 .. Len(timers) : Affected(timers[i])}
<1>1. CASE A # {} /\ DoTimer(timers[Min(A)]) /\ UNCHANGED <<pc, now, wait>>
  <2>1. timers[Min(A)] \in Timer
    BY <1>1, FirstAffected DEF TimersInv
  <2>2. pc # "sleep" /\ UNCHANGED <<live, clock, skew, pc, now, wait>>
    BY <1>1 DEF CheckAllTimers
  <2> QED BY <2>1, <2>2, <1>1, RunHolds
<1>2. CASE GoToSleep(0) /\ UNCHANGED <<timers, rec, stack>>
  <2>1. stack = <<>> /\ UNCHANGED <<timers, rec, live, clock, skew, stack>>
    BY <1>2 DEF CheckAllTimers
  <2>2. 0 \in -1 .. MaxDelta + MaxSkew /\ 0 # Forever
    BY Constants DEF Forever
  <2> QED BY <2>1, <2>2, <1>2, SleepHolds
<1> QED BY <1>1, <1>2 DEF CheckAllTimers

LEMMA WakeupHolds ==
    ASSUME TimersInv, Wakeup PROVE TimersInv'
<1>1. UNCHANGED <<timers, rec, clock, skew>>
  BY DEF Wakeup
<1>2. ListInv'
  BY <1>1, ListStutters DEF TimersInv
<1>3. 0 \in -1 .. MaxDelta + MaxSkew
  BY Constants
<1>4. TypeOK'
  BY <1>2, <1>3 DEF Wakeup, TimersInv, TypeOK, ListInv
<1>5. /\ SleepInv' /\ RoundInv'
      /\ \A t \in Timer : Pending(t)' => t \in live'
  BY DEF Wakeup, SleepInv, RoundInv, Pending, TimersInv
<1> QED BY <1>2, <1>4, <1>5 DEF TimersInv

-----------------------------------------------------------------------------
(* Time.                                                                   *)

\* Both the distance of every timer and the wait move with the clock.
LEMMA ClockMoves ==
    ASSUME ListInv, NEW step \in Int, clock' \in Card32, skew' \in 0 .. MaxSkew,
           UNCHANGED <<timers, rec>>,
           \A t \in Timer : Pending(t) =>
              /\ Wait(t, clock)' = Wait(t, clock) - step
              /\ Wait(t, clock) - step >= -MaxLag
              /\ Wait(t, clock) - step <= rec[t].delta + skew'
    PROVE  ListInv'
<1>1. /\ timers' \in Seq(Timer) /\ rec' \in [Timer -> Record \cup {Off}]
      /\ Distinct(timers)'
      /\ \A t \in Timer : Pending(t)' <=> Pending(t)
  BY DEF ListInv, Distinct, Pending
<1>2. \A t \in Timer : Pending(t)' <=> \E i \in 1 .. Len(timers') : timers'[i] = t
  BY <1>1 DEF ListInv
<1>3. ASSUME NEW i \in 1 .. Len(timers'), NEW j \in 1 .. Len(timers'), i < j
      PROVE  Wait(timers[i], clock)' <= Wait(timers[j], clock)'
  <2>1. /\ i \in 1 .. Len(timers) /\ j \in 1 .. Len(timers)
        /\ timers[i] \in Timer /\ timers[j] \in Timer
        /\ Pending(timers[i]) /\ Pending(timers[j])
    BY DEF ListInv
  <2>2. Wait(timers[i], clock) <= Wait(timers[j], clock)
    BY <2>1, <1>3 DEF ListInv
  <2>3. Wait(timers[i], clock) \in Int /\ Wait(timers[j], clock) \in Int
    BY <2>1, PendingFacts, Constants
  <2>4. PICK u \in Timer : u = timers[i]
    BY <2>1
  <2>5. PICK v \in Timer : v = timers[j]
    BY <2>1
  <2>6. Wait(u, clock)' = Wait(u, clock) - step /\ Wait(v, clock)' = Wait(v, clock) - step
    BY <2>1, <2>4, <2>5
  <2>7. Wait(u, clock)' <= Wait(v, clock)'
    BY <2>2, <2>3, <2>4, <2>5, <2>6
  <2> QED BY <2>4, <2>5, <2>7 DEF Wait
<1>4. ASSUME NEW t \in Timer, Pending(t)'
      PROVE  Wait(t, clock)' >= -MaxLag /\ Wait(t, clock)' <= rec'[t].delta + skew'
  BY <1>1, <1>4
<1> QED BY <1>1, <1>2, <1>3, <1>4 DEF ListInv

LEMMA TickMoves ==
    ASSUME TimersInv, Tick
    PROVE  /\ ListInv'
           /\ \A t \in Timer : Pending(t) => Wait(t, clock)' = Wait(t, clock) - 1
<1>1. ListInv /\ clock \in Card32 /\ 1 \in Card32
  BY Constants DEF TimersInv, ListInv, Card32
<1>2. clock' = Plus(clock, 1) /\ UNCHANGED <<timers, rec, skew>>
  BY DEF Tick
<1>3. clock' \in Card32
  BY <1>1, <1>2, CardTypes
<1>4. ASSUME NEW t \in Timer, Pending(t)
      PROVE  /\ Wait(t, clock)' = Wait(t, clock) - 1
             /\ Wait(t, clock) - 1 >= -MaxLag
             /\ Wait(t, clock) - 1 <= rec[t].delta + skew
  <2>1. /\ rec[t].expires \in Card32 /\ rec[t].delta \in Near
        /\ Wait(t, clock) \in -MaxLag .. MaxDelta + MaxSkew
        /\ Wait(t, clock) <= rec[t].delta + skew
    BY <1>1, <1>4, PendingFacts
  <2>2. Wait(t, clock) > -MaxLag /\ skew \in 0 .. MaxSkew
    BY <1>4 DEF Tick, TimersInv, TypeOK
  <2>3. Signed(Minus(rec[t].expires, clock)) > -Half
    BY <2>1, <2>2, Constants DEF Wait
  <2>4. Signed(Minus(rec[t].expires, Plus(clock, 1))) = Signed(Minus(rec[t].expires, clock)) - 1
    BY <1>1, <2>1, <2>3, TickDistance
  <2>5. Wait(t, clock)' = Wait(t, clock) - 1
    BY <1>2, <2>4 DEF Wait
  <2> QED BY <2>1, <2>2, <2>5, Constants DEF Near
<1>5. ListInv'
  <2>1. skew' \in 0 .. MaxSkew /\ skew' = skew
    BY <1>2 DEF TimersInv, TypeOK
  <2> QED BY <1>1, <1>2, <1>3, <1>4, <2>1, ClockMoves
<1> QED BY <1>4, <1>5

LEMMA TickHolds ==
    ASSUME TimersInv, Tick PROVE TimersInv'
<1>1. /\ ListInv'
      /\ \A t \in Timer : Pending(t) => Wait(t, clock)' = Wait(t, clock) - 1
  BY TickMoves
<1>2. wait \in -1 .. MaxDelta + MaxSkew
  BY DEF TimersInv, TypeOK
<1>3. /\ wait' = IF wait > 0 THEN wait - 1 ELSE wait
      /\ pc' = pc /\ UNCHANGED <<timers, rec, live, skew, pc, now, stack>>
      /\ clock' = Plus(clock, 1)
  BY DEF Tick
<1>4. wait' \in -1 .. MaxDelta + MaxSkew
  BY <1>2, <1>3, Constants
<1>5. TypeOK'
  BY <1>1, <1>3, <1>4 DEF TimersInv, TypeOK, ListInv
<1>6. ASSUME pc' = "sleep"
      PROVE  /\ stack' = <<>>
             /\ wait' = Forever => timers' = <<>>
             /\ wait' > 0 => \A t \in Timer : Pending(t)' => wait' <= Wait(t, clock)'
  <2>1. stack' = <<>>
    BY <1>3, <1>6 DEF TimersInv, SleepInv
  <2>2. wait' = Forever => timers' = <<>>
    BY <1>2, <1>3, <1>6 DEF TimersInv, SleepInv, Forever
  <2>3. ASSUME wait' > 0, NEW t \in Timer, Pending(t)' PROVE wait' <= Wait(t, clock)'
    <3>1. wait > 0 /\ wait' = wait - 1
      BY <1>2, <1>3, <2>3
    <3>2. Pending(t)
      BY <1>3, <2>3 DEF Pending
    <3>3. wait <= Wait(t, clock)
      BY <1>3, <1>6, <3>1, <3>2 DEF TimersInv, SleepInv
    <3>4. Wait(t, clock)' = Wait(t, clock) - 1 /\ Wait(t, clock) \in Int
      BY <1>1, <3>2, PendingFacts, Constants DEF TimersInv
    <3> QED BY <3>1, <3>3, <3>4, <1>2
  <2> QED BY <2>1, <2>2, <2>3
<1>7. SleepInv'
  BY <1>6 DEF SleepInv
<1>8. ASSUME pc = "DoTimers"
      PROVE  Signed(Minus(clock', now)) >= -skew /\ Signed(Minus(clock', now)) <= MaxLag
  <2>1. clock \in Card32 /\ now \in Card32 /\ skew \in 0 .. MaxSkew
    BY DEF TimersInv, TypeOK
  <2>2. Signed(Minus(clock, now)) >= -skew /\ Signed(Minus(clock, now)) < MaxLag
    BY <1>8 DEF TimersInv, RoundInv, Tick
  <2>3. Signed(Minus(clock, now)) \in -Half .. Half - 1
    BY <2>1, CardTypes
  <2>4. Signed(Minus(clock, now)) < Half - 1
    BY <2>2, <2>3, Constants
  <2>5. Signed(Minus(clock', now)) = Signed(Minus(clock, now)) + 1
    BY <1>3, <2>1, <2>4, TickForward
  <2> QED BY <2>1, <2>2, <2>3, <2>5, Constants
<1>9. RoundInv'
  BY <1>3, <1>8 DEF RoundInv
<1>10. \A t \in Timer : Pending(t)' => t \in live'
  BY <1>3 DEF TimersInv, Pending
<1> QED BY <1>1, <1>5, <1>7, <1>9, <1>10 DEF TimersInv

LEMMA RewindMoves ==
    ASSUME TimersInv, NEW r \in 1 .. MaxSkew - skew, clock' = Minus(clock, r),
           skew' = skew + r, UNCHANGED <<timers, rec>>
    PROVE  /\ ListInv'
           /\ \A t \in Timer : Pending(t) => Wait(t, clock)' = Wait(t, clock) + r
<1>1. ListInv /\ clock \in Card32 /\ skew \in 0 .. MaxSkew
  BY DEF TimersInv, ListInv
<1>2. r \in 0 .. MaxSkew /\ r \in Card32 /\ skew' \in 0 .. MaxSkew /\ -r \in Int
  BY <1>1, Constants DEF Card32
<1>3. clock' \in Card32
  BY <1>1, <1>2, CardTypes
<1>4. ASSUME NEW t \in Timer, Pending(t)
      PROVE  /\ Wait(t, clock)' = Wait(t, clock) + r
             /\ Wait(t, clock)' = Wait(t, clock) - (-r)
             /\ Wait(t, clock) - (-r) >= -MaxLag
             /\ Wait(t, clock) - (-r) <= rec[t].delta + skew'
  <2>1. /\ rec[t].expires \in Card32 /\ rec[t].delta \in Near
        /\ Wait(t, clock) \in -MaxLag .. MaxDelta + MaxSkew
        /\ Wait(t, clock) <= rec[t].delta + skew
    BY <1>1, <1>4, PendingFacts
  <2>2. Wait(t, clock) + r < Half
    BY <1>1, <1>2, <2>1, Constants DEF Near
  <2>3. Signed(Minus(rec[t].expires, Minus(clock, r))) = Signed(Minus(rec[t].expires, clock)) + r
    BY <1>1, <1>2, <2>1, <2>2, RewindDistance DEF Wait
  <2>4. Wait(t, clock)' = Wait(t, clock) + r
    BY <2>3 DEF Wait
  <2> QED BY <1>1, <1>2, <2>1, <2>4, Constants DEF Near
<1>5. ListInv'
  BY <1>1, <1>2, <1>3, <1>4, ClockMoves
<1> QED BY <1>4, <1>5

LEMMA RewindHolds ==
    ASSUME TimersInv, Rewind PROVE TimersInv'
<1>1. PICK r \in 1 .. MaxSkew - skew : clock' = Minus(clock, r) /\ skew' = skew + r
  BY DEF Rewind
<1>2. UNCHANGED <<timers, rec, live, pc, now, stack, wait>>
  BY DEF Rewind
<1>3. /\ ListInv'
      /\ \A t \in Timer : Pending(t) => Wait(t, clock)' = Wait(t, clock) + r
  BY <1>1, <1>2, RewindMoves
<1>4. TypeOK'
  BY <1>2, <1>3 DEF TimersInv, TypeOK, ListInv
<1>5. /\ clock \in Card32 /\ now \in Card32 /\ skew \in 0 .. MaxSkew
      /\ r \in 0 .. MaxSkew /\ r \in Nat /\ wait \in Int
  BY Constants DEF TimersInv, TypeOK
<1>6. SleepInv'
  <2>1. ASSUME pc = "sleep", wait > 0, NEW t \in Timer, Pending(t)
        PROVE  wait <= Wait(t, clock)'
    <3>1. wait <= Wait(t, clock)
      BY <2>1 DEF TimersInv, SleepInv
    <3>2. Wait(t, clock)' = Wait(t, clock) + r /\ Wait(t, clock) \in Int
      BY <1>3, <2>1, PendingFacts, Constants DEF TimersInv
    <3> QED BY <3>1, <3>2, <1>5
  <2>2. \A t \in Timer : Pending(t)' <=> Pending(t)
    BY <1>2 DEF Pending
  <2> QED BY <1>2, <2>1, <2>2 DEF TimersInv, SleepInv
<1>7. ASSUME pc = "DoTimers"
      PROVE  Signed(Minus(clock', now)) >= -skew' /\ Signed(Minus(clock', now)) <= MaxLag
  <2>1. Signed(Minus(clock, now)) >= -skew /\ Signed(Minus(clock, now)) <= MaxLag
    BY <1>7 DEF TimersInv, RoundInv
  <2>2. Signed(Minus(clock, now)) \in -Half .. Half - 1
    BY <1>5, CardTypes
  <2>3. skew + r <= MaxSkew
    BY <1>1, <1>5, Constants
  <2>4. Signed(Minus(clock, now)) - r >= -Half
    BY <1>5, <2>1, <2>2, <2>3, Constants
  <2>5. Signed(Minus(clock', now)) = Signed(Minus(clock, now)) - r
    BY <1>1, <1>5, <2>4, RewindBackward
  <2> QED BY <1>1, <1>5, <2>1, <2>2, <2>5, Constants
<1>8. RoundInv'
  BY <1>2, <1>7 DEF RoundInv
<1>9. \A t \in Timer : Pending(t)' => t \in live'
  BY <1>2 DEF TimersInv, Pending
<1> QED BY <1>3, <1>4, <1>6, <1>8, <1>9 DEF TimersInv

-----------------------------------------------------------------------------
(* The invariant, and what it says of the list.                            *)

LEMMA StepHolds == TimersInv /\ [Next]_vars => TimersInv'
<1> SUFFICES ASSUME TimersInv, [Next]_vars PROVE TimersInv'
  OBVIOUS
<1>1. CASE UNCHANGED vars
  <2>1. UNCHANGED <<timers, rec, clock, skew>>
    BY <1>1 DEF vars
  <2>2. ListInv'
    BY <2>1, ListStutters DEF TimersInv
  <2>3. /\ TypeOK' /\ SleepInv' /\ RoundInv'
        /\ \A t \in Timer : Pending(t)' => t \in live'
    BY <1>1 DEF TimersInv, vars, TypeOK, SleepInv, RoundInv, Pending, Wait
  <2> QED BY <2>2, <2>3 DEF TimersInv
<1>2. ASSUME NEW t \in Timer, NEW d \in Near \cup FarDelays, TimerSet(t, d) PROVE TimersInv'
  BY <1>2, TimerSetHolds
<1>3. ASSUME NEW t \in Timer, TimerCancel(t) PROVE TimersInv'
  BY <1>3, TimerCancelHolds
<1>4. ASSUME NEW t \in Timer, TimerFree(t) PROVE TimersInv'
  BY <1>4, TimerFreeHolds
<1>5. ASSUME NEW t \in Timer, TimerForce(t) PROVE TimersInv'
  BY <1>5, TimerForceHolds
<1>6. CASE Return
  BY <1>6, ReturnHolds
<1>7. CASE check_timers
  BY <1>7, CheckTimersHolds
<1>8. CASE DoTimers
  BY <1>8, DoTimersHolds
<1>9. CASE CheckAllTimers
  BY <1>9, CheckAllTimersHolds
<1>10. CASE Wakeup
  BY <1>10, WakeupHolds
<1>11. CASE Tick
  BY <1>11, TickHolds
<1>12. CASE Rewind
  BY <1>12, RewindHolds
<1> QED BY <1>1, <1>2, <1>3, <1>4, <1>5, <1>6, <1>7, <1>8, <1>9, <1>10,
           <1>11, <1>12 DEF Next

\* Every call, callback and step of WaitForSomething and of the clock keeps
\* the list, the sleep and the round of DoTimers consistent.
THEOREM TimersInvariant == Spec => []TimersInv
<1>1. Init => TimersInv
  BY InitHolds
<1>2. TimersInv /\ [Next]_vars => TimersInv'
  BY StepHolds
<1> QED BY <1>1, <1>2, PTL DEF Spec

\* Whatever callbacks do, the list of os/WaitFor.c holds the timers that are
\* set, each once, allocated, and sorted by the time left on a wrapping clock.
THEOREM ListStaysExact == Spec => []ListIsExact
<1>1. TimersInv => ListIsExact
  BY DEF TimersInv, ListInv, ListIsExact, Distinct
<1> QED BY <1>1, TimersInvariant, PTL

-----------------------------------------------------------------------------
(* The promise.                                                            *)

\* The refinement mapping: what is left and what was asked for.
Arms == [t \in Timer |-> IF Pending(t)
                         THEN [left |-> Wait(t, clock), asked |-> rec[t].delta]
                         ELSE Off]

LEMMA ArmsFacts ==
    ASSUME ListInv, NEW t \in Timer
    PROVE  /\ Arms[t] # Off <=> Pending(t)
           /\ Pending(t) => /\ Arms[t].left = Wait(t, clock)
                            /\ Arms[t].asked = rec[t].delta
           /\ ~Pending(t) => Arms[t] = Off
<1>1. CASE Pending(t)
  <2>1. Arms[t] = [left |-> Wait(t, clock), asked |-> rec[t].delta]
    BY <1>1 DEF Arms
  <2>2. Wait(t, clock) \in Int /\ rec[t].delta \in Int
    BY <1>1, PendingFacts, Constants DEF Near
  <2>3. Arms[t] \in [left : Int, asked : Int]
    BY <2>1, <2>2
  <2> QED BY <1>1, <2>1, <2>3, Constants
<1>2. CASE ~Pending(t)
  BY <1>2 DEF Arms
<1> QED BY <1>1, <1>2

\* A step that changes one timer changes one count.
LEMMA ArmsExcept ==
    ASSUME NEW t \in Timer,
           \A u \in Timer \ {t} : /\ rec'[u] = rec[u]
                                  /\ Pending(u)' <=> Pending(u)
                                  /\ Wait(u, clock)' = Wait(u, clock)
    PROVE  Arms' = [Arms EXCEPT ![t] =
              IF Pending(t)' THEN [left |-> Wait(t, clock)', asked |-> rec'[t].delta]
              ELSE Off]
<1>1. ASSUME NEW u \in Timer
      PROVE  Arms'[u] = [Arms EXCEPT ![t] =
                IF Pending(t)' THEN [left |-> Wait(t, clock)', asked |-> rec'[t].delta]
                ELSE Off][u]
  <2>1. CASE u = t
    BY <2>1 DEF Arms
  <2>2. CASE u # t
    BY <2>2 DEF Arms
  <2> QED BY <2>1, <2>2
<1> QED BY <1>1 DEF Arms

LEMMA UnlinkDisarms ==
    ASSUME ListInv, NEW t \in Timer, Unlink(t), UNCHANGED <<clock, skew>>
    PROVE  Arms' = [Arms EXCEPT ![t] = Off]
<1>1. /\ ~Pending(t)'
      /\ \A u \in Timer \ {t} : /\ rec'[u] = rec[u]
                                /\ Pending(u)' <=> Pending(u)
                                /\ Wait(u, clock)' = Wait(u, clock)
  BY UnlinkKeeps
<1> QED BY <1>1, ArmsExcept

LEMMA SetToArms ==
    ASSUME ListInv, NEW t \in Timer, NEW d \in Near \cup FarDelays,
           NEW frames \in Seq(Timer), SetTo(t, d, frames), UNCHANGED <<clock, skew>>
    PROVE  \/ /\ d \in Near
              /\ Arms' = [Arms EXCEPT ![t] = [left |-> d, asked |-> d]]
              /\ stack' = frames
           \/ /\ d \in FarDelays
              /\ Arms' = [Arms EXCEPT ![t] = Off]
              /\ stack' = Append(frames, t)
<1>1. /\ \A u \in Timer \ {t} : /\ rec'[u] = rec[u]
                                /\ Pending(u)' <=> Pending(u)
                                /\ Wait(u, clock)' = Wait(u, clock)
      /\ \/ /\ d \in Near /\ stack' = frames
            /\ Pending(t)' /\ Wait(t, clock)' = d /\ rec'[t].delta = d
         \/ /\ d \in FarDelays /\ stack' = Append(frames, t)
            /\ ~Pending(t)'
  BY SetToSteps
<1>2. Arms' = [Arms EXCEPT ![t] =
         IF Pending(t)' THEN [left |-> Wait(t, clock)', asked |-> rec'[t].delta]
         ELSE Off]
  BY <1>1, ArmsExcept
<1> QED BY <1>1, <1>2

LEMMA ArmsStutter ==
    ASSUME UNCHANGED <<timers, rec, clock>> PROVE Arms' = Arms
BY DEF Arms, Pending, Wait

LEMMA TimerSetRefines ==
    ASSUME TimersInv, NEW t \in Timer, NEW d \in Near \cup FarDelays, TimerSet(t, d)
    PROVE  Promise!Set(t, d)
<1>1. ListInv /\ stack \in Seq(Timer) /\ (pc = "serve" \/ stack # <<>>)
  BY DEF TimersInv, TypeOK, TimerSet, Calling
<1>2. SetTo(t, d, stack) /\ UNCHANGED <<clock, skew>> /\ UNCHANGED pc
  BY DEF TimerSet
<1>3. \/ /\ d \in Near
         /\ Arms' = [Arms EXCEPT ![t] = [left |-> d, asked |-> d]]
         /\ stack' = stack
      \/ /\ d \in FarDelays
         /\ Arms' = [Arms EXCEPT ![t] = Off]
         /\ stack' = Append(stack, t)
  BY <1>1, <1>2, SetToArms
<1> QED BY <1>1, <1>2, <1>3
        DEF Promise!Set, Promise!Arm, Promise!Users, Turn, Arms

LEMMA DisarmRefines ==
    ASSUME TimersInv, NEW t \in Timer, TimerCancel(t) \/ TimerFree(t)
    PROVE  Promise!Disarm(t)
<1>1. ListInv /\ (pc = "serve" \/ stack # <<>>)
  BY DEF TimersInv, TimerCancel, TimerFree, Calling
<1>2. Unlink(t) /\ UNCHANGED <<clock, skew>> /\ UNCHANGED <<pc, stack>>
  BY DEF TimerCancel, TimerFree
<1>3. Arms' = [Arms EXCEPT ![t] = Off]
  BY <1>1, <1>2, UnlinkDisarms
<1> QED BY <1>1, <1>2, <1>3 DEF Promise!Disarm, Promise!Users, Turn, Arms

LEMMA RunRefines ==
    ASSUME ListInv, NEW t \in Timer, DoTimer(t), UNCHANGED <<clock, skew, pc>>
    PROVE  Promise!Run(t)
<1>1. Unlink(t) /\ UNCHANGED <<clock, skew>> /\ stack' = Append(stack, t)
  BY DEF DoTimer
<1>2. Arms' = [Arms EXCEPT ![t] = Off]
  BY <1>1, UnlinkDisarms
<1> QED BY <1>1, <1>2 DEF Promise!Run, Turn, Arms

LEMMA TimerForceRefines ==
    ASSUME TimersInv, NEW t \in Timer, TimerForce(t)
    PROVE  Promise!Force(t)
<1>1. ListInv /\ Pending(t) /\ (pc = "serve" \/ stack # <<>>)
  BY DEF TimersInv, TimerForce, Calling
<1>2. DoTimer(t) /\ UNCHANGED <<clock, skew, pc>>
  BY DEF TimerForce
<1>3. Promise!Run(t)
  BY <1>1, <1>2, RunRefines
<1>4. Arms[t] # Off
  BY <1>1, ArmsFacts
<1> QED BY <1>1, <1>3, <1>4
        DEF Promise!Force, Promise!Users, Promise!Armed, Turn, Arms

LEMMA ReturnRefines ==
    ASSUME TimersInv, Return
    PROVE  Promise!Return
<1> DEFINE t == Last(stack)
           frames == Front(stack)
<1>1. ListInv /\ stack \in Seq(Timer) /\ stack # <<>>
  BY DEF TimersInv, TypeOK, Return
<1>2. /\ t \in Timer /\ frames \in Seq(Timer)
      /\ t = stack[Len(stack)] /\ frames = SubSeq(stack, 1, Len(stack) - 1)
  BY <1>1, TopOfStack
<1>3. UNCHANGED <<clock, skew>> /\ UNCHANGED pc
  BY DEF Return
<1> HIDE DEF t, frames
<1>4. CASE stack' = frames /\ UNCHANGED <<timers, rec>>
  <2>1. Arms' = Arms
    BY <1>3, <1>4, ArmsStutter
  <2> QED BY <2>1, <1>1, <1>2, <1>3, <1>4 DEF Promise!Return, Turn, Arms
<1>5. ASSUME NEW d \in Near \cup FarDelays, SetTo(t, d, frames) PROVE Promise!Return
  <2>1. \/ /\ d \in Near
           /\ Arms' = [Arms EXCEPT ![t] = [left |-> d, asked |-> d]]
           /\ stack' = frames
        \/ /\ d \in FarDelays
           /\ Arms' = [Arms EXCEPT ![t] = Off]
           /\ stack' = Append(frames, t)
    BY <1>1, <1>2, <1>3, <1>5, SetToArms
  <2> QED BY <2>1, <1>1, <1>2, <1>3 DEF Promise!Return, Promise!Arm, Turn, Arms
<1> QED BY <1>4, <1>5 DEF Return, t, frames

LEMMA DoTimersRefines ==
    ASSUME TimersInv, DoTimers
    PROVE  Promise!SpecNext
<1>1. /\ ListInv /\ pc = "DoTimers" /\ stack = <<>> /\ UNCHANGED <<live, clock, skew>>
      /\ clock \in Card32 /\ now \in Card32 /\ skew \in 0 .. MaxSkew
  BY DEF TimersInv, TypeOK, DoTimers
<1>2. CASE FirstIsDue(now) /\ DoTimer(Head(timers)) /\ UNCHANGED <<pc, now, wait>>
  <2>0. PICK h \in Timer : h = Head(timers)
    BY <1>1, <1>2, HeadFacts DEF FirstIsDue
  <2>1. /\ h \in Timer /\ Pending(h)
        /\ \A t \in Timer : Pending(t) => Wait(h, clock) <= Wait(t, clock)
    BY <1>1, <1>2, <2>0, HeadFacts DEF FirstIsDue
  <2>2. Wait(h, now) <= 0
    BY <1>2, <2>0 DEF FirstIsDue
  <2>3. rec[h].expires \in Card32 /\ Wait(h, clock) \in -MaxLag .. MaxDelta + MaxSkew
    BY <1>1, <2>1, PendingFacts
  <2>4. /\ Signed(Minus(clock, now)) >= -skew /\ Signed(Minus(clock, now)) <= MaxLag
        /\ Signed(Minus(clock, now)) \in -Half .. Half - 1
    BY <1>1, CardTypes DEF TimersInv, RoundInv
  <2>5. Wait(h, clock) + Signed(Minus(clock, now)) \in -Half .. Half - 1
    BY <1>1, <2>3, <2>4, Constants
  <2>6. Wait(h, now) = Wait(h, clock) + Signed(Minus(clock, now))
    BY <1>1, <2>3, <2>5, DistanceSum DEF Wait
  <2>7. Wait(h, clock) <= skew
    BY <1>1, <2>2, <2>3, <2>4, <2>6, Constants
  <2>8. Promise!Run(h)
    <3>1. DoTimer(h) /\ UNCHANGED <<clock, skew, pc>>
      BY <1>1, <1>2, <2>0
    <3> QED BY <1>1, <2>1, <3>1, RunRefines
  <2>9. Arms[h] # Off /\ Arms[h].left <= skew
    BY <1>1, <2>1, <2>7, ArmsFacts
  <2>10. \A u \in Timer : Arms[u] # Off => Arms[h].left <= Arms[u].left
    BY <1>1, <2>1, ArmsFacts
  <2>11. Promise!Expire(h)
    BY <1>1, <2>8, <2>9, <2>10 DEF Promise!Expire, Promise!Armed, Turn, Arms
  <2>12. \E t \in Timer : Promise!Expire(t)
    BY <2>1, <2>11
  <2> QED BY <2>12, Zenon DEF Promise!SpecNext
<1>3. CASE GoToSleep(0) /\ UNCHANGED <<timers, rec, stack>>
  <2>1. Arms' = Arms
    BY <1>1, <1>3, ArmsStutter
  <2>2. Promise!Sleep
    BY <2>1, <1>1, <1>3 DEF Promise!Sleep, GoToSleep, Turn, Arms
  <2> QED BY <2>2 DEF Promise!SpecNext
<1> QED BY <1>2, <1>3 DEF DoTimers

LEMMA CheckAllTimersRefines ==
    ASSUME TimersInv, CheckAllTimers
    PROVE  Promise!SpecNext
<1> DEFINE A == {i \in 1 .. Len(timers) : Affected(timers[i])}
<1>1. /\ ListInv /\ pc = "CheckAllTimers" /\ stack = <<>>
      /\ UNCHANGED <<live, clock, skew>>
      /\ clock \in Card32 /\ skew \in 0 .. MaxSkew
  BY DEF TimersInv, TypeOK, CheckAllTimers
<1>2. CASE A # {} /\ DoTimer(timers[Min(A)]) /\ UNCHANGED <<pc, now, wait>>
  <2>0. PICK h \in Timer, k \in 1 .. Len(timers) : k = Min(A) /\ h = timers[k]
    BY <1>1, <1>2, FirstAffected
  <2>1. /\ k \in 1 .. Len(timers) /\ Affected(h) /\ h \in Timer /\ Pending(h)
        /\ \A i \in 1 .. Len(timers) : i < k => ~Affected(timers[i])
    BY <1>1, <1>2, <2>0, FirstAffected
  <2>2. DoTimer(h) /\ UNCHANGED <<clock, skew, pc>>
    BY <1>1, <1>2, <2>0
  <2> HIDE DEF A
  <2>3. Promise!Run(h)
    BY <1>1, <2>1, <2>2, RunRefines
  <2>4. /\ rec[h].expires \in Card32 /\ rec[h].delta \in Near
        /\ Wait(h, clock) \in -MaxLag .. MaxDelta + MaxSkew
    BY <1>1, <2>1, PendingFacts
  <2>5. /\ Arms[h] # Off /\ Arms[h].left = Wait(h, clock)
        /\ Arms[h].asked = rec[h].delta
    BY <1>1, <2>1, ArmsFacts
  <2>6. timers \in Seq(Timer) /\ Len(timers) \in Nat
    BY <1>1 DEF ListInv
  <2>7. ASSUME Wait(h, clock) < 0 PROVE Promise!Expire(h)
    <3>1. ASSUME k # 1 PROVE FALSE
      <4>1. /\ 1 \in 1 .. Len(timers) /\ 1 < k /\ timers[1] \in Timer
            /\ Pending(timers[1])
        BY <3>1, <2>1, <2>6, <1>1 DEF ListInv
      <4>2. /\ rec[timers[1]].expires \in Card32 /\ rec[timers[1]].delta \in Near
            /\ Wait(timers[1], clock) \in -MaxLag .. MaxDelta + MaxSkew
        BY <1>1, <4>1, PendingFacts
      <4>3. Wait(timers[1], clock) <= Wait(h, clock)
        BY <4>1, <2>0, <2>1, <1>1 DEF ListInv
      <4>4. Wait(timers[1], clock) < 0
        BY <4>2, <4>3, <2>4, <2>7, Constants
      <4>5. /\ Minus(rec[timers[1]].expires, clock) >= Half
            /\ Minus(rec[timers[1]].expires, clock) \in Card32
        BY <1>1, <4>2, <4>4, CardTypes DEF Wait
      <4>6. Affected(timers[1])
        BY <4>2, <4>5, Constants DEF Affected, Near, Card32
      <4> QED BY <4>1, <4>6, <2>1
    <3>2. h = Head(timers) /\ timers # <<>>
      BY <3>1, <2>0, <2>1, <2>6
    <3>3. \A u \in Timer : Pending(u) => Wait(h, clock) <= Wait(u, clock)
      BY <1>1, <3>2, HeadFacts
    <3>4. \A u \in Timer : Arms[u] # Off => Arms[h].left <= Arms[u].left
      BY <1>1, <3>3, <2>5, ArmsFacts
    <3>5. Arms[h].left <= skew
      BY <1>1, <2>4, <2>5, <2>7, Constants
    <3> QED BY <1>1, <2>3, <2>5, <3>4, <3>5
        DEF Promise!Expire, Promise!Armed, Turn, Arms
  <2>8. ASSUME ~(Wait(h, clock) < 0) PROVE Promise!Expire(h)
    <3>1. Minus(rec[h].expires, clock) < Half /\ Minus(rec[h].expires, clock) \in Card32
      <4>1. /\ Signed(Minus(rec[h].expires, clock)) < 0 <=> Minus(rec[h].expires, clock) >= Half
            /\ Minus(rec[h].expires, clock) \in Card32
        BY <1>1, <2>4, CardTypes
      <4>2. ~(Minus(rec[h].expires, clock) >= Half)
        BY <4>1, <2>8 DEF Wait
      <4> QED BY <4>1, <4>2, Constants DEF Card32
    <3>2. Wait(h, clock) = Minus(rec[h].expires, clock)
      BY <3>1 DEF Wait, Signed
    <3>3. Wait(h, clock) > rec[h].delta + Slack
      BY <3>2, <2>1 DEF Affected
    <3>4. Arms[h].left > Arms[h].asked + Slack
      BY <3>3, <2>5
    <3> QED BY <1>1, <2>3, <2>5, <3>4
        DEF Promise!Expire, Promise!Armed, Turn, Arms
  <2>9. \E t \in Timer : Promise!Expire(t)
    <3>1. Promise!Expire(h)
      BY <2>7, <2>8
    <3> QED BY <3>1, <2>1
  <2> QED BY <2>9, Zenon DEF Promise!SpecNext
<1>3. CASE GoToSleep(0) /\ UNCHANGED <<timers, rec, stack>>
  <2>1. Arms' = Arms
    BY <1>1, <1>3, ArmsStutter
  <2>2. Promise!Sleep
    BY <2>1, <1>1, <1>3 DEF Promise!Sleep, GoToSleep, Turn, Arms
  <2> QED BY <2>2 DEF Promise!SpecNext
<1> QED BY <1>2, <1>3 DEF CheckAllTimers

LEMMA CheckTimersRefines ==
    ASSUME TimersInv, check_timers
    PROVE  Promise!Sleep \/ Promise!Look
<1>1. /\ UNCHANGED <<timers, rec, clock>> /\ UNCHANGED <<skew, stack>>
      /\ pc = "serve" /\ stack = <<>> /\ ListInv
  BY DEF check_timers, TimersInv
<1>2. Arms' = Arms
  BY <1>1, ArmsStutter
<1>3. CASE timers = <<>> /\ GoToSleep(Forever)
  <2>1. \A t \in Timer : Arms[t] = Off
    <3>1. Len(timers) = 0
      BY <1>3
    <3>2. \A t \in Timer : ~Pending(t)
      BY <1>1, <3>1 DEF ListInv
    <3> QED BY <3>2 DEF Arms
  <2>2. Promise!Sleep
    BY <1>1, <1>2, <1>3, <2>1
       DEF Promise!Sleep, Promise!Overdue, Promise!Armed, GoToSleep, Turn, Arms
  <2> QED BY <2>2
<1>4. CASE timers # <<>>
  <2>0. PICK h \in Timer : h = Head(timers)
    BY <1>1, <1>4, HeadFacts
  <2>1. /\ Pending(h)
        /\ \A t \in Timer : Pending(t) => Wait(h, clock) <= Wait(t, clock)
    BY <1>1, <1>4, <2>0, HeadFacts
  <2>2. /\ Arms[h] # Off /\ Arms[h].left = Wait(h, clock)
        /\ Arms[h].asked = rec[h].delta
    BY <1>1, <2>1, ArmsFacts
  <2>3. \/ Wait(h, clock) <= 0 /\ pc' = "DoTimers"
        \/ Wait(h, clock) > 0 /\ pc' = "sleep"
        \/ Wait(h, clock) >= rec[h].delta + Slack /\ pc' = "CheckAllTimers"
    BY <1>4, <2>0 DEF check_timers, GoToSleep
  <2>4. CASE pc' = "sleep"
    <3>1. Wait(h, clock) > 0 /\ Wait(h, clock) \in Int
      BY <1>1, <2>1, <2>3, <2>4, PendingFacts, Constants
    <3>2. ASSUME NEW t \in Timer, Arms[t] # Off PROVE ~(Arms[t].left <= 0)
      <4>1. /\ Pending(t) /\ Arms[t].left = Wait(t, clock)
            /\ Wait(t, clock) \in Int
        BY <1>1, <3>2, ArmsFacts, PendingFacts, Constants
      <4>2. Wait(h, clock) <= Wait(t, clock)
        BY <2>1, <4>1
      <4> QED BY <3>1, <4>1, <4>2
    <3>3. Promise!Sleep
      BY <1>1, <1>2, <2>4, <3>2
         DEF Promise!Sleep, Promise!Overdue, Promise!Armed, Turn, Arms
    <3> QED BY <3>3
  <2>5. CASE pc' # "sleep"
    <3>1. pc' \in {"DoTimers", "CheckAllTimers"}
      BY <2>3, <2>5
    <3>2. \E t \in Timer : /\ Arms[t] # Off
                           /\ \/ Arms[t].left <= 0
                              \/ Arms[t].left >= Arms[t].asked + Slack
      BY <2>2, <2>3, <2>5
    <3>3. Promise!Look
      BY <1>1, <1>2, <3>1, <3>2
         DEF Promise!Look, Promise!Overdue, Promise!Armed, Turn, Arms
    <3> QED BY <3>3
  <2> QED BY <2>4, <2>5
<1> QED BY <1>3, <1>4 DEF check_timers

LEMMA WakeupRefines ==
    ASSUME Wakeup PROVE Promise!Wake
<1>1. /\ UNCHANGED <<timers, rec, clock>> /\ UNCHANGED <<skew, stack>>
      /\ pc = "sleep" /\ pc' = "serve"
  BY DEF Wakeup
<1>2. Arms' = Arms
  BY <1>1, ArmsStutter
<1> QED BY <1>1, <1>2 DEF Promise!Wake, Turn, Arms

\* The counts of all timers move with the clock.
LEMMA ArmsMove ==
    ASSUME ListInv, NEW step \in Int, UNCHANGED rec,
           \A t \in Timer : Pending(t) => Wait(t, clock)' = Wait(t, clock) - step
    PROVE  Arms' = [t \in Timer |-> IF Arms[t] # Off
                                    THEN [Arms[t] EXCEPT !.left = @ - step]
                                    ELSE Off]
<1>1. ASSUME NEW t \in Timer
      PROVE  Arms'[t] = IF Arms[t] # Off THEN [Arms[t] EXCEPT !.left = @ - step] ELSE Off
  <2>1. Pending(t)' <=> Pending(t)
    BY DEF Pending
  <2>2. CASE Pending(t)
    <3>1. Arms[t] = [left |-> Wait(t, clock), asked |-> rec[t].delta]
      BY <2>2 DEF Arms
    <3>2. Arms[t] # Off
      BY <2>2, ArmsFacts
    <3>3. Arms'[t] = [left |-> Wait(t, clock) - step, asked |-> rec[t].delta]
      BY <2>1, <2>2 DEF Arms
    <3> QED BY <3>1, <3>2, <3>3
  <2>3. CASE ~Pending(t)
    <3>1. Arms[t] = Off /\ Arms'[t] = Off
      BY <2>1, <2>3 DEF Arms
    <3> QED BY <3>1
  <2> QED BY <2>2, <2>3
<1> QED BY <1>1 DEF Arms

LEMMA TickRefines ==
    ASSUME TimersInv, Tick PROVE Promise!Pass
<1>1. ListInv /\ UNCHANGED rec /\ UNCHANGED <<pc, stack, skew>>
  BY DEF TimersInv, Tick
<1>2. \A t \in Timer : Pending(t) => Wait(t, clock)' = Wait(t, clock) - 1
  BY TickMoves
<1>3. Arms' = [t \in Timer |-> IF Arms[t] # Off THEN [Arms[t] EXCEPT !.left = @ - 1]
                               ELSE Off]
  BY <1>1, <1>2, ArmsMove
<1>4. ASSUME pc = "sleep", NEW t \in Timer, Arms[t] # Off PROVE ~(Arms[t].left <= 0)
  <2>1. Pending(t) /\ Arms[t].left = Wait(t, clock) /\ Wait(t, clock) \in Int
    BY <1>1, <1>4, ArmsFacts, PendingFacts, Constants
  <2>2. wait # 0 /\ wait \in -1 .. MaxDelta + MaxSkew
    BY <1>4 DEF Tick, TimersInv, TypeOK
  <2>3. wait # Forever
    <3>1. ASSUME timers = <<>> PROVE FALSE
      <4>1. Len(timers) = 0
        BY <3>1
      <4> QED BY <4>1, <2>1, <1>1 DEF ListInv
    <3> QED BY <3>1, <1>4 DEF TimersInv, SleepInv
  <2>4. wait > 0
    BY <2>2, <2>3, Constants DEF Forever
  <2>5. wait <= Wait(t, clock)
    BY <1>4, <2>1, <2>4 DEF TimersInv, SleepInv
  <2> QED BY <2>1, <2>2, <2>4, <2>5, Constants
<1> QED BY <1>1, <1>3, <1>4
        DEF Promise!Pass, Promise!Clock, Promise!Overdue, Promise!Armed, Turn, Arms

LEMMA RewindRefines ==
    ASSUME TimersInv, Rewind PROVE Promise!SetBack
<1>1. PICK r \in 1 .. MaxSkew - skew : clock' = Minus(clock, r) /\ skew' = skew + r
  BY DEF Rewind
<1>2. ListInv /\ UNCHANGED rec /\ UNCHANGED <<timers, rec>> /\ UNCHANGED <<pc, stack>>
  BY DEF TimersInv, Rewind
<1>3. r \in Int /\ -r \in Int
  OBVIOUS
<1>4. \A t \in Timer : Pending(t) =>
         Wait(t, clock)' = Wait(t, clock) + r /\ Wait(t, clock) \in Int
  BY <1>1, <1>2, RewindMoves, PendingFacts, Constants
<1>5. \A t \in Timer : Pending(t) => Wait(t, clock)' = Wait(t, clock) - (-r)
  BY <1>3, <1>4
<1>6. Arms' = [t \in Timer |-> IF Arms[t] # Off THEN [Arms[t] EXCEPT !.left = @ - (-r)]
                               ELSE Off]
  BY <1>2, <1>3, <1>5, ArmsMove
<1> QED BY <1>1, <1>2, <1>6
        DEF Promise!SetBack, Promise!Clock, Promise!Armed, Turn, Arms

LEMMA StepRefines ==
    TimersInv /\ [Next]_vars => [Promise!SpecNext]_(Promise!specVars)
<1> SUFFICES ASSUME TimersInv, [Next]_vars
             PROVE  Promise!SpecNext \/ UNCHANGED Promise!specVars
  OBVIOUS
<1>1. CASE UNCHANGED vars
  <2>1. UNCHANGED <<timers, rec, clock>> /\ UNCHANGED <<skew, stack, pc>>
    BY <1>1 DEF vars
  <2>2. Arms' = Arms
    BY <2>1, ArmsStutter
  <2> QED BY <2>1, <2>2 DEF Promise!specVars, Turn, Arms
<1>2. ASSUME NEW t \in Timer,
             \/ \E d \in Near \cup FarDelays : TimerSet(t, d)
             \/ TimerCancel(t) \/ TimerFree(t) \/ TimerForce(t)
      PROVE  Promise!SpecNext
  <2>1. \/ \E d \in Near \cup FarDelays : Promise!Set(t, d)
        \/ Promise!Disarm(t) \/ Promise!Force(t)
    BY <1>2, TimerSetRefines, DisarmRefines, TimerForceRefines
  <2> QED BY <2>1, Zenon DEF Promise!SpecNext
<1>3. CASE Return
  BY <1>3, ReturnRefines, Zenon DEF Promise!SpecNext
<1>4. CASE check_timers
  BY <1>4, CheckTimersRefines, Zenon DEF Promise!SpecNext
<1>5. CASE DoTimers
  BY <1>5, DoTimersRefines
<1>6. CASE CheckAllTimers
  BY <1>6, CheckAllTimersRefines
<1>7. CASE Wakeup
  BY <1>7, WakeupRefines, Zenon DEF Promise!SpecNext
<1>8. CASE Tick
  BY <1>8, TickRefines, Zenon DEF Promise!SpecNext
<1>9. CASE Rewind
  BY <1>9, RewindRefines, Zenon DEF Promise!SpecNext
<1> QED BY <1>1, <1>2, <1>3, <1>4, <1>5, <1>6, <1>7, <1>8, <1>9 DEF Next

LEMMA CallsRefine ==
    TimersInv /\ [Next]_vars => [CallsKeepPromise]_vars
<1> SUFFICES ASSUME TimersInv PROVE CallsKeepPromise
  OBVIOUS
<1> QED BY TimerSetRefines, DisarmRefines, TimerForceRefines, Zenon
        DEF CallsKeepPromise

\* The sorted list, the wrapping clock and the poll of os/WaitFor.c keep what
\* TimerSpec promises: TimerSet, TimerCancel, TimerFree and TimerForce do what
\* they say to their timer and nothing to another; apart from them a timer
\* leaves the list only when it is run, once for each time it is set, in order
\* and not early by more than the clock was set back; and the server does not
\* sleep over one that is due.
THEOREM TimersKeepPromise == Spec => ImplementsPromise
<1>1. Init => Promise!SpecInit
  <2> SUFFICES ASSUME Init PROVE Promise!SpecInit
    OBVIOUS
  <2>1. Arms = [t \in Timer |-> Off]
    BY DEF Init, Arms, Pending
  <2> QED BY <2>1 DEF Init, Promise!SpecInit, Turn, Arms
<1>2. TimersInv /\ [Next]_vars => [Promise!SpecNext]_(Promise!specVars)
  BY StepRefines
<1>3. TimersInv /\ [Next]_vars => [CallsKeepPromise]_vars
  BY CallsRefine
<1> QED BY <1>1, <1>2, <1>3, TimersInvariant, PTL
        DEF Spec, ImplementsPromise, Promise!TimerPromise
=============================================================================
