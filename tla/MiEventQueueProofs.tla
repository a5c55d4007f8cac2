------------------------- MODULE MiEventQueueProofs -------------------------
(***************************************************************************)
(* Proofs about MiEventQueue, for every set of devices, every buffer size  *)
(* and every number of events: type correctness, that no event of a freed  *)
(* device is left in the queue, that no accepted event is lost, and that   *)
(* the circular buffer implements the queue of EventFifo.                  *)
(***************************************************************************)
EXTENDS MiEventQueue, TLAPS

-----------------------------------------------------------------------------
(* Arithmetic of the circular buffer.                                      *)

\* One subtraction computes the remainder of anything below twice the size:
\* what the index computations of mieq.c rely on.
LEMMA WrapOnce ==
    ASSUME NEW n \in Nat, n > 1, NEW i \in Nat, i < n + n
    PROVE  i % n = (IF i < n THEN i ELSE i - n) /\ i % n \in 0 .. n - 1
  OBVIOUS

\* Decrementing an unsigned zero lands in the last slot of any array whose
\* size divides the word.
LEMMA WrapUnsigned ==
    ASSUME NEW n \in Nat \ {0}, NEW w \in Nat \ {0}, w % n = 0
    PROVE  (w - 1) % n = n - 1
<1> DEFINE k == w \div n
<1>1. w = n * k /\ k \in Nat
  OBVIOUS
<1>2. k > 0
  BY <1>1
<1>3. w - 1 = n * (k - 1) + (n - 1)
  BY <1>1, <1>2
<1>4. n * (k - 1) + (n - 1) = (k - 1) * n + (n - 1) /\ k - 1 \in Nat
  BY <1>1, <1>2
<1> HIDE DEF k
<1>5. \A m \in Nat : (m * n + (n - 1)) % n = n - 1
  OBVIOUS
<1> QED
  BY <1>3, <1>4, <1>5

\* Facts about the sizes that the other proofs use.
LEMMA SizeFacts == \A n \in Sizes : n \in Nat /\ n > 1 /\ WordSize % n = 0
  BY SizesAssumption, WordSizeAssumption

\* The index the merging branch of mieqEnqueue computes is the slot before
\* the tail, also when the tail is at the start of the array.
LEMMA LastSlotValue ==
    ASSUME TypeOK
    PROVE  LastSlot = IF tail = 0 THEN nevents - 1 ELSE tail - 1
<1>1. /\ nevents \in Nat \ {0} /\ nevents > 1
      /\ WordSize \in Nat \ {0} /\ WordSize % nevents = 0
  BY SizeFacts, WordSizeAssumption DEF TypeOK
<1>2. WordSize >= nevents
  BY <1>1
<1>3. CASE tail = 0
  <2>1. (tail - 1) % WordSize = WordSize - 1
    BY <1>1, <1>3
  <2>2. (WordSize - 1) % nevents = nevents - 1
    BY <1>1, WrapUnsigned
  <2> QED
    BY <1>3, <2>1, <2>2 DEF LastSlot
<1>4. CASE tail # 0
  <2>1. tail - 1 \in 0 .. nevents - 1 /\ tail - 1 < WordSize
    BY <1>1, <1>2, <1>4 DEF TypeOK
  <2>2. (tail - 1) % WordSize = tail - 1 /\ (tail - 1) % nevents = tail - 1
    BY <1>1, <2>1
  <2> QED
    BY <1>4, <2>2 DEF LastSlot
<1> QED
  BY <1>3, <1>4

-----------------------------------------------------------------------------
(* What the operations on a ring buffer do to the events it stands for.    *)

\* s is an array of n slots with elements in S, h and t are indices of it.
IsRing(S, s, h, t, n) ==
    /\ n \in Nat /\ n > 1
    /\ s \in [0 .. n - 1 -> S]
    /\ h \in 0 .. n - 1 /\ t \in 0 .. n - 1

\* The i-th slot from h on.
Nth(h, i, n) == IF h + i - 1 < n THEN h + i - 1 ELSE h + i - 1 - n

\* How many events wait, without the wrap-around of mieqNumEnqueued, and
\* where they are.
RingIs(S, s, h, t, n) ==
    /\ NumIn(h, t, n) = IF t >= h THEN t - h ELSE t - h + n
    /\ NumIn(h, t, n) \in 0 .. n - 1
    /\ Ring(s, h, t, n) \in Seq(S)
    /\ Len(Ring(s, h, t, n)) = NumIn(h, t, n)
    /\ \A i \in 1..NumIn(h, t, n) : Ring(s, h, t, n)[i] = s[Nth(h, i, n)]

\* A ring buffer is what RingIs says: mieqNumEnqueued counts the slots from
\* head to tail, and they are found without computing a remainder.
LEMMA RingShape ==
    \A S, s, h, t, n : IsRing(S, s, h, t, n) => RingIs(S, s, h, t, n)
<1> SUFFICES ASSUME NEW S, NEW s, NEW h, NEW t, NEW n, IsRing(S, s, h, t, n)
             PROVE  RingIs(S, s, h, t, n)
  OBVIOUS
<1> USE DEF IsRing
<1>1. /\ NumIn(h, t, n) = IF t >= h THEN t - h ELSE t - h + n
      /\ NumIn(h, t, n) \in 0 .. n - 1
  BY DEF NumIn
<1>2. \A i \in 1..NumIn(h, t, n) :
         (h + i - 1) % n = Nth(h, i, n) /\ Nth(h, i, n) \in 0 .. n - 1
  <2> SUFFICES ASSUME NEW i \in 1..NumIn(h, t, n)
               PROVE  (h + i - 1) % n = Nth(h, i, n) /\ Nth(h, i, n) \in 0 .. n - 1
    OBVIOUS
  <2> DEFINE m == h + i - 1
  <2>1. m \in Nat /\ m < n + n
    BY <1>1
  <2> HIDE DEF m
  <2>2. m % n = (IF m < n THEN m ELSE m - n) /\ m % n \in 0 .. n - 1
    BY <2>1, WrapOnce
  <2> QED
    BY <2>2 DEF m, Nth
<1>3. Ring(s, h, t, n) \in [1..NumIn(h, t, n) -> S]
  BY <1>2 DEF Ring
<1>4. Ring(s, h, t, n) \in Seq(S) /\ Len(Ring(s, h, t, n)) = NumIn(h, t, n)
  BY <1>1, <1>3
<1> QED
  BY <1>1, <1>2, <1>4 DEF Ring, RingIs

\* e can be stored in the ring buffer, which is not full.
HasRoomFor(e, S, s, h, t, n) ==
    IsRing(S, s, h, t, n) /\ e \in S /\ NumIn(h, t, n) + 1 # n

\* Storing e at the tail of the ring buffer appends it.
StoreAppends(e, s, h, t, n) ==
    Ring([s EXCEPT ![t] = e], h, (t + 1) % n, n) = Append(Ring(s, h, t, n), e)

\* Storing at the tail of a buffer that is not full appends.
LEMMA RingAppend ==
    \A e, S, s, h, t, n :
        HasRoomFor(e, S, s, h, t, n) => StoreAppends(e, s, h, t, n)
<1> SUFFICES ASSUME NEW e, NEW S, NEW s, NEW h, NEW t, NEW n,
                    HasRoomFor(e, S, s, h, t, n)
             PROVE  StoreAppends(e, s, h, t, n)
  OBVIOUS
<1> USE DEF HasRoomFor
<1> DEFINE k == NumIn(h, t, n)
           r == Ring(s, h, t, n)
           u == (t + 1) % n
           z == [s EXCEPT ![t] = e]
           rr == Ring(z, h, u, n)
<1>1. u = (IF t + 1 < n THEN t + 1 ELSE 0) /\ u \in 0 .. n - 1
  <2> DEFINE m == t + 1
  <2>1. m \in Nat /\ m < n + n /\ n \in Nat /\ n > 1 /\ m - n <= 0
    BY DEF IsRing
  <2> HIDE DEF m
  <2>2. m % n = (IF m < n THEN m ELSE m - n) /\ m % n \in 0 .. n - 1
    BY <2>1, WrapOnce
  <2> QED
    BY <2>1, <2>2 DEF m
<1>2. IsRing(S, z, h, u, n)
  BY <1>1 DEF IsRing
<1>3. RingIs(S, s, h, t, n) /\ RingIs(S, z, h, u, n) /\ k + 1 # n
  BY <1>2, RingShape
<1>4. \A i \in 0 .. n - 1 : z[i] = IF i = t THEN e ELSE s[i]
  BY DEF IsRing
<1> HIDE DEF k, r, z, u, rr
<1>5. NumIn(h, u, n) = k + 1 /\ k \in 0 .. n - 1
  BY <1>1, <1>3 DEF RingIs, IsRing, k
<1>6. ASSUME NEW i \in 1 .. k + 1
      PROVE  rr[i] = Append(r, e)[i]
  <2>1. rr[i] = z[Nth(h, i, n)]
    BY <1>3, <1>5 DEF RingIs, rr
  <2>2. CASE i = k + 1
    <3>1. Nth(h, i, n) = t
      BY <1>3, <2>2 DEF Nth, RingIs, IsRing, k
    <3>2. rr[i] = e
      BY <1>4, <2>1, <3>1 DEF IsRing
    <3> QED
      BY <1>3, <2>2, <3>2 DEF RingIs, k, r
  <2>3. CASE i \in 1..k
    <3>1. Nth(h, i, n) # t /\ Nth(h, i, n) \in 0 .. n - 1
      BY <1>3, <2>3 DEF Nth, RingIs, IsRing, k
    <3>2. rr[i] = s[Nth(h, i, n)]
      BY <1>4, <2>1, <3>1
    <3>3. r[i] = s[Nth(h, i, n)]
      BY <1>3, <2>3 DEF RingIs, k, r
    <3> QED
      BY <1>3, <2>3, <3>2, <3>3 DEF RingIs, k, r
  <2>4. i = k + 1 \/ i \in 1..k
    BY <1>5
  <2> QED
    BY <2>2, <2>3, <2>4
<1>7. rr = Append(r, e)
  <2>1. /\ r \in Seq(S) /\ Len(r) = k /\ rr \in Seq(S) /\ Len(rr) = k + 1
    BY <1>3, <1>5 DEF RingIs, r, rr, k
  <2>2. Append(r, e) \in Seq(S) /\ Len(Append(r, e)) = k + 1
    BY <1>5, <2>1
  <2> QED
    BY <1>5, <1>6, <2>1, <2>2
<1> QED
  BY <1>7 DEF r, rr, u, z, StoreAppends

\* e can replace the last event of the ring buffer, which is in slot l.
LastIsAt(l, e, S, s, h, t, n) ==
    /\ IsRing(S, s, h, t, n) /\ e \in S /\ h # t
    /\ l = IF t = 0 THEN n - 1 ELSE t - 1

\* Overwriting the slot before the tail replaces the last event.
LEMMA RingReplace ==
    \A l, e, S, s, h, t, n :
        LastIsAt(l, e, S, s, h, t, n) =>
            /\ NumIn(h, t, n) > 0
            /\ Ring(s, h, t, n)[NumIn(h, t, n)] = s[l]
            /\ Ring([s EXCEPT ![l] = e], h, t, n)
                 = [Ring(s, h, t, n) EXCEPT ![NumIn(h, t, n)] = e]
<1> SUFFICES ASSUME NEW l, NEW e, NEW S, NEW s, NEW h, NEW t, NEW n,
                    LastIsAt(l, e, S, s, h, t, n)
             PROVE  /\ NumIn(h, t, n) > 0
                    /\ Ring(s, h, t, n)[NumIn(h, t, n)] = s[l]
                    /\ Ring([s EXCEPT ![l] = e], h, t, n)
                         = [Ring(s, h, t, n) EXCEPT ![NumIn(h, t, n)] = e]
  OBVIOUS
<1> USE DEF LastIsAt
<1> DEFINE k == NumIn(h, t, n)
           r == Ring(s, h, t, n)
           z == [s EXCEPT ![l] = e]
           rr == Ring(z, h, t, n)
<1>1. l \in 0 .. n - 1
  BY DEF IsRing
<1>2. IsRing(S, z, h, t, n)
  BY <1>1 DEF IsRing
<1>3. RingIs(S, s, h, t, n) /\ RingIs(S, z, h, t, n)
  BY <1>2, RingShape
<1>4. \A i \in 0 .. n - 1 : z[i] = IF i = l THEN e ELSE s[i]
  BY <1>1 DEF IsRing
<1> HIDE DEF k, r, z, rr
<1>5. k > 0 /\ k \in 0 .. n - 1 /\ Nth(h, k, n) = l
  BY <1>3 DEF RingIs, IsRing, Nth, k
<1>6. r[k] = s[l]
  BY <1>3, <1>5 DEF RingIs, r, k
<1>7. /\ r \in Seq(S) /\ Len(r) = k /\ rr \in Seq(S) /\ Len(rr) = k
  BY <1>3 DEF RingIs, r, rr, k
<1>8. ASSUME NEW i \in 1..k
      PROVE  rr[i] = [r EXCEPT ![k] = e][i]
  <2>1. rr[i] = z[Nth(h, i, n)] /\ r[i] = s[Nth(h, i, n)]
    BY <1>3 DEF RingIs, r, rr, k
  <2>2. CASE i = k
    <3>1. rr[i] = e
      BY <1>1, <1>4, <1>5, <2>1, <2>2
    <3> QED
      BY <1>7, <2>2, <3>1
  <2>3. CASE i # k
    <3>1. Nth(h, i, n) # l /\ Nth(h, i, n) \in 0 .. n - 1
      BY <1>3, <1>5, <2>3 DEF Nth, RingIs, IsRing, k
    <3>2. rr[i] = r[i]
      BY <1>4, <2>1, <3>1
    <3> QED
      BY <1>7, <2>3, <3>2
  <2> QED
    BY <2>2, <2>3
<1>9. rr = [r EXCEPT ![k] = e]
  <2>1. [r EXCEPT ![k] = e] \in Seq(S) /\ Len([r EXCEPT ![k] = e]) = k
    BY <1>5, <1>7
  <2> QED
    BY <1>5, <1>7, <1>8, <2>1
<1> QED
  BY <1>5, <1>6, <1>9 DEF r, rr, k, z

\* Advancing the head drops the oldest event.
LEMMA RingTail ==
    ASSUME NEW S, NEW s, NEW h, NEW t, NEW n, IsRing(S, s, h, t, n), h # t
    PROVE  LET r == Ring(s, h, t, n)
           IN  /\ r # << >> /\ Head(r) = s[h]
               /\ Ring(s, (h + 1) % n, t, n) = Tail(r)
<1> DEFINE k == NumIn(h, t, n)
           r == Ring(s, h, t, n)
           g == (h + 1) % n
           rr == Ring(s, g, t, n)
<1>1. g = (IF h + 1 < n THEN h + 1 ELSE 0) /\ g \in 0 .. n - 1
  <2> DEFINE m == h + 1
  <2>1. m \in Nat /\ m < n + n /\ n \in Nat /\ n > 1 /\ m - n <= 0
    BY DEF IsRing
  <2> HIDE DEF m
  <2>2. m % n = (IF m < n THEN m ELSE m - n) /\ m % n \in 0 .. n - 1
    BY <2>1, WrapOnce
  <2> QED
    BY <2>1, <2>2 DEF m
<1>2. IsRing(S, s, g, t, n)
  BY <1>1 DEF IsRing
<1>3. RingIs(S, s, h, t, n) /\ RingIs(S, s, g, t, n)
  BY <1>2, RingShape
<1> HIDE DEF k, r, g, rr
<1>4. k > 0 /\ k \in 0 .. n - 1 /\ NumIn(g, t, n) = k - 1
  BY <1>1, <1>3 DEF RingIs, IsRing, k
<1>5. r \in Seq(S) /\ Len(r) = k /\ rr \in Seq(S) /\ Len(rr) = k - 1
  BY <1>3, <1>4 DEF RingIs, r, rr, k
<1>6. r # << >> /\ Head(r) = s[h]
  <2>1. r[1] = s[Nth(h, 1, n)] /\ Nth(h, 1, n) = h
    BY <1>3, <1>4 DEF RingIs, IsRing, Nth, r, k
  <2> QED
    BY <1>4, <1>5, <2>1
<1>7. ASSUME NEW i \in 1 .. k - 1
      PROVE  rr[i] = r[i + 1]
  <2>1. rr[i] = s[Nth(g, i, n)]
    BY <1>3, <1>4 DEF RingIs, rr
  <2>2. i + 1 \in 1..k
    BY <1>4
  <2>3. r[i + 1] = s[Nth(h, i + 1, n)]
    BY <1>3, <2>2 DEF RingIs, r, k
  <2>4. Nth(g, i, n) = Nth(h, i + 1, n)
    BY <1>1, <1>4 DEF IsRing, Nth
  <2> QED
    BY <2>1, <2>3, <2>4
<1>8. rr = Tail(r)
  <2>1. /\ Tail(r) \in Seq(S) /\ Len(Tail(r)) = k - 1
        /\ \A i \in 1 .. k - 1 : Tail(r)[i] = r[i + 1]
    BY <1>4, <1>5
  <2> QED
    BY <1>4, <1>5, <1>7, <2>1
<1> QED
  BY <1>6, <1>8 DEF r, rr, g

\* The copies of mieqGrowQueue keep the events and their order.
LEMMA RingGrow ==
    ASSUME NEW S, NEW s, NEW h, NEW t, NEW n, IsRing(S, s, h, t, n),
           NoEvent \in S
    PROVE  LET k == NumIn(h, t, n)
           IN  /\ IsRing(S, Grown(s, h, n), 0, k, 2 * n)
               /\ NumIn(0, k, 2 * n) = k /\ k \in 0 .. n - 1
               /\ Ring(Grown(s, h, n), 0, k, 2 * n) = Ring(s, h, t, n)
<1> DEFINE k == NumIn(h, t, n)
           r == Ring(s, h, t, n)
           z == Grown(s, h, n)
           rr == Ring(z, 0, k, 2 * n)
<1>1. RingIs(S, s, h, t, n)
  BY RingShape
<1>2. k \in 0 .. n - 1 /\ r \in Seq(S) /\ Len(r) = k
  BY <1>1 DEF RingIs
<1>3. z \in [0 .. 2 * n - 1 -> S]
  BY DEF IsRing, Grown
<1> HIDE DEF k, r, z, rr
<1>4. IsRing(S, z, 0, k, 2 * n)
  BY <1>2, <1>3 DEF IsRing
<1>5. RingIs(S, z, 0, k, 2 * n)
  BY <1>4, RingShape
<1>6. NumIn(0, k, 2 * n) = k /\ rr \in Seq(S) /\ Len(rr) = k
  BY <1>2, <1>5 DEF RingIs, rr
<1>7. ASSUME NEW i \in 1..k
      PROVE  rr[i] = r[i]
  <2>1. rr[i] = z[Nth(0, i, 2 * n)] /\ r[i] = s[Nth(h, i, n)]
    BY <1>1, <1>5, <1>6 DEF RingIs, r, rr, k
  <2>2. Nth(0, i, 2 * n) = i - 1 /\ i - 1 \in 0 .. n - 1
    BY <1>2 DEF Nth, IsRing
  <2>3. z[i - 1] = s[Nth(h, i, n)]
    BY <2>2 DEF z, Grown, Nth, IsRing
  <2> QED
    BY <2>1, <2>2, <2>3
<1>8. rr = r
  BY <1>2, <1>6, <1>7
<1> QED
  BY <1>2, <1>4, <1>6, <1>8 DEF r, rr, k, z

-----------------------------------------------------------------------------
(* The inductive invariant.                                                *)

\* What lastMotion says of an event.
MotionOf(e) == IF e.motion THEN e.dev ELSE NoDevice

\* The sequence q of waiting events agrees with lastMotion = m, the devices
\* p, the number g of generated events and the set l of serial numbers.
WellFormed(q, m, p, g, l) ==
    /\ q \in Seq(Event)
    /\ q # << >> => m = MotionOf(q[Len(q)])
    /\ \A i \in 1..Len(q) : q[i].dev \in p /\ q[i].id <= g
    /\ \A i, j \in 1..Len(q) : i < j => q[i].id < q[j].id
    /\ l = {q[i].id : i \in 1..Len(q)}

\* Who holds the input lock, where: the reason why nothing is enqueued
\* between remove_device's drain and the end of the device.
LockDiscipline ==
    /\ pc \in {"dispatch", "off"} => depth = 0
    /\ pc = "loop" => depth = IF task = "remove" THEN 2 ELSE 1
    /\ pc = "handle" => depth = IF task = "remove" THEN 1 ELSE 0
    /\ pc = "free" => depth = 1 /\ head = tail
    /\ pc = "handle" <=> cur # NoEvent
    /\ cur # NoEvent => cur.dev \in present

QueueInv ==
    /\ TypeOK
    /\ LockDiscipline
    /\ WellFormed(Contents, lastMotion, present, generated, live)

\* The fields of an event.
LEMMA EventFields ==
    \A e \in Event : /\ e.id \in 1..MaxEvents /\ e.id \in Nat
                     /\ e.dev \in Devices /\ e.motion \in BOOLEAN
                     /\ e.time \in Times /\ e # NoEvent
  BY NoEventAssumption, BoundsAssumption DEF Event

\* A new event at the end.
LEMMA WellFormedAppend ==
    ASSUME NEW q, NEW m, NEW p, NEW g \in Nat, NEW l, WellFormed(q, m, p, g, l),
           NEW e \in Event, e.id = g + 1, e.dev \in p
    PROVE  WellFormed(Append(q, e), MotionOf(e), p, g + 1, l \cup {e.id})
<1> DEFINE r == Append(q, e)
           k == Len(q)
<1>1. /\ r \in Seq(Event) /\ Len(r) = k + 1 /\ k \in Nat
      /\ r[k + 1] = e /\ \A i \in 1..k : r[i] = q[i]
  BY DEF WellFormed
<1>2. \A i \in 1..k : q[i] \in Event /\ q[i].id \in Nat /\ q[i].id <= g
  <2>1. \A i \in 1..k : q[i] \in Event /\ q[i].id <= g
    BY DEF WellFormed
  <2> QED
    BY <2>1, EventFields
<1> HIDE DEF r
<1>3. \A i \in 1 .. k + 1 : r[i].dev \in p /\ r[i].id <= g + 1
  BY <1>1, <1>2 DEF WellFormed
<1>4. \A i, j \in 1 .. k + 1 : i < j => r[i].id < r[j].id
  <2> SUFFICES ASSUME NEW i \in 1 .. k + 1, NEW j \in 1 .. k + 1, i < j
               PROVE  r[i].id < r[j].id
    OBVIOUS
  <2>1. i \in 1..k /\ r[i] = q[i]
    BY <1>1
  <2>2. CASE j = k + 1
    BY <1>1, <1>2, <2>1, <2>2
  <2>3. CASE j \in 1..k
    BY <1>1, <2>1, <2>3 DEF WellFormed
  <2> QED
    BY <1>1, <2>2, <2>3
<1>5. l \cup {e.id} = {r[i].id : i \in 1 .. k + 1}
  <2>1. {r[i].id : i \in 1 .. k + 1} = {r[i].id : i \in 1..k} \cup {r[k + 1].id}
    BY <1>1
  <2>2. {r[i].id : i \in 1..k} = {q[i].id : i \in 1..k}
    BY <1>1
  <2> QED
    BY <1>1, <2>1, <2>2 DEF WellFormed
<1> QED
  BY <1>1, <1>3, <1>4, <1>5 DEF WellFormed, r

\* A motion event in place of the last one.
LEMMA WellFormedReplace ==
    ASSUME NEW q, NEW m, NEW p, NEW g \in Nat, NEW l, WellFormed(q, m, p, g, l),
           NEW e \in Event, e.id = g + 1, e.dev \in p, q # << >>
    PROVE  WellFormed([q EXCEPT ![Len(q)] = e], MotionOf(e), p, g + 1,
                      (l \ {q[Len(q)].id}) \cup {e.id})
<1> DEFINE k == Len(q)
           r == [q EXCEPT ![k] = e]
<1>1. /\ r \in Seq(Event) /\ Len(r) = k /\ k \in Nat /\ k > 0
      /\ r[k] = e /\ \A i \in 1 .. k - 1 : r[i] = q[i]
  BY DEF WellFormed
<1>2. \A i \in 1..k : q[i] \in Event /\ q[i].id \in Nat /\ q[i].id <= g
  <2>1. \A i \in 1..k : q[i] \in Event /\ q[i].id <= g
    BY DEF WellFormed
  <2> QED
    BY <2>1, EventFields
<1> HIDE DEF r
<1>3. ASSUME NEW i \in 1..k
      PROVE  r[i].dev \in p /\ r[i].id <= g + 1
  <2>1. CASE i = k
    BY <1>1, <2>1
  <2>2. CASE i \in 1 .. k - 1
    <3>1. r[i] = q[i]
      BY <1>1, <2>2
    <3> QED
      BY <1>2, <3>1 DEF WellFormed
  <2> QED
    BY <1>1, <2>1, <2>2
<1>4. \A i, j \in 1..k : i < j => r[i].id < r[j].id
  <2> SUFFICES ASSUME NEW i \in 1..k, NEW j \in 1..k, i < j
               PROVE  r[i].id < r[j].id
    OBVIOUS
  <2>1. i \in 1 .. k - 1 /\ r[i] = q[i]
    BY <1>1
  <2>2. CASE j = k
    BY <1>1, <1>2, <2>1, <2>2
  <2>3. CASE j \in 1 .. k - 1
    BY <1>1, <2>1, <2>3 DEF WellFormed
  <2> QED
    BY <1>1, <2>2, <2>3
<1>5. (l \ {q[k].id}) \cup {e.id} = {r[i].id : i \in 1..k}
  <2>1. l \ {q[k].id} = {q[i].id : i \in 1 .. k - 1}
    <3>1. l = {q[i].id : i \in 1..k}
      BY DEF WellFormed
    <3>2. \A i \in 1 .. k - 1 : q[i].id # q[k].id
      BY <1>1, <1>2 DEF WellFormed
    <3> QED
      BY <1>1, <3>1, <3>2
  <2>2. {r[i].id : i \in 1..k} = {r[i].id : i \in 1 .. k - 1} \cup {r[k].id}
    BY <1>1
  <2>3. {r[i].id : i \in 1 .. k - 1} = {q[i].id : i \in 1 .. k - 1}
    BY <1>1
  <2> QED
    BY <1>1, <2>1, <2>2, <2>3
<1> QED
  BY <1>1, <1>3, <1>4, <1>5 DEF WellFormed, r

\* The oldest event is gone.
LEMMA WellFormedTail ==
    ASSUME NEW q, NEW m, NEW p, NEW g, NEW l, WellFormed(q, m, p, g, l),
           q # << >>
    PROVE  WellFormed(Tail(q), m, p, g, l \ {Head(q).id})
<1> DEFINE k == Len(q)
           r == Tail(q)
<1>1. /\ r \in Seq(Event) /\ Len(r) = k - 1 /\ k \in Nat /\ k > 0
      /\ \A i \in 1 .. k - 1 : r[i] = q[i + 1]
      /\ Head(q) = q[1]
  BY DEF WellFormed
<1>2. \A i \in 1..k : q[i] \in Event /\ q[i].id \in Nat
  <2>1. \A i \in 1..k : q[i] \in Event
    BY <1>1 DEF WellFormed
  <2> QED
    BY <2>1, EventFields
<1> HIDE DEF r
<1>3. r # << >> => r[Len(r)] = q[k]
  BY <1>1
<1>4. l \ {q[1].id} = {r[i].id : i \in 1 .. k - 1}
  <2>1. l = {q[i].id : i \in 1..k}
    BY DEF WellFormed
  <2>2. \A i \in 1..k : q[i].id = q[1].id => i = 1
    BY <1>1, <1>2 DEF WellFormed
  <2>3. ASSUME NEW x \in l \ {q[1].id}
        PROVE  x \in {r[i].id : i \in 1 .. k - 1}
    <3>1. PICK i \in 1..k : x = q[i].id
      BY <2>1
    <3>2. i # 1
      BY <3>1
    <3>3. i - 1 \in 1 .. k - 1 /\ r[i - 1] = q[i]
      BY <1>1, <3>2
    <3> QED
      BY <3>1, <3>3
  <2>4. ASSUME NEW i \in 1 .. k - 1
        PROVE  r[i].id \in l \ {q[1].id}
    <3>1. i + 1 \in 1..k /\ i + 1 # 1 /\ r[i] = q[i + 1]
      BY <1>1
    <3> QED
      BY <2>1, <2>2, <3>1
  <2> QED
    BY <2>3, <2>4
<1>5. \A i \in 1 .. k - 1 : r[i].dev \in p /\ r[i].id <= g
  BY <1>1 DEF WellFormed
<1>6. \A i, j \in 1 .. k - 1 : i < j => r[i].id < r[j].id
  BY <1>1 DEF WellFormed
<1> QED
  BY <1>1, <1>3, <1>4, <1>5, <1>6 DEF WellFormed, r

-----------------------------------------------------------------------------
(* The invariant is inductive.                                             *)

\* The buffer is a ring buffer in the sense of the lemmas above.
LEMMA TypeOKIsRing ==
    TypeOK => IsRing(Event \cup {NoEvent}, slots, head, tail, nevents)
  BY SizeFacts DEF TypeOK, IsRing

\* The queue is empty exactly when head and tail meet.
LEMMA EmptyContents ==
    ASSUME TypeOK
    PROVE  (Contents = << >>) <=> (head = tail)
<1>1. RingIs(Event \cup {NoEvent}, slots, head, tail, nevents)
  BY TypeOKIsRing, RingShape
<1>2. NumEnqueued = 0 <=> head = tail
  BY <1>1, TypeOKIsRing DEF RingIs, IsRing, NumEnqueued
<1> QED
  BY <1>1, <1>2 DEF RingIs, NumEnqueued, Contents

\* What mieqEnqueue does to the queue: merge, append, or toss.
LEMMA EnqueueEffect ==
    ASSUME QueueInv, NEW e \in Event,
           MergeMotion(e) \/ AppendEvent(e) \/ GrowAndAppend(e) \/ Toss(e)
    PROVE  /\ IsRing(Event \cup {NoEvent}, slots', head', tail', nevents')
           /\ nevents' \in Sizes
           /\ \/ /\ Contents # << >> /\ Merges(e)
                 /\ Contents' = [Contents EXCEPT ![Len(Contents)] = e]
                 /\ live' = (live \ {Contents[Len(Contents)].id}) \cup {e.id}
                 /\ lastMotion' = MotionOf(e)
              \/ /\ Contents' = Append(Contents, e)
                 /\ live' = live \cup {e.id}
                 /\ lastMotion' = MotionOf(e)
              \/ /\ Contents' = Contents
                 /\ UNCHANGED <<live, lastMotion>>
<1> DEFINE S == Event \cup {NoEvent}
<1>1. IsRing(S, slots, head, tail, nevents) /\ nevents \in Sizes
  BY TypeOKIsRing DEF QueueInv, TypeOK
<1>2. RingIs(S, slots, head, tail, nevents)
  BY <1>1, RingShape
<1>3. e \in S /\ NoEvent \in S
  OBVIOUS
<1> HIDE DEF S
<1>4. CASE MergeMotion(e)
  <2>1. /\ slots' = [slots EXCEPT ![LastSlot] = e]
        /\ nevents' = nevents /\ head' = head
        /\ tail' = (LastSlot + 1) % nevents
        /\ lastMotion' = MotionOf(e) /\ Merges(e) /\ head # tail
        /\ live' = (live \ {slots[LastSlot].id}) \cup {e.id}
    BY <1>4 DEF MergeMotion, Store, MotionOf, Merges
  <2>2. LastSlot = IF tail = 0 THEN nevents - 1 ELSE tail - 1
    BY LastSlotValue DEF QueueInv
  <2>3. tail' = tail
    <3>1. CASE tail = 0
      BY <1>1, <2>1, <2>2, <3>1 DEF IsRing
    <3>2. CASE tail # 0
      <4>1. LastSlot + 1 = tail
        BY <1>1, <2>2, <3>2 DEF IsRing
      <4> QED
        BY <1>1, <2>1, <4>1 DEF IsRing
    <3> QED
      BY <3>1, <3>2
  <2>4. IsRing(S, slots', head', tail', nevents')
    BY <1>1, <1>3, <2>1, <2>3 DEF IsRing
  <2>5. /\ NumEnqueued > 0 /\ Contents[NumEnqueued] = slots[LastSlot]
        /\ Ring([slots EXCEPT ![LastSlot] = e], head, tail, nevents)
             = [Contents EXCEPT ![NumEnqueued] = e]
    <3>1. LastIsAt(LastSlot, e, S, slots, head, tail, nevents)
      BY <1>1, <1>3, <2>1, <2>2 DEF LastIsAt
    <3> QED
      BY <3>1, RingReplace DEF NumEnqueued, Contents
  <2>6. Len(Contents) = NumEnqueued
    BY <1>2 DEF RingIs, Contents, NumEnqueued
  <2>7. Contents' = [Contents EXCEPT ![NumEnqueued] = e]
    BY <2>1, <2>3, <2>5 DEF Contents
  <2>8. Contents # << >>
    BY <2>1, EmptyContents DEF QueueInv
  <2> QED
    BY <1>1, <2>1, <2>4, <2>5, <2>6, <2>7, <2>8 DEF S
<1>5. CASE AppendEvent(e)
  <2>1. /\ slots' = [slots EXCEPT ![tail] = e]
        /\ nevents' = nevents /\ head' = head
        /\ tail' = (tail + 1) % nevents
        /\ lastMotion' = MotionOf(e)
        /\ live' = live \cup {e.id}
        /\ NumIn(head, tail, nevents) + 1 # nevents
    BY <1>5 DEF AppendEvent, Store, MotionOf, Full, NumEnqueued
  <2>2. IsRing(S, slots', head', tail', nevents')
    BY <1>1, <1>3, <2>1 DEF IsRing
  <2>3. Contents' = Append(Contents, e)
    <3>1. HasRoomFor(e, S, slots, head, tail, nevents)
      BY <1>1, <1>3, <2>1 DEF HasRoomFor
    <3>2. Ring([slots EXCEPT ![tail] = e], head, (tail + 1) % nevents, nevents)
            = Append(Contents, e)
      <4>1. StoreAppends(e, slots, head, tail, nevents)
        BY <3>1, RingAppend
      <4> QED
        BY <4>1 DEF Contents, StoreAppends
    <3> QED
      BY <2>1, <3>2 DEF Contents
  <2> QED
    BY <1>1, <2>1, <2>2, <2>3 DEF S
<1>6. CASE GrowAndAppend(e)
  <2> DEFINE g == Grown(slots, head, nevents)
             k == NumIn(head, tail, nevents)
             n == 2 * nevents
  <2>1. /\ slots' = [g EXCEPT ![k] = e]
        /\ nevents' = n /\ head' = 0 /\ n \in Sizes
        /\ tail' = (k + 1) % n
        /\ lastMotion' = MotionOf(e)
        /\ live' = live \cup {e.id}
    BY <1>6 DEF GrowAndAppend, Store, MotionOf, NumEnqueued
  <2>2. /\ IsRing(S, g, 0, k, n) /\ NumIn(0, k, n) = k
        /\ k \in 0 .. nevents - 1
        /\ Ring(g, 0, k, n) = Contents
    BY <1>1, <1>3, RingGrow DEF Contents
  <2>3. n \in Nat /\ k + 1 # n
    BY <1>1, <2>2 DEF IsRing
  <2> HIDE DEF g, k, n
  <2>4. IsRing(S, slots', head', tail', nevents')
    BY <1>3, <2>1, <2>2 DEF IsRing
  <2>5. Ring([g EXCEPT ![k] = e], 0, (k + 1) % n, n) = Append(Ring(g, 0, k, n), e)
    <3>1. HasRoomFor(e, S, g, 0, k, n)
      BY <1>3, <2>2, <2>3 DEF HasRoomFor
    <3>2. StoreAppends(e, g, 0, k, n)
      BY <3>1, RingAppend
    <3> QED
      BY <3>2 DEF StoreAppends
  <2>6. Contents' = Append(Contents, e)
    BY <2>1, <2>2, <2>5 DEF Contents
  <2> QED
    BY <2>1, <2>4, <2>6 DEF S
<1>7. CASE Toss(e)
  BY <1>1, <1>7 DEF Toss, queueVars, Contents, S
<1> QED
  BY <1>4, <1>5, <1>6, <1>7

\* mieqInit establishes the invariant.
LEMMA InitEstablishes == Init => QueueInv
<1> SUFFICES ASSUME Init PROVE QueueInv
  OBVIOUS
<1>1. TypeOK
  BY SizeFacts, SizesAssumption, BoundsAssumption DEF Init, TypeOK
<1>2. Contents = << >>
  BY <1>1, EmptyContents DEF Init
<1>3. WellFormed(Contents, lastMotion, present, generated, live)
  BY <1>2 DEF WellFormed, Init
<1> QED
  BY <1>1, <1>3 DEF QueueInv, LockDiscipline, Init

\* mieqEnqueue keeps the invariant: in particular it cannot run between the
\* drain of remove_device and the end of the device.
LEMMA EnqueuePreserves ==
    ASSUME QueueInv, NEW d \in Devices, NEW m \in BOOLEAN, NEW t \in Times,
           mieqEnqueue(d, m, t)
    PROVE  QueueInv'
<1> DEFINE e == [id |-> generated + 1, dev |-> d, motion |-> m, time |-> t]
<1>1. /\ depth = 0 \/ pc = "handle"
      /\ d \in enabled /\ generated' = generated + 1
      /\ MergeMotion(e) \/ AppendEvent(e) \/ GrowAndAppend(e) \/ Toss(e)
      /\ UNCHANGED <<threadVars, deviceVars>>
  BY DEF mieqEnqueue
<1>2. e \in Event
  BY BoundsAssumption DEF QueueInv, TypeOK, mieqEnqueue, Event
<1>3. generated + 1 \in 0..MaxEvents /\ generated \in Nat
  BY BoundsAssumption DEF QueueInv, TypeOK, mieqEnqueue
<1>4. e.id = generated + 1 /\ e.dev \in present
  BY <1>1 DEF QueueInv, TypeOK
<1>5. lastEventTime' \in Times /\ dropped' \in Nat
  BY <1>1, EventFields DEF MergeMotion, AppendEvent, GrowAndAppend, Toss, Store,
     queueVars, QueueInv, TypeOK
<1> HIDE DEF e
<1>6. /\ IsRing(Event \cup {NoEvent}, slots', head', tail', nevents')
      /\ nevents' \in Sizes
      /\ \/ /\ Contents # << >>
            /\ Contents' = [Contents EXCEPT ![Len(Contents)] = e]
            /\ live' = (live \ {Contents[Len(Contents)].id}) \cup {e.id}
            /\ lastMotion' = MotionOf(e)
         \/ /\ Contents' = Append(Contents, e)
            /\ live' = live \cup {e.id}
            /\ lastMotion' = MotionOf(e)
         \/ Contents' = Contents /\ live' = live /\ lastMotion' = lastMotion
  BY <1>1, <1>2, EnqueueEffect
<1>7. WellFormed(Contents, lastMotion, present, generated, live)
  BY DEF QueueInv
<1>8. WellFormed(Contents', lastMotion', present, generated + 1, live')
  <2>1. CASE /\ Contents # << >>
             /\ Contents' = [Contents EXCEPT ![Len(Contents)] = e]
             /\ live' = (live \ {Contents[Len(Contents)].id}) \cup {e.id}
             /\ lastMotion' = MotionOf(e)
    BY <1>2, <1>3, <1>4, <1>7, <2>1, WellFormedReplace
  <2>2. CASE /\ Contents' = Append(Contents, e)
             /\ live' = live \cup {e.id}
             /\ lastMotion' = MotionOf(e)
    BY <1>2, <1>3, <1>4, <1>7, <2>2, WellFormedAppend
  <2>3. CASE Contents' = Contents /\ live' = live /\ lastMotion' = lastMotion
    <3>1. \A i \in 1..Len(Contents) : Contents[i].id \in Nat
      BY <1>7, EventFields DEF WellFormed
    <3> QED
      BY <1>3, <1>7, <2>3, <3>1 DEF WellFormed
  <2> QED
    BY <1>6, <2>1, <2>2, <2>3
<1>9. lastMotion' \in Devices \cup {NoDevice} /\ live' \subseteq 1..MaxEvents
  <2>1. lastMotion' \in Devices \cup {NoDevice}
    BY <1>2, <1>6, EventFields DEF MotionOf, QueueInv, TypeOK
  <2>2. live' \subseteq 1..MaxEvents
    <3>1. live \subseteq 1..MaxEvents
      BY DEF QueueInv, TypeOK
    <3>2. live' \subseteq live \cup {e.id}
      BY <1>6
    <3> QED
      BY <1>2, <3>1, <3>2, EventFields
  <2> QED
    BY <2>1, <2>2
<1>10. TypeOK'
  BY <1>1, <1>3, <1>5, <1>6, <1>9
     DEF TypeOK, IsRing, QueueInv, threadVars, deviceVars
<1>11. LockDiscipline'
  BY <1>1 DEF QueueInv, LockDiscipline, TypeOK, threadVars, deviceVars
<1> QED
  BY <1>1, <1>8, <1>10, <1>11 DEF QueueInv, deviceVars

\* Taking an event off the queue keeps the invariant.
LEMMA DequeuePreserves ==
    ASSUME QueueInv, Dequeue
    PROVE  QueueInv' /\ Contents # << >> /\ cur' = Head(Contents)
                     /\ Contents' = Tail(Contents)
<1>1. /\ pc = "loop" /\ head # tail /\ cur' = slots[head]
      /\ head' = (head + 1) % nevents
      /\ live' = live \ {slots[head].id}
      /\ depth' = depth - 1 /\ pc' = "handle"
      /\ UNCHANGED <<tail, nevents, slots, lastMotion, lastEventTime, dropped,
                     generated, task, target, present, enabled>>
  BY DEF Dequeue, Pending, deviceVars
<1>2. IsRing(Event \cup {NoEvent}, slots, head, tail, nevents)
  BY TypeOKIsRing DEF QueueInv
<1>3. /\ Contents # << >> /\ Head(Contents) = slots[head]
      /\ Contents' = Tail(Contents)
  BY <1>1, <1>2, RingTail DEF Contents
<1>4. WellFormed(Contents, lastMotion, present, generated, live)
  BY DEF QueueInv
<1>5. WellFormed(Contents', lastMotion, present, generated, live')
  BY <1>1, <1>3, <1>4, WellFormedTail
<1>6. slots[head] \in Event /\ slots[head].dev \in present
  <2>1. Contents \in Seq(Event) /\ Len(Contents) > 0
    BY <1>3, <1>4 DEF WellFormed
  <2> QED
    BY <1>3, <1>4, <2>1 DEF WellFormed
<1>7. head' \in 0 .. nevents - 1
  BY <1>1, <1>2 DEF IsRing
<1>8. live' \subseteq 1..MaxEvents
  BY <1>1 DEF QueueInv, TypeOK
<1>9. depth = (IF task = "remove" THEN 2 ELSE 1)
  BY <1>1 DEF QueueInv, LockDiscipline
<1>10. TypeOK'
  BY <1>1, <1>6, <1>7, <1>8, <1>9 DEF TypeOK, QueueInv
<1>11. LockDiscipline'
  BY <1>1, <1>6, <1>9, EventFields DEF LockDiscipline
<1> QED
  BY <1>1, <1>3, <1>5, <1>10, <1>11 DEF QueueInv

\* The steps of the main thread that leave the buffer alone keep the
\* invariant; the device that goes away has no event in the queue.
LEMMA MainPreserves ==
    ASSUME QueueInv,
           \/ mieqProcessInputEvents \/ HandleEvent \/ Drained
           \/ DeviceOff \/ RemoveDevice
           \/ \E d \in Devices :
                 DisableDevice(d) \/ EnableDevice(d) \/ remove_device(d)
    PROVE  QueueInv' /\ Contents' = Contents
<1> USE DEF QueueInv, LockDiscipline, TypeOK, queueVars, threadVars, deviceVars
<1>1. UNCHANGED <<head, tail, nevents, slots, lastMotion, lastEventTime,
                  generated, live>>
  BY DEF mieqProcessInputEvents, HandleEvent, Drained, DeviceOff, RemoveDevice,
     DisableDevice, EnableDevice, remove_device, StartDraining
<1>2. Contents' = Contents
  BY <1>1 DEF Contents
<1>3. TypeOK' /\ LockDiscipline'
  <2>1. CASE mieqProcessInputEvents
    BY <1>1, <2>1 DEF mieqProcessInputEvents, StartDraining
  <2>2. CASE HandleEvent
    BY <1>1, <2>2 DEF HandleEvent
  <2>3. CASE Drained
    BY <1>1, <2>3 DEF Drained, Pending
  <2>4. CASE DeviceOff
    BY <1>1, <2>4 DEF DeviceOff
  <2>5. CASE RemoveDevice
    BY <1>1, <2>5 DEF RemoveDevice
  <2>6. ASSUME NEW d \in Devices, DisableDevice(d)
        PROVE  TypeOK' /\ LockDiscipline'
    BY <1>1, <2>6 DEF DisableDevice, StartDraining
  <2>7. ASSUME NEW d \in Devices, EnableDevice(d)
        PROVE  TypeOK' /\ LockDiscipline'
    BY <1>1, <2>7 DEF EnableDevice
  <2>8. ASSUME NEW d \in Devices, remove_device(d)
        PROVE  TypeOK' /\ LockDiscipline'
    BY <1>1, <2>8 DEF remove_device, StartDraining
  <2> QED
    BY <2>1, <2>2, <2>3, <2>4, <2>5, <2>6, <2>7, <2>8
<1>4. present' = present \/ Contents = << >>
  <2>1. CASE RemoveDevice
    BY <2>1, EmptyContents DEF RemoveDevice
  <2>2. CASE ~RemoveDevice
    BY <2>2 DEF mieqProcessInputEvents, HandleEvent, Drained, DeviceOff,
       DisableDevice, EnableDevice, remove_device, StartDraining
  <2> QED
    BY <2>1, <2>2
<1>5. WellFormed(Contents', lastMotion', present', generated', live')
  BY <1>1, <1>2, <1>4 DEF WellFormed
<1> QED
  BY <1>2, <1>3, <1>5

-----------------------------------------------------------------------------
(* The results.                                                            *)

\* Every step keeps the invariant.
LEMMA StepPreserves == QueueInv /\ [Next]_vars => QueueInv'
<1> SUFFICES ASSUME QueueInv, [Next]_vars PROVE QueueInv'
  OBVIOUS
<1>1. ASSUME NEW d \in Devices, NEW m \in BOOLEAN, NEW t \in Times,
             mieqEnqueue(d, m, t)
      PROVE  QueueInv'
  BY <1>1, EnqueuePreserves
<1>2. CASE Dequeue
  BY <1>2, DequeuePreserves
<1>3. CASE \/ mieqProcessInputEvents \/ HandleEvent \/ Drained
           \/ DeviceOff \/ RemoveDevice
           \/ \E d \in Devices :
                 DisableDevice(d) \/ EnableDevice(d) \/ remove_device(d)
  BY <1>3, MainPreserves
<1>4. CASE UNCHANGED vars
  BY <1>4 DEF vars, queueVars, threadVars, deviceVars, QueueInv, TypeOK,
     LockDiscipline, Contents
<1> QED
  BY <1>1, <1>2, <1>3, <1>4 DEF Next, MainStep

\* The inductive invariant holds of every behaviour of the queue.
THEOREM QueueInvariant == Spec => []QueueInv
<1>1. Init => QueueInv
  BY InitEstablishes
<1>2. QueueInv /\ [Next]_vars => QueueInv'
  BY StepPreserves
<1> QED
  BY <1>1, <1>2, PTL DEF Spec

\* Head and tail always index the array mieqGrowQueue last allocated, and
\* the nesting of input_lock() never exceeds two.
THEOREM TypeCorrect == Spec => []TypeOK
<1>1. QueueInv => TypeOK
  BY DEF QueueInv
<1> QED
  BY <1>1, QueueInvariant, PTL

\* mieqProcessDeviceEvent never sees an event of a device that RemoveDevice
\* has freed.
THEOREM DevicesOutliveEvents == Spec => []NoDanglingDevice
<1>1. QueueInv => NoDanglingDevice
  <2> SUFFICES ASSUME QueueInv PROVE NoDanglingDevice
    OBVIOUS
  <2>1. RingIs(Event \cup {NoEvent}, slots, head, tail, nevents)
    BY TypeOKIsRing, RingShape DEF QueueInv
  <2>2. Len(Contents) = NumEnqueued
    BY <2>1 DEF RingIs, Contents, NumEnqueued
  <2> QED
    BY <2>2 DEF QueueInv, LockDiscipline, WellFormed, NoDanglingDevice
<1> QED
  BY <1>1, QueueInvariant, PTL

\* Wrap-around, growth and merging lose no accepted event.
THEOREM AcceptedEventsAreKept == Spec => []NoEventLost
<1>1. QueueInv => NoEventLost
  <2> SUFFICES ASSUME QueueInv PROVE NoEventLost
    OBVIOUS
  <2>1. RingIs(Event \cup {NoEvent}, slots, head, tail, nevents)
    BY TypeOKIsRing, RingShape DEF QueueInv
  <2>2. Len(Contents) = NumEnqueued
    BY <2>1 DEF RingIs, Contents, NumEnqueued
  <2> QED
    BY <2>2 DEF QueueInv, WellFormed, NoEventLost
<1> QED
  BY <1>1, QueueInvariant, PTL

\* Every step of the circular buffer is a step of the queue of EventFifo, or
\* changes nothing there.
LEMMA StepRefines == QueueInv /\ [Next]_vars => [Fifo!Next]_(Fifo!vars)
<1> SUFFICES ASSUME QueueInv, [Next]_vars PROVE [Fifo!Next]_(Fifo!vars)
  OBVIOUS
<1>1. ASSUME NEW d \in Devices, NEW m \in BOOLEAN, NEW t \in Times,
             mieqEnqueue(d, m, t)
      PROVE  [Fifo!Next]_(Fifo!vars)
  <2> DEFINE e == [id |-> generated + 1, dev |-> d, motion |-> m, time |-> t]
  <2>1. /\ MergeMotion(e) \/ AppendEvent(e) \/ GrowAndAppend(e) \/ Toss(e)
        /\ UNCHANGED cur
    BY <1>1 DEF mieqEnqueue, threadVars
  <2>2. e \in Event
    BY <1>1, BoundsAssumption DEF QueueInv, TypeOK, mieqEnqueue, Event
  <2> HIDE DEF e
  <2>3. \/ /\ Contents # << >> /\ Merges(e)
           /\ Contents' = [Contents EXCEPT ![Len(Contents)] = e]
        \/ Contents' = Append(Contents, e)
        \/ Contents' = Contents
    BY <2>1, <2>2, EnqueueEffect
  <2>4. CASE /\ Contents # << >> /\ Merges(e)
             /\ Contents' = [Contents EXCEPT ![Len(Contents)] = e]
    <3>1. /\ e.motion /\ lastMotion = e.dev
          /\ lastMotion = MotionOf(Contents[Len(Contents)])
      BY <2>4 DEF Merges, QueueInv, WellFormed
    <3>2. /\ Contents[Len(Contents)].motion
          /\ Contents[Len(Contents)].dev = e.dev
      BY <2>2, <3>1, EventFields, DevicesAssumption DEF MotionOf
    <3>3. Fifo!Supersede(e)
      BY <2>1, <2>4, <3>1, <3>2 DEF Fifo!Supersede
    <3> QED
      BY <2>2, <3>3 DEF Fifo!Next
  <2>5. CASE Contents' = Append(Contents, e)
    <3>1. Fifo!Put(e)
      BY <2>1, <2>5 DEF Fifo!Put
    <3> QED
      BY <2>2, <3>1 DEF Fifo!Next
  <2>6. CASE Contents' = Contents
    BY <2>1, <2>6 DEF Fifo!vars
  <2> QED
    BY <2>3, <2>4, <2>5, <2>6
<1>2. CASE Dequeue
  <2>1. /\ Contents # << >> /\ cur' = Head(Contents)
        /\ Contents' = Tail(Contents)
    BY <1>2, DequeuePreserves
  <2>2. cur = NoEvent
    BY <1>2 DEF Dequeue, QueueInv, LockDiscipline
  <2> QED
    BY <2>1, <2>2 DEF Fifo!Take, Fifo!Next
<1>3. CASE HandleEvent
  <2>1. Contents' = Contents
    BY <1>3, MainPreserves
  <2>2. cur # NoEvent /\ cur' = NoEvent
    BY <1>3 DEF HandleEvent, QueueInv, LockDiscipline
  <2> QED
    BY <2>1, <2>2 DEF Fifo!Finish, Fifo!Next
<1>4. CASE \/ mieqProcessInputEvents \/ Drained \/ DeviceOff \/ RemoveDevice
           \/ \E d \in Devices :
                 DisableDevice(d) \/ EnableDevice(d) \/ remove_device(d)
  <2>1. Contents' = Contents
    BY <1>4, MainPreserves
  <2>2. cur' = cur
    BY <1>4 DEF mieqProcessInputEvents, Drained, DeviceOff, RemoveDevice,
       DisableDevice, EnableDevice, remove_device, StartDraining, threadVars
  <2> QED
    BY <2>1, <2>2 DEF Fifo!vars
<1>5. CASE UNCHANGED vars
  BY <1>5 DEF vars, queueVars, threadVars, Contents, Fifo!vars
<1> QED
  BY <1>1, <1>2, <1>3, <1>4, <1>5 DEF Next, MainStep

\* The circular buffer of mieq.c implements the first-in first-out queue, for
\* every buffer size, number of devices and number of events.
THEOREM BufferImplementsFifo == Spec => ImplementsFifo
<1>1. Init => Fifo!Init
  <2> SUFFICES ASSUME Init PROVE Fifo!Init
    OBVIOUS
  <2>1. Contents = << >>
    BY InitEstablishes, EmptyContents DEF QueueInv, Init
  <2> QED
    BY <2>1 DEF Init, Fifo!Init
<1>2. QueueInv /\ [Next]_vars => [Fifo!Next]_(Fifo!vars)
  BY StepRefines
<1> QED
  BY <1>1, <1>2, QueueInvariant, PTL DEF Spec, ImplementsFifo, Fifo!Spec
=============================================================================
