---------------------------- MODULE PresentProofs ----------------------------
(***************************************************************************)
(* Proofs about Xext/present, for any windows, requests and number of      *)
(* frames.  Every handler is a function from the state of the extension to *)
(* its state, so the invariants are predicates of a state t, and a lemma   *)
(* for each function says which of them it keeps.  In the middle of        *)
(* present_execute a vblank is on no list; L is the set of such vblanks.   *)
(*                                                                         *)
(* QueueInv, FlipInv, PixmapInv, TimeInv, ExecInv, CoverInv and LeftInv    *)
(* together are inductive (PresentInvariant), whatever the driver answers; *)
(* the properties that TLC checks follow.  Where the driver does not fail  *)
(* to queue events that flips wait for (QueueHolds), TimeInv says moreover *)
(* that such an event is not taken for the end of a flip (NeverMistaken).  *)
(***************************************************************************)
EXTENDS Present, NaturalsInduction, WellFoundedInduction, SequenceTheorems,
        FiniteSetTheorems, TLAPS

-----------------------------------------------------------------------------
(* Lists without repetition.                                               *)

Distinct(q) == \A j, k \in 1 .. Len(q) : q[j] = q[k] => j = k

LEMMA LeastIndex ==
    ASSUME NEW S \in SUBSET Nat, S # {}
    PROVE  Min(S) \in S /\ \A y \in S : Min(S) <= y
<1> DEFINE R == OpToRel(<, Nat)
<1>1. IsWellFoundedOn(R, Nat)
  BY NatLessThanWellFounded
<1>2. \A x, y \in Nat : ~(<<y, x>> \in R) => x <= y
  BY DEF OpToRel
<1> HIDE DEF R
<1>3. \E x \in S : \A y \in S : ~(<<y, x>> \in R)
  BY <1>1, WFMin
<1>4. \E x \in S : \A y \in S : x <= y
  BY <1>2, <1>3
<1> QED BY <1>4 DEF Min

LEMMA RangeFacts ==
    ASSUME NEW S, NEW q \in Seq(S)
    PROVE  /\ Range(q) \subseteq S
           /\ \A x : x \in Range(q) <=> \E k \in 1 .. Len(q) : q[k] = x
BY DEF Range

\* q without e: what xorg_list_del leaves.
LEMMA RemoveFacts ==
    ASSUME NEW S, NEW q \in Seq(S), NEW e, Distinct(q)
    PROVE  /\ RemoveFirst(q, e) \in Seq(S)
           /\ Distinct(RemoveFirst(q, e))
           /\ Range(RemoveFirst(q, e)) = Range(q) \ {e}
<1> DEFINE r == RemoveFirst(q, e)
           I == {i \in 1 .. Len(q) : q[i] = e}
<1>0. Len(q) \in Nat
  OBVIOUS
<1>1. CASE I = {}
  <2>1. r = q
    BY <1>1 DEF RemoveFirst
  <2>2. \A i \in 1 .. Len(q) : q[i] # e
    BY <1>1
  <2>3. e \notin Range(q)
    BY <2>2, RangeFacts
  <2> QED BY <2>1, <2>3
<1>2. CASE I # {}
  <2> DEFINE p == Min(I)
  <2>0. I \in SUBSET Nat
    BY <1>0
  <2>1. p \in I
    <3> HIDE DEF I
    <3> QED BY <2>0, <1>2, LeastIndex
  <2>2. r = RemoveAt(q, p)
    BY <1>2 DEF RemoveFirst, SelectInSeq
  <2> HIDE DEF p
  <2>3. p \in 1 .. Len(q) /\ q[p] = e
    BY <2>1
  <2> DEFINE a == SubSeq(q, 1, p - 1)
             b == SubSeq(q, p + 1, Len(q))
  <2>4. a \in Seq(S) /\ Len(a) = p - 1 /\ \A i \in 1 .. p - 1 : a[i] = q[i]
    BY <2>3
  <2>5. /\ b \in Seq(S) /\ Len(b) = Len(q) - p
        /\ \A i \in 1 .. Len(q) - p : b[i] = q[p + i]
    BY <2>3
  <2>6. r = a \o b
    BY <2>2 DEF RemoveAt
  <2> HIDE DEF a, b, r, I
  <2>7. r \in Seq(S) /\ Len(r) = Len(q) - 1
    <3>1. a \o b \in Seq(S) /\ Len(a \o b) = Len(a) + Len(b)
      BY <2>4, <2>5, ConcatProperties
    <3> QED BY <3>1, <2>4, <2>5, <2>6, <1>0, <2>3
  <2>8. \A i \in 1 .. Len(r) : r[i] = IF i < p THEN q[i] ELSE q[i + 1]
    <3>1. \A i \in 1 .. Len(q) - 1 : (a \o b)[i] = IF i < p THEN q[i] ELSE q[i + 1]
      BY <2>3, <2>4, <2>5, <1>0
    <3> QED BY <3>1, <2>6, <2>7
  <2>9. \A i \in 1 .. Len(q) : i # p => q[i] # e
    BY <1>0, <2>3 DEF Distinct
  <2>10. Distinct(r)
    <3> SUFFICES ASSUME NEW i \in 1 .. Len(r), NEW j \in 1 .. Len(r), r[i] = r[j]
                 PROVE  i = j
      BY DEF Distinct
    <3> DEFINE k == IF i < p THEN i ELSE i + 1
               l == IF j < p THEN j ELSE j + 1
    <3>1. k \in 1 .. Len(q) /\ l \in 1 .. Len(q) /\ q[k] = q[l]
      BY <1>0, <2>3, <2>7, <2>8
    <3>2. k = l
      <4> HIDE DEF k, l
      <4> QED BY <3>1 DEF Distinct
    <3> QED BY <3>2, <1>0, <2>3
  <2>11. ASSUME NEW x \in Range(r) PROVE x \in Range(q) \ {e}
    <3>1. PICK i \in 1 .. Len(r) : r[i] = x
      BY <2>7, RangeFacts
    <3> DEFINE k == IF i < p THEN i ELSE i + 1
    <3>2. k \in 1 .. Len(q) /\ k # p /\ x = q[k]
      BY <3>1, <1>0, <2>3, <2>7, <2>8
    <3> QED BY <3>2, <2>9, RangeFacts
  <2>12. ASSUME NEW x \in Range(q) \ {e} PROVE x \in Range(r)
    <3>1. PICK k \in 1 .. Len(q) : q[k] = x
      BY RangeFacts
    <3> DEFINE i == IF k < p THEN k ELSE k - 1
    <3>2. k # p
      BY <3>1, <2>3
    <3>3. i \in 1 .. Len(r) /\ r[i] = x
      BY <3>1, <3>2, <1>0, <2>3, <2>7, <2>8
    <3> QED BY <3>3, <2>7, RangeFacts
  <2>13. Range(r) = Range(q) \ {e}
    BY <2>11, <2>12
  <2> QED BY <2>7, <2>10, <2>13 DEF r
<1> QED BY <1>1, <1>2

LEMMA AppendFacts ==
    ASSUME NEW S, NEW q \in Seq(S), NEW e \in S
    PROVE  /\ Append(q, e) \in Seq(S)
           /\ Range(Append(q, e)) = Range(q) \cup {e}
           /\ Distinct(q) /\ e \notin Range(q) => Distinct(Append(q, e))
<1>1. Append(q, e) \in Seq(S) /\ Len(Append(q, e)) = Len(q) + 1 /\ Len(q) \in Nat
  OBVIOUS
<1>2. /\ Append(q, e)[Len(q) + 1] = e
      /\ \A k \in 1 .. Len(q) : Append(q, e)[k] = q[k]
  OBVIOUS
<1>3. Range(Append(q, e)) = Range(q) \cup {e}
  <2>1. \A x : x \in Range(Append(q, e)) <=> \E k \in 1 .. Len(q) + 1 : Append(q, e)[k] = x
    BY <1>1, RangeFacts
  <2>2. \A x : x \in Range(q) <=> \E k \in 1 .. Len(q) : q[k] = x
    BY RangeFacts
  <2>3. \A k \in 1 .. Len(q) + 1 : k \in 1 .. Len(q) \/ k = Len(q) + 1
    BY <1>1
  <2>4. Len(q) + 1 \in 1 .. Len(q) + 1 /\ \A k \in 1 .. Len(q) : k \in 1 .. Len(q) + 1
    BY <1>1
  <2> QED BY <2>1, <2>2, <2>3, <2>4, <1>2
<1>4. ASSUME Distinct(q), e \notin Range(q) PROVE Distinct(Append(q, e))
  <2>1. \A k \in 1 .. Len(q) : q[k] # e
    BY <1>4, RangeFacts
  <2> QED BY <1>1, <1>2, <1>4, <2>1 DEF Distinct
<1> QED BY <1>1, <1>3, <1>4

LEMMA PrependFacts ==
    ASSUME NEW S, NEW q \in Seq(S), NEW e \in S
    PROVE  /\ <<e>> \o q \in Seq(S)
           /\ Range(<<e>> \o q) = Range(q) \cup {e}
           /\ Distinct(q) /\ e \notin Range(q) => Distinct(<<e>> \o q)
<1> DEFINE r == <<e>> \o q
<1>1. r \in Seq(S) /\ Len(r) = Len(q) + 1 /\ Len(q) \in Nat
  OBVIOUS
<1>2. r[1] = e /\ \A k \in 1 .. Len(q) : r[k + 1] = q[k]
  OBVIOUS
<1> HIDE DEF r
<1>3. \A k \in 1 .. Len(r) : k = 1 \/ (k - 1 \in 1 .. Len(q) /\ r[k] = q[k - 1])
  BY <1>1, <1>2
<1>4. Range(r) = Range(q) \cup {e}
  <2>1. \A x : x \in Range(r) <=> \E k \in 1 .. Len(r) : r[k] = x
    BY <1>1, RangeFacts
  <2>2. \A x : x \in Range(q) <=> \E k \in 1 .. Len(q) : q[k] = x
    BY RangeFacts
  <2>3. 1 \in 1 .. Len(r) /\ \A k \in 1 .. Len(q) : k + 1 \in 1 .. Len(r)
    BY <1>1
  <2> QED BY <2>1, <2>2, <2>3, <1>2, <1>3
<1>5. ASSUME Distinct(q), e \notin Range(q) PROVE Distinct(r)
  <2>1. \A k \in 1 .. Len(q) : q[k] # e
    BY <1>5, RangeFacts
  <2> SUFFICES ASSUME NEW i \in 1 .. Len(r), NEW j \in 1 .. Len(r), r[i] = r[j]
               PROVE  i = j
    BY DEF Distinct
  <2>2. CASE i = 1 \/ j = 1
    BY <2>2, <2>1, <1>1, <1>2, <1>3
  <2>3. CASE i # 1 /\ j # 1
    <3>1. i - 1 \in 1 .. Len(q) /\ j - 1 \in 1 .. Len(q) /\ q[i - 1] = q[j - 1]
      BY <2>3, <1>3
    <3>2. i - 1 = j - 1
      BY <3>1, <1>5 DEF Distinct
    <3> QED BY <3>2, <1>1
  <2> QED BY <2>2, <2>3
<1> QED BY <1>1, <1>4, <1>5 DEF r

-----------------------------------------------------------------------------
(* The invariants of a state t.                                            *)

Flips(t) == Range(t.flips)

HasEvent(t, i) == \E e \in t.armed : e.id = i

\* Where vblank i is: it is freed, on one queue, or one of L.  What is queued is
\* on the list of its window.
Placed(t, L, i) ==
    /\ ~t.vblank[i].live => t.vblank[i] = Gone
    /\ t.vblank[i].live => i <= t.last /\ t.vblank[i].window \in t.alive \cup {None}
    /\ t.vblank[i].live <=> i \in t.exec \/ i \in Flips(t) \/ i \in L
    /\ ~(i \in t.exec /\ i \in Flips(t))
    /\ i \in L => i \notin t.exec /\ i \notin Flips(t)
    /\ t.vblank[i].queued => t.vblank[i].window \in t.alive
    /\ t.vblank[i].queued <=> i \in t.exec \/ (i \in Flips(t) /\ i # t.pending)
    /\ \A w \in Windows : i \in Range(t.list[w]) <=> t.vblank[i].queued /\ t.vblank[i].window = w

QueueInv(t, L) ==
    /\ t \in State /\ L \subseteq Ids
    /\ Distinct(t.flips)
    /\ \A w \in Windows : Distinct(t.list[w])
    /\ \A i \in Ids : Placed(t, L, i)

\* The driver works on what the extension waits for, and on flips whose end was
\* announced too early; pixmaps are held by the vblank, by the screen, or by the
\* client.
FlipInv(t) ==
    /\ t.wrong = {}
    /\ t.flipping \cap t.flipped = {}
    /\ t.pending # 0 => t.pending \in t.flipping \cup t.flipped
    /\ t.unflip => Unflip \in t.flipping \cup t.flipped
    /\ \A i \in t.flipping \cup t.flipped :
          \/ i # 0 /\ i = t.pending
          \/ i = Unflip /\ t.unflip
          \/ /\ t.mistaken /\ i \in Ids /\ i <= t.last
             /\ ~t.vblank[i].pixmap /\ ~t.vblank[i].queued
    /\ ~(t.unflip /\ t.pending # 0)
    /\ t.pending # 0 =>
          t.pending \in Flips(t) /\ t.vblank[t.pending].flip /\ t.vblank[t.pending].pixmap
    /\ t.flip # 0 =>
          t.flip <= t.last /\ ~t.vblank[t.flip].pixmap /\ t.flip \notin t.released
    /\ t.flip # 0 => ~t.vblank[t.flip].queued
    /\ t.flipWindow # None => t.flip # 0 /\ t.flipWindow \in t.alive
    /\ \A i \in t.released : i <= t.last /\ ~t.vblank[i].pixmap

\* The pixmap that windows draw into, if it is not the screen's.
Current(t) == IF t.pending # 0 THEN t.pending ELSE t.flip

PixmapInv(t) ==
    /\ \/ t.mistaken
       \/ t.shown = IF t.pending # 0 /\ t.pending \in t.flipped THEN t.pending
                    ELSE IF Unflip \in t.flipped THEN Screen ELSE t.flip
    /\ t.pixmapOf[Root] \in {Screen, Current(t)}
    /\ \A w \in t.alive : t.pixmapOf[w] \in {Screen, t.pixmapOf[Root]}
    /\ t.unflip => t.pixmapOf[Root] = Screen

\* Where a flip is asked for a frame ahead, the driver does not fail to queue the event.
QueueHolds ==
    \A r \in Requests, d \in Drivers :
        d.queue \/ ~r.pixmap \/ r.copy \/ (r.ahead = 0 /\ r.divisor = 0)

\* Then a flip has no event once its frame has come, and its one event until then.
InTime(t, i) ==
    QueueHolds /\ t.vblank[i].flip =>
       \/ t.vblank[i].exec <= t.msc /\ ~HasEvent(t, i)
       \/ /\ i \in t.exec /\ ~t.vblank[i].callback /\ HasEvent(t, i)
          /\ \A e \in t.armed : e.id = i => e.msc = t.vblank[i].exec

TimeInv(t) ==
    /\ \A e \in t.armed : e.id <= t.last
    /\ \A i \in Flips(t) : FenceIsSet(t, i) /\ InTime(t, i)
    /\ \A i \in t.exec : InTime(t, i)
    /\ QueueHolds => ~t.mistaken

\* What keeps i from being forgotten on the exec queue, and on the flip queue.
\* f is the fence whose triggers are run through; X is being executed.
ExecInv(t, f, X) ==
    \A i \in t.exec \ X :
       \/ HasEvent(t, i)
       \/ f = i /\ t.vblank[i].callback
       \/ t.vblank[i].callback /\ t.fence[i] \in {"unset", "gone"}

LeftIn(t, f, X, Z) ==
    \A i \in Flips(t) \ X :
       \/ HasEvent(t, i)
       \/ f = i /\ t.vblank[i].callback
       \/ t.pending # 0 \/ t.unflip \/ i \in Z

LeftInv(t, f, X) == LeftIn(t, f, X, t.left)

\* The windows of U are still to be checked.
CoverInv(t, U) ==
    /\ t.flipWindow # None /\ t.flipWindow # t.full =>
          t.unflip \/ t.pending # 0 \/ t.flip \in t.missed \/ t.flipWindow \in U
    /\ t.pending # 0 /\ t.vblank[t.pending].window = None => t.vblank[t.pending].abort
    /\ t.pending # 0 /\ t.vblank[t.pending].window # t.full =>
          \/ t.vblank[t.pending].abort \/ t.pending \in t.missed
          \/ t.vblank[t.pending].window \in U
    /\ \A i \in Ids : t.vblank[i].queued /\ t.vblank[i].flip =>
          t.vblank[i].window = t.full \/ i \in t.missed

Sound(t, L, f, X, U) ==
    /\ QueueInv(t, L) /\ FlipInv(t) /\ PixmapInv(t)
    /\ TimeInv(t) /\ ExecInv(t, f, X) /\ CoverInv(t, U)

-----------------------------------------------------------------------------
(* Updates of the state.                                                   *)

Fields ==
    {"vblank", "last", "exec", "flips", "list", "pending", "unflip", "flip", "flipWindow",
     "pixmapOf", "alive", "full", "fence", "missed", "left", "released", "wrong", "msc",
     "armed", "flipping", "flipped", "shown", "mistaken"}

VFields ==
    {"live", "window", "pixmap", "target", "exec", "flip", "sync", "queued", "ready",
     "abort", "callback"}

\* Only the fields of C change.
Same(t, u, C) == \A f \in Fields \ C : u[f] = t[f]

VSame(v, x, C) == \A f \in VFields \ C : x[f] = v[f]

\* Only vblank i changes, and of it only the fields of C.
Only(t, u, i, C) ==
    /\ \A j \in Ids \ {i} : u.vblank[j] = t.vblank[j]
    /\ VSame(t.vblank[i], u.vblank[i], C)

Wrongs == {"assert", "completed twice", "released twice"}

LEMMA Constants ==
    /\ MaxPresents \in Nat /\ MaxMsc \in Nat
    /\ None \notin Windows /\ None \notin Nat /\ Root \notin Windows
    /\ Ids \subseteq Nat /\ 0 \notin Ids
    /\ \A i \in Ids : i \in 0 .. MaxPresents
    /\ None \notin Ids
BY PresentAssumption DEF Ids, Root

LEMMA GoneType == Gone \in Vblank /\ ~Gone.live /\ ~Gone.queued /\ ~Gone.pixmap /\ ~Gone.flip
BY Constants DEF Gone, Vblank

LEMMA StateType ==
    ASSUME NEW t \in State
    PROVE  /\ t.vblank \in [Ids -> Vblank] /\ t.last \in 0 .. MaxPresents
           /\ t.exec \subseteq Ids /\ t.flips \in Seq(Ids) /\ t.list \in [Windows -> Seq(Ids)]
           /\ t.pending \in Ids \cup {0} /\ t.unflip \in BOOLEAN /\ t.flip \in Ids \cup {0}
           /\ t.flipWindow \in Windows \cup {None}
           /\ t.pixmapOf \in [Windows \cup {Root} -> 0 .. MaxPresents]
           /\ t.alive \subseteq Windows /\ t.full \in Windows \cup {None}
           /\ t.fence \in [Ids -> {"none", "unset", "set", "gone"}]
           /\ t.missed \subseteq Ids /\ t.left \subseteq Ids /\ t.released \subseteq Ids
           /\ t.wrong \subseteq Wrongs /\ t.msc \in 0 .. MaxMsc
           /\ t.armed \subseteq [id : Ids, msc : 0 .. MaxMsc]
           /\ t.mistaken \in BOOLEAN
           /\ t.flipping \subseteq 0 .. MaxPresents /\ t.flipped \subseteq 0 .. MaxPresents
           /\ t.shown \in 0 .. MaxPresents
BY DEF State, Wrongs

LEMMA VblankType ==
    ASSUME NEW v \in Vblank
    PROVE  /\ v.live \in BOOLEAN /\ v.window \in Windows \cup {None} /\ v.pixmap \in BOOLEAN
           /\ v.target \in 0 .. MaxMsc /\ v.exec \in -1 .. MaxMsc
           /\ v.flip \in BOOLEAN /\ v.sync \in BOOLEAN /\ v.queued \in BOOLEAN
           /\ v.ready \in BOOLEAN /\ v.abort \in BOOLEAN /\ v.callback \in BOOLEAN
BY DEF Vblank

LEMMA FlipsFacts ==
    ASSUME NEW t \in State
    PROVE  Flips(t) \subseteq Ids /\ \A w \in Windows : Range(t.list[w]) \subseteq Ids
BY StateType, RangeFacts DEF Flips

LEMMA AssertsHolds ==
    ASSUME NEW t, NEW P \in BOOLEAN, P
    PROVE  Asserts(t, P) = t
BY DEF Asserts

LEMMA ReleaseDoes ==
    ASSUME NEW t \in State, NEW i \in Ids
    PROVE  /\ Release(t, i) \in State
           /\ Same(t, Release(t, i), {"released", "wrong"})
           /\ Release(t, i).released = t.released \cup {i}
           /\ i \notin t.released => Release(t, i).wrong = t.wrong
<1>1. t.released \cup {i} \in SUBSET Ids
  BY StateType
<1>2. t.wrong \cup (IF i \in t.released THEN {"released twice"} ELSE {}) \in SUBSET Wrongs
  BY StateType DEF Wrongs
<1>3. Release(t, i) \in State
  BY <1>1, <1>2, Zenon DEF State, Release, Wrongs
<1>4. Same(t, Release(t, i), {"released", "wrong"})
  BY DEF State, Release, Same, Fields
<1>5. /\ Release(t, i).released = t.released \cup {i}
      /\ i \notin t.released => Release(t, i).wrong = t.wrong
  BY DEF State, Release
<1> QED BY <1>3, <1>4, <1>5

\* Off the queues and the list of its window.
Loose(t, u, i) ==
    /\ u.exec = t.exec \ {i}
    /\ Distinct(u.flips) /\ Flips(u) = Flips(t) \ {i}
    /\ \A w \in Windows : Distinct(u.list[w]) /\ Range(u.list[w]) = Range(t.list[w]) \ {i}

LEMMA DequeueDoes ==
    ASSUME NEW t \in State, NEW i \in Ids, Distinct(t.flips)
    PROVE  /\ Dequeue(t, i) \in State
           /\ Same(t, Dequeue(t, i), {"exec", "flips"})
           /\ Dequeue(t, i).exec = t.exec \ {i}
           /\ Distinct(Dequeue(t, i).flips)
           /\ Flips(Dequeue(t, i)) = Flips(t) \ {i}
<1>0. t.flips \in Seq(Ids)
  BY StateType
<1>1. /\ RemoveFirst(t.flips, i) \in Seq(Ids) /\ Distinct(RemoveFirst(t.flips, i))
      /\ Range(RemoveFirst(t.flips, i)) = Range(t.flips) \ {i}
  BY <1>0, RemoveFacts
<1>2. t.exec \ {i} \in SUBSET Ids
  BY StateType
<1>3. Dequeue(t, i) \in State
  BY <1>1, <1>2, Zenon DEF State, Dequeue
<1>4. Same(t, Dequeue(t, i), {"exec", "flips"})
  BY DEF State, Dequeue, Same, Fields
<1>5. Dequeue(t, i).exec = t.exec \ {i} /\ Dequeue(t, i).flips = RemoveFirst(t.flips, i)
  BY DEF State, Dequeue
<1> QED BY <1>1, <1>3, <1>4, <1>5 DEF Flips

LEMMA UnlistDoes ==
    ASSUME NEW t \in State, NEW i \in Ids, Distinct(t.flips),
           \A w \in Windows : Distinct(t.list[w])
    PROVE  LET u == Unlist(Dequeue(t, i), i) IN
           /\ u \in State
           /\ Same(t, u, {"exec", "flips", "list"})
           /\ Loose(t, u, i)
<1> DEFINE q == Dequeue(t, i)
           u == Unlist(q, i)
           l == [w \in Windows |-> RemoveFirst(q.list[w], i)]
<1>1. /\ q \in State /\ Same(t, q, {"exec", "flips"})
      /\ q.exec = t.exec \ {i} /\ Distinct(q.flips) /\ Flips(q) = Flips(t) \ {i}
  BY DequeueDoes
<1>2. q.list = t.list
  BY <1>1 DEF Same, Fields
<1> HIDE DEF q
<1>3. ASSUME NEW w \in Windows
      PROVE  /\ l[w] \in Seq(Ids) /\ Distinct(l[w])
             /\ Range(l[w]) = Range(t.list[w]) \ {i}
  <2>1. t.list[w] \in Seq(Ids)
    BY StateType
  <2>2. l[w] = RemoveFirst(t.list[w], i)
    BY <1>2
  <2> HIDE DEF l
  <2> QED BY <2>1, <2>2, RemoveFacts
<1>4. l \in [Windows -> Seq(Ids)]
  BY <1>3
<1>5. u = [q EXCEPT !.list = l]
  BY DEF Unlist
<1> HIDE DEF l, u
<1>6. u \in State
  BY <1>1, <1>4, <1>5, Zenon DEF State
<1>7. Same(q, u, {"list"}) /\ u.list = l
  BY <1>1, <1>5 DEF Same, Fields, State
<1>8. Same(t, u, {"exec", "flips", "list"})
  BY <1>1, <1>7 DEF Same
<1>9. u.exec = q.exec /\ u.flips = q.flips
  BY <1>7 DEF Same, Fields
<1>10. Loose(t, u, i)
  BY <1>1, <1>3, <1>7, <1>9 DEF Loose, Flips
<1> QED BY <1>6, <1>8, <1>10 DEF u, q

\* A vblank with one field changed.
LEMMA VblankSet ==
    ASSUME NEW v \in Vblank, NEW b \in BOOLEAN
    PROVE  /\ [v EXCEPT !.queued = b] \in Vblank
           /\ [v EXCEPT !.flip = b] \in Vblank
           /\ [v EXCEPT !.pixmap = b] \in Vblank
           /\ [v EXCEPT !.ready = b] \in Vblank
           /\ [v EXCEPT !.abort = b] \in Vblank
           /\ [v EXCEPT !.callback = b] \in Vblank
           /\ [v EXCEPT !.window = None] \in Vblank
           /\ \A x \in -1 .. MaxMsc : [v EXCEPT !.exec = x] \in Vblank
<1>1. /\ [v EXCEPT !.queued = b] \in Vblank
      /\ [v EXCEPT !.flip = b] \in Vblank
      /\ [v EXCEPT !.pixmap = b] \in Vblank
  BY Zenon DEF Vblank
<1>2. /\ [v EXCEPT !.ready = b] \in Vblank
      /\ [v EXCEPT !.abort = b] \in Vblank
      /\ [v EXCEPT !.callback = b] \in Vblank
  BY Zenon DEF Vblank
<1>3. [v EXCEPT !.window = None] \in Vblank
  BY DEF Vblank
<1>4. \A x \in -1 .. MaxMsc : [v EXCEPT !.exec = x] \in Vblank
  BY DEF Vblank
<1> QED BY <1>1, <1>2, <1>3, <1>4

\* Vblank i is replaced by x.
LEMMA PutVblank ==
    ASSUME NEW t \in State, NEW i \in Ids, NEW x \in Vblank
    PROVE  LET u == [t EXCEPT !.vblank = [t.vblank EXCEPT ![i] = x]] IN
           /\ u \in State
           /\ Same(t, u, {"vblank"})
           /\ \A j \in Ids \ {i} : u.vblank[j] = t.vblank[j]
           /\ u.vblank[i] = x
<1> DEFINE u == [t EXCEPT !.vblank = [t.vblank EXCEPT ![i] = x]]
<1>1. [t.vblank EXCEPT ![i] = x] \in [Ids -> Vblank]
  BY StateType
<1>2. u \in State
  BY <1>1, Zenon DEF State
<1>3. Same(t, u, {"vblank"}) /\ u.vblank = [t.vblank EXCEPT ![i] = x]
  BY DEF Same, Fields, State
<1>4. u.vblank[i] = x /\ \A j \in Ids \ {i} : u.vblank[j] = t.vblank[j]
  BY <1>3, StateType
<1> QED BY <1>2, <1>3, <1>4

\* u is t with vblank i off its queue and list; if it was to be flipped it may
\* be something to copy now.
Off(t, u, i) ==
    /\ u \in State
    /\ Same(t, u, {"vblank", "exec", "flips", "list"})
    /\ Loose(t, u, i)
    /\ Only(t, u, i, {"queued", "flip", "exec"})
    /\ ~u.vblank[i].queued

LEMMA TakeOffDoes ==
    ASSUME NEW t, NEW L, QueueInv(t, L), NEW i \in Ids
    PROVE  /\ Off(t, TakeOff(t, i), i)
           /\ TakeOff(t, i).vblank[i].flip = t.vblank[i].flip
           /\ TakeOff(t, i).vblank[i].exec = t.vblank[i].exec
<1> DEFINE q == Unlist(Dequeue(t, i), i)
           x == [q.vblank[i] EXCEPT !.queued = FALSE]
           u == TakeOff(t, i)
<1>1. t \in State /\ Distinct(t.flips) /\ \A w \in Windows : Distinct(t.list[w])
  BY DEF QueueInv
<1>2. q \in State /\ Same(t, q, {"exec", "flips", "list"}) /\ Loose(t, q, i)
  BY <1>1, UnlistDoes
<1>3. u = [q EXCEPT !.vblank = [q.vblank EXCEPT ![i] = x]]
  BY DEF TakeOff
<1> HIDE DEF q, u
<1>4. q.vblank = t.vblank /\ q.vblank[i] \in Vblank
  BY <1>2, StateType DEF Same, Fields
<1>5. x \in Vblank
  BY <1>4, VblankSet
<1>6. VSame(t.vblank[i], x, {"queued"}) /\ ~x.queued
  BY <1>4 DEF VSame, VFields, Vblank
<1> HIDE DEF x
<1>7. /\ u \in State /\ Same(q, u, {"vblank"}) /\ u.vblank[i] = x
      /\ \A j \in Ids \ {i} : u.vblank[j] = q.vblank[j]
  BY <1>2, <1>3, <1>5, PutVblank
<1>8. Same(t, u, {"vblank", "exec", "flips", "list"})
  BY <1>2, <1>7 DEF Same
<1>9. Loose(t, u, i)
  <2>1. u.exec = q.exec /\ u.flips = q.flips /\ u.list = q.list
    BY <1>7 DEF Same, Fields
  <2> QED BY <2>1, <1>2 DEF Loose, Flips
<1>10. Only(t, u, i, {"queued", "flip", "exec"})
  BY <1>4, <1>6, <1>7 DEF Only, VSame
<1>11. u.vblank[i].flip = t.vblank[i].flip /\ u.vblank[i].exec = t.vblank[i].exec
  BY <1>6, <1>7 DEF VSame, VFields
<1> QED BY <1>6, <1>7, <1>8, <1>9, <1>10, <1>11 DEF Off, u

LEMMA CopyInsteadDoes ==
    ASSUME NEW t, NEW L, QueueInv(t, L), NEW i \in Ids
    PROVE  Off(t, CopyInstead(t, i), i) /\ ~CopyInstead(t, i).vblank[i].flip
<1> DEFINE q == TakeOff(t, i)
           y == t.vblank[i].target
           x == [[q.vblank[i] EXCEPT !.flip = FALSE] EXCEPT !.exec = y]
           u == CopyInstead(t, i)
<1>1. Off(t, q, i) /\ q.vblank[i].flip = t.vblank[i].flip
  BY TakeOffDoes
<1> HIDE DEF q
<1>2. CASE ~t.vblank[i].flip
  BY <1>1, <1>2 DEF CopyInstead, q
<1>3. CASE t.vblank[i].flip
  <2>1. u = [q EXCEPT !.vblank = [q.vblank EXCEPT ![i] = x]]
    BY <1>1, <1>3 DEF CopyInstead, q, Off, State, Vblank
  <2>2. q \in State /\ q.vblank[i] \in Vblank
    BY <1>1, StateType DEF Off
  <2>3. y \in -1 .. MaxMsc
    <3>1. y \in 0 .. MaxMsc
      BY StateType, VblankType DEF QueueInv
    <3> HIDE DEF y
    <3> QED BY <3>1, Constants
  <2> HIDE DEF u
  <2>4. x \in Vblank
    <3>1. [q.vblank[i] EXCEPT !.flip = FALSE] \in Vblank
      BY <2>2, VblankSet
    <3> QED BY <3>1, <2>3, VblankSet
  <2>5. VSame(q.vblank[i], x, {"flip", "exec"}) /\ ~x.flip /\ x.queued = q.vblank[i].queued
    BY <2>2 DEF VSame, VFields, Vblank
  <2> HIDE DEF x
  <2>6. /\ u \in State /\ Same(q, u, {"vblank"}) /\ u.vblank[i] = x
        /\ \A j \in Ids \ {i} : u.vblank[j] = q.vblank[j]
    BY <2>1, <2>2, <2>4, PutVblank
  <2>7. Same(t, u, {"vblank", "exec", "flips", "list"})
    BY <1>1, <2>6 DEF Same, Off
  <2>8. Loose(t, u, i)
    <3>1. u.exec = q.exec /\ u.flips = q.flips /\ u.list = q.list
      BY <2>6 DEF Same, Fields
    <3> QED BY <3>1, <1>1 DEF Loose, Flips, Off
  <2>9. Only(t, u, i, {"queued", "flip", "exec"})
    BY <1>1, <2>5, <2>6 DEF Only, VSame, Off
  <2> QED BY <1>1, <2>5, <2>6, <2>7, <2>8, <2>9 DEF Off, u
<1> QED BY <1>2, <1>3

\* Nothing else is disturbed, and i is one of the vblanks in between.
LEMMA OffKeeps ==
    ASSUME NEW t, NEW u, NEW i \in Ids, NEW L, NEW f, NEW U, NEW Z,
           Sound(t, L, f, {i}, U), Off(t, u, i), t.vblank[i].queued
    PROVE  /\ Sound(u, L \cup {i}, f, {}, U)
           /\ LeftIn(t, f, {i}, Z) => LeftIn(u, f, {}, Z)
<1>1. /\ QueueInv(t, L) /\ FlipInv(t) /\ PixmapInv(t)
      /\ TimeInv(t) /\ ExecInv(t, f, {i}) /\ CoverInv(t, U)
  BY DEF Sound
<1>2. /\ u.last = t.last /\ u.pending = t.pending /\ u.alive = t.alive /\ u.unflip = t.unflip
      /\ u.flip = t.flip /\ u.flipWindow = t.flipWindow /\ u.pixmapOf = t.pixmapOf
      /\ u.full = t.full /\ u.fence = t.fence /\ u.missed = t.missed /\ u.left = t.left
      /\ u.released = t.released /\ u.wrong = t.wrong /\ u.msc = t.msc /\ u.armed = t.armed
      /\ u.flipping = t.flipping /\ u.flipped = t.flipped /\ u.shown = t.shown
      /\ u.mistaken = t.mistaken
  BY DEF Off, Same, Fields
<1>3. /\ u.vblank[i].live = t.vblank[i].live /\ u.vblank[i].window = t.vblank[i].window
      /\ u.vblank[i].pixmap = t.vblank[i].pixmap /\ ~u.vblank[i].queued
      /\ u.vblank[i].abort = t.vblank[i].abort /\ u.vblank[i].callback = t.vblank[i].callback
      /\ \A j \in Ids \ {i} : u.vblank[j] = t.vblank[j]
  BY DEF Off, Only, VSame, VFields
<1>4. u \in State /\ Loose(t, u, i)
  BY DEF Off
<1>5. i # t.pending /\ t.vblank[i].live /\ i \notin L
  <2>1. Placed(t, L, i) /\ i # 0
    BY <1>1, Constants DEF QueueInv
  <2> QED BY <2>1, <1>1 DEF Placed, FlipInv
<1>6. QueueInv(u, L \cup {i})
  <2>1. ASSUME NEW j \in Ids PROVE Placed(u, L \cup {i}, j)
    <3>1. Placed(t, L, j)
      BY <1>1 DEF QueueInv
    <3>2. CASE j = i
      BY <3>1, <3>2, <1>2, <1>3, <1>4, <1>5 DEF Placed, Loose
    <3>3. CASE j # i
      BY <3>1, <3>3, <1>2, <1>3, <1>4 DEF Placed, Loose
    <3> QED BY <3>2, <3>3
  <2> QED BY <2>1, <1>1, <1>4 DEF QueueInv, Loose
<1>7. FlipInv(u)
  <2>1. t.pending # 0 => t.pending \in Ids
    BY <1>1, StateType DEF QueueInv
  <2>2. t.flip # 0 => t.flip \in Ids
    BY <1>1, StateType DEF QueueInv
  <2>3. t.released \subseteq Ids
    BY <1>1, StateType DEF QueueInv
  <2> QED BY <2>1, <2>2, <2>3, <1>1, <1>2, <1>3, <1>4, <1>5 DEF FlipInv, Loose
<1>8. PixmapInv(u)
  BY <1>1, <1>2 DEF PixmapInv, Current
<1>9. TimeInv(u)
  <2>1. u.exec \subseteq t.exec \ {i} /\ Flips(u) \subseteq Flips(t) \ {i} /\ t.exec \subseteq Ids
        /\ Flips(t) \subseteq Ids
    BY <1>1, <1>4, StateType, FlipsFacts DEF Loose, QueueInv
  <2>2. ASSUME NEW j \in Ids \ {i}, InTime(t, j) PROVE InTime(u, j)
    BY <2>2, <1>2, <1>3, <1>4 DEF InTime, HasEvent, Loose
  <2> QED BY <2>1, <2>2, <1>1, <1>2 DEF TimeInv, FenceIsSet
<1>10. ExecInv(u, f, {})
  BY <1>1, <1>2, <1>3, <1>4, StateType DEF ExecInv, Loose, HasEvent, QueueInv
<1>11. CoverInv(u, U)
  <2>1. t.pending # 0 => t.pending \in Ids
    BY <1>1, StateType DEF QueueInv
  <2> QED BY <2>1, <1>1, <1>2, <1>3, <1>5 DEF CoverInv
<1>12. LeftIn(t, f, {i}, Z) => LeftIn(u, f, {}, Z)
  <2>1. t \in State
    BY <1>1 DEF QueueInv
  <2> QED BY <2>1, <1>2, <1>3, <1>4, FlipsFacts DEF LeftIn, Loose, HasEvent
<1> QED BY <1>6, <1>7, <1>8, <1>9, <1>10, <1>11, <1>12 DEF Sound

-----------------------------------------------------------------------------
(* A vblank is freed.                                                      *)

LEMMA DestroyDoes ==
    ASSUME NEW t, NEW L, QueueInv(t, L), NEW i \in Ids,
           t.vblank[i].pixmap => i \notin t.released
    PROVE  LET u == present_vblank_destroy(t, i) IN
           /\ u \in State
           /\ Same(t, u, {"vblank", "exec", "flips", "list", "fence", "missed", "left",
                          "released"})
           /\ Loose(t, u, i)
           /\ u.vblank[i] = Gone
           /\ \A j \in Ids \ {i} : u.vblank[j] = t.vblank[j] /\ u.fence[j] = t.fence[j]
           /\ u.missed = t.missed \ ({i} \ {t.flip})
           /\ u.left = t.left \ {i}
           /\ u.released = t.released \cup (IF t.vblank[i].pixmap THEN {i} ELSE {})
<1> DEFINE r == IF t.vblank[i].pixmap THEN Release(t, i) ELSE t
           q == Unlist(Dequeue(r, i), i)
           v == [q.vblank EXCEPT ![i] = Gone]
           g == [q.fence EXCEPT ![i] = "none"]
           m == q.missed \ ({i} \ {t.flip})
           l == q.left \ {i}
           u == present_vblank_destroy(t, i)
<1>0. t \in State /\ Distinct(t.flips) /\ \A w \in Windows : Distinct(t.list[w])
  BY DEF QueueInv
<1>1. /\ r \in State /\ Same(t, r, {"released"})
      /\ r.released = t.released \cup (IF t.vblank[i].pixmap THEN {i} ELSE {})
  <2>1. CASE t.vblank[i].pixmap
    <3>1. /\ r \in State /\ Same(t, r, {"released", "wrong"}) /\ r.wrong = t.wrong
          /\ r.released = t.released \cup {i}
      BY <1>0, <2>1, ReleaseDoes
    <3> QED BY <3>1, <2>1 DEF Same
  <2>2. CASE ~t.vblank[i].pixmap
    BY <1>0, <2>2 DEF Same
  <2> QED BY <2>1, <2>2
<1>2. u = [q EXCEPT !.vblank = v, !.fence = g, !.missed = m, !.left = l]
  BY DEF present_vblank_destroy
<1> HIDE DEF r, u
<1>3. r.flips = t.flips /\ r.list = t.list /\ r.exec = t.exec
  BY <1>1 DEF Same, Fields
<1>4. q \in State /\ Same(r, q, {"exec", "flips", "list"}) /\ Loose(r, q, i)
  BY <1>0, <1>1, <1>3, UnlistDoes
<1> HIDE DEF q
<1>5. Same(t, q, {"exec", "flips", "list", "released"}) /\ q.released = r.released
  BY <1>1, <1>4 DEF Same, Fields
<1>6. /\ q.vblank = t.vblank /\ q.fence = t.fence /\ q.missed = t.missed /\ q.left = t.left
  BY <1>5 DEF Same, Fields
<1>7. v \in [Ids -> Vblank] /\ v[i] = Gone /\ \A j \in Ids \ {i} : v[j] = t.vblank[j]
  BY <1>0, <1>6, StateType, GoneType
<1>8. g \in [Ids -> {"none", "unset", "set", "gone"}] /\ \A j \in Ids \ {i} : g[j] = t.fence[j]
  BY <1>0, <1>6, StateType
<1>9. m \in SUBSET Ids /\ l \in SUBSET Ids
  BY <1>4, StateType
<1> HIDE DEF v, g
<1>10. u \in State
  <2> HIDE DEF m, l
  <2> QED BY <1>2, <1>4, <1>7, <1>8, <1>9, Zenon DEF State
<1>11. /\ Same(q, u, {"vblank", "fence", "missed", "left"})
       /\ u.vblank = v /\ u.fence = g /\ u.missed = m /\ u.left = l
  <2> HIDE DEF m, l
  <2> QED BY <1>2, <1>4 DEF Same, Fields, State
<1>12. Same(t, u, {"vblank", "exec", "flips", "list", "fence", "missed", "left", "released"})
  BY <1>5, <1>11 DEF Same
<1>13. Loose(t, u, i) /\ u.released = r.released
  <2>1. u.exec = q.exec /\ u.flips = q.flips /\ u.list = q.list /\ u.released = q.released
    BY <1>11 DEF Same, Fields
  <2> QED BY <2>1, <1>3, <1>4, <1>5 DEF Loose, Flips
<1>14. u.missed = t.missed \ ({i} \ {t.flip}) /\ u.left = t.left \ {i}
  BY <1>6, <1>11
<1>15. /\ u.vblank[i] = Gone
       /\ \A j \in Ids \ {i} : u.vblank[j] = t.vblank[j] /\ u.fence[j] = t.fence[j]
  BY <1>7, <1>8, <1>11
<1>16. u.released = t.released \cup (IF t.vblank[i].pixmap THEN {i} ELSE {})
  BY <1>1, <1>13
<1> QED BY <1>10, <1>12, <1>13, <1>14, <1>15, <1>16 DEF u

LEMMA DestroyKeeps ==
    ASSUME NEW t, NEW i \in Ids, NEW L, NEW f, NEW X, NEW U, NEW Z,
           Sound(t, L, f, X, U), t.vblank[i].live, i # t.pending
    PROVE  LET u == present_vblank_destroy(t, i) IN
           /\ Sound(u, L \ {i}, f, X, U)
           /\ u.vblank[i] = Gone /\ \A j \in Ids \ {i} : u.vblank[j] = t.vblank[j]
           /\ LeftIn(t, f, X, Z) => LeftIn(u, f, X, Z)
           /\ LeftInv(t, f, X) => LeftInv(u, f, X)
           /\ u.pending = t.pending /\ u.unflip = t.unflip /\ u.alive = t.alive
           /\ u.armed = t.armed /\ Loose(t, u, i) /\ u.last = t.last /\ u.msc = t.msc
           /\ u.flipWindow = t.flipWindow /\ u.full = t.full
<1> DEFINE u == present_vblank_destroy(t, i)
<1>1. /\ QueueInv(t, L) /\ FlipInv(t) /\ PixmapInv(t)
      /\ TimeInv(t) /\ ExecInv(t, f, X) /\ CoverInv(t, U) /\ t \in State
  BY DEF Sound, QueueInv
<1>2. t.vblank[i].pixmap => i \notin t.released
  BY <1>1 DEF FlipInv
<1>3. /\ u \in State
      /\ Same(t, u, {"vblank", "exec", "flips", "list", "fence", "missed", "left", "released"})
      /\ Loose(t, u, i)
      /\ u.vblank[i] = Gone
      /\ \A j \in Ids \ {i} : u.vblank[j] = t.vblank[j] /\ u.fence[j] = t.fence[j]
      /\ u.missed = t.missed \ ({i} \ {t.flip})
      /\ u.left = t.left \ {i}
      /\ u.released = t.released \cup (IF t.vblank[i].pixmap THEN {i} ELSE {})
  BY <1>1, <1>2, DestroyDoes
<1> HIDE DEF u
<1>4. /\ u.last = t.last /\ u.pending = t.pending /\ u.alive = t.alive /\ u.unflip = t.unflip
      /\ u.flip = t.flip /\ u.flipWindow = t.flipWindow /\ u.pixmapOf = t.pixmapOf
      /\ u.full = t.full /\ u.wrong = t.wrong /\ u.msc = t.msc /\ u.armed = t.armed
      /\ u.flipping = t.flipping /\ u.flipped = t.flipped /\ u.shown = t.shown
      /\ u.mistaken = t.mistaken
  BY <1>3 DEF Same, Fields
<1>5. /\ t.exec \subseteq Ids /\ Flips(t) \subseteq Ids /\ t.pending \in Ids \cup {0}
      /\ t.flip \in Ids \cup {0} /\ t.released \subseteq Ids
  BY <1>1, StateType, FlipsFacts
<1>6. QueueInv(u, L \ {i})
  <2>1. ASSUME NEW j \in Ids PROVE Placed(u, L \ {i}, j)
    <3>1. Placed(t, L, j)
      BY <1>1 DEF QueueInv
    <3>2. CASE j = i
      BY <3>1, <3>2, <1>3, <1>4, GoneType DEF Placed, Loose
    <3>3. CASE j # i
      BY <3>1, <3>3, <1>3, <1>4 DEF Placed, Loose
    <3> QED BY <3>2, <3>3
  <2> QED BY <2>1, <1>1, <1>3 DEF QueueInv, Loose
<1>7. FlipInv(u)
  <2>1. i <= t.last
    BY <1>1 DEF QueueInv, Placed
  <2>2. \A j \in u.released : j <= u.last /\ ~u.vblank[j].pixmap
    BY <2>1, <1>1, <1>3, <1>4, <1>5, GoneType DEF FlipInv
  <2>3. u.pending # 0 =>
          u.pending \in Flips(u) /\ u.vblank[u.pending].flip /\ u.vblank[u.pending].pixmap
    BY <1>1, <1>3, <1>4, <1>5 DEF FlipInv, Loose
  <2>4. u.flip # 0 =>
          u.flip <= u.last /\ ~u.vblank[u.flip].pixmap /\ u.flip \notin u.released
    BY <1>1, <1>3, <1>4, <1>5, GoneType DEF FlipInv
  <2>5. u.flip # 0 => ~u.vblank[u.flip].queued
    BY <1>1, <1>3, <1>4, <1>5, GoneType DEF FlipInv
  <2>6. \A j \in Ids : ~t.vblank[j].pixmap /\ ~t.vblank[j].queued =>
                           ~u.vblank[j].pixmap /\ ~u.vblank[j].queued
    BY <1>3, GoneType
  <2> QED BY <2>2, <2>3, <2>4, <2>5, <2>6, <1>1, <1>4 DEF FlipInv
<1>8. PixmapInv(u)
  BY <1>1, <1>4 DEF PixmapInv, Current
<1>9. TimeInv(u)
  <2>1. ASSUME NEW j \in Ids \ {i}, InTime(t, j) PROVE InTime(u, j)
    BY <2>1, <1>3, <1>4 DEF InTime, HasEvent, Loose
  <2> QED BY <2>1, <1>1, <1>3, <1>4, <1>5 DEF TimeInv, FenceIsSet, Loose
<1>10. ExecInv(u, f, X)
  BY <1>1, <1>3, <1>4, <1>5 DEF ExecInv, Loose, HasEvent
<1>11. CoverInv(u, U)
  <2>1. \A j \in Ids : u.vblank[j].queued /\ u.vblank[j].flip =>
          u.vblank[j].window = u.full \/ j \in u.missed
    BY <1>1, <1>3, <1>4, GoneType DEF CoverInv
  <2>2. u.pending # 0 => u.vblank[u.pending] = t.vblank[t.pending]
                         /\ (t.pending \in t.missed => u.pending \in u.missed)
    BY <1>3, <1>4, <1>5
  <2>3. u.flip \in u.missed <=> t.flip \in t.missed
    BY <1>3, <1>4
  <2> QED BY <2>1, <2>2, <2>3, <1>1, <1>4 DEF CoverInv
<1>12. LeftIn(t, f, X, Z) => LeftIn(u, f, X, Z)
  BY <1>3, <1>4, <1>5 DEF LeftIn, Loose, HasEvent
<1>13. LeftInv(t, f, X) => LeftInv(u, f, X)
  BY <1>3, <1>4, <1>5 DEF LeftInv, LeftIn, Loose, HasEvent
<1>14. Sound(u, L \ {i}, f, X, U)
  BY <1>6, <1>7, <1>8, <1>9, <1>10, <1>11 DEF Sound
<1> QED BY <1>3, <1>4, <1>12, <1>13, <1>14 DEF u

LEMMA PostIsDestroy ==
    ASSUME NEW t \in State, NEW i \in Ids, t.vblank[i].live
    PROVE  present_execute_post(t, i) = present_vblank_destroy(t, i)
<1>1. present_vblank_notify(t, i) = t
  BY DEF present_vblank_notify, State
<1> QED BY <1>1 DEF present_execute_post

-----------------------------------------------------------------------------
(* Pixmaps of windows.                                                     *)

LEMMA TreeDoes ==
    ASSUME NEW t \in State, NEW w \in Windows \cup {Root}, NEW e, NEW p \in 0 .. MaxPresents
    PROVE  LET u    == present_set_tree_pixmap(t, w, e, p)
               old  == t.pixmapOf[w]
               tree == IF w = Root THEN t.alive \cup {Root} ELSE {w}
           IN  /\ u \in State
               /\ Same(t, u, {"pixmapOf"})
               /\ e \in {None, old} =>
                     \A x \in Windows \cup {Root} :
                        u.pixmapOf[x] = IF x \in tree /\ t.pixmapOf[x] = old THEN p
                                        ELSE t.pixmapOf[x]
               /\ e \notin {None, old} => u = t
<1> DEFINE u    == present_set_tree_pixmap(t, w, e, p)
           old  == t.pixmapOf[w]
           tree == IF w = Root THEN t.alive \cup {Root} ELSE {w}
           m    == [x \in DOMAIN t.pixmapOf |->
                       IF x \in tree /\ t.pixmapOf[x] = old THEN p ELSE t.pixmapOf[x]]
<1>1. CASE e \notin {None, old}
  BY <1>1 DEF present_set_tree_pixmap, Same
<1>2. CASE e \in {None, old}
  <2>1. u = [t EXCEPT !.pixmapOf = m]
    BY <1>2 DEF present_set_tree_pixmap
  <2>2. t.pixmapOf \in [Windows \cup {Root} -> 0 .. MaxPresents]
    BY StateType
  <2>3. /\ m \in [Windows \cup {Root} -> 0 .. MaxPresents]
        /\ \A x \in Windows \cup {Root} :
              m[x] = IF x \in tree /\ t.pixmapOf[x] = old THEN p ELSE t.pixmapOf[x]
    BY <2>2
  <2> HIDE DEF m, u
  <2>4. u \in State
    BY <2>1, <2>3, Zenon DEF State
  <2>5. Same(t, u, {"pixmapOf"}) /\ u.pixmapOf = m
    BY <2>1 DEF Same, Fields, State
  <2> HIDE DEF tree, old
  <2> QED BY <1>2, <2>3, <2>4, <2>5 DEF u, tree, old
<1> QED BY <1>1, <1>2

\* Setting the root's pixmap sets that of all windows that share it.
LEMMA RootTree ==
    ASSUME NEW t \in State, NEW p \in 0 .. MaxPresents
    PROVE  LET u == present_set_tree_pixmap(t, Root, None, p) IN
           /\ u \in State /\ Same(t, u, {"pixmapOf"})
           /\ u.pixmapOf[Root] = p
           /\ \A x \in t.alive : u.pixmapOf[x] = IF t.pixmapOf[x] = t.pixmapOf[Root] THEN p
                                                 ELSE t.pixmapOf[x]
<1>1. t.alive \subseteq Windows
  BY StateType
<1> QED BY <1>1, TreeDoes

LEMMA WindowTree ==
    ASSUME NEW t \in State, NEW w \in Windows, NEW e, NEW p \in 0 .. MaxPresents
    PROVE  LET u == present_set_tree_pixmap(t, w, e, p) IN
           /\ u \in State /\ Same(t, u, {"pixmapOf"})
           /\ \A x \in (Windows \cup {Root}) \ {w} : u.pixmapOf[x] = t.pixmapOf[x]
           /\ u.pixmapOf[w] = IF e \in {None, t.pixmapOf[w]} THEN p ELSE t.pixmapOf[w]
BY Constants, TreeDoes

\* No window draws into a flipped pixmap any more.
LEMMA RestoreDoes ==
    ASSUME NEW t, NEW L, QueueInv(t, L), FlipInv(t), PixmapInv(t), Current(t) # 0
    PROVE  LET u == present_restore_screen_pixmap(t) IN
           /\ u \in State /\ Same(t, u, {"pixmapOf"})
           /\ \A x \in t.alive \cup {Root} : u.pixmapOf[x] = Screen
<1> DEFINE w  == IF t.pending # 0 THEN t.vblank[t.pending].window ELSE t.flipWindow
           t2 == IF w = None THEN t ELSE present_set_tree_pixmap(t, w, Current(t), Screen)
           u  == present_restore_screen_pixmap(t)
<1>1. t \in State /\ t.alive \subseteq Windows /\ t.pending \in Ids \cup {0}
  BY StateType DEF QueueInv
<1>2. w = None \/ w \in Windows
  BY <1>1, StateType, VblankType
<1>3. u = present_set_tree_pixmap(t2, Root, None, Screen)
  BY DEF present_restore_screen_pixmap, Asserts, Current
<1>4. Screen \in 0 .. MaxPresents
  BY Constants DEF Screen
<1>5. /\ t2 \in State /\ Same(t, t2, {"pixmapOf"})
      /\ \A x \in Windows \cup {Root} : t2.pixmapOf[x] \in {Screen, t.pixmapOf[x]}
      /\ t2.pixmapOf[Root] = t.pixmapOf[Root]
  <2>1. CASE w = None
    BY <2>1, <1>1 DEF Same
  <2>2. CASE w \in Windows
    <3>1. t2 = present_set_tree_pixmap(t, w, Current(t), Screen)
      BY <2>2, Constants
    <3> HIDE DEF t2, w
    <3> QED BY <3>1, <2>2, <1>1, <1>4, WindowTree, Constants
  <2> QED BY <2>1, <2>2, <1>2
<1> HIDE DEF t2, w, u
<1>6. /\ u \in State /\ Same(t2, u, {"pixmapOf"}) /\ u.pixmapOf[Root] = Screen
      /\ \A x \in t2.alive : u.pixmapOf[x] = IF t2.pixmapOf[x] = t2.pixmapOf[Root] THEN Screen
                                             ELSE t2.pixmapOf[x]
  BY <1>3, <1>4, <1>5, RootTree
<1>7. t2.alive = t.alive
  BY <1>5 DEF Same, Fields
<1>8. \A x \in t.alive : u.pixmapOf[x] = Screen
  BY <1>1, <1>5, <1>6, <1>7 DEF PixmapInv
<1>9. Same(t, u, {"pixmapOf"})
  BY <1>5, <1>6 DEF Same
<1> QED BY <1>6, <1>8, <1>9 DEF u

-----------------------------------------------------------------------------
(* The ends of present_execute.                                            *)

LEMMA PutFlip ==
    ASSUME NEW t \in State, NEW i \in Ids \cup {0}, NEW q \in Seq(Ids),
           NEW g \in SUBSET (0 .. MaxPresents)
    PROVE  [t EXCEPT !.pending = i, !.flips = q, !.flipping = g] \in State
BY Zenon DEF State

\* Vblank i of L becomes the flip that the driver works on.
LEMMA StartFlipDoes ==
    ASSUME NEW t, NEW L, QueueInv(t, L), FlipInv(t), PixmapInv(t), NEW i \in L,
           t.pending = 0, t.vblank[i].window \in t.alive
    PROVE  LET u == StartFlip(t, i) IN
           /\ u \in State
           /\ Same(t, u, {"pending", "flips", "flipping", "pixmapOf"})
           /\ u.pending = i /\ u.flipping = t.flipping \cup {i}
           /\ Distinct(u.flips) /\ Flips(u) = Flips(t) \cup {i}
           /\ u.pixmapOf[Root] = i
           /\ \A x \in t.alive : u.pixmapOf[x] \in {Screen, i}
<1> DEFINE w  == t.vblank[i].window
           q  == <<i>> \o t.flips
           g  == t.flipping \cup {i}
           t1 == [t EXCEPT !.pending = i, !.flips = q, !.flipping = g]
           t2 == IF t.flipWindow \in {None, w} THEN t1
                 ELSE present_set_tree_pixmap(t1, t.flipWindow, t.flip, Screen)
           t3 == present_set_tree_pixmap(t2, w, None, i)
           u  == StartFlip(t, i)
<1>0. /\ t \in State /\ i \in Ids /\ i \notin Flips(t) /\ Distinct(t.flips)
      /\ t.alive \subseteq Windows /\ t.flips \in Seq(Ids)
      /\ t.flipWindow \in Windows \cup {None}
      /\ w \in Windows /\ i \in 0 .. MaxPresents /\ Screen \in 0 .. MaxPresents
  <2>1. t \in State /\ i \in Ids /\ Distinct(t.flips) /\ Placed(t, L, i)
    BY DEF QueueInv
  <2>2. /\ t.alive \subseteq Windows /\ t.flips \in Seq(Ids)
        /\ t.flipWindow \in Windows \cup {None}
    BY <2>1, StateType
  <2>3. i \notin Flips(t) /\ i \in 0 .. MaxPresents /\ Screen \in 0 .. MaxPresents
    BY <2>1, Constants DEF Placed, Screen
  <2> QED BY <2>1, <2>2, <2>3
<1>1. q \in Seq(Ids) /\ Distinct(q) /\ Range(q) = Flips(t) \cup {i}
  BY <1>0, PrependFacts DEF Flips
<1>2. i \in Ids \cup {0} /\ g \in SUBSET (0 .. MaxPresents)
  BY <1>0, StateType
<1>3. u = present_set_tree_pixmap(t3, Root, None, i)
  BY DEF StartFlip
<1> HIDE DEF u
<1>4. t1 \in State
  <2> HIDE DEF q, g, w
  <2> QED BY <1>0, <1>1, <1>2, PutFlip
<1>5. /\ Same(t, t1, {"pending", "flips", "flipping"})
      /\ t1.pending = i /\ t1.flips = q /\ t1.flipping = g
  <2> HIDE DEF q, g, w
  <2>1. \A f \in Fields \ {"pending", "flips", "flipping"} : t1[f] = t[f]
    BY <1>0 DEF Fields, State
  <2>2. t1.pending = i /\ t1.flips = q /\ t1.flipping = g
    BY <1>0 DEF State
  <2> HIDE DEF t1
  <2> QED BY <2>1, <2>2 DEF Same
<1> HIDE DEF t1
<1>6. t1.pixmapOf = t.pixmapOf /\ t1.alive = t.alive
  BY <1>5 DEF Same, Fields
<1>7. /\ t2 \in State /\ Same(t1, t2, {"pixmapOf"})
      /\ t2.pixmapOf[Root] = t.pixmapOf[Root]
      /\ \A x \in t.alive : t2.pixmapOf[x] \in {Screen, t.pixmapOf[x]}
  <2>1. CASE t.flipWindow \in {None, w}
    BY <2>1, <1>4, <1>6 DEF Same
  <2>2. CASE t.flipWindow \notin {None, w}
    <3>1. t2 = present_set_tree_pixmap(t1, t.flipWindow, t.flip, Screen)
      BY <2>2
    <3>0. t.flipWindow # None /\ t.flipWindow \in Windows \cup {None}
      BY <2>2, <1>0
    <3>2. t.flipWindow \in Windows
      BY <3>0
    <3> HIDE DEF t2
    <3> QED BY <3>1, <3>2, <1>0, <1>4, <1>6, WindowTree, Constants
  <2> QED BY <2>1, <2>2
<1> HIDE DEF t2
<1>8. /\ t3 \in State /\ Same(t2, t3, {"pixmapOf"})
      /\ \A x \in (Windows \cup {Root}) \ {w} : t3.pixmapOf[x] = t2.pixmapOf[x]
      /\ t3.pixmapOf[w] = i
  BY <1>0, <1>7, WindowTree
<1> HIDE DEF t3
<1>9. t2.alive = t.alive /\ t3.alive = t.alive
  BY <1>6, <1>7, <1>8 DEF Same, Fields
<1>10. /\ u \in State /\ Same(t3, u, {"pixmapOf"}) /\ u.pixmapOf[Root] = i
       /\ \A x \in t.alive : u.pixmapOf[x] = IF t3.pixmapOf[x] = t3.pixmapOf[Root] THEN i
                                             ELSE t3.pixmapOf[x]
  BY <1>0, <1>3, <1>8, <1>9, RootTree
<1>11. \A x \in t.alive : u.pixmapOf[x] \in {Screen, i}
  <2>1. w # Root /\ t3.pixmapOf[Root] = t.pixmapOf[Root]
    BY <1>0, <1>7, <1>8, Constants
  <2>2. \A x \in t.alive : t3.pixmapOf[x] \in {Screen, t.pixmapOf[Root], i}
    BY <1>0, <1>7, <1>8 DEF PixmapInv
  <2> QED BY <2>1, <2>2, <1>10
<1>12. Same(t, u, {"pending", "flips", "flipping", "pixmapOf"})
  BY <1>5, <1>7, <1>8, <1>10 DEF Same
<1>13. u.pending = i /\ u.flips = q /\ u.flipping = g
  BY <1>5, <1>7, <1>8, <1>10 DEF Same, Fields
<1> QED BY <1>1, <1>10, <1>11, <1>12, <1>13 DEF u, Flips

LEMMA StartFlipKeeps ==
    ASSUME NEW t, NEW L, NEW i \in L, NEW f, NEW X, NEW U, NEW Z,
           Sound(t, L, f, X, U),
           t.pending = 0, ~t.unflip, t.vblank[i].window \in t.alive,
           t.vblank[i].flip, t.vblank[i].pixmap, ~t.vblank[i].queued,
           FenceIsSet(t, i), QueueHolds => t.vblank[i].exec <= t.msc /\ ~HasEvent(t, i),
           t.vblank[i].window = t.full \/ i \in t.missed
    PROVE  LET u == StartFlip(t, i) IN
           Sound(u, L \ {i}, f, X, U) /\ LeftIn(u, f, X, Z) /\ u.pending = i
           /\ u.vblank = t.vblank
<1> DEFINE u == StartFlip(t, i)
<1>1. /\ QueueInv(t, L) /\ FlipInv(t) /\ PixmapInv(t)
      /\ TimeInv(t) /\ ExecInv(t, f, X) /\ CoverInv(t, U) /\ t \in State /\ i \in Ids
  BY DEF Sound, QueueInv
<1>2. /\ u \in State
      /\ Same(t, u, {"pending", "flips", "flipping", "pixmapOf"})
      /\ u.pending = i /\ u.flipping = t.flipping \cup {i}
      /\ Distinct(u.flips) /\ Flips(u) = Flips(t) \cup {i}
      /\ u.pixmapOf[Root] = i
      /\ \A x \in t.alive : u.pixmapOf[x] \in {Screen, i}
  BY <1>1, StartFlipDoes
<1> HIDE DEF u
<1>3. /\ u.last = t.last /\ u.alive = t.alive /\ u.unflip = t.unflip /\ u.vblank = t.vblank
      /\ u.exec = t.exec /\ u.list = t.list /\ u.flip = t.flip /\ u.flipWindow = t.flipWindow
      /\ u.full = t.full /\ u.fence = t.fence /\ u.missed = t.missed /\ u.left = t.left
      /\ u.released = t.released /\ u.wrong = t.wrong /\ u.msc = t.msc /\ u.armed = t.armed
      /\ u.flipped = t.flipped /\ u.shown = t.shown /\ u.mistaken = t.mistaken
  BY <1>2 DEF Same, Fields
<1>4. i # 0 /\ i \in 0 .. MaxPresents /\ 0 \notin Flips(t)
  BY <1>1, Constants, FlipsFacts
<1>5. QueueInv(u, L \ {i})
  <2>1. ASSUME NEW j \in Ids PROVE Placed(u, L \ {i}, j)
    <3>1. Placed(t, L, j) /\ j # 0
      BY <1>1, Constants DEF QueueInv
    <3> QED BY <3>1, <1>2, <1>3, <1>4 DEF Placed
  <2> QED BY <2>1, <1>1, <1>2, <1>3 DEF QueueInv
<1>6. i \notin t.flipping \cup t.flipped /\ (~t.mistaken => t.flipping \cup t.flipped = {})
  BY <1>1, <1>4 DEF FlipInv
<1>7. FlipInv(u)
  <2>2. u.flipping \cap u.flipped = {}
    BY <1>1, <1>2, <1>3, <1>6 DEF FlipInv
  <2> QED BY <2>2, <1>1, <1>2, <1>3, <1>4 DEF FlipInv
<1>8. PixmapInv(u)
  <2>1. ~t.mistaken => Unflip \notin t.flipped /\ i \notin t.flipped
    BY <1>4, <1>6, Constants DEF Unflip
  <2> QED BY <2>1, <1>1, <1>2, <1>3, <1>4 DEF PixmapInv, Current
<1>9. TimeInv(u)
  <2>1. \A j \in Ids : InTime(t, j) => InTime(u, j)
    BY <1>3 DEF InTime, HasEvent
  <2>2. FenceIsSet(u, i) /\ InTime(u, i)
    BY <1>3 DEF InTime, HasEvent, FenceIsSet
  <2>3. t.exec \subseteq Ids /\ Flips(t) \subseteq Ids
    BY <1>1, StateType, FlipsFacts
  <2> QED BY <2>1, <2>2, <2>3, <1>1, <1>2, <1>3 DEF TimeInv, FenceIsSet
<1>10. ExecInv(u, f, X)
  BY <1>1, <1>3 DEF ExecInv, HasEvent
<1>11. CoverInv(u, U)
  <2>1. t.vblank[i].window # None
    BY <1>1, StateType, Constants
  <2> QED BY <2>1, <1>1, <1>2, <1>3, <1>4 DEF CoverInv
<1>12. LeftIn(u, f, X, Z)
  BY <1>2, <1>4 DEF LeftIn
<1>13. Sound(u, L \ {i}, f, X, U)
  BY <1>5, <1>7, <1>8, <1>9, <1>10, <1>11 DEF Sound
<1> QED BY <1>2, <1>3, <1>12, <1>13 DEF u

-----------------------------------------------------------------------------
(* What every step of a handler keeps besides Sound: nobody is newly left  *)
(* behind, and the vblanks of L are not touched.                           *)

Stable(t, u) == u.last = t.last /\ u.alive = t.alive /\ u.full = t.full /\ u.msc = t.msc

LeftKept(t, X, u, Y, f) ==
    /\ \A Z : LeftIn(t, f, X, Z) => LeftIn(u, f, Y, Z)
    /\ LeftInv(t, f, X) => LeftInv(u, f, Y)

Carry(t, X, u, Y, L, f) ==
    /\ LeftKept(t, X, u, Y, f)
    /\ Stable(t, u)
    /\ \A j \in L : u.vblank[j] = t.vblank[j]

LEMMA CarryTrans ==
    ASSUME NEW t, NEW X, NEW u, NEW Y, NEW v, NEW Z, NEW L, NEW f,
           Carry(t, X, u, Y, L, f), Carry(u, Y, v, Z, L, f)
    PROVE  Carry(t, X, v, Z, L, f)
<1>1. LeftKept(t, X, v, Z, f)
  BY DEF Carry, LeftKept
<1>2. Stable(t, v)
  BY DEF Carry, Stable
<1>3. \A j \in L : v.vblank[j] = t.vblank[j]
  BY DEF Carry
<1> QED BY <1>1, <1>2, <1>3 DEF Carry

LEMMA CarrySame == ASSUME NEW t, NEW X, NEW L, NEW f PROVE Carry(t, X, t, X, L, f)
BY DEF Carry, LeftKept, Stable

LEMMA CarryLess ==
    ASSUME NEW t, NEW X, NEW u, NEW Y, NEW L, NEW M \in SUBSET L, NEW f, Carry(t, X, u, Y, L, f)
    PROVE  Carry(t, X, u, Y, M, f)
BY DEF Carry

LEMMA SoundMore ==
    ASSUME NEW t, NEW L, NEW f, NEW X, NEW U, NEW Y, NEW V, Sound(t, L, f, X, U),
           X \subseteq Y, U \subseteq V
    PROVE  Sound(t, L, f, Y, V)
<1>1. ExecInv(t, f, Y)
  BY DEF Sound, ExecInv
<1>2. CoverInv(t, V)
  BY DEF Sound, CoverInv
<1> QED BY <1>1, <1>2 DEF Sound

\* A copy that is too early waits for its frame again.
LEMMA RequeueKeeps ==
    ASSUME NEW t, NEW L, NEW i \in L, NEW f, NEW U, Sound(t, L, f, {}, U),
           ~t.vblank[i].flip, t.vblank[i].pixmap, t.vblank[i].window \in t.alive,
           t.vblank[i].exec \in Nat
    PROVE  LET v == t.vblank[i]
               u == [present_queue_vblank(t, i, v.exec) EXCEPT
                        !.vblank[i].queued = TRUE, !.exec = @ \cup {i},
                        !.list[v.window] = Append(@, i)]
           IN  Sound(u, L \ {i}, f, {}, U) /\ Carry(t, {}, u, {}, L \ {i}, f)
<1> DEFINE v == t.vblank[i]
           w == v.window
           u == [present_queue_vblank(t, i, v.exec) EXCEPT
                    !.vblank[i].queued = TRUE, !.exec = @ \cup {i},
                    !.list[v.window] = Append(@, i)]
           A == t.armed \cup {[id |-> i, msc |-> v.exec]}
           x == [v EXCEPT !.queued = TRUE]
           V == [t.vblank EXCEPT ![i] = x]
           E == t.exec \cup {i}
           M == [t.list EXCEPT ![w] = Append(t.list[w], i)]
<1>1. /\ QueueInv(t, L) /\ FlipInv(t) /\ PixmapInv(t)
      /\ TimeInv(t) /\ ExecInv(t, f, {}) /\ CoverInv(t, U) /\ t \in State /\ i \in Ids
  BY DEF Sound, QueueInv
<1>2. u = [t EXCEPT !.armed = A, !.vblank = V, !.exec = E, !.list = M]
  BY <1>1 DEF present_queue_vblank, State
<1> HIDE DEF u
<1>3. /\ v \in Vblank /\ v.exec \in 0 .. MaxMsc /\ w \in Windows /\ t.list[w] \in Seq(Ids)
      /\ t.list \in [Windows -> Seq(Ids)] /\ t.exec \subseteq Ids
      /\ t.armed \subseteq [id : Ids, msc : 0 .. MaxMsc] /\ t.vblank \in [Ids -> Vblank]
  <2>1. v \in Vblank /\ v.exec \in -1 .. MaxMsc
    BY <1>1, StateType, VblankType
  <2>2. v.exec \in 0 .. MaxMsc
    BY <2>1, Constants
  <2> QED BY <2>1, <2>2, <1>1, StateType
<1>4. A \in SUBSET [id : Ids, msc : 0 .. MaxMsc] /\ E \in SUBSET Ids
  BY <1>1, <1>3
<1>5. /\ x \in Vblank /\ VSame(v, x, {"queued"}) /\ x.queued
      /\ V \in [Ids -> Vblank] /\ V[i] = x /\ \A j \in Ids \ {i} : V[j] = t.vblank[j]
  <2>1. x \in Vblank
    BY <1>3, VblankSet
  <2>2. VSame(v, x, {"queued"}) /\ x.queued
    BY <1>3 DEF VSame, VFields, Vblank
  <2> HIDE DEF x
  <2> QED BY <2>1, <2>2, <1>1, <1>3
<1>6. /\ v.live /\ ~v.queued /\ i \notin t.exec /\ i \notin Flips(t) /\ i \notin Range(t.list[w])
      /\ i <= t.last /\ i # t.flip /\ i # t.pending /\ i # 0
  <2>1. Placed(t, L, i) /\ i # 0
    BY <1>1, Constants DEF QueueInv
  <2> QED BY <2>1, <1>1, <1>3 DEF Placed, FlipInv
<1>7. /\ M \in [Windows -> Seq(Ids)]
      /\ \A y \in Windows : /\ Distinct(M[y])
                            /\ Range(M[y]) = Range(t.list[y]) \cup (IF y = w THEN {i} ELSE {})
  <2>1. /\ Append(t.list[w], i) \in Seq(Ids) /\ Distinct(Append(t.list[w], i))
        /\ Range(Append(t.list[w], i)) = Range(t.list[w]) \cup {i}
    BY <1>1, <1>3, <1>6, AppendFacts DEF QueueInv
  <2>2. M \in [Windows -> Seq(Ids)]
    BY <2>1, <1>3
  <2>3. ASSUME NEW y \in Windows
        PROVE  M[y] = IF y = w THEN Append(t.list[w], i) ELSE t.list[y]
    BY <1>3
  <2> HIDE DEF M
  <2> QED BY <2>1, <2>2, <2>3, <1>1 DEF QueueInv
<1> HIDE DEF A, V, E, M
<1>8. u \in State
  BY <1>1, <1>2, <1>4, <1>5, <1>7, Zenon DEF State
<1>9. /\ Same(t, u, {"armed", "vblank", "exec", "list"})
      /\ u.armed = A /\ u.vblank = V /\ u.exec = E /\ u.list = M
  BY <1>1, <1>2 DEF Same, Fields, State
<1> HIDE DEF x
<1>10. /\ u.last = t.last /\ u.pending = t.pending /\ u.alive = t.alive /\ u.unflip = t.unflip
       /\ u.flip = t.flip /\ u.flipWindow = t.flipWindow /\ u.pixmapOf = t.pixmapOf
       /\ u.full = t.full /\ u.fence = t.fence /\ u.missed = t.missed /\ u.left = t.left
       /\ u.released = t.released /\ u.wrong = t.wrong /\ u.msc = t.msc /\ u.flips = t.flips
       /\ u.flipping = t.flipping /\ u.flipped = t.flipped /\ u.shown = t.shown
       /\ u.mistaken = t.mistaken
  BY <1>9 DEF Same, Fields
<1>11. /\ u.vblank[i].live = v.live /\ u.vblank[i].window = w
       /\ u.vblank[i].pixmap = v.pixmap /\ u.vblank[i].queued /\ ~u.vblank[i].flip
       /\ \A j \in Ids \ {i} : u.vblank[j] = t.vblank[j]
  BY <1>5, <1>9 DEF VSame, VFields
<1>12. /\ u.exec = t.exec \cup {i} /\ Flips(u) = Flips(t)
       /\ \A y \in Windows : Range(u.list[y]) = Range(t.list[y]) \cup (IF y = w THEN {i} ELSE {})
  BY <1>7, <1>9, <1>10 DEF E, Flips
<1>13. /\ HasEvent(u, i) /\ \A j \in Ids \ {i} : HasEvent(u, j) <=> HasEvent(t, j)
       /\ \A j \in Ids \ {i} : (\A e \in t.armed : e.id = j => e.msc = t.vblank[j].exec)
                            => (\A e \in u.armed : e.id = j => e.msc = t.vblank[j].exec)
       /\ \A e \in u.armed : e.id <= u.last
  <2>1. \A e \in A : e \in t.armed \/ e.id = i
    BY DEF A
  <2>2. t.armed \subseteq A /\ \E e \in A : e.id = i
    <3>1. [id |-> i, msc |-> v.exec] \in A /\ t.armed \subseteq A
      BY DEF A
    <3>2. [id |-> i, msc |-> v.exec].id = i
      OBVIOUS
    <3> HIDE DEF v
    <3> QED BY <3>1, <3>2
  <2> QED BY <2>1, <2>2, <1>1, <1>6, <1>9, <1>10 DEF HasEvent, TimeInv
<1>14. QueueInv(u, L \ {i})
  <2>1. ASSUME NEW j \in Ids PROVE Placed(u, L \ {i}, j)
    <3>1. Placed(t, L, j)
      BY <1>1 DEF QueueInv
    <3>2. CASE j = i
      <4>1. \A y \in Windows : i \notin Range(t.list[y])
        BY <3>1, <3>2, <1>6 DEF Placed
      <4>2. \A y \in Windows : i \in Range(u.list[y]) <=> w = y
        BY <4>1, <1>12
      <4>3. u.vblank[i].window \in u.alive
        BY <1>10, <1>11
      <4> HIDE DEF v, w
      <4> QED BY <3>2, <4>2, <4>3, <1>6, <1>10, <1>11, <1>12 DEF Placed
    <3>3. CASE j # i
      BY <3>1, <3>3, <1>10, <1>11, <1>12 DEF Placed
    <3> QED BY <3>2, <3>3
  <2>2. \A y \in Windows : Distinct(u.list[y])
    BY <1>7, <1>9
  <2> QED BY <2>1, <2>2, <1>1, <1>8, <1>10 DEF QueueInv
<1>15. FlipInv(u)
  <2>1. /\ t.pending # 0 => t.pending \in Ids
        /\ t.flip # 0 => t.flip \in Ids
        /\ t.released \subseteq Ids
    BY <1>1, StateType
  <2> QED BY <2>1, <1>1, <1>6, <1>10, <1>11, <1>12 DEF FlipInv
<1>16. PixmapInv(u)
  BY <1>1, <1>10 DEF PixmapInv, Current
<1>17. TimeInv(u)
  <2>1. ASSUME NEW j \in Ids \ {i}, InTime(t, j) PROVE InTime(u, j)
    BY <2>1, <1>10, <1>11, <1>12, <1>13 DEF InTime
  <2>2. InTime(u, i)
    BY <1>11 DEF InTime
  <2>3. t.exec \subseteq Ids /\ Flips(t) \subseteq Ids
    BY <1>1, <1>3, FlipsFacts
  <2> QED BY <2>1, <2>2, <2>3, <1>1, <1>6, <1>10, <1>12, <1>13 DEF TimeInv, FenceIsSet
<1>18. ExecInv(u, f, {})
  BY <1>1, <1>3, <1>10, <1>11, <1>12, <1>13 DEF ExecInv
<1>19. CoverInv(u, U)
  <2>1. t.pending # 0 => t.pending \in Ids
    BY <1>1, StateType
  <2> QED BY <2>1, <1>1, <1>6, <1>10, <1>11 DEF CoverInv
<1>20. Carry(t, {}, u, {}, L \ {i}, f)
  <2>1. Flips(t) \subseteq Ids \ {i}
    BY <1>1, <1>6, FlipsFacts
  <2>2. ASSUME NEW Z, LeftIn(t, f, {}, Z) PROVE LeftIn(u, f, {}, Z)
    BY <2>1, <2>2, <1>10, <1>11, <1>12, <1>13 DEF LeftIn
  <2>3. LeftKept(t, {}, u, {}, f)
    BY <2>2, <1>10 DEF LeftKept, LeftInv
  <2>4. L \subseteq Ids
    BY <1>1 DEF QueueInv
  <2> QED BY <2>3, <2>4, <1>10, <1>11 DEF Carry, Stable
<1> QED BY <1>14, <1>15, <1>16, <1>17, <1>18, <1>19, <1>20 DEF Sound, u

-----------------------------------------------------------------------------
(* The ways to wait.                                                       *)

TimeBut(t, i) ==
    /\ \A e \in t.armed : e.id <= t.last
    /\ \A j \in Flips(t) : FenceIsSet(t, j)
    /\ \A j \in (Flips(t) \cup t.exec) \ {i} : InTime(t, j)
    /\ QueueHolds => ~t.mistaken

\* Vblank i has an event at its frame.
LEMMA QueueKeeps ==
    ASSUME NEW t, NEW L, NEW i \in Ids, NEW f, NEW U, NEW at \in 0 .. MaxMsc,
           QueueInv(t, L), FlipInv(t), PixmapInv(t), TimeBut(t, i),
           ExecInv(t, f, {i}), CoverInv(t, U), i <= t.last,
           \/ ~(QueueHolds /\ t.vblank[i].flip)
           \/ i \in t.exec /\ ~t.vblank[i].callback /\ at = t.vblank[i].exec /\ ~HasEvent(t, i)
    PROVE  LET u == present_queue_vblank(t, i, at)
           IN  Sound(u, L, f, {}, U) /\ Carry(t, {i}, u, {}, L, f)
<1> DEFINE u == present_queue_vblank(t, i, at)
           n == [id |-> i, msc |-> at]
           A == t.armed \cup {n}
<1>1. t \in State
  BY DEF QueueInv
<1>2. A \in SUBSET [id : Ids, msc : 0 .. MaxMsc]
  BY <1>1, StateType
<1>3. /\ n \in A /\ t.armed \subseteq A /\ n.id = i /\ n.msc = at
      /\ \A e \in A : e \in t.armed \/ e = n
  OBVIOUS
<1>4. u = [t EXCEPT !.armed = A]
  BY DEF present_queue_vblank
<1> HIDE DEF n, A, u
<1>5. u \in State
  BY <1>1, <1>2, <1>4, Zenon DEF State
<1>6. Same(t, u, {"armed"}) /\ u.armed = A
  BY <1>1, <1>4 DEF Same, Fields, State
<1>7. /\ u.last = t.last /\ u.pending = t.pending /\ u.alive = t.alive /\ u.unflip = t.unflip
      /\ u.flip = t.flip /\ u.flipWindow = t.flipWindow /\ u.pixmapOf = t.pixmapOf
      /\ u.full = t.full /\ u.fence = t.fence /\ u.missed = t.missed /\ u.left = t.left
      /\ u.released = t.released /\ u.wrong = t.wrong /\ u.msc = t.msc /\ u.flips = t.flips
      /\ u.flipping = t.flipping /\ u.flipped = t.flipped /\ u.shown = t.shown
      /\ u.mistaken = t.mistaken
      /\ u.vblank = t.vblank /\ u.exec = t.exec /\ u.list = t.list
  BY <1>6 DEF Same, Fields
<1>8. /\ HasEvent(u, i) /\ \A j \in Ids \ {i} : HasEvent(u, j) <=> HasEvent(t, j)
      /\ \A e \in u.armed : e.id <= u.last
  BY <1>3, <1>6, <1>7 DEF HasEvent, TimeBut
<1>9. ASSUME NEW j \in Ids \ {i}, InTime(t, j) PROVE InTime(u, j)
  <2>1. \A e \in u.armed : e.id = j => e \in t.armed
    BY <1>3, <1>6
  <2> QED BY <2>1, <1>7, <1>8, <1>9 DEF InTime
<1>10. InTime(u, i)
  <2>1. CASE ~(QueueHolds /\ t.vblank[i].flip)
    BY <2>1, <1>7 DEF InTime
  <2>2. CASE i \in t.exec /\ ~t.vblank[i].callback /\ at = t.vblank[i].exec /\ ~HasEvent(t, i)
    <3>1. \A e \in u.armed : e.id = i => e.msc = at
      BY <2>2, <1>3, <1>6 DEF HasEvent
    <3> QED BY <3>1, <2>2, <1>7, <1>8 DEF InTime
  <2> QED BY <2>1, <2>2
<1>11. t.exec \subseteq Ids /\ Flips(t) \subseteq Ids /\ Flips(u) = Flips(t)
  BY <1>1, <1>7, StateType, FlipsFacts DEF Flips
<1>12. QueueInv(u, L)
  BY <1>5, <1>7, <1>11 DEF QueueInv, Placed
<1>13. FlipInv(u) /\ PixmapInv(u) /\ CoverInv(u, U)
  BY <1>7, <1>11 DEF FlipInv, PixmapInv, Current, CoverInv
<1>14. TimeInv(u)
  BY <1>7, <1>8, <1>9, <1>10, <1>11 DEF TimeInv, TimeBut, FenceIsSet
<1>15. ExecInv(u, f, {})
  BY <1>7, <1>8, <1>11 DEF ExecInv
<1>16. Carry(t, {i}, u, {}, L, f)
  <2>1. ASSUME NEW Z, LeftIn(t, f, {i}, Z) PROVE LeftIn(u, f, {}, Z)
    BY <2>1, <1>7, <1>8, <1>11 DEF LeftIn
  <2>2. LeftKept(t, {i}, u, {}, f)
    BY <2>1, <1>7 DEF LeftKept, LeftInv
  <2> QED BY <2>2, <1>7 DEF Carry, Stable
<1> QED BY <1>12, <1>13, <1>14, <1>15, <1>16 DEF Sound, u

\* Vblank i can be executed: if it is a flip, it is in time.
Due(t, i, msc) ==
    /\ i \in t.exec \cup Flips(t)
    /\ msc \in 0 .. t.msc
    /\ QueueHolds /\ t.vblank[i].flip => t.vblank[i].exec <= msc /\ ~HasEvent(t, i)

LEMMA WaitFenceKeeps ==
    ASSUME NEW t, NEW L, NEW i \in Ids, NEW f, NEW U, NEW msc, Sound(t, L, f, {i}, U),
           Due(t, i, msc), ~FenceIsSet(t, i)
    PROVE  LET u == [t EXCEPT !.vblank[i].callback = TRUE]
           IN  Sound(u, L, f, {}, U) /\ Carry(t, {i}, u, {}, L, f)
<1> DEFINE u == [t EXCEPT !.vblank[i].callback = TRUE]
           x == [t.vblank[i] EXCEPT !.callback = TRUE]
<1>1. /\ QueueInv(t, L) /\ FlipInv(t) /\ PixmapInv(t)
      /\ TimeInv(t) /\ ExecInv(t, f, {i}) /\ CoverInv(t, U) /\ t \in State
  BY DEF Sound, QueueInv
<1>2. u = [t EXCEPT !.vblank = [t.vblank EXCEPT ![i] = x]]
  OBVIOUS
<1>3. t.vblank[i] \in Vblank
  BY <1>1, StateType
<1>4. x \in Vblank /\ VSame(t.vblank[i], x, {"callback"}) /\ x.callback
  BY <1>3, VblankSet DEF VSame, VFields, Vblank
<1> HIDE DEF x, u
<1>5. /\ u \in State /\ Same(t, u, {"vblank"}) /\ u.vblank[i] = x
      /\ \A j \in Ids \ {i} : u.vblank[j] = t.vblank[j]
  BY <1>1, <1>2, <1>4, PutVblank
<1>6. /\ u.last = t.last /\ u.pending = t.pending /\ u.alive = t.alive /\ u.unflip = t.unflip
      /\ u.flip = t.flip /\ u.flipWindow = t.flipWindow /\ u.pixmapOf = t.pixmapOf
      /\ u.full = t.full /\ u.fence = t.fence /\ u.missed = t.missed /\ u.left = t.left
      /\ u.released = t.released /\ u.wrong = t.wrong /\ u.msc = t.msc /\ u.flips = t.flips
      /\ u.flipping = t.flipping /\ u.flipped = t.flipped /\ u.shown = t.shown
      /\ u.mistaken = t.mistaken
      /\ u.armed = t.armed /\ u.exec = t.exec /\ u.list = t.list
  BY <1>5 DEF Same, Fields
<1>7. /\ u.vblank[i].callback
      /\ \A j \in Ids : /\ u.vblank[j].live = t.vblank[j].live
                        /\ u.vblank[j].window = t.vblank[j].window
                        /\ u.vblank[j].pixmap = t.vblank[j].pixmap
                        /\ u.vblank[j].exec = t.vblank[j].exec
                        /\ u.vblank[j].flip = t.vblank[j].flip
                        /\ u.vblank[j].queued = t.vblank[j].queued
                        /\ u.vblank[j].abort = t.vblank[j].abort
  BY <1>4, <1>5 DEF VSame, VFields
<1>8. /\ t.exec \subseteq Ids /\ Flips(t) \subseteq Ids /\ Flips(u) = Flips(t)
      /\ \A j \in Ids : HasEvent(u, j) <=> HasEvent(t, j)
      /\ t.pending # 0 => t.pending \in Ids
      /\ t.flip # 0 => t.flip \in Ids
      /\ t.released \subseteq Ids /\ t.msc \in Nat
  BY <1>1, <1>6, StateType, FlipsFacts, Constants DEF Flips, HasEvent
<1>9. i \in t.exec /\ i \notin Flips(t) /\ t.fence[i] = "unset" /\ i \notin L /\ t.vblank[i].live
  <2>1. i \notin Flips(t)
    BY <1>1 DEF TimeInv
  <2>2. Placed(t, L, i)
    BY <1>1 DEF QueueInv
  <2> QED BY <2>1, <2>2 DEF Due, FenceIsSet, Placed
<1>10. QueueInv(u, L)
  <2>1. ASSUME NEW j \in Ids PROVE Placed(u, L, j)
    <3>1. Placed(t, L, j)
      BY <1>1 DEF QueueInv
    <3>2. ~u.vblank[j].live => u.vblank[j] = Gone
      BY <3>1, <1>5, <1>7, <1>9 DEF Placed
    <3> QED BY <3>1, <3>2, <1>6, <1>7, <1>8 DEF Placed
  <2> QED BY <2>1, <1>1, <1>5, <1>6 DEF QueueInv
<1>11. FlipInv(u)
  BY <1>1, <1>6, <1>7, <1>8 DEF FlipInv
<1>12. PixmapInv(u)
  BY <1>1, <1>6 DEF PixmapInv, Current
<1>13. CoverInv(u, U)
  BY <1>1, <1>6, <1>7, <1>8 DEF CoverInv
<1>14. TimeInv(u)
  <2>1. ASSUME NEW j \in Ids \ {i}, InTime(t, j) PROVE InTime(u, j)
    BY <2>1, <1>5, <1>6, <1>8 DEF InTime
  <2>2. QueueHolds /\ t.vblank[i].flip => t.vblank[i].exec <= t.msc /\ ~HasEvent(t, i)
    <3>1. t.vblank[i].exec \in -1 .. MaxMsc
      BY <1>3, VblankType
    <3> QED BY <3>1, <1>8, Constants DEF Due
  <2>3. InTime(u, i)
    BY <2>2, <1>6, <1>7, <1>8 DEF InTime
  <2> QED BY <2>1, <2>3, <1>1, <1>6, <1>8, <1>9 DEF TimeInv, FenceIsSet
<1>15. ExecInv(u, f, {})
  <2>1. \A j \in Ids \ {i} : u.vblank[j] = t.vblank[j]
    BY <1>5
  <2> QED BY <2>1, <1>1, <1>6, <1>7, <1>8, <1>9 DEF ExecInv
<1>16. Carry(t, {i}, u, {}, L, f)
  <2>1. ASSUME NEW Z, LeftIn(t, f, {i}, Z) PROVE LeftIn(u, f, {}, Z)
    BY <2>1, <1>5, <1>6, <1>8, <1>9 DEF LeftIn
  <2>2. LeftKept(t, {i}, u, {}, f)
    BY <2>1, <1>6 DEF LeftKept, LeftInv
  <2>3. L \subseteq Ids
    BY <1>1 DEF QueueInv
  <2> QED BY <2>2, <2>3, <1>5, <1>6, <1>9 DEF Carry, Stable
<1> QED BY <1>10, <1>11, <1>12, <1>13, <1>14, <1>15, <1>16 DEF Sound, u

LEMMA PutReady ==
    ASSUME NEW t \in State, NEW V \in [Ids -> Vblank], NEW q \in Seq(Ids)
    PROVE  [t EXCEPT !.flips = q, !.vblank = V] \in State
BY Zenon DEF State

LEMMA WaitForFlipKeeps ==
    ASSUME NEW t, NEW L, NEW i \in Ids, NEW f, NEW U, NEW msc, Sound(t, L, f, {i}, U),
           Due(t, i, msc), FenceIsSet(t, i), t.pending # 0 \/ t.unflip
    PROVE  LET u == WaitForFlip(t, i)
           IN  Sound(u, L, f, {}, U) /\ Carry(t, {i}, u, {}, L, f)
<1> DEFINE q == Dequeue(t, i)
           u == WaitForFlip(t, i)
           x == [t.vblank[i] EXCEPT !.ready = TRUE]
           V == [t.vblank EXCEPT ![i] = x]
           a == Append(q.flips, i)
<1>1. /\ QueueInv(t, L) /\ FlipInv(t) /\ PixmapInv(t)
      /\ TimeInv(t) /\ ExecInv(t, f, {i}) /\ CoverInv(t, U) /\ t \in State
      /\ Distinct(t.flips)
  BY DEF Sound, QueueInv
<1>2. /\ q \in State /\ Same(t, q, {"exec", "flips"}) /\ q.exec = t.exec \ {i}
      /\ Distinct(q.flips) /\ Flips(q) = Flips(t) \ {i}
  BY <1>1, DequeueDoes
<1>3. q.vblank = t.vblank
  BY <1>2 DEF Same, Fields
<1>4. u = [q EXCEPT !.flips = a, !.vblank = V]
  BY <1>3 DEF WaitForFlip
<1> HIDE DEF q, u
<1>5. t.vblank[i] \in Vblank /\ t.vblank \in [Ids -> Vblank]
  BY <1>1, StateType
<1>6. x \in Vblank /\ VSame(t.vblank[i], x, {"ready"})
  BY <1>5, VblankSet DEF VSame, VFields, Vblank
<1> HIDE DEF x
<1>7. V \in [Ids -> Vblank] /\ V[i] = x /\ \A j \in Ids \ {i} : V[j] = t.vblank[j]
  BY <1>5, <1>6
<1>8. a \in Seq(Ids) /\ Distinct(a) /\ Range(a) = Flips(t) \cup {i}
  <2>1. q.flips \in Seq(Ids) /\ i \notin Range(q.flips) /\ Range(q.flips) = Flips(t) \ {i}
    BY <1>2, StateType DEF Flips
  <2> QED BY <2>1, <1>2, AppendFacts
<1> HIDE DEF V, a
<1>9. u \in State /\ Same(q, u, {"flips", "vblank"}) /\ u.flips = a /\ u.vblank = V
  <2>1. q \in State /\ V \in [Ids -> Vblank] /\ a \in Seq(Ids)
    BY <1>2, <1>7, <1>8
  <2>2. u \in State
    BY <2>1, <1>4, PutReady
  <2>3. Same(q, u, {"flips", "vblank"}) /\ u.flips = a /\ u.vblank = V
    BY <2>1, <1>4 DEF Same, Fields, State
  <2> QED BY <2>2, <2>3
<1>10. /\ Same(t, u, {"exec", "flips", "vblank"})
       /\ u.exec = t.exec \ {i} /\ Flips(u) = Flips(t) \cup {i}
  BY <1>2, <1>8, <1>9 DEF Same, Fields, Flips
<1>11. /\ u.last = t.last /\ u.pending = t.pending /\ u.alive = t.alive /\ u.unflip = t.unflip
       /\ u.flip = t.flip /\ u.flipWindow = t.flipWindow /\ u.pixmapOf = t.pixmapOf
       /\ u.full = t.full /\ u.fence = t.fence /\ u.missed = t.missed /\ u.left = t.left
       /\ u.released = t.released /\ u.wrong = t.wrong /\ u.msc = t.msc
       /\ u.flipping = t.flipping /\ u.flipped = t.flipped /\ u.shown = t.shown
       /\ u.mistaken = t.mistaken
       /\ u.armed = t.armed /\ u.list = t.list
  BY <1>10 DEF Same, Fields
<1>12. \A j \in Ids : /\ u.vblank[j].live = t.vblank[j].live
                      /\ u.vblank[j].window = t.vblank[j].window
                      /\ u.vblank[j].pixmap = t.vblank[j].pixmap
                      /\ u.vblank[j].exec = t.vblank[j].exec
                      /\ u.vblank[j].flip = t.vblank[j].flip
                      /\ u.vblank[j].queued = t.vblank[j].queued
                      /\ u.vblank[j].abort = t.vblank[j].abort
                      /\ u.vblank[j].callback = t.vblank[j].callback
  BY <1>6, <1>7, <1>9 DEF VSame, VFields
<1>13. /\ t.exec \subseteq Ids /\ Flips(t) \subseteq Ids
       /\ \A j \in Ids : HasEvent(u, j) <=> HasEvent(t, j)
       /\ t.pending # 0 => t.pending \in Ids
       /\ t.flip # 0 => t.flip \in Ids
       /\ t.released \subseteq Ids /\ t.msc \in Nat
  BY <1>1, <1>11, StateType, FlipsFacts, Constants DEF HasEvent
<1>14. t.vblank[i].live /\ i \notin L /\ i \in t.exec \cup Flips(t) /\ i # 0
  <2>1. Placed(t, L, i) /\ i # 0
    BY <1>1, Constants DEF QueueInv
  <2> QED BY <2>1 DEF Due, Placed
<1>15. QueueInv(u, L)
  <2>1. ASSUME NEW j \in Ids PROVE Placed(u, L, j)
    <3>1. Placed(t, L, j)
      BY <1>1 DEF QueueInv
    <3>2. CASE j = i
      <4>1. i \in t.exec => i # t.pending
        BY <1>1, <1>14, <3>1, <3>2 DEF FlipInv, Placed
      <4> QED BY <3>1, <3>2, <4>1, <1>10, <1>11, <1>12, <1>14 DEF Placed
    <3>3. CASE j # i
      <4>1. u.vblank[j] = t.vblank[j]
        BY <3>3, <1>7, <1>9
      <4> QED BY <3>1, <3>3, <4>1, <1>10, <1>11 DEF Placed
    <3> QED BY <3>2, <3>3
  <2> QED BY <2>1, <1>1, <1>8, <1>9, <1>11 DEF QueueInv
<1>16. FlipInv(u)
  BY <1>1, <1>10, <1>11, <1>12, <1>13 DEF FlipInv
<1>17. PixmapInv(u)
  BY <1>1, <1>11 DEF PixmapInv, Current
<1>18. CoverInv(u, U)
  BY <1>1, <1>11, <1>12, <1>13 DEF CoverInv
<1>19. TimeInv(u)
  <2>1. ASSUME NEW j \in Ids \ {i}, InTime(t, j) PROVE InTime(u, j)
    BY <2>1, <1>10, <1>11, <1>12, <1>13 DEF InTime
  <2>2. QueueHolds /\ t.vblank[i].flip => t.vblank[i].exec <= t.msc /\ ~HasEvent(t, i)
    <3>1. t.vblank[i].exec \in -1 .. MaxMsc
      BY <1>5, VblankType
    <3> QED BY <3>1, <1>13, Constants DEF Due
  <2>3. InTime(u, i)
    BY <2>2, <1>11, <1>12, <1>13 DEF InTime
  <2> QED BY <2>1, <2>3, <1>1, <1>10, <1>11, <1>13 DEF TimeInv, FenceIsSet
<1>20. ExecInv(u, f, {})
  BY <1>1, <1>10, <1>11, <1>12, <1>13 DEF ExecInv
<1>21. Carry(t, {i}, u, {}, L, f)
  <2>1. \A Z : LeftIn(u, f, {}, Z)
    BY <1>11 DEF LeftIn
  <2>2. LeftKept(t, {i}, u, {}, f)
    BY <2>1 DEF LeftKept, LeftInv
  <2>3. L \subseteq Ids
    BY <1>1 DEF QueueInv
  <2> QED BY <2>2, <2>3, <1>7, <1>9, <1>11, <1>14 DEF Carry, Stable
<1> QED BY <1>15, <1>16, <1>17, <1>18, <1>19, <1>20, <1>21 DEF Sound, u

-----------------------------------------------------------------------------
(* present_execute.                                                        *)

LEMMA Limbo ==
    ASSUME NEW t, NEW L, QueueInv(t, L), FlipInv(t), NEW i \in L
    PROVE  /\ i \in Ids /\ t.vblank[i].live /\ ~t.vblank[i].queued /\ i # t.pending
           /\ i \notin t.exec /\ i \notin Flips(t) /\ i <= t.last
<1>1. i \in Ids /\ Placed(t, L, i) /\ i # 0
  BY Constants DEF QueueInv
<1> QED BY <1>1 DEF Placed, FlipInv

LEMMA PostKeeps ==
    ASSUME NEW t, NEW L, NEW i \in L, NEW f, NEW U, Sound(t, L, f, {}, U)
    PROVE  LET u == present_execute_post(t, i)
           IN  Sound(u, L \ {i}, f, {}, U) /\ Carry(t, {}, u, {}, L \ {i}, f)
<1> DEFINE u == present_execute_post(t, i)
<1>1. t \in State /\ QueueInv(t, L) /\ FlipInv(t) /\ L \subseteq Ids
  BY DEF Sound, QueueInv
<1>2. i \in Ids /\ t.vblank[i].live /\ i # t.pending
  BY <1>1, Limbo
<1>3. u = present_vblank_destroy(t, i)
  BY <1>1, <1>2, PostIsDestroy
<1> HIDE DEF u
<1>4. /\ Sound(u, L \ {i}, f, {}, U)
      /\ \A j \in Ids \ {i} : u.vblank[j] = t.vblank[j]
      /\ LeftInv(t, f, {}) => LeftInv(u, f, {})
      /\ u.alive = t.alive /\ u.last = t.last /\ u.msc = t.msc /\ u.full = t.full
  BY <1>2, <1>3, DestroyKeeps
<1>5. ASSUME NEW Z, LeftIn(t, f, {}, Z) PROVE LeftIn(u, f, {}, Z)
  BY <1>2, <1>3, <1>5, DestroyKeeps
<1>6. LeftKept(t, {}, u, {}, f)
  BY <1>4, <1>5 DEF LeftKept
<1>7. Carry(t, {}, u, {}, L \ {i}, f)
  BY <1>1, <1>4, <1>6 DEF Carry, Stable
<1> QED BY <1>4, <1>7 DEF u

LEMMA OffCarries ==
    ASSUME NEW t, NEW u, NEW i \in Ids, NEW L, NEW f, NEW U,
           Sound(t, L, f, {i}, U), Off(t, u, i), t.vblank[i].queued
    PROVE  Sound(u, L \cup {i}, f, {}, U) /\ Carry(t, {i}, u, {}, L, f) /\ i \notin L
<1>1. QueueInv(t, L) /\ FlipInv(t) /\ L \subseteq Ids
  BY DEF Sound, QueueInv
<1>2. i \notin L
  BY <1>1, Limbo
<1>3. Sound(u, L \cup {i}, f, {}, U)
  BY OffKeeps
<1>4. u.left = t.left /\ Stable(t, u)
  BY DEF Off, Same, Fields, Stable
<1>5. ASSUME NEW Z, LeftIn(t, f, {i}, Z) PROVE LeftIn(u, f, {}, Z)
  BY <1>5, OffKeeps
<1>6. LeftKept(t, {i}, u, {}, f)
  BY <1>4, <1>5 DEF LeftKept, LeftInv
<1>7. \A j \in L : u.vblank[j] = t.vblank[j]
  BY <1>1, <1>2 DEF Off, Only
<1> QED BY <1>2, <1>3, <1>4, <1>6, <1>7 DEF Carry

\* x is what CopyInstead and MakeVisible lead to.
Visible(t, i, x, L, f, U) ==
    t.vblank[i].queued /\ t.vblank[i].pixmap =>
        /\ Sound(x, L \cup {i}, f, {}, U)
        /\ Carry(t, {i}, x, {}, L, f)
        /\ x.vblank[i] = CopyInstead(t, i).vblank[i]

LEMMA CopyKeeps ==
    ASSUME NEW t, NEW L, NEW i \in Ids, NEW f, NEW U, NEW msc \in Nat, NEW d, NEW x,
           Sound(t, L, f, {i}, U), Visible(t, i, x, L, f, U),
           t.vblank[i].queued, t.vblank[i].pixmap
    PROVE  LET u == present_execute_copy(x, i, msc, d)
           IN  Sound(u, L, f, {}, U) /\ Carry(t, {i}, u, {}, L, f)
<1> DEFINE u == present_execute_copy(x, i, msc, d)
<1>1. t \in State /\ QueueInv(t, L) /\ FlipInv(t) /\ L \subseteq Ids
  BY DEF Sound, QueueInv
<1>2. Off(t, CopyInstead(t, i), i) /\ ~CopyInstead(t, i).vblank[i].flip
  BY <1>1, CopyInsteadDoes
<1>3. /\ Sound(x, L \cup {i}, f, {}, U) /\ Carry(t, {i}, x, {}, L, f)
      /\ x.vblank[i] = CopyInstead(t, i).vblank[i]
  BY DEF Visible
<1>4. i \notin L /\ t.vblank[i].window \in t.alive
  <2>1. Placed(t, L, i)
    BY <1>1 DEF QueueInv
  <2> QED BY <2>1, <1>1, Limbo DEF Placed
<1>5. ~x.vblank[i].flip /\ x.vblank[i].pixmap /\ x.vblank[i].window \in x.alive
  BY <1>2, <1>3, <1>4 DEF Off, Only, VSame, VFields, Carry, Stable
<1>6. i \in L \cup {i} /\ (L \cup {i}) \ {i} = L
  BY <1>4
<1>7. Sound(u, L, f, {}, U) /\ Carry(x, {}, u, {}, L, f)
  <2>1. CASE MustRequeue(x, i, msc, d)
    <3>1. u = LET v == x.vblank[i] IN
              [present_queue_vblank(x, i, v.exec) EXCEPT
                  !.vblank[i].queued = TRUE, !.exec = @ \cup {i},
                  !.list[v.window] = Append(@, i)]
      BY <2>1 DEF present_execute_copy
    <3> HIDE DEF u
    <3>3. x.vblank[i].exec \in Nat
      BY <2>1 DEF MustRequeue
    <3>2. Sound(u, (L \cup {i}) \ {i}, f, {}, U) /\ Carry(x, {}, u, {}, (L \cup {i}) \ {i}, f)
      BY <3>1, <3>3, <1>3, <1>5, <1>6, RequeueKeeps
    <3> QED BY <3>2, <1>6
  <2>2. CASE ~MustRequeue(x, i, msc, d)
    <3>1. u = present_execute_post(x, i)
      BY <2>2 DEF present_execute_copy
    <3> HIDE DEF u
    <3>2. Sound(u, (L \cup {i}) \ {i}, f, {}, U) /\ Carry(x, {}, u, {}, (L \cup {i}) \ {i}, f)
      BY <3>1, <1>3, <1>6, PostKeeps
    <3> QED BY <3>2, <1>6
  <2> QED BY <2>1, <2>2
<1> HIDE DEF u
<1>8. Carry(t, {i}, u, {}, L, f)
  BY <1>3, <1>7, CarryTrans
<1> QED BY <1>7, <1>8 DEF u

LEMMA ExecuteKeeps ==
    ASSUME NEW t, NEW L, NEW i \in Ids, NEW f, NEW U, NEW msc, NEW d, NEW x,
           Sound(t, L, f, {i}, U), Due(t, i, msc), Visible(t, i, x, L, f, U)
    PROVE  LET u == Execute(t, i, msc, d, x)
           IN  Sound(u, L, f, {}, U) /\ Carry(t, {i}, u, {}, L, f)
<1> DEFINE u == Execute(t, i, msc, d, x)
           v == t.vblank[i]
<1>1. /\ QueueInv(t, L) /\ FlipInv(t) /\ PixmapInv(t)
      /\ TimeInv(t) /\ ExecInv(t, f, {i}) /\ CoverInv(t, U) /\ t \in State /\ L \subseteq Ids
  BY DEF Sound, QueueInv
<1>2. /\ v.live /\ v.exec \in -1 .. MaxMsc /\ i <= t.last /\ i # 0
      /\ v.queued <=> i # t.pending
      /\ i = t.pending => v.flip /\ v.pixmap /\ t.pending # 0
      /\ v.queued => v.window \in t.alive
  <2>1. Placed(t, L, i) /\ i # 0
    BY <1>1, Constants DEF QueueInv
  <2>2. v.exec \in -1 .. MaxMsc
    BY <1>1, StateType, VblankType
  <2> QED BY <2>1, <2>2, <1>1 DEF Placed, FlipInv, Due
<1>3. QueueHolds /\ v.flip =>
         v.exec <= msc /\ v.exec <= t.msc /\ v.exec # msc + 1 /\ ~HasEvent(t, i)
  <2>1. t.msc \in Nat /\ v.exec \in Int
    BY <1>1, <1>2, StateType, Constants
  <2> QED BY <2>1 DEF Due
<1>4. CASE MustRequeue(t, i, msc, d)
  <2>1. u = present_queue_vblank(t, i, v.exec) /\ ~(QueueHolds /\ v.flip)
    BY <1>3, <1>4 DEF Execute, MustWait, present_execute_wait, MustRequeue
  <2>3. v.exec \in 0 .. MaxMsc
    BY <1>2, <1>4, Constants DEF MustRequeue, Due
  <2>2. TimeBut(t, i)
    BY <1>1 DEF TimeInv, TimeBut
  <2> HIDE DEF u
  <2> QED BY <2>1, <2>2, <2>3, <1>1, <1>2, QueueKeeps DEF u
<1>5. CASE ~MustRequeue(t, i, msc, d) /\ ~FenceIsSet(t, i)
  <2>1. u = [t EXCEPT !.vblank[i].callback = TRUE]
    BY <1>5 DEF Execute, MustWait, present_execute_wait
  <2> HIDE DEF u
  <2> QED BY <2>1, <1>5, WaitFenceKeeps DEF u
<1>6. CASE ~MustRequeue(t, i, msc, d) /\ FenceIsSet(t, i)
  <2>1. CASE v.flip /\ v.pixmap /\ (t.pending # 0 \/ t.unflip)
    <3>1. u = WaitForFlip(t, i)
      BY <2>1, <1>6 DEF Execute, MustWait
    <3> HIDE DEF u
    <3> QED BY <2>1, <3>1, <1>6, WaitForFlipKeeps DEF u
  <2> DEFINE q == TakeOff(t, i)
  <2>2. Off(t, q, i) /\ q.vblank[i].flip = v.flip /\ q.vblank[i].exec = v.exec
    BY <1>1, TakeOffDoes
  <2>3. ASSUME v.queued
        PROVE  /\ Sound(q, L \cup {i}, f, {}, U) /\ Carry(t, {i}, q, {}, L, f)
               /\ i \in L \cup {i} /\ (L \cup {i}) \ {i} = L
    BY <2>2, <2>3, OffCarries
  <2>4. CASE ~v.pixmap
    <3>1. u = present_execute_post(q, i)
      BY <2>4, <1>6 DEF Execute, MustWait
    <3> HIDE DEF u, q
    <3>2. v.queued
      BY <2>4, <1>2
    <3>3. Sound(u, (L \cup {i}) \ {i}, f, {}, U) /\ Carry(q, {}, u, {}, (L \cup {i}) \ {i}, f)
      BY <3>1, <3>2, <2>3, PostKeeps
    <3>4. Sound(u, L, f, {}, U) /\ Carry(q, {}, u, {}, L, f)
      BY <3>2, <3>3, <2>3
    <3>5. Carry(t, {i}, u, {}, L, f)
      BY <3>2, <3>4, <2>3, CarryTrans
    <3> QED BY <3>4, <3>5 DEF u
  <2>5. CASE v.pixmap /\ v.flip /\ t.pending = 0 /\ ~t.unflip /\ d.flip
    <3>1. u = StartFlip(q, i)
      BY <2>5, <1>6 DEF Execute, MustWait
    <3> HIDE DEF u, q
    <3>2. v.queued
      BY <2>5, <1>2
    <3>3. /\ q.pending = 0 /\ ~q.unflip /\ q.vblank[i].window = v.window /\ q.alive = t.alive
          /\ q.vblank[i].flip /\ q.vblank[i].pixmap /\ ~q.vblank[i].queued
          /\ q.fence = t.fence /\ q.armed = t.armed /\ q.msc = t.msc /\ q.full = t.full
          /\ q.missed = t.missed /\ q.left = t.left
      BY <2>2, <2>5 DEF Off, Same, Fields, Only, VSame, VFields
    <3>4. FenceIsSet(q, i) /\ (QueueHolds => q.vblank[i].exec <= q.msc /\ ~HasEvent(q, i))
      BY <2>2, <2>5, <3>3, <1>3, <1>6 DEF FenceIsSet, HasEvent
    <3>5. q.vblank[i].window = q.full \/ i \in q.missed
      BY <2>5, <3>2, <3>3, <1>1 DEF CoverInv
    <3>6. q.vblank[i].window \in q.alive
      BY <3>2, <3>3, <1>2
    <3>7. ASSUME NEW Z
          PROVE  /\ Sound(u, (L \cup {i}) \ {i}, f, {}, U) /\ LeftIn(u, f, {}, Z)
                 /\ u.vblank = q.vblank
      BY <2>3, <3>1, <3>2, <3>3, <3>4, <3>5, <3>6, StartFlipKeeps
    <3>8. Sound(u, L, f, {}, U) /\ u.vblank = q.vblank
      BY <3>2, <3>7, <2>3
    <3>9. Stable(q, u)
      <4>1. QueueInv(q, L \cup {i}) /\ FlipInv(q) /\ PixmapInv(q)
        BY <3>2, <2>3 DEF Sound
      <4>2. Same(q, u, {"pending", "flips", "flipping", "pixmapOf"})
        BY <4>1, <3>1, <3>3, <3>6, <2>3, <3>2, StartFlipDoes
      <4> QED BY <4>2 DEF Same, Fields, Stable
    <3>10. LeftKept(q, {}, u, {}, f)
      BY <3>7 DEF LeftKept, LeftInv
    <3>11. Carry(q, {}, u, {}, L, f)
      BY <3>8, <3>9, <3>10 DEF Carry
    <3>12. Carry(t, {i}, u, {}, L, f)
      BY <3>2, <3>11, <2>3, CarryTrans
    <3> QED BY <3>8, <3>12 DEF u
  <2>6. CASE /\ ~(v.flip /\ v.pixmap /\ (t.pending # 0 \/ t.unflip)) /\ v.pixmap
             /\ ~(v.flip /\ d.flip)
    <3>1. u = present_execute_copy(x, i, msc, d)
      BY <2>6, <1>6 DEF Execute, MustWait
    <3>2. v.queued
      BY <2>6, <1>2
    <3>3. msc \in Nat
      BY <1>1, StateType, Constants DEF Due
    <3> HIDE DEF u
    <3> QED BY <3>1, <3>2, <3>3, <2>6, CopyKeeps DEF u
  <2> QED BY <2>1, <2>4, <2>5, <2>6
<1> QED BY <1>4, <1>5, <1>6

-----------------------------------------------------------------------------
(* Aborted flips, and the end of a flip and of an unflip.                  *)

LEMMA AbortKeeps ==
    ASSUME NEW t, NEW L, NEW f, NEW X, NEW U, NEW V, Sound(t, L, f, X, U), t.pending # 0
    PROVE  LET u == present_set_abort_flip(t)
           IN  /\ Sound(u, L, f, X, V) /\ Carry(t, X, u, X, L, f)
               /\ Same(t, u, {"vblank", "pixmapOf"})
               /\ Only(t, u, t.pending, {"abort"}) /\ u.vblank[t.pending].abort
<1> DEFINE u == present_set_abort_flip(t)
           p == t.pending
           r == present_restore_screen_pixmap(t)
           x == [r.vblank[p] EXCEPT !.abort = TRUE]
<1>1. /\ QueueInv(t, L) /\ FlipInv(t) /\ PixmapInv(t)
      /\ TimeInv(t) /\ ExecInv(t, f, X) /\ CoverInv(t, U) /\ t \in State /\ L \subseteq Ids
  BY DEF Sound, QueueInv
<1>2. p \in Ids /\ p \notin L /\ t.vblank[p] \in Vblank /\ t.vblank[p].live
  <2>1. p \in Ids
    BY <1>1, StateType
  <2>2. Placed(t, L, p) /\ p \in Flips(t)
    BY <2>1, <1>1 DEF QueueInv, FlipInv
  <2> QED BY <2>1, <2>2, <1>1, StateType DEF Placed
<1>3. CASE t.vblank[p].abort
  <2>1. u = t
    BY <1>3 DEF present_set_abort_flip
  <2>2. CoverInv(t, V)
    BY <1>1, <1>3 DEF CoverInv
  <2>3. Sound(t, L, f, X, V)
    BY <2>2 DEF Sound
  <2>4. Same(t, t, {"vblank", "pixmapOf"}) /\ Only(t, t, p, {"abort"})
    BY DEF Same, Only, VSame
  <2> HIDE DEF u
  <2> QED BY <2>1, <2>3, <2>4, <1>3, CarrySame DEF u
<1>4. CASE ~t.vblank[p].abort
  <2>1. /\ r \in State /\ Same(t, r, {"pixmapOf"})
        /\ \A y \in t.alive \cup {Root} : r.pixmapOf[y] = Screen
    <3>1. Current(t) # 0
      BY DEF Current
    <3> QED BY <3>1, <1>1, RestoreDoes
  <2>2. u = [r EXCEPT !.vblank = [r.vblank EXCEPT ![p] = x]]
    BY <1>4 DEF present_set_abort_flip
  <2> HIDE DEF r, u
  <2>3. r.vblank = t.vblank
    BY <2>1 DEF Same, Fields
  <2>4. x \in Vblank /\ VSame(t.vblank[p], x, {"abort"}) /\ x.abort
    <3>1. PICK v \in Vblank : v = r.vblank[p]
      BY <2>3, <1>2
    <3>2. x = [v EXCEPT !.abort = TRUE] /\ t.vblank[p] = v
      BY <3>1, <2>3
    <3>3. [v EXCEPT !.abort = TRUE] \in Vblank
      BY VblankSet
    <3>4. VSame(v, [v EXCEPT !.abort = TRUE], {"abort"}) /\ [v EXCEPT !.abort = TRUE].abort
      BY DEF VSame, VFields, Vblank
    <3> QED BY <3>2, <3>3, <3>4
  <2> HIDE DEF x, p
  <2>5. /\ u \in State /\ Same(r, u, {"vblank"}) /\ u.vblank[p] = x
        /\ \A j \in Ids \ {p} : u.vblank[j] = t.vblank[j]
    BY <1>2, <2>1, <2>2, <2>3, <2>4, PutVblank
  <2>6. Same(t, u, {"vblank", "pixmapOf"}) /\ u.pixmapOf = r.pixmapOf
    BY <2>1, <2>5 DEF Same, Fields
  <2>7. /\ u.last = t.last /\ u.pending = t.pending /\ u.alive = t.alive /\ u.unflip = t.unflip
        /\ u.flip = t.flip /\ u.flipWindow = t.flipWindow /\ u.list = t.list
        /\ u.full = t.full /\ u.fence = t.fence /\ u.missed = t.missed /\ u.left = t.left
        /\ u.released = t.released /\ u.wrong = t.wrong /\ u.msc = t.msc /\ u.flips = t.flips
        /\ u.flipping = t.flipping /\ u.flipped = t.flipped /\ u.shown = t.shown
        /\ u.mistaken = t.mistaken
        /\ u.armed = t.armed /\ u.exec = t.exec
    BY <2>6 DEF Same, Fields
  <2>8. \A j \in Ids : /\ u.vblank[j].live = t.vblank[j].live
                       /\ u.vblank[j].window = t.vblank[j].window
                       /\ u.vblank[j].pixmap = t.vblank[j].pixmap
                       /\ u.vblank[j].exec = t.vblank[j].exec
                       /\ u.vblank[j].flip = t.vblank[j].flip
                       /\ u.vblank[j].queued = t.vblank[j].queued
                       /\ u.vblank[j].callback = t.vblank[j].callback
    BY <2>4, <2>5 DEF VSame, VFields
  <2>9. /\ t.exec \subseteq Ids /\ Flips(t) \subseteq Ids /\ Flips(u) = Flips(t)
        /\ \A j \in Ids : HasEvent(u, j) <=> HasEvent(t, j)
        /\ t.flip # 0 => t.flip \in Ids
        /\ t.released \subseteq Ids
    BY <1>1, <2>7, StateType, FlipsFacts DEF HasEvent, Flips
  <2>10. QueueInv(u, L)
    <3>1. ASSUME NEW j \in Ids PROVE Placed(u, L, j)
      <4>1. Placed(t, L, j)
        BY <1>1 DEF QueueInv
      <4>2. ~u.vblank[j].live => u.vblank[j] = Gone
        BY <4>1, <1>2, <2>5, <2>8 DEF Placed
      <4> QED BY <4>1, <4>2, <2>7, <2>8, <2>9 DEF Placed
    <3> QED BY <3>1, <1>1, <2>5, <2>7 DEF QueueInv
  <2>11. FlipInv(u)
    BY <1>1, <1>2, <2>7, <2>8, <2>9 DEF FlipInv, p
  <2>12. PixmapInv(u)
    BY <1>1, <2>1, <2>6, <2>7 DEF PixmapInv, Current
  <2>13. TimeInv(u)
    <3>1. ASSUME NEW j \in Ids, InTime(t, j) PROVE InTime(u, j)
      BY <3>1, <2>7, <2>8, <2>9 DEF InTime
    <3> QED BY <3>1, <1>1, <2>7, <2>9 DEF TimeInv, FenceIsSet
  <2>14. ExecInv(u, f, X)
    BY <1>1, <2>7, <2>8, <2>9 DEF ExecInv
  <2>15. CoverInv(u, V)
    BY <1>1, <2>4, <2>5, <2>7, <2>8 DEF CoverInv, p
  <2>16. Carry(t, X, u, X, L, f)
    <3>1. \A Z : LeftIn(u, f, X, Z)
      BY <2>7 DEF LeftIn
    <3>2. LeftKept(t, X, u, X, f)
      BY <3>1 DEF LeftKept, LeftInv
    <3> QED BY <3>2, <1>1, <1>2, <2>5, <2>7 DEF Carry, Stable
  <2>17. Only(t, u, p, {"abort"}) /\ u.vblank[p].abort
    BY <2>4, <2>5 DEF Only
  <2>18. Sound(u, L, f, X, V)
    BY <2>10, <2>11, <2>12, <2>13, <2>14, <2>15 DEF Sound
  <2> QED BY <2>6, <2>16, <2>17, <2>18 DEF u, p
<1> QED BY <1>3, <1>4

\* The hardware makes the flip i, which may be the unflip.
LEMMA PageFlipDoes ==
    ASSUME NEW t \in State, NEW i \in t.flipping
    PROVE  LET u == [t EXCEPT !.flipping = @ \ {i}, !.flipped = @ \cup {i}, !.shown = i]
           IN  /\ u \in State /\ Same(t, u, {"flipping", "flipped", "shown"})
               /\ u.flipping = t.flipping \ {i} /\ u.flipped = t.flipped \cup {i} /\ u.shown = i
<1> DEFINE g == t.flipping \ {i}
           h == t.flipped \cup {i}
           u == [t EXCEPT !.flipping = @ \ {i}, !.flipped = @ \cup {i}, !.shown = i]
<1>1. /\ g \in SUBSET (0 .. MaxPresents) /\ h \in SUBSET (0 .. MaxPresents)
      /\ i \in 0 .. MaxPresents
  BY StateType
<1>2. u = [t EXCEPT !.flipping = g, !.flipped = h, !.shown = i]
  OBVIOUS
<1> HIDE DEF g, h, u
<1>3. u \in State
  BY <1>1, <1>2, Zenon DEF State
<1>4. /\ Same(t, u, {"flipping", "flipped", "shown"})
      /\ u.flipping = g /\ u.flipped = h /\ u.shown = i
  BY <1>2 DEF Same, Fields, State
<1> QED BY <1>3, <1>4 DEF g, h, u

LEMMA PageFlipKeeps ==
    ASSUME NEW t, NEW L, NEW f, NEW X, NEW U, Sound(t, L, f, X, U), NEW i \in t.flipping,
           NEW u \in State, Same(t, u, {"flipping", "flipped", "shown"}),
           u.flipping = t.flipping \ {i}, u.flipped = t.flipped \cup {i}, u.shown = i
    PROVE  Sound(u, L, f, X, U) /\ Carry(t, X, u, X, L, f)
<1>1. /\ QueueInv(t, L) /\ FlipInv(t) /\ PixmapInv(t)
      /\ TimeInv(t) /\ ExecInv(t, f, X) /\ CoverInv(t, U) /\ t \in State /\ L \subseteq Ids
  BY DEF Sound, QueueInv
<1>2. i \in 0 .. MaxPresents
  BY <1>1, StateType
<1>6. /\ u.last = t.last /\ u.pending = t.pending /\ u.alive = t.alive /\ u.unflip = t.unflip
      /\ u.flip = t.flip /\ u.flipWindow = t.flipWindow /\ u.pixmapOf = t.pixmapOf
      /\ u.full = t.full /\ u.fence = t.fence /\ u.missed = t.missed /\ u.left = t.left
      /\ u.released = t.released /\ u.wrong = t.wrong /\ u.msc = t.msc /\ u.flips = t.flips
      /\ u.vblank = t.vblank /\ u.exec = t.exec /\ u.list = t.list /\ u.armed = t.armed
      /\ u.mistaken = t.mistaken
  BY DEF Same, Fields
<1>7. QueueInv(u, L)
  BY <1>1, <1>6 DEF QueueInv, Placed, Flips
<1>8. FlipInv(u)
  <2>1. u.flipping \cap u.flipped = {} /\ u.flipping \cup u.flipped = t.flipping \cup t.flipped
    BY <1>1 DEF FlipInv
  <2> QED BY <2>1, <1>1, <1>6 DEF FlipInv, Flips
<1>9. PixmapInv(u)
  <2>1. t.mistaken \/ (i # 0 /\ i = t.pending) \/ (i = 0 /\ t.unflip)
    BY <1>1, <1>2 DEF FlipInv, Unflip
  <2>2. i \in u.flipped
    OBVIOUS
  <2>3. t.pending = 0 \/ ~t.unflip
    BY <1>1 DEF FlipInv
  <2> QED BY <2>1, <2>2, <2>3, <1>1, <1>6 DEF PixmapInv, Current, Unflip, Screen
<1>10. TimeInv(u) /\ ExecInv(u, f, X) /\ CoverInv(u, U)
  BY <1>1, <1>6 DEF TimeInv, ExecInv, CoverInv, InTime, HasEvent, FenceIsSet, Flips
<1>11. Carry(t, X, u, X, L, f)
  <2>1. \A Z : LeftIn(t, f, X, Z) => LeftIn(u, f, X, Z)
    BY <1>6 DEF LeftIn, HasEvent, Flips
  <2>2. LeftKept(t, X, u, X, f)
    BY <2>1, <1>6 DEF LeftKept, LeftInv
  <2> QED BY <2>2, <1>6 DEF Carry, Stable
<1>12. Sound(u, L, f, X, U)
  BY <1>7, <1>8, <1>9, <1>10 DEF Sound
<1> QED BY <1>11, <1>12

\* The pixmap that was shown is released.
LEMMA FlipIdleDoes ==
    ASSUME NEW t \in State, t.flip \notin t.released, t.flip = 0 => t.flipWindow = None
    PROVE  LET u == present_flip_idle(t)
           IN  /\ u \in State
               /\ Same(t, u, {"flip", "flipWindow", "missed", "released"})
               /\ u.flip = 0 /\ u.flipWindow = None /\ u.missed = t.missed \ {t.flip}
               /\ u.released = t.released \cup ({t.flip} \ {0})
<1> DEFINE u == present_flip_idle(t)
           r == Release(t, t.flip)
           m == r.missed \ {t.flip}
<1>0. t.missed \subseteq Ids /\ 0 \notin Ids
  BY StateType, Constants
<1>1. CASE t.flip = 0
  <2>1. u = t
    BY <1>1 DEF present_flip_idle
  <2> HIDE DEF u
  <2> QED BY <2>1, <1>0, <1>1 DEF Same, u
<1>2. CASE t.flip # 0
  <2>1. t.flip \in Ids
    BY <1>2, StateType
  <2>2. /\ r \in State /\ Same(t, r, {"released", "wrong"}) /\ r.released = t.released \cup {t.flip}
        /\ r.wrong = t.wrong
    BY <2>1, ReleaseDoes
  <2>3. u = [r EXCEPT !.flip = 0, !.flipWindow = None, !.missed = m]
    BY <1>2 DEF present_flip_idle
  <2> HIDE DEF u, r
  <2>4. 0 \in Ids \cup {0} /\ None \in Windows \cup {None} /\ m \in SUBSET Ids
    BY <2>2, StateType
  <2> HIDE DEF m
  <2>5. u \in State
    BY <2>2, <2>3, <2>4, Zenon DEF State
  <2>6. /\ Same(r, u, {"flip", "flipWindow", "missed"})
        /\ u.flip = 0 /\ u.flipWindow = None /\ u.missed = m
    BY <2>2, <2>3 DEF Same, Fields, State
  <2>7. u.released = r.released /\ u.wrong = r.wrong /\ r.missed = t.missed
    BY <2>2, <2>6 DEF Same, Fields
  <2>8. Same(t, u, {"flip", "flipWindow", "missed", "released"})
    BY <2>2, <2>6, <2>7 DEF Same
  <2> QED BY <2>2, <2>5, <2>6, <2>7, <2>8, <1>2 DEF u, m
<1> QED BY <1>1, <1>2

\* The event of an unflip has come: p is the state before it is taken.
LEMMA UnflipIdle ==
    ASSUME NEW p, NEW t \in State, NEW L, NEW f, NEW X, NEW U, Sound(p, L, f, X, U),
           p.unflip, Unflip \in p.flipped, Same(p, t, {"flipped"}),
           t.flipped = p.flipped \ {Unflip}
    PROVE  LET u == present_flip_idle([t EXCEPT !.unflip = FALSE])
           IN  /\ Sound(u, L, f, X, {}) /\ Stable(p, u)
               /\ u.pending = 0 /\ ~u.unflip /\ u.flipWindow = None
               /\ u.vblank = p.vblank /\ u.flips = p.flips /\ u.armed = p.armed
<1> DEFINE t1 == [t EXCEPT !.unflip = FALSE]
           u  == present_flip_idle(t1)
<1>1. /\ QueueInv(p, L) /\ FlipInv(p) /\ PixmapInv(p)
      /\ TimeInv(p) /\ ExecInv(p, f, X) /\ CoverInv(p, U) /\ p \in State /\ L \subseteq Ids
  BY DEF Sound, QueueInv
<1>2. t1 \in State
  <2>1. FALSE \in BOOLEAN
    OBVIOUS
  <2> QED BY <2>1, Zenon DEF State
<1>3. Same(t, t1, {"unflip"}) /\ ~t1.unflip
  BY DEF Same, Fields, State
<1>4. Same(p, t1, {"flipped", "unflip"}) /\ t1.flipped = p.flipped \ {Unflip}
  <2>1. t1.flipped = t.flipped
    BY <1>3 DEF Same, Fields
  <2> QED BY <2>1, <1>3 DEF Same
<1> HIDE DEF t1, u
<1>5. t1.flip = p.flip /\ t1.released = p.released /\ t1.flipWindow = p.flipWindow
      /\ t1.missed = p.missed
  BY <1>4 DEF Same, Fields
<1>6. 0 \notin p.released /\ p.released \subseteq Ids /\ (p.flip # 0 => p.flip \in Ids)
  BY <1>1, StateType, Constants
<1>7. /\ u \in State /\ Same(t1, u, {"flip", "flipWindow", "missed", "released"})
      /\ u.flip = 0 /\ u.flipWindow = None /\ u.missed = p.missed \ {p.flip}
      /\ u.released = p.released \cup ({p.flip} \ {0})
  <2>1. t1.flip \notin t1.released /\ (t1.flip = 0 => t1.flipWindow = None)
    BY <1>1, <1>5, <1>6 DEF FlipInv
  <2> QED BY <2>1, <1>2, <1>5, FlipIdleDoes DEF u
<1>8. /\ u.last = p.last /\ u.pending = p.pending /\ u.alive = p.alive /\ ~u.unflip
      /\ u.pixmapOf = p.pixmapOf /\ u.flipped = p.flipped \ {Unflip}
      /\ u.full = p.full /\ u.fence = p.fence /\ u.left = p.left
      /\ u.wrong = p.wrong /\ u.msc = p.msc /\ u.flips = p.flips
      /\ u.flipping = p.flipping /\ u.shown = p.shown
      /\ u.mistaken = p.mistaken /\ u.armed = p.armed
      /\ u.vblank = p.vblank /\ u.exec = p.exec /\ u.list = p.list
  BY <1>3, <1>4, <1>7 DEF Same, Fields
<1>9. /\ p.pending = 0 /\ Unflip \notin p.flipping /\ Unflip \notin u.flipped
      /\ ~p.mistaken => p.flipping = {} /\ u.flipped = {}
  <2>1. p.pending = 0
    BY <1>1 DEF FlipInv
  <2>2. ~p.mistaken => \A i \in p.flipping \cup p.flipped : i = Unflip
    BY <2>1, <1>1 DEF FlipInv
  <2>3. Unflip \notin p.flipping
    BY <1>1 DEF FlipInv
  <2> QED BY <2>1, <2>2, <2>3, <1>8
<1>10. QueueInv(u, L)
  BY <1>1, <1>7, <1>8 DEF QueueInv, Placed, Flips
<1>11. FlipInv(u)
  <2>1. \A i \in u.released : i <= u.last /\ ~u.vblank[i].pixmap
    BY <1>1, <1>7, <1>8 DEF FlipInv
  <2>2. u.flipping \cap u.flipped = {}
    BY <1>1, <1>8 DEF FlipInv
  <2>3. \A i \in u.flipping \cup u.flipped :
          /\ u.mistaken /\ i \in Ids /\ i <= u.last
          /\ ~u.vblank[i].pixmap /\ ~u.vblank[i].queued
    BY <1>1, <1>8, <1>9 DEF FlipInv
  <2>4. u.flip = 0 /\ u.flipWindow = None /\ u.pending = 0 /\ u.wrong = {} /\ ~u.unflip
    BY <1>1, <1>7, <1>8, <1>9 DEF FlipInv
  <2> QED BY <2>1, <2>2, <2>3, <2>4 DEF FlipInv
<1>12. PixmapInv(u)
  BY <1>1, <1>7, <1>8, <1>9 DEF PixmapInv, Current, Screen
<1>13. TimeInv(u)
  <2>1. \A j \in Ids : InTime(p, j) => InTime(u, j)
    BY <1>8 DEF InTime, HasEvent
  <2>2. p.exec \subseteq Ids /\ Flips(p) \subseteq Ids /\ Flips(u) = Flips(p)
    BY <1>1, <1>8, StateType, FlipsFacts DEF Flips
  <2> QED BY <2>1, <2>2, <1>1, <1>8 DEF TimeInv, FenceIsSet
<1>14. ExecInv(u, f, X)
  BY <1>1, <1>8 DEF ExecInv, HasEvent
<1>15. CoverInv(u, {})
  <2>1. p.flip # 0 => ~p.vblank[p.flip].queued
    BY <1>1 DEF FlipInv
  <2>2. \A i \in Ids : u.vblank[i].queued /\ u.vblank[i].flip =>
          u.vblank[i].window = u.full \/ i \in u.missed
    BY <2>1, <1>1, <1>7, <1>8, Constants DEF CoverInv
  <2> QED BY <2>2, <1>7, <1>8, <1>9 DEF CoverInv
<1>16. Sound(u, L, f, X, {})
  BY <1>10, <1>11, <1>12, <1>13, <1>14, <1>15 DEF Sound
<1> QED BY <1>7, <1>8, <1>9, <1>16 DEF u, t1, Stable

LEMMA MakeVisibleKeeps ==
    ASSUME NEW t, NEW L, NEW f, NEW U, NEW w, NEW x, Sound(t, L, f, {}, U),
           t.pending = 0 /\ ~t.unflip /\ t.flipWindow = w =>
               Sound(x, L, f, {}, U) /\ Carry(t, {}, x, {}, L, f)
    PROVE  LET u == MakeVisible(t, w, x)
           IN  Sound(u, L, f, {}, U) /\ Carry(t, {}, u, {}, L, f)
<1> DEFINE u == MakeVisible(t, w, x)
<1>1. CASE t.pending # 0 /\ t.vblank[t.pending].window = w
  <2>1. u = present_set_abort_flip(t)
    BY <1>1 DEF MakeVisible
  <2> HIDE DEF u
  <2> QED BY <1>1, <2>1, AbortKeeps DEF u
<1>2. CASE t.pending = 0 /\ ~t.unflip /\ t.flipWindow = w
  BY <1>2 DEF MakeVisible
<1>3. CASE \/ t.pending # 0 /\ t.vblank[t.pending].window # w
           \/ t.pending = 0 /\ ~(~t.unflip /\ t.flipWindow = w)
  <2>1. u = t
    BY <1>3 DEF MakeVisible
  <2> HIDE DEF u
  <2> QED BY <2>1, CarrySame DEF u
<1> QED BY <1>1, <1>2, <1>3

LEMMA VisibleMade ==
    ASSUME NEW t, NEW L, NEW i \in Ids, NEW f, NEW U, NEW x, NEW c, Sound(t, L, f, {i}, U),
           c = CopyInstead(t, i),
           /\ t.vblank[i].queued
           /\ Sound(c, L \cup {i}, f, {}, U)
           /\ c.pending = 0 /\ ~c.unflip /\ c.flipWindow = t.vblank[i].window
           => Sound(x, L \cup {i}, f, {}, U) /\ Carry(c, {}, x, {}, L \cup {i}, f)
    PROVE  Visible(t, i, MakeVisible(c, t.vblank[i].window, x), L, f, U)
<1> DEFINE w == t.vblank[i].window
           m == MakeVisible(c, w, x)
<1> SUFFICES ASSUME t.vblank[i].queued
             PROVE  /\ Sound(m, L \cup {i}, f, {}, U)
                    /\ Carry(t, {i}, m, {}, L, f)
                    /\ m.vblank[i] = c.vblank[i]
  BY DEF Visible
<1>1. Off(t, c, i)
  BY CopyInsteadDoes DEF Sound
<1>2. Sound(c, L \cup {i}, f, {}, U) /\ Carry(t, {i}, c, {}, L, f)
  BY <1>1, OffCarries
<1>3. Sound(m, L \cup {i}, f, {}, U) /\ Carry(c, {}, m, {}, L \cup {i}, f)
  BY <1>2, MakeVisibleKeeps
<1> HIDE DEF m
<1>4. m.vblank[i] = c.vblank[i]
  BY <1>3 DEF Carry
<1>5. Carry(c, {}, m, {}, L, f)
  <2>1. L \in SUBSET (L \cup {i})
    OBVIOUS
  <2> QED BY <2>1, <1>3, CarryLess
<1>6. Carry(t, {i}, m, {}, L, f)
  BY <1>2, <1>5, CarryTrans
<1> QED BY <1>3, <1>4, <1>6

LEMMA ExecuteUnflippedKeeps ==
    ASSUME NEW t, NEW L, NEW i \in Ids, NEW f, NEW U, NEW msc, NEW d,
           Sound(t, L, f, {i}, U), Due(t, i, msc), t.flipWindow = None
    PROVE  LET u == ExecuteUnflipped(t, i, msc, d)
           IN  Sound(u, L, f, {}, U) /\ Carry(t, {i}, u, {}, L, f)
<1> DEFINE c == CopyInstead(t, i)
           x == Asserts(c, FALSE)
           m == MakeVisible(c, t.vblank[i].window, x)
           u == ExecuteUnflipped(t, i, msc, d)
<1>1. QueueInv(t, L) /\ t \in State
  BY DEF Sound, QueueInv
<1>2. t.vblank[i].queued => t.vblank[i].window # None
  <2>1. Placed(t, L, i) /\ t.alive \subseteq Windows
    BY <1>1, StateType DEF QueueInv
  <2> QED BY <2>1, Constants DEF Placed
<1>3. c.flipWindow = None
  <2>1. Off(t, c, i)
    BY <1>1, CopyInsteadDoes
  <2> QED BY <2>1 DEF Off, Same, Fields
<1>4. Visible(t, i, m, L, f, U)
  <2> HIDE DEF x, c
  <2>1. c = CopyInstead(t, i)
    BY DEF c
  <2> QED BY <2>1, <1>2, <1>3, VisibleMade
<1>5. u = Execute(t, i, msc, d, m)
  BY DEF ExecuteUnflipped
<1> HIDE DEF u, m
<1> QED BY <1>4, <1>5, ExecuteKeeps DEF u

-----------------------------------------------------------------------------
(* present_flip_try_ready, present_unflip, present_execute.                *)

\* The waiting flips that are not tried.
Rest(t) == {t.flips[k] : k \in Ready(t) \ {Min(Ready(t))}}

LEMMA ReadyDoes ==
    ASSUME NEW t, NEW L, QueueInv(t, L), FlipInv(t), TimeInv(t)
    PROVE  /\ Ready(t) = {} => \A j \in Flips(t) : j = t.pending
           /\ Ready(t) # {} =>
                 /\ FirstReady(t) \in Ids /\ Due(t, FirstReady(t), t.msc)
                 /\ Rest(t) \subseteq Ids
                 /\ \A j \in Flips(t) \ {FirstReady(t)} : j = t.pending \/ j \in Rest(t)
<1>1. t \in State /\ t.flips \in Seq(Ids) /\ Len(t.flips) \in Nat /\ t.msc \in 0 .. MaxMsc
  BY StateType DEF QueueInv
<1>2. \A j \in Flips(t) : j # t.pending => t.vblank[j].queued
  <2>1. Flips(t) \subseteq Ids
    BY <1>1, FlipsFacts
  <2> QED BY <2>1 DEF QueueInv, Placed
<1>3. \A j : j \in Flips(t) <=> \E k \in 1 .. Len(t.flips) : t.flips[k] = j
  BY <1>1, RangeFacts DEF Flips
<1>4. \A j \in Flips(t) : j # t.pending => \E k \in Ready(t) : t.flips[k] = j
  BY <1>2, <1>3 DEF Ready
<1>5. ASSUME Ready(t) # {}
      PROVE  /\ FirstReady(t) \in Ids /\ Due(t, FirstReady(t), t.msc)
             /\ Rest(t) \subseteq Ids
             /\ \A j \in Flips(t) \ {FirstReady(t)} : j = t.pending \/ j \in Rest(t)
  <2> DEFINE m == Min(Ready(t))
             i == t.flips[m]
  <2>1. Ready(t) \in SUBSET Nat /\ Ready(t) \subseteq 1 .. Len(t.flips)
    BY <1>1 DEF Ready
  <2>2. m \in Ready(t)
    BY <2>1, <1>5, LeastIndex
  <2>3. FirstReady(t) = i
    BY DEF FirstReady
  <2> HIDE DEF m
  <2>4. i \in Ids /\ i \in Flips(t)
    BY <1>1, <1>3, <2>1, <2>2
  <2>5. Placed(t, L, i) /\ InTime(t, i)
    BY <2>4 DEF QueueInv, TimeInv
  <2>6. Due(t, i, t.msc)
    <3>1. t.msc \in 0 .. t.msc
      BY <1>1, Constants
    <3> QED BY <3>1, <2>4, <2>5 DEF Placed, InTime, Due
  <2>7. Rest(t) = {t.flips[k] : k \in Ready(t) \ {m}}
    BY DEF Rest, m
  <2>8. Rest(t) \subseteq Ids
    BY <2>1, <2>7, <1>1
  <2>9. ASSUME NEW j \in Flips(t) \ {i}, j # t.pending PROVE j \in Rest(t)
    <3>1. PICK k \in Ready(t) : t.flips[k] = j
      BY <2>9, <1>4
    <3> QED BY <3>1, <2>7, <2>9
  <2> HIDE DEF i
  <2> QED BY <2>3, <2>4, <2>6, <2>8, <2>9
<1> QED BY <1>4, <1>5

LEMMA SetLeft ==
    ASSUME NEW t, NEW L, NEW f, NEW X, NEW U, NEW Y \in SUBSET Ids, Sound(t, L, f, X, U)
    PROVE  LET u == [t EXCEPT !.left = Y]
           IN  Sound(u, L, f, X, U) /\ Same(t, u, {"left"}) /\ u.left = Y
<1> DEFINE u == [t EXCEPT !.left = Y]
<1>1. /\ QueueInv(t, L) /\ FlipInv(t) /\ PixmapInv(t)
      /\ TimeInv(t) /\ ExecInv(t, f, X) /\ CoverInv(t, U) /\ t \in State
  BY DEF Sound, QueueInv
<1>2. u \in State
  BY <1>1, Zenon DEF State
<1>3. Same(t, u, {"left"}) /\ u.left = Y
  BY <1>1 DEF Same, Fields, State
<1> HIDE DEF u
<1>4. /\ u.last = t.last /\ u.pending = t.pending /\ u.alive = t.alive /\ u.unflip = t.unflip
      /\ u.flip = t.flip /\ u.flipWindow = t.flipWindow /\ u.pixmapOf = t.pixmapOf
      /\ u.full = t.full /\ u.fence = t.fence /\ u.missed = t.missed
      /\ u.released = t.released /\ u.wrong = t.wrong /\ u.msc = t.msc /\ u.flips = t.flips
      /\ u.vblank = t.vblank /\ u.exec = t.exec /\ u.list = t.list /\ u.armed = t.armed
      /\ u.flipping = t.flipping /\ u.flipped = t.flipped /\ u.shown = t.shown
      /\ u.mistaken = t.mistaken
  BY <1>3 DEF Same, Fields
<1>5. QueueInv(u, L)
  BY <1>1, <1>2, <1>4 DEF QueueInv, Placed, Flips
<1>6. FlipInv(u) /\ PixmapInv(u)
  BY <1>1, <1>4 DEF FlipInv, PixmapInv, Current, Flips
<1>7. TimeInv(u) /\ ExecInv(u, f, X) /\ CoverInv(u, U)
  BY <1>1, <1>4 DEF TimeInv, ExecInv, CoverInv, InTime, HasEvent, FenceIsSet, Flips
<1> QED BY <1>3, <1>5, <1>6, <1>7 DEF Sound, u

LEMMA TryReadyKeeps ==
    ASSUME NEW t, NEW L, NEW f, NEW U, NEW x, Sound(t, L, f, {}, U),
           Ready(t) # {} =>
              Sound(x, L, f, {}, U) /\ Carry(t, {FirstReady(t)}, x, {}, L, f)
    PROVE  LET u == TryReady(t, x)
           IN  Sound(u, L, f, {}, U) /\ Carry(t, {}, u, {}, L, f) /\ LeftInv(u, f, {})
<1> DEFINE u == TryReady(t, x)
           i == FirstReady(t)
           Y == IF x.pending = 0 /\ ~x.unflip THEN Rest(t) ELSE x.left
<1>1. QueueInv(t, L) /\ FlipInv(t) /\ TimeInv(t) /\ t \in State
  BY DEF Sound, QueueInv
<1>2. CASE Ready(t) = {}
  <2>1. u = t
    BY <1>2 DEF TryReady
  <2>2. \A j \in Flips(t) : t.pending # 0
    BY <1>1, <1>2, ReadyDoes, FlipsFacts, Constants
  <2>3. LeftInv(t, f, {})
    BY <2>2 DEF LeftInv, LeftIn
  <2> HIDE DEF u
  <2> QED BY <2>1, <2>3, CarrySame DEF u
<1>3. CASE Ready(t) # {}
  <2>1. u = [x EXCEPT !.left = Y]
    BY <1>3 DEF TryReady, Rest
  <2>2. Sound(x, L, f, {}, U) /\ Carry(t, {i}, x, {}, L, f)
    BY <1>3
  <2>3. /\ i \in Ids /\ Rest(t) \subseteq Ids
        /\ \A j \in Flips(t) \ {i} : j = t.pending \/ j \in Rest(t)
    BY <1>1, <1>3, ReadyDoes
  <2>4. x \in State
    BY <2>2 DEF Sound, QueueInv
  <2>5. Y \in SUBSET Ids
    BY <2>3, <2>4, StateType
  <2> HIDE DEF u, Y, i
  <2>6. Sound(u, L, f, {}, U) /\ Same(x, u, {"left"}) /\ u.left = Y
    BY <2>1, <2>2, <2>5, SetLeft
  <2>7. /\ u.last = x.last /\ u.pending = x.pending /\ u.alive = x.alive /\ u.unflip = x.unflip
        /\ u.full = x.full /\ u.msc = x.msc /\ u.flips = x.flips /\ u.vblank = x.vblank
        /\ u.armed = x.armed
    BY <2>6 DEF Same, Fields
  <2>8. ASSUME NEW Z, LeftIn(x, f, {}, Z) PROVE LeftIn(u, f, {}, Z)
    BY <2>7, <2>8 DEF LeftIn, Flips, HasEvent
  <2>9. ASSUME NEW Z, LeftIn(t, f, {}, Z) PROVE LeftIn(u, f, {}, Z)
    <3>1. LeftIn(t, f, {i}, Z)
      BY <2>9 DEF LeftIn
    <3> QED BY <3>1, <2>2, <2>8 DEF Carry, LeftKept
  <2>10. LeftInv(u, f, {})
    <3>1. CASE x.pending = 0 /\ ~x.unflip
      <4>1. 0 \notin Flips(t)
        BY <1>1, FlipsFacts, Constants
      <4>2. LeftIn(t, f, {i}, Rest(t))
        BY <4>1, <2>3 DEF LeftIn
      <4>3. LeftIn(u, f, {}, Rest(t))
        BY <4>2, <2>2, <2>8 DEF Carry, LeftKept
      <4> QED BY <4>3, <3>1, <2>6 DEF LeftInv, Y
    <3>2. CASE x.pending # 0 \/ x.unflip
      BY <3>2, <2>7 DEF LeftInv, LeftIn
    <3> QED BY <3>1, <3>2
  <2>11. Carry(t, {}, u, {}, L, f)
    <3>1. LeftKept(t, {}, u, {}, f)
      BY <2>9, <2>10 DEF LeftKept
    <3>2. Stable(t, u)
      BY <2>2, <2>7 DEF Carry, Stable
    <3> QED BY <3>1, <3>2, <2>2, <2>7 DEF Carry
  <2> QED BY <2>6, <2>10, <2>11 DEF u
<1> QED BY <1>2, <1>3

\* What waits for nothing but a flip or an unflip is one of Z.
Waiting(t, f, Z) ==
    \A i \in Flips(t) : HasEvent(t, i) \/ (f = i /\ t.vblank[i].callback) \/ i \in Z

LEMMA UnflipNotifyKeeps ==
    ASSUME NEW p, NEW t \in State, NEW L, NEW f, NEW U, NEW d, Sound(p, L, f, {}, U),
           p.unflip, Unflip \in p.flipped, Same(p, t, {"flipped"}),
           t.flipped = p.flipped \ {Unflip}
    PROVE  LET u == UnflipNotify(t, d)
           IN  /\ Sound(u, L, f, {}, {}) /\ LeftInv(u, f, {}) /\ Stable(p, u)
               /\ \A j \in L : u.vblank[j] = p.vblank[j]
               /\ \A Z : Waiting(p, f, Z) => LeftIn(u, f, {}, Z)
<1> DEFINE u == UnflipNotify(t, d)
           q == present_flip_idle([t EXCEPT !.unflip = FALSE])
           i == FirstReady(q)
           x == ExecuteUnflipped(q, i, q.msc, d)
<1>1. /\ Sound(q, L, f, {}, {}) /\ Stable(p, q)
      /\ q.pending = 0 /\ ~q.unflip /\ q.flipWindow = None
      /\ q.vblank = p.vblank /\ q.flips = p.flips /\ q.armed = p.armed
  BY UnflipIdle
<1>2. u = TryReady(q, x)
  BY DEF UnflipNotify
<1> HIDE DEF u, q
<1>3. ASSUME Ready(q) # {}
      PROVE  Sound(x, L, f, {}, {}) /\ Carry(q, {FirstReady(q)}, x, {}, L, f)
  <2>1. i \in Ids /\ Due(q, i, q.msc)
    BY <1>1, <1>3, ReadyDoes DEF Sound
  <2>2. Sound(q, L, f, {i}, {})
    BY <1>1, SoundMore
  <2> HIDE DEF i
  <2>3. Sound(x, L, f, {}, {}) /\ Carry(q, {i}, x, {}, L, f)
    BY <1>1, <2>1, <2>2, ExecuteUnflippedKeeps
  <2> QED BY <2>3 DEF i
<1> HIDE DEF x
<1>4. Sound(u, L, f, {}, {}) /\ Carry(q, {}, u, {}, L, f) /\ LeftInv(u, f, {})
  BY <1>1, <1>2, <1>3, TryReadyKeeps
<1>5. ASSUME NEW Z, Waiting(p, f, Z) PROVE LeftIn(u, f, {}, Z)
  <2>1. LeftIn(q, f, {}, Z)
    BY <1>1, <1>5 DEF Waiting, LeftIn, Flips, HasEvent
  <2> QED BY <2>1, <1>4 DEF Carry, LeftKept
<1>6. Stable(p, u) /\ \A j \in L : u.vblank[j] = p.vblank[j]
  BY <1>1, <1>4 DEF Stable, Carry
<1> QED BY <1>4, <1>5, <1>6 DEF u

LEMMA PutUnflip ==
    ASSUME NEW t \in State
    PROVE  /\ [t EXCEPT !.unflip = TRUE] \in State
           /\ \A x \in 0 .. MaxPresents : [t EXCEPT !.shown = x] \in State
           /\ \A g \in SUBSET (0 .. MaxPresents) :
                 [t EXCEPT !.unflip = TRUE, !.flipping = g] \in State
           /\ \A x : LET u == [[t EXCEPT !.unflip = TRUE] EXCEPT !.shown = x]
                     IN  Same(t, u, {"unflip", "shown"}) /\ u.unflip = TRUE /\ u.shown = x
           /\ \A g : LET u == [t EXCEPT !.unflip = TRUE, !.flipping = g]
                     IN  /\ Same(t, u, {"unflip", "flipping"})
                         /\ u.unflip = TRUE /\ u.flipping = g
<1>0. TRUE \in BOOLEAN
  OBVIOUS
<1>1. [t EXCEPT !.unflip = TRUE] \in State
  BY <1>0, Zenon DEF State
<1>2. ASSUME NEW x \in 0 .. MaxPresents PROVE [t EXCEPT !.shown = x] \in State
  BY Zenon DEF State
<1>3. ASSUME NEW g \in SUBSET (0 .. MaxPresents)
      PROVE  [t EXCEPT !.unflip = TRUE, !.flipping = g] \in State
  BY <1>0, Zenon DEF State
<1>4. ASSUME NEW x
      PROVE  LET u == [[t EXCEPT !.unflip = TRUE] EXCEPT !.shown = x]
             IN  Same(t, u, {"unflip", "shown"}) /\ u.unflip = TRUE /\ u.shown = x
  <2> DEFINE u == [[t EXCEPT !.unflip = TRUE] EXCEPT !.shown = x]
  <2>1. u.unflip = TRUE /\ u.shown = x
    BY DEF State
  <2>2. \A y \in Fields \ {"unflip", "shown"} : u[y] = t[y]
    BY DEF Fields, State
  <2> HIDE DEF u
  <2>3. Same(t, u, {"unflip", "shown"})
    BY <2>2 DEF Same
  <2> QED BY <2>1, <2>3 DEF u
<1>5. ASSUME NEW g
      PROVE  LET u == [t EXCEPT !.unflip = TRUE, !.flipping = g]
             IN  /\ Same(t, u, {"unflip", "flipping"})
                 /\ u.unflip = TRUE /\ u.flipping = g
  <2> DEFINE u == [t EXCEPT !.unflip = TRUE, !.flipping = g]
  <2>1. u.unflip = TRUE /\ u.flipping = g
    BY DEF State
  <2>2. \A y \in Fields \ {"unflip", "flipping"} : u[y] = t[y]
    BY DEF Fields, State
  <2> HIDE DEF u
  <2>3. Same(t, u, {"unflip", "flipping"})
    BY <2>2 DEF Same
  <2> QED BY <2>1, <2>3 DEF u
<1> QED BY <1>1, <1>2, <1>3, <1>4, <1>5, Zenon

\* The driver is told to show the screen's pixmap again.
LEMMA UnflipBegins ==
    ASSUME NEW t, NEW L, NEW f, NEW U, NEW b, NEW r, Sound(t, L, f, {}, U),
           t.pending = 0, ~t.unflip, t.flip # 0,
           r = present_restore_screen_pixmap(t),
           b = [r EXCEPT !.unflip = TRUE, !.flipping = @ \cup {Unflip}]
    PROVE  /\ Sound(b, L, f, {}, {}) /\ r \in State
           /\ Same(t, b, {"unflip", "flipping", "pixmapOf"}) /\ Same(t, r, {"pixmapOf"})
           /\ b.pixmapOf = r.pixmapOf /\ b.unflip
           /\ b.flipping = t.flipping \cup {Unflip} /\ Unflip \notin t.flipping \cup t.flipped
<1> DEFINE g == r.flipping \cup {Unflip}
<1>1. /\ QueueInv(t, L) /\ FlipInv(t) /\ PixmapInv(t)
      /\ TimeInv(t) /\ ExecInv(t, f, {}) /\ CoverInv(t, U) /\ t \in State
  BY DEF Sound, QueueInv
<1>2. /\ r \in State /\ Same(t, r, {"pixmapOf"})
      /\ \A x \in t.alive \cup {Root} : r.pixmapOf[x] = Screen
  <2>1. Current(t) # 0
    BY DEF Current
  <2> QED BY <2>1, <1>1, RestoreDoes
<1>3. Unflip \in 0 .. MaxPresents
  BY Constants DEF Unflip
<1>4. g \in SUBSET (0 .. MaxPresents) /\ TRUE \in BOOLEAN
  BY <1>2, <1>3, StateType
<1>5. b = [r EXCEPT !.unflip = TRUE, !.flipping = g]
  OBVIOUS
<1> HIDE DEF g
<1>6. b \in State
  <2>1. [r EXCEPT !.unflip = TRUE, !.flipping = g] \in State
    BY <1>2, <1>4, PutUnflip, Zenon
  <2> QED BY <2>1, <1>5
<1>7. Same(r, b, {"unflip", "flipping"}) /\ b.unflip = TRUE /\ b.flipping = g
  <2> DEFINE x == [r EXCEPT !.unflip = TRUE, !.flipping = g]
  <2>1. Same(r, x, {"unflip", "flipping"}) /\ x.unflip = TRUE /\ x.flipping = g
    BY <1>2, PutUnflip, Zenon
  <2> QED BY <2>1, <1>5, Zenon
<1>8. Same(t, b, {"unflip", "flipping", "pixmapOf"}) /\ b.pixmapOf = r.pixmapOf
  BY <1>2, <1>7 DEF Same, Fields
<1>9. /\ b.last = t.last /\ b.pending = t.pending /\ b.alive = t.alive
      /\ b.flip = t.flip /\ b.flipWindow = t.flipWindow /\ b.left = t.left
      /\ b.full = t.full /\ b.fence = t.fence /\ b.missed = t.missed
      /\ b.released = t.released /\ b.wrong = t.wrong /\ b.msc = t.msc /\ b.flips = t.flips
      /\ b.vblank = t.vblank /\ b.exec = t.exec /\ b.list = t.list /\ b.armed = t.armed
      /\ b.flipped = t.flipped /\ b.shown = t.shown /\ b.mistaken = t.mistaken
  BY <1>8 DEF Same, Fields
<1>10. /\ b.flipping = t.flipping \cup {Unflip} /\ Unflip \notin t.flipping \cup t.flipped
       /\ ~t.mistaken => t.flipped = {}
  <2>1. Unflip \notin Ids
    BY Constants DEF Unflip
  <2>2. Unflip \notin t.flipping \cup t.flipped /\ (~t.mistaken => t.flipped = {})
    BY <2>1, <1>1 DEF FlipInv, Unflip
  <2>3. r.flipping = t.flipping
    BY <1>2 DEF Same, Fields
  <2> QED BY <2>2, <2>3, <1>7 DEF g
<1>11. QueueInv(b, L)
  BY <1>1, <1>6, <1>9 DEF QueueInv, Placed, Flips
<1>12. FlipInv(b)
  <2>1. b.flipping \cap b.flipped = {} /\ Unflip \in b.flipping
    BY <1>1, <1>9, <1>10 DEF FlipInv
  <2>2. \A i \in b.flipping \cup b.flipped :
           \/ i = Unflip /\ b.unflip
           \/ /\ b.mistaken /\ i \in Ids /\ i <= b.last
              /\ ~b.vblank[i].pixmap /\ ~b.vblank[i].queued
    BY <1>1, <1>7, <1>9, <1>10 DEF FlipInv
  <2> QED BY <2>1, <2>2, <1>1, <1>9 DEF FlipInv, Flips
<1>13. PixmapInv(b)
  BY <1>1, <1>2, <1>8, <1>9, <1>10 DEF PixmapInv, Current
<1>14. TimeInv(b) /\ ExecInv(b, f, {})
  BY <1>1, <1>9 DEF TimeInv, ExecInv, InTime, HasEvent, FenceIsSet, Flips
<1>15. CoverInv(b, {})
  BY <1>1, <1>7, <1>9 DEF CoverInv
<1> QED BY <1>2, <1>7, <1>8, <1>10, <1>11, <1>12, <1>13, <1>14, <1>15 DEF Sound

LEMMA UnflipKeeps ==
    ASSUME NEW t, NEW L, NEW f, NEW U, NEW d, Sound(t, L, f, {}, U),
           t.pending = 0, ~t.unflip, t.flip # 0
    PROVE  LET u == present_unflip(t, d)
           IN  Sound(u, L, f, {}, {}) /\ Carry(t, {}, u, {}, L, f)
<1> DEFINE r == present_restore_screen_pixmap(t)
           v == [r EXCEPT !.unflip = TRUE]
           b == [r EXCEPT !.unflip = TRUE, !.flipping = @ \cup {Unflip}]
           c == [v EXCEPT !.flipping = @ \cup {Unflip}]
           z == [v EXCEPT !.shown = Screen]
           u == present_unflip(t, d)
<1>1. Asserts(t, ~t.unflip /\ t.pending = 0) = t
  BY DEF Asserts
<1>2. u = IF d.now THEN UnflipNotify(z, d) ELSE c
  BY <1>1 DEF present_unflip
<1>3. /\ Sound(b, L, f, {}, {}) /\ r \in State
      /\ Same(t, b, {"unflip", "flipping", "pixmapOf"}) /\ Same(t, r, {"pixmapOf"})
      /\ b.pixmapOf = r.pixmapOf /\ b.unflip
      /\ b.flipping = t.flipping \cup {Unflip} /\ Unflip \notin t.flipping \cup t.flipped
  BY UnflipBegins
<1>4. c = b
  <2> HIDE DEF r
  <2> QED BY <1>3 DEF State
<1>5. /\ b.last = t.last /\ b.alive = t.alive /\ b.full = t.full /\ b.msc = t.msc
      /\ b.flips = t.flips /\ b.vblank = t.vblank /\ b.armed = t.armed /\ b.flipped = t.flipped
  BY <1>3 DEF Same, Fields
<1> HIDE DEF b, c, u
<1>6. CASE ~d.now
  <2>1. u = b
    BY <1>2, <1>4, <1>6
  <2>2. Carry(t, {}, b, {}, L, f)
    <3>1. LeftKept(t, {}, b, {}, f)
      BY <1>3 DEF LeftKept, LeftInv, LeftIn
    <3> QED BY <3>1, <1>5 DEF Carry, Stable
  <2> QED BY <2>1, <2>2, <1>3 DEF u
<1>7. CASE d.now
  <2> DEFINE p == [b EXCEPT !.flipping = @ \ {Unflip}, !.flipped = @ \cup {Unflip},
                            !.shown = Unflip]
  <2>1. Unflip \in b.flipping
    BY <1>3
  <2>0. /\ p \in State /\ Same(b, p, {"flipping", "flipped", "shown"})
        /\ p.flipping = b.flipping \ {Unflip} /\ p.flipped = b.flipped \cup {Unflip}
        /\ p.shown = Unflip
    <3>1. b \in State
      BY <1>3 DEF Sound, QueueInv
    <3> QED BY <3>1, <2>1, PageFlipDoes
  <2> HIDE DEF p
  <2>2. /\ Sound(p, L, f, {}, {}) /\ Same(b, p, {"flipping", "flipped", "shown"})
        /\ p.flipping = b.flipping \ {Unflip} /\ p.flipped = b.flipped \cup {Unflip}
        /\ p.shown = Unflip
    BY <2>0, <2>1, <1>3, PageFlipKeeps
  <2>3. z \in State
    <3>1. TRUE \in BOOLEAN /\ Screen \in 0 .. MaxPresents
      BY Constants DEF Screen
    <3> HIDE DEF r
    <3>2. v \in State
      BY <1>3, PutUnflip
    <3> HIDE DEF v
    <3> QED BY <3>1, <3>2, PutUnflip
  <2>4. Same(r, z, {"unflip", "shown"}) /\ z.unflip = TRUE /\ z.shown = Screen
    <3> HIDE DEF r
    <3> QED BY <1>3, PutUnflip, Zenon
  <2> HIDE DEF z, v, r
  <2>5. Same(t, z, {"unflip", "shown", "pixmapOf"}) /\ z.pixmapOf = b.pixmapOf
        /\ z.flipping = t.flipping /\ z.flipped = t.flipped /\ z.mistaken = t.mistaken
    BY <1>3, <2>4 DEF Same, Fields
  <2>6. Same(t, p, {"unflip", "flipping", "pixmapOf", "flipped", "shown"})
        /\ p.unflip /\ p.pixmapOf = b.pixmapOf /\ p.mistaken = t.mistaken
    BY <1>3, <2>2 DEF Same, Fields
  <2>7. p.flipping = t.flipping /\ p.flipped = t.flipped \cup {Unflip}
    BY <2>2, <1>3, <1>5
  <2>8. Same(p, z, {"flipped"})
    <3>1. p \in State /\ p.unflip = TRUE
      BY <2>2, <2>6, StateType DEF Sound, QueueInv
    <3>2. \A y \in Fields \ {"unflip", "flipping", "pixmapOf", "flipped", "shown"} : z[y] = p[y]
      BY <2>5, <2>6 DEF Same
    <3>3. z.unflip = p.unflip /\ z.flipping = p.flipping /\ z.pixmapOf = p.pixmapOf
          /\ z.shown = p.shown /\ z.mistaken = p.mistaken
      BY <3>1, <2>2, <2>4, <2>5, <2>6, <2>7 DEF Screen, Unflip
    <3> QED BY <3>2, <3>3 DEF Same
  <2>9. z.flipped = p.flipped \ {Unflip} /\ Unflip \in p.flipped
    BY <2>5, <2>7, <1>3
  <2>10. u = UnflipNotify(z, d)
    BY <1>2, <1>7
  <2>11. /\ Sound(u, L, f, {}, {}) /\ LeftInv(u, f, {}) /\ Stable(p, u)
         /\ \A j \in L : u.vblank[j] = p.vblank[j]
         /\ \A Z : Waiting(p, f, Z) => LeftIn(u, f, {}, Z)
    BY <2>2, <2>3, <2>6, <2>8, <2>9, <2>10, UnflipNotifyKeeps
  <2>12. /\ p.last = t.last /\ p.alive = t.alive /\ p.full = t.full /\ p.msc = t.msc
         /\ p.flips = t.flips /\ p.vblank = t.vblank /\ p.armed = t.armed
    BY <2>6 DEF Same, Fields
  <2>13. ASSUME NEW Z, LeftIn(t, f, {}, Z) PROVE LeftIn(u, f, {}, Z)
    <3>1. Waiting(p, f, Z)
      BY <2>12, <2>13 DEF Waiting, LeftIn, Flips, HasEvent
    <3> QED BY <3>1, <2>11
  <2>14. Carry(t, {}, u, {}, L, f)
    <3>1. LeftKept(t, {}, u, {}, f)
      BY <2>11, <2>13 DEF LeftKept
    <3> QED BY <3>1, <2>11, <2>12 DEF Carry, Stable
  <2> QED BY <2>11, <2>14 DEF u
<1> QED BY <1>6, <1>7

LEMMA PresentExecuteKeeps ==
    ASSUME NEW t, NEW L, NEW i \in Ids, NEW f, NEW U, NEW msc, NEW d,
           Sound(t, L, f, {i}, U), Due(t, i, msc)
    PROVE  LET u == present_execute(t, i, msc, d)
           IN  Sound(u, L, f, {}, U) /\ Carry(t, {i}, u, {}, L, f)
<1> DEFINE c == CopyInstead(t, i)
           x == present_unflip(c, d)
           m == MakeVisible(c, t.vblank[i].window, x)
           u == present_execute(t, i, msc, d)
<1>1. QueueInv(t, L) /\ t \in State
  BY DEF Sound, QueueInv
<1>2. t.vblank[i].queued => t.vblank[i].window # None
  <2>1. Placed(t, L, i) /\ t.alive \subseteq Windows
    BY <1>1, StateType DEF QueueInv
  <2> QED BY <2>1, Constants DEF Placed
<1>3. ASSUME t.vblank[i].queued, Sound(c, L \cup {i}, f, {}, U),
             c.pending = 0 /\ ~c.unflip /\ c.flipWindow = t.vblank[i].window
      PROVE  Sound(x, L \cup {i}, f, {}, U) /\ Carry(c, {}, x, {}, L \cup {i}, f)
  <2> HIDE DEF c
  <2>1. c.flip # 0
    BY <1>2, <1>3 DEF Sound, FlipInv
  <2>2. Sound(x, L \cup {i}, f, {}, {}) /\ Carry(c, {}, x, {}, L \cup {i}, f)
    BY <1>3, <2>1, UnflipKeeps
  <2> HIDE DEF x
  <2> QED BY <2>2, SoundMore
<1>4. Visible(t, i, m, L, f, U)
  <2> HIDE DEF x, c
  <2>1. c = CopyInstead(t, i)
    BY DEF c
  <2> QED BY <2>1, <1>3, VisibleMade
<1>5. u = Execute(t, i, msc, d, m)
  BY DEF present_execute
<1> HIDE DEF u, m
<1> QED BY <1>4, <1>5, ExecuteKeeps DEF u

LEMMA FlipTryReadyKeeps ==
    ASSUME NEW t, NEW L, NEW f, NEW U, NEW d, Sound(t, L, f, {}, U)
    PROVE  LET u == present_flip_try_ready(t, d)
           IN  Sound(u, L, f, {}, U) /\ Carry(t, {}, u, {}, L, f) /\ LeftInv(u, f, {})
<1> DEFINE u == present_flip_try_ready(t, d)
           i == FirstReady(t)
           x == present_execute(t, i, t.msc, d)
<1>1. u = TryReady(t, x)
  BY DEF present_flip_try_ready, present_re_execute
<1>2. ASSUME Ready(t) # {}
      PROVE  Sound(x, L, f, {}, U) /\ Carry(t, {FirstReady(t)}, x, {}, L, f)
  <2>1. i \in Ids /\ Due(t, i, t.msc)
    BY <1>2, ReadyDoes DEF Sound
  <2>2. Sound(t, L, f, {i}, U)
    BY SoundMore
  <2> HIDE DEF i
  <2>3. Sound(x, L, f, {}, U) /\ Carry(t, {i}, x, {}, L, f)
    BY <2>1, <2>2, PresentExecuteKeeps
  <2> QED BY <2>3 DEF i
<1> HIDE DEF x, u
<1> QED BY <1>1, <1>2, TryReadyKeeps DEF u

-----------------------------------------------------------------------------
(* Events of the driver.                                                   *)

LEMMA PutShown ==
    ASSUME NEW t \in State, NEW i \in Ids \cup {0}, NEW w \in Windows \cup {None},
           NEW V \in [Ids -> Vblank]
    PROVE  [t EXCEPT !.flip = i, !.flipWindow = w, !.vblank = V, !.pending = 0] \in State
<1>1. 0 \in Ids \cup {0}
  OBVIOUS
<1> QED BY <1>1, Zenon DEF State

LEMMA ShownDoes ==
    ASSUME NEW q \in State, NEW i \in Ids, NEW w \in Windows \cup {None}
    PROVE  LET u == [q EXCEPT !.flip = i, !.flipWindow = w, !.vblank[i].pixmap = FALSE,
                              !.pending = 0]
           IN  /\ u \in State /\ Same(q, u, {"flip", "flipWindow", "vblank", "pending"})
               /\ u.flip = i /\ u.flipWindow = w /\ u.pending = 0
               /\ Only(q, u, i, {"pixmap"}) /\ ~u.vblank[i].pixmap
<1> DEFINE u == [q EXCEPT !.flip = i, !.flipWindow = w, !.vblank[i].pixmap = FALSE,
                          !.pending = 0]
           x == q.vblank[i]
           y == [x EXCEPT !.pixmap = FALSE]
           V == [q.vblank EXCEPT ![i] = y]
<1>1. x \in Vblank /\ q.vblank \in [Ids -> Vblank] /\ i \in Ids \cup {0}
  BY StateType
<1>2. u = [q EXCEPT !.flip = i, !.flipWindow = w, !.vblank = V, !.pending = 0]
  OBVIOUS
<1> HIDE DEF u, x
<1>3. y \in Vblank
  BY <1>1, VblankSet
<1>4. VSame(x, y, {"pixmap"}) /\ ~y.pixmap
  BY <1>1 DEF VSame, VFields, Vblank
<1> HIDE DEF y
<1>5. V \in [Ids -> Vblank] /\ V[i] = y /\ \A j \in Ids \ {i} : V[j] = q.vblank[j]
  BY <1>1, <1>3
<1> HIDE DEF V
<1>6. u \in State
  BY <1>1, <1>2, <1>5, PutShown
<1>7. /\ Same(q, u, {"flip", "flipWindow", "vblank", "pending"})
      /\ u.flip = i /\ u.flipWindow = w /\ u.vblank = V /\ u.pending = 0
  BY <1>2 DEF Same, Fields, State
<1>8. Only(q, u, i, {"pixmap"}) /\ ~u.vblank[i].pixmap
  BY <1>4, <1>5, <1>7 DEF Only, x
<1> QED BY <1>6, <1>7, <1>8 DEF u

LEMMA FlipShown ==
    ASSUME NEW p, NEW t \in State, NEW f, Sound(p, {}, f, {}, {}),
           p.pending # 0, Same(p, t, {"flipped"}),
           t.flipped = p.flipped \/ t.flipped = p.flipped \ {p.pending},
           p.mistaken \/ (p.pending \in p.flipped /\ t.flipped = p.flipped \ {p.pending}),
           NEW q, NEW i, NEW w,
           i = p.pending, w = p.vblank[i].window, q = Dequeue(present_flip_idle(t), i),
           NEW u \in State, Same(q, u, {"flip", "flipWindow", "vblank", "pending"}),
           u.flip = i, u.flipWindow = w, u.pending = 0,
           Only(q, u, i, {"pixmap"}), ~u.vblank[i].pixmap
    PROVE  /\ Sound(u, {i}, f, {}, {w}) /\ u.pending = 0 /\ ~u.unflip /\ u.flip = i
           /\ ~p.vblank[i].abort => Sound(u, {i}, f, {}, {})
<1> DEFINE t1 == present_flip_idle(t)
           v  == p.vblank[i]
<1>1. /\ QueueInv(p, {}) /\ FlipInv(p) /\ PixmapInv(p)
      /\ TimeInv(p) /\ ExecInv(p, f, {}) /\ CoverInv(p, {}) /\ p \in State
  BY DEF Sound, QueueInv
<1>2. t.flip = p.flip /\ t.released = p.released /\ t.flipWindow = p.flipWindow
      /\ t.missed = p.missed /\ t.flips = p.flips
  BY DEF Same, Fields
<1>3. /\ 0 \notin p.released /\ p.released \subseteq Ids /\ (p.flip # 0 => p.flip \in Ids)
      /\ i \in Ids /\ i # 0 /\ Distinct(p.flips)
  BY <1>1, StateType, Constants DEF QueueInv
<1>4. /\ t1 \in State /\ Same(t, t1, {"flip", "flipWindow", "missed", "released"})
      /\ t1.flip = 0 /\ t1.flipWindow = None /\ t1.missed = p.missed \ {p.flip}
      /\ t1.released = p.released \cup ({p.flip} \ {0})
  <2>1. t.flip \notin t.released /\ (t.flip = 0 => t.flipWindow = None)
    BY <1>1, <1>2, <1>3 DEF FlipInv
  <2> QED BY <2>1, <1>2, FlipIdleDoes
<1> HIDE DEF t1
<1>5. t1.flips = p.flips
  BY <1>2, <1>4 DEF Same, Fields
<1>6. /\ q \in State /\ Same(t1, q, {"exec", "flips"}) /\ q.exec = t1.exec \ {i}
      /\ Distinct(q.flips) /\ Flips(q) = Flips(t1) \ {i}
  BY <1>3, <1>4, <1>5, DequeueDoes DEF t1
<1>7. /\ Same(p, q, {"flipped", "flip", "flipWindow", "missed", "released", "exec", "flips"})
      /\ q.flipped = t.flipped /\ q.missed = t1.missed /\ q.released = t1.released
      /\ t1.exec = p.exec /\ q.vblank = p.vblank
  BY <1>4, <1>6 DEF Same, Fields
<1>14. /\ u.last = p.last /\ u.alive = p.alive /\ u.unflip = p.unflip /\ u.list = p.list
       /\ u.pixmapOf = p.pixmapOf /\ u.full = p.full /\ u.fence = p.fence /\ u.left = p.left
       /\ u.wrong = p.wrong /\ u.msc = p.msc /\ u.armed = p.armed
       /\ u.flipping = p.flipping /\ u.shown = p.shown /\ u.mistaken = p.mistaken
       /\ u.flipped = t.flipped
       /\ u.missed = p.missed \ {p.flip} /\ u.released = p.released \cup ({p.flip} \ {0})
       /\ u.exec = p.exec \ {i} /\ u.flips = q.flips
  BY <1>4, <1>6, <1>7 DEF Same, Fields
<1>15. /\ Distinct(u.flips) /\ Flips(u) = Flips(p) \ {i}
       /\ u.vblank[i].live = v.live /\ u.vblank[i].window = v.window
       /\ u.vblank[i].queued = v.queued /\ ~u.vblank[i].pixmap
       /\ \A j \in Ids \ {i} : u.vblank[j] = p.vblank[j]
  BY <1>5, <1>6, <1>7, <1>14 DEF Flips, Only, VSame, VFields
<1> HIDE DEF v
<1>16. /\ v.live /\ v.flip /\ v.pixmap /\ ~v.queued /\ i \in Flips(p) /\ i \notin p.exec
       /\ i <= p.last /\ i # p.flip /\ ~p.unflip /\ v.window \in p.alive \cup {None}
       /\ i \notin p.released /\ w = v.window
  <2>1. Placed(p, {}, i)
    BY <1>1, <1>3 DEF QueueInv
  <2> QED BY <2>1, <1>1, <1>3 DEF Placed, FlipInv, v
<1>17. ~p.mistaken => p.flipping = {} /\ u.flipped = {} /\ i \in p.flipped
  <2>1. ~p.mistaken => \A j \in p.flipping \cup p.flipped : j = i
    BY <1>1, <1>16 DEF FlipInv
  <2>2. ~p.mistaken => i \in p.flipped /\ i \notin p.flipping /\ u.flipped = p.flipped \ {i}
    BY <1>1, <1>14 DEF FlipInv
  <2> QED BY <2>1, <2>2
<1>18. QueueInv(u, {i})
  <2>1. ASSUME NEW j \in Ids PROVE Placed(u, {i}, j)
    <3>1. Placed(p, {}, j)
      BY <1>1 DEF QueueInv
    <3>2. CASE j = i
      BY <3>1, <3>2, <1>3, <1>14, <1>15, <1>16 DEF Placed, v
    <3>3. CASE j # i
      <4>1. j # 0
        BY Constants
      <4> QED BY <4>1, <3>1, <3>3, <1>14, <1>15 DEF Placed
    <3> QED BY <3>2, <3>3
  <2> QED BY <2>1, <1>1, <1>3, <1>14, <1>15 DEF QueueInv
<1>19. FlipInv(u)
  <2>1. \A j \in u.released : j <= u.last /\ ~u.vblank[j].pixmap
    BY <1>1, <1>3, <1>14, <1>15 DEF FlipInv
  <2>2. u.flip # 0 => /\ u.flip <= u.last /\ ~u.vblank[u.flip].pixmap /\ u.flip \notin u.released
                      /\ ~u.vblank[u.flip].queued
    BY <1>14, <1>15, <1>16
  <2>3. u.flipWindow # None => u.flip # 0 /\ u.flipWindow \in u.alive
    BY <1>3, <1>14, <1>16
  <2>4. u.flipping \cap u.flipped = {} /\ u.flipped \subseteq p.flipped
    BY <1>1, <1>14 DEF FlipInv
  <2>5. ASSUME NEW j \in u.flipping \cup u.flipped
        PROVE  /\ u.mistaken /\ j \in Ids /\ j <= u.last
               /\ ~u.vblank[j].pixmap /\ ~u.vblank[j].queued
    <3>1. p.mistaken /\ j \in p.flipping \cup p.flipped
      BY <2>4, <2>5, <1>14, <1>17
    <3>2. CASE j = i
      BY <3>1, <3>2, <1>3, <1>14, <1>15, <1>16
    <3>3. CASE j # i
      BY <3>1, <3>3, <1>1, <1>14, <1>15, <1>16 DEF FlipInv
    <3> QED BY <3>2, <3>3
  <2>6. u.wrong = {} /\ ~u.unflip
    BY <1>1, <1>14, <1>16 DEF FlipInv
  <2> QED BY <2>1, <2>2, <2>3, <2>4, <2>5, <2>6 DEF FlipInv
<1>20. PixmapInv(u)
  BY <1>1, <1>3, <1>14, <1>16, <1>17 DEF PixmapInv, Current
<1>21. TimeInv(u)
  <2>1. ASSUME NEW j \in Ids \ {i}, InTime(p, j) PROVE InTime(u, j)
    BY <2>1, <1>14, <1>15 DEF InTime, HasEvent
  <2>2. p.exec \subseteq Ids /\ Flips(p) \subseteq Ids
    BY <1>1, StateType, FlipsFacts
  <2> QED BY <2>1, <2>2, <1>1, <1>14, <1>15 DEF TimeInv, FenceIsSet
<1>22. ExecInv(u, f, {})
  <2>1. p.exec \subseteq Ids
    BY <1>1, StateType
  <2> QED BY <2>1, <1>1, <1>14, <1>15 DEF ExecInv, HasEvent
<1>23. \A j \in Ids : u.vblank[j].queued /\ u.vblank[j].flip =>
          u.vblank[j].window = u.full \/ j \in u.missed
  <2>1. p.flip # 0 => ~p.vblank[p.flip].queued
    BY <1>1 DEF FlipInv
  <2>2. ASSUME NEW j \in Ids, u.vblank[j].queued, u.vblank[j].flip
        PROVE  u.vblank[j].window = u.full \/ j \in u.missed
    <3>1. j # i /\ j # 0
      BY <2>2, <1>15, <1>16, Constants
    <3>2. u.vblank[j] = p.vblank[j] /\ j # p.flip
      BY <3>1, <2>1, <2>2, <1>15
    <3> QED BY <3>2, <2>2, <1>1, <1>14 DEF CoverInv
  <2> QED BY <2>2
<1>24. CoverInv(u, {w})
  BY <1>23 DEF CoverInv
<1>25. ASSUME ~v.abort PROVE CoverInv(u, {})
  <2>1. v.window = p.full \/ i \in p.missed
    BY <1>1, <1>3, <1>25 DEF CoverInv, v
  <2> QED BY <2>1, <1>14, <1>16, <1>23 DEF CoverInv
<1> QED BY <1>14, <1>16, <1>18, <1>19, <1>20, <1>21, <1>22, <1>24, <1>25 DEF Sound, v

LEMMA FlipNotifyKeeps ==
    ASSUME NEW p, NEW t \in State, NEW f, NEW d, Sound(p, {}, f, {}, {}),
           p.pending # 0, Same(p, t, {"flipped"}),
           t.flipped = p.flipped \/ t.flipped = p.flipped \ {p.pending},
           p.mistaken \/ (p.pending \in p.flipped /\ t.flipped = p.flipped \ {p.pending})
    PROVE  LET u == present_flip_notify(t, p.pending, d)
           IN  Sound(u, {}, f, {}, {}) /\ LeftInv(u, f, {})
<1> DEFINE i  == p.pending
           w  == t.vblank[i].window
           a  == Asserts(t, t.pending = i)
           q  == Dequeue(present_flip_idle(a), i)
           t2 == [q EXCEPT !.flip = i, !.flipWindow = w, !.vblank[i].pixmap = FALSE,
                           !.pending = 0]
           t3 == IF t.vblank[i].abort THEN present_unflip(t2, d) ELSE t2
           t4 == present_execute_post(t3, i)
           u  == present_flip_notify(t, i, d)
<1>1. t.pending = i /\ t.vblank = p.vblank
  BY DEF Same, Fields
<1>2. a = t
  BY <1>1 DEF Asserts
<1>3. u = present_flip_try_ready(t4, d)
  BY DEF present_flip_notify
<1>4. /\ Sound(t2, {i}, f, {}, {w}) /\ t2.pending = 0 /\ ~t2.unflip /\ t2.flip = i
      /\ ~t.vblank[i].abort => Sound(t2, {i}, f, {}, {})
  <2>1. i = p.pending /\ w = p.vblank[i].window /\ q = Dequeue(present_flip_idle(t), i)
    BY <1>1, <1>2
  <2>2. i \in Ids /\ w \in Windows \cup {None} /\ p \in State /\ Distinct(p.flips)
    BY <2>1, StateType, VblankType DEF Sound, QueueInv
  <2>3. q \in State
    <3>1. t.flip \notin t.released /\ (t.flip = 0 => t.flipWindow = None)
      <4>1. t.flip = p.flip /\ t.released = p.released /\ t.flipWindow = p.flipWindow
        BY DEF Same, Fields
      <4>2. 0 \notin p.released
        BY <2>2, StateType, Constants
      <4> QED BY <4>1, <4>2 DEF Sound, FlipInv
    <3>2. /\ present_flip_idle(t) \in State
          /\ Same(t, present_flip_idle(t), {"flip", "flipWindow", "missed", "released"})
      BY <3>1, FlipIdleDoes
    <3>3. present_flip_idle(t).flips = p.flips
      BY <3>2 DEF Same, Fields
    <3> QED BY <3>2, <3>3, <2>1, <2>2, DequeueDoes
  <2> HIDE DEF i, w, q, a
  <2>4. /\ t2 \in State /\ Same(q, t2, {"flip", "flipWindow", "vblank", "pending"})
        /\ t2.flip = i /\ t2.flipWindow = w /\ t2.pending = 0
        /\ Only(q, t2, i, {"pixmap"}) /\ ~t2.vblank[i].pixmap
    BY <2>2, <2>3, ShownDoes
  <2> HIDE DEF t2
  <2>5. /\ Sound(t2, {i}, f, {}, {w}) /\ t2.pending = 0 /\ ~t2.unflip /\ t2.flip = i
        /\ ~p.vblank[i].abort => Sound(t2, {i}, f, {}, {})
    BY <2>1, <2>4, FlipShown
  <2> QED BY <2>5, <1>1
<1> HIDE DEF t2, u
<1>5. Sound(t3, {i}, f, {}, {})
  <2>1. CASE t.vblank[i].abort
    <3>1. t3 = present_unflip(t2, d)
      BY <2>1
    <3> HIDE DEF t3
    <3> QED BY <3>1, <1>4, UnflipKeeps
  <2>2. CASE ~t.vblank[i].abort
    BY <2>2, <1>4
  <2> QED BY <2>1, <2>2
<1> HIDE DEF t3
<1>6. Sound(t4, {}, f, {}, {})
  <2>1. i \in {i} /\ {i} \ {i} = {}
    OBVIOUS
  <2>2. Sound(t4, {i} \ {i}, f, {}, {})
    <3> HIDE DEF i
    <3> QED BY <2>1, <1>5, PostKeeps
  <2> QED BY <2>1, <2>2
<1> HIDE DEF t4
<1>7. Sound(u, {}, f, {}, {}) /\ LeftInv(u, f, {})
  BY <1>3, <1>6, FlipTryReadyKeeps
<1> QED BY <1>7 DEF u

\* The driver tells of a flip that nobody waits for any more.
LEMMA StrayEnds ==
    ASSUME NEW p, NEW t \in State, NEW f, Sound(p, {}, f, {}, {}), LeftInv(p, f, {}),
           NEW i, Same(p, t, {"flipped"}), t.flipped = p.flipped \ {i},
           p.mistaken, i # p.pending, i # Unflip
    PROVE  Sound(t, {}, f, {}, {}) /\ LeftInv(t, f, {})
<1>1. /\ QueueInv(p, {}) /\ FlipInv(p) /\ PixmapInv(p)
      /\ TimeInv(p) /\ ExecInv(p, f, {}) /\ CoverInv(p, {})
  BY DEF Sound
<1>2. /\ t.last = p.last /\ t.pending = p.pending /\ t.alive = p.alive /\ t.unflip = p.unflip
      /\ t.flip = p.flip /\ t.flipWindow = p.flipWindow /\ t.pixmapOf = p.pixmapOf
      /\ t.full = p.full /\ t.fence = p.fence /\ t.missed = p.missed /\ t.left = p.left
      /\ t.released = p.released /\ t.wrong = p.wrong /\ t.msc = p.msc /\ t.flips = p.flips
      /\ t.flipping = p.flipping /\ t.mistaken = p.mistaken /\ t.armed = p.armed
      /\ t.vblank = p.vblank /\ t.exec = p.exec /\ t.list = p.list
  BY DEF Same, Fields
<1>3. QueueInv(t, {})
  BY <1>1, <1>2 DEF QueueInv, Placed, Flips
<1>4. FlipInv(t)
  <2>1. /\ t.flipping \cap t.flipped = {}
        /\ t.pending # 0 => t.pending \in t.flipping \cup t.flipped
        /\ t.unflip => Unflip \in t.flipping \cup t.flipped
        /\ t.flipping \cup t.flipped \subseteq p.flipping \cup p.flipped
    BY <1>1, <1>2 DEF FlipInv
  <2> QED BY <2>1, <1>1, <1>2 DEF FlipInv, Flips
<1>5. PixmapInv(t) /\ CoverInv(t, {})
  BY <1>1, <1>2 DEF PixmapInv, Current, CoverInv
<1>6. TimeInv(t) /\ ExecInv(t, f, {})
  BY <1>1, <1>2 DEF TimeInv, ExecInv, InTime, HasEvent, FenceIsSet, Flips
<1>7. LeftInv(t, f, {})
  BY <1>2 DEF LeftInv, LeftIn, HasEvent, Flips
<1> QED BY <1>3, <1>4, <1>5, <1>6, <1>7 DEF Sound

LEMMA FlipEventKeeps ==
    ASSUME NEW p, NEW f, NEW d, Sound(p, {}, f, {}, {}), LeftInv(p, f, {}),
           NEW i \in p.flipped, NEW m
    PROVE  LET u == present_event_notify([p EXCEPT !.flipped = @ \ {i}], i, m, d)
           IN  Sound(u, {}, f, {}, {}) /\ LeftInv(u, f, {})
<1> DEFINE t == [p EXCEPT !.flipped = @ \ {i}]
           u == present_event_notify(t, i, m, d)
<1>1. QueueInv(p, {}) /\ FlipInv(p) /\ p \in State
  BY DEF Sound, QueueInv
<1>2. t \in State
  <2>1. p.flipped \ {i} \in SUBSET (0 .. MaxPresents)
    BY <1>1, StateType
  <2> QED BY <2>1, <1>1, Zenon DEF State
<1>3. Same(p, t, {"flipped"}) /\ t.flipped = p.flipped \ {i}
  BY <1>1 DEF Same, Fields, State
<1> HIDE DEF t
<1>4. t.exec = p.exec /\ t.flips = p.flips /\ t.vblank = p.vblank /\ t.unflip = p.unflip
  BY <1>3 DEF Same, Fields
<1>5. \/ i # 0 /\ i = p.pending
      \/ i = Unflip /\ p.unflip
      \/ /\ p.mistaken /\ i \in Ids /\ i # p.pending
         /\ ~p.vblank[i].pixmap /\ ~p.vblank[i].queued
  BY <1>1, Constants DEF FlipInv
<1>6. CASE i # 0 /\ i = p.pending
  <2>1. i \in Ids /\ i \in Flips(p)
    BY <1>1, <1>6, FlipsFacts DEF FlipInv
  <2>2. Placed(p, {}, i)
    BY <2>1, <1>1 DEF QueueInv
  <2>3. i \notin t.exec /\ i \in Range(t.flips) /\ ~t.vblank[i].queued
    BY <2>1, <2>2, <1>4, <1>6 DEF Placed, Flips
  <2>4. u = present_flip_notify(t, i, d)
    <3>1. i # Unflip
      BY <1>6 DEF Unflip
    <3> QED BY <3>1, <2>3 DEF present_event_notify
  <2> HIDE DEF u
  <2>5. u = present_flip_notify(t, p.pending, d) /\ t.flipped = p.flipped \ {p.pending}
    BY <2>4, <1>3, <1>6
  <2>6. Sound(u, {}, f, {}, {}) /\ LeftInv(u, f, {})
    BY <2>5, <1>2, <1>3, <1>6, FlipNotifyKeeps
  <2> QED BY <2>6 DEF u, t
<1>7. CASE i = Unflip /\ p.unflip
  <2>1. i \notin t.exec /\ i \notin Range(t.flips)
    <3>1. p.exec \subseteq Ids /\ Range(p.flips) \subseteq Ids
      BY <1>1, StateType, FlipsFacts DEF Flips
    <3> QED BY <3>1, <1>4, <1>7, Constants DEF Unflip
  <2>2. u = UnflipNotify(t, d)
    BY <2>1, <1>4, <1>7 DEF present_event_notify
  <2> HIDE DEF u
  <2>3. Sound(u, {}, f, {}, {}) /\ LeftInv(u, f, {})
    BY <2>2, <1>2, <1>3, <1>7, UnflipNotifyKeeps
  <2> QED BY <2>3 DEF u, t
<1>8. CASE /\ p.mistaken /\ i \in Ids /\ i # p.pending
           /\ ~p.vblank[i].pixmap /\ ~p.vblank[i].queued
  <2>1. Placed(p, {}, i) /\ i # Unflip
    BY <1>1, <1>8, Constants DEF QueueInv, Unflip
  <2>2. i \notin t.exec /\ i \notin Range(t.flips)
    BY <2>1, <1>4, <1>8 DEF Placed, Flips
  <2>3. u = t
    BY <2>1, <2>2 DEF present_event_notify
  <2> HIDE DEF u
  <2>4. Sound(t, {}, f, {}, {}) /\ LeftInv(t, f, {})
    BY <1>2, <1>3, <1>8, <2>1, StrayEnds
  <2> QED BY <2>3, <2>4 DEF u, t
<1> QED BY <1>5, <1>6, <1>7, <1>8

\* The driver tells that a frame has begun.
LEMMA Disarm ==
    ASSUME NEW t, NEW L, NEW f, NEW U, Sound(t, L, f, {}, U), NEW e \in t.armed,
           NEW u \in State, Same(t, u, {"armed"}), u.armed = t.armed \ {e},
           NEW m \in e.msc .. t.msc
    PROVE  /\ Sound(u, L, f, {e.id}, U) /\ Carry(t, {}, u, {e.id}, L, f) /\ e.id \in Ids
           /\ e.id \in u.exec \cup Flips(u) =>
                 Due(u, e.id, m) /\ (QueueHolds => u.vblank[e.id].queued)
<1> DEFINE i == e.id
<1>1. /\ QueueInv(t, L) /\ FlipInv(t) /\ PixmapInv(t)
      /\ TimeInv(t) /\ ExecInv(t, f, {}) /\ CoverInv(t, U) /\ t \in State
  BY DEF Sound, QueueInv
<1>2. /\ u.last = t.last /\ u.pending = t.pending /\ u.alive = t.alive /\ u.unflip = t.unflip
      /\ u.flip = t.flip /\ u.flipWindow = t.flipWindow /\ u.pixmapOf = t.pixmapOf
      /\ u.full = t.full /\ u.fence = t.fence /\ u.missed = t.missed /\ u.left = t.left
      /\ u.released = t.released /\ u.wrong = t.wrong /\ u.msc = t.msc /\ u.flips = t.flips
      /\ u.flipping = t.flipping /\ u.flipped = t.flipped /\ u.shown = t.shown
      /\ u.mistaken = t.mistaken
      /\ u.vblank = t.vblank /\ u.exec = t.exec /\ u.list = t.list
  BY DEF Same, Fields
<1>3. /\ t.armed \subseteq [id : Ids, msc : 0 .. MaxMsc] /\ i \in Ids
      /\ e.msc \in 0 .. MaxMsc /\ t.msc \in 0 .. MaxMsc /\ HasEvent(t, i)
      /\ t.exec \subseteq Ids /\ Flips(t) \subseteq Ids /\ Flips(u) = Flips(t)
  BY <1>1, <1>2, StateType, FlipsFacts DEF HasEvent, Flips
<1>4. \A j \in Ids \ {i} : HasEvent(u, j) <=> HasEvent(t, j)
  BY DEF HasEvent
<1>5. ASSUME NEW j \in Ids \ {i}, InTime(t, j) PROVE InTime(u, j)
  BY <1>2, <1>4, <1>5 DEF InTime
<1>6. ASSUME QueueHolds, t.vblank[i].flip, InTime(t, i)
      PROVE  /\ i \in t.exec /\ ~HasEvent(u, i)
             /\ t.vblank[i].exec = e.msc /\ t.vblank[i].exec <= t.msc /\ t.vblank[i].exec <= m
  <2>1. i \in t.exec /\ \A x \in t.armed : x.id = i => x.msc = t.vblank[i].exec
    BY <1>3, <1>6 DEF InTime
  <2>2. t.vblank[i].exec = e.msc
    BY <2>1
  <2>3. \A x \in t.armed : x.id = i => x = e
    <3>1. ASSUME NEW x \in t.armed, x.id = i PROVE x = e
      <4>1. /\ x \in [id : Ids, msc : 0 .. MaxMsc] /\ e \in [id : Ids, msc : 0 .. MaxMsc]
            /\ x.id = e.id /\ x.msc = e.msc
        BY <3>1, <2>1, <2>2, <1>3
      <4> QED BY <4>1
    <3> QED BY <3>1
  <2>4. ~HasEvent(u, i)
    BY <2>3 DEF HasEvent
  <2>5. e.msc <= t.msc /\ e.msc <= m
    BY <1>3, Constants
  <2> QED BY <2>1, <2>2, <2>4, <2>5
<1>7. ASSUME InTime(t, i) PROVE InTime(u, i)
  BY <1>2, <1>6, <1>7 DEF InTime
<1>8. QueueInv(u, L)
  BY <1>1, <1>2, <1>3 DEF QueueInv, Placed
<1>9. FlipInv(u) /\ PixmapInv(u) /\ CoverInv(u, U)
  BY <1>1, <1>2, <1>3 DEF FlipInv, PixmapInv, Current, CoverInv
<1>10. TimeInv(u)
  <2>1. \A j \in Ids : InTime(t, j) => InTime(u, j)
    BY <1>5, <1>7
  <2> QED BY <2>1, <1>1, <1>2, <1>3 DEF TimeInv, FenceIsSet
<1>11. ExecInv(u, f, {i})
  BY <1>1, <1>2, <1>3, <1>4 DEF ExecInv
<1>12. Carry(t, {}, u, {i}, L, f)
  <2>1. ASSUME NEW Z, LeftIn(t, f, {}, Z) PROVE LeftIn(u, f, {i}, Z)
    BY <2>1, <1>2, <1>3, <1>4 DEF LeftIn
  <2>2. LeftKept(t, {}, u, {i}, f)
    BY <2>1, <1>2 DEF LeftKept, LeftInv
  <2> QED BY <2>2, <1>2 DEF Carry, Stable
<1>13. ASSUME i \in u.exec \cup Flips(u)
       PROVE  Due(u, i, m) /\ (QueueHolds => u.vblank[i].queued)
  <2>1. InTime(t, i) /\ Placed(t, L, i)
    BY <1>1, <1>2, <1>3, <1>13 DEF TimeInv, QueueInv
  <2>2. m \in 0 .. u.msc
    BY <1>2, <1>3, Constants
  <2>3. Due(u, i, m)
    BY <2>1, <2>2, <1>2, <1>6, <1>13 DEF Due
  <2>4. QueueHolds => i # t.pending
    <3>1. ASSUME QueueHolds, i = t.pending PROVE FALSE
      <4>1. i # 0
        BY <1>3, Constants
      <4>2. i \in Flips(t) /\ t.vblank[i].flip
        BY <3>1, <4>1, <1>1 DEF FlipInv
      <4> QED BY <3>1, <4>2, <2>1, <1>6 DEF Placed
    <3> QED BY <3>1
  <2> QED BY <2>1, <2>3, <2>4, <1>2, <1>3, <1>13 DEF Placed
<1> QED BY <1>3, <1>8, <1>9, <1>10, <1>11, <1>12, <1>13 DEF Sound

\* Nothing else depends on it.
LEMMA MistakeKeeps ==
    ASSUME NEW t, NEW f, NEW X, Sound(t, {}, f, X, {}), ~QueueHolds
    PROVE  LET u == [t EXCEPT !.mistaken = TRUE]
           IN  Sound(u, {}, f, X, {}) /\ Same(t, u, {"mistaken"}) /\ u.mistaken = TRUE
<1> DEFINE u == [t EXCEPT !.mistaken = TRUE]
<1>1. /\ QueueInv(t, {}) /\ FlipInv(t) /\ PixmapInv(t)
      /\ TimeInv(t) /\ ExecInv(t, f, X) /\ CoverInv(t, {}) /\ t \in State
  BY DEF Sound, QueueInv
<1>2. u \in State
  <2>1. TRUE \in BOOLEAN
    OBVIOUS
  <2> QED BY <2>1, <1>1, Zenon DEF State
<1>3. Same(t, u, {"mistaken"}) /\ u.mistaken = TRUE
  BY <1>1 DEF Same, Fields, State
<1> HIDE DEF u
<1>4. /\ u.last = t.last /\ u.pending = t.pending /\ u.alive = t.alive /\ u.unflip = t.unflip
      /\ u.flip = t.flip /\ u.flipWindow = t.flipWindow /\ u.pixmapOf = t.pixmapOf
      /\ u.full = t.full /\ u.fence = t.fence /\ u.missed = t.missed /\ u.left = t.left
      /\ u.released = t.released /\ u.wrong = t.wrong /\ u.msc = t.msc /\ u.flips = t.flips
      /\ u.flipping = t.flipping /\ u.flipped = t.flipped /\ u.armed = t.armed
      /\ u.vblank = t.vblank /\ u.exec = t.exec /\ u.list = t.list
  BY <1>3 DEF Same, Fields
<1>5. QueueInv(u, {})
  BY <1>1, <1>2, <1>4 DEF QueueInv, Placed, Flips
<1>6. FlipInv(u)
  BY <1>1, <1>3, <1>4 DEF FlipInv, Flips
<1>7. PixmapInv(u) /\ CoverInv(u, {})
  BY <1>1, <1>3, <1>4 DEF PixmapInv, Current, CoverInv
<1>8. TimeInv(u) /\ ExecInv(u, f, X)
  BY <1>1, <1>4 DEF TimeInv, ExecInv, InTime, HasEvent, FenceIsSet, Flips
<1> QED BY <1>3, <1>5, <1>6, <1>7, <1>8 DEF Sound, u

\* A frame's event, where it is not taken for the end of a flip and where it is.
LEMMA TimelyEvent ==
    ASSUME NEW t, NEW f, NEW d, NEW i \in Ids, NEW m, Sound(t, {}, f, {i}, {}),
           LeftInv(t, f, {i}), i \in t.exec \cup Flips(t) => Due(t, i, m),
           ~TakenForFlip(t, i)
    PROVE  LET u == present_event_notify(t, i, m, d)
           IN  Sound(u, {}, f, {}, {}) /\ LeftInv(u, f, {})
<1> DEFINE u == present_event_notify(t, i, m, d)
<1>1. i # Unflip
  BY Constants DEF Unflip
<1>2. CASE i \in t.exec \cup Flips(t)
  <2>1. u = present_execute(t, i, m, d)
    <3>0. Placed(t, {}, i)
      BY DEF Sound, QueueInv
    <3>1. CASE i \in t.exec
      <4>1. i \notin Range(t.flips)
        BY <3>0, <3>1 DEF Placed, Flips
      <4> QED BY <4>1, <3>1, <1>1 DEF present_event_notify
    <3>2. CASE i \notin t.exec
      <4>1. i \in Range(t.flips) /\ t.vblank[i].queued
        BY <3>2, <1>2 DEF TakenForFlip, Flips
      <4> QED BY <4>1, <3>2, <1>1 DEF present_event_notify
    <3> QED BY <3>1, <3>2
  <2> HIDE DEF u
  <2>2. Sound(u, {}, f, {}, {}) /\ Carry(t, {i}, u, {}, {}, f)
    BY <2>1, <1>2, PresentExecuteKeeps
  <2>3. LeftInv(u, f, {})
    BY <2>2 DEF Carry, LeftKept
  <2> QED BY <2>2, <2>3 DEF u
<1>3. CASE i \notin t.exec \cup Flips(t)
  <2>1. u = t
    BY <1>1, <1>3 DEF present_event_notify, Flips
  <2> HIDE DEF u
  <2>2. ExecInv(t, f, {}) /\ LeftInv(t, f, {})
    BY <1>3 DEF Sound, ExecInv, LeftInv, LeftIn
  <2>3. Sound(t, {}, f, {}, {})
    BY <2>2 DEF Sound
  <2> QED BY <2>1, <2>2, <2>3 DEF u
<1> QED BY <1>2, <1>3

LEMMA LateEvent ==
    ASSUME NEW t, NEW f, NEW d, NEW i \in Ids, NEW m, Sound(t, {}, f, {i}, {}),
           t.mistaken, TakenForFlip(t, i)
    PROVE  LET u == present_event_notify(t, i, m, d)
           IN  Sound(u, {}, f, {}, {}) /\ LeftInv(u, f, {})
<1> DEFINE u == present_event_notify(t, i, m, d)
<1>1. i \notin t.exec /\ i \in Flips(t) /\ ~t.vblank[i].queued /\ t \in State
  BY DEF TakenForFlip, Flips, Sound, QueueInv
<1>2. Placed(t, {}, i)
  BY DEF Sound, QueueInv
<1>3. i = t.pending /\ i # 0
  BY <1>1, <1>2, Constants DEF Placed
<1>4. u = present_flip_notify(t, i, d)
  <2>1. i \in Range(t.flips) /\ i # Unflip
    BY <1>1, <1>3 DEF Flips, Unflip
  <2> QED BY <2>1, <1>1 DEF present_event_notify
<1> HIDE DEF u
<1>5. ExecInv(t, f, {})
  BY <1>1 DEF Sound, ExecInv
<1>6. Sound(t, {}, f, {}, {})
  BY <1>5 DEF Sound
<1>7. Same(t, t, {"flipped"})
  BY DEF Same
<1>8. u = present_flip_notify(t, t.pending, d) /\ t.pending # 0
  BY <1>3, <1>4
<1>9. Sound(u, {}, f, {}, {}) /\ LeftInv(u, f, {})
  BY <1>1, <1>6, <1>7, <1>8, FlipNotifyKeeps
<1> QED BY <1>9 DEF u

LEMMA VblankEventKeeps ==
    ASSUME NEW p, NEW f, NEW d, Sound(p, {}, f, {}, {}), LeftInv(p, f, {}),
           NEW e \in p.armed, NEW m \in e.msc .. p.msc
    PROVE  LET t == [p EXCEPT !.armed = @ \ {e}, !.mistaken = @ \/ TakenForFlip(p, e.id)]
               u == present_event_notify(t, e.id, m, d)
           IN  Sound(u, {}, f, {}, {}) /\ LeftInv(u, f, {})
<1> DEFINE q == [p EXCEPT !.armed = @ \ {e}]
           i == e.id
           t == [p EXCEPT !.armed = @ \ {e}, !.mistaken = @ \/ TakenForFlip(p, i)]
           u == present_event_notify(t, i, m, d)
<1>1. p \in State /\ p.mistaken \in BOOLEAN
  BY StateType DEF Sound, QueueInv
<1>2. q \in State
  <2>1. p.armed \ {e} \in SUBSET [id : Ids, msc : 0 .. MaxMsc]
    BY <1>1, StateType
  <2> QED BY <2>1, <1>1, Zenon DEF State
<1>3. Same(p, q, {"armed"}) /\ q.armed = p.armed \ {e}
  BY <1>1 DEF Same, Fields, State
<1>4. t = [q EXCEPT !.mistaken = p.mistaken \/ TakenForFlip(p, i)]
  BY <1>1 DEF State
<1> HIDE DEF q, t
<1>5. /\ Sound(q, {}, f, {i}, {}) /\ Carry(p, {}, q, {i}, {}, f) /\ i \in Ids
      /\ i \in q.exec \cup Flips(q) => Due(q, i, m) /\ (QueueHolds => q.vblank[i].queued)
  BY <1>2, <1>3, Disarm
<1>6. LeftInv(q, f, {i})
  BY <1>5 DEF Carry, LeftKept
<1>7. TakenForFlip(q, i) <=> TakenForFlip(p, i)
  BY <1>3 DEF Same, Fields, TakenForFlip
<1> HIDE DEF i, u
<1>8. CASE ~TakenForFlip(p, i)
  <2>1. t = q
    <3>1. q.mistaken = p.mistaken
      BY <1>3 DEF Same, Fields
    <3>2. (p.mistaken \/ TakenForFlip(p, i)) = q.mistaken
      BY <3>1, <1>1, <1>8
    <3> QED BY <3>2, <1>2, <1>4 DEF State
  <2>2. ~TakenForFlip(q, i) /\ (i \in q.exec \cup Flips(q) => Due(q, i, m))
    BY <1>5, <1>7, <1>8
  <2> DEFINE z == present_event_notify(q, i, m, d)
  <2>3. Sound(z, {}, f, {}, {}) /\ LeftInv(z, f, {})
    BY <2>2, <1>5, <1>6, TimelyEvent
  <2>4. u = z
    BY <2>1 DEF u
  <2> HIDE DEF z
  <2> QED BY <2>3, <2>4 DEF u, t, i
<1>9. CASE TakenForFlip(p, i)
  <2>1. t = [q EXCEPT !.mistaken = TRUE]
    <3>1. (p.mistaken \/ TakenForFlip(p, i)) = TRUE
      BY <1>9
    <3> QED BY <3>1, <1>4
  <2>2. ~QueueHolds
    BY <1>5, <1>7, <1>9 DEF TakenForFlip, Flips
  <2> DEFINE y == [q EXCEPT !.mistaken = TRUE]
             z == present_event_notify(y, i, m, d)
  <2>3. Sound(y, {}, f, {i}, {}) /\ Same(q, y, {"mistaken"}) /\ y.mistaken = TRUE
    BY <2>2, <1>5, MistakeKeeps
  <2> HIDE DEF y
  <2>4. TakenForFlip(y, i)
    BY <2>3, <1>7, <1>9 DEF Same, Fields, TakenForFlip
  <2>5. Sound(z, {}, f, {}, {}) /\ LeftInv(z, f, {})
    BY <2>3, <2>4, <1>5, LateEvent
  <2>6. u = z
    BY <2>1 DEF u, y
  <2> HIDE DEF z
  <2> QED BY <2>5, <2>6 DEF u, t, i
<1> QED BY <1>8, <1>9

\* A frame passes.
LEMMA FrameKeeps ==
    ASSUME NEW t, NEW f, Sound(t, {}, f, {}, {}), LeftInv(t, f, {}), t.msc < MaxMsc
    PROVE  LET u == [t EXCEPT !.msc = @ + 1]
           IN  Sound(u, {}, f, {}, {}) /\ LeftInv(u, f, {})
<1> DEFINE u == [t EXCEPT !.msc = @ + 1]
           n == t.msc + 1
<1>1. /\ QueueInv(t, {}) /\ FlipInv(t) /\ PixmapInv(t)
      /\ TimeInv(t) /\ ExecInv(t, f, {}) /\ CoverInv(t, {}) /\ t \in State
  BY DEF Sound, QueueInv
<1>2. n \in 0 .. MaxMsc /\ t.msc \in Nat
  BY <1>1, StateType, Constants
<1>3. u = [t EXCEPT !.msc = n]
  OBVIOUS
<1> HIDE DEF u, n
<1>4. u \in State
  BY <1>1, <1>2, <1>3, Zenon DEF State
<1>5. Same(t, u, {"msc"}) /\ u.msc = n
  BY <1>1, <1>3 DEF Same, Fields, State
<1>6. /\ u.last = t.last /\ u.pending = t.pending /\ u.alive = t.alive /\ u.unflip = t.unflip
      /\ u.flip = t.flip /\ u.flipWindow = t.flipWindow /\ u.pixmapOf = t.pixmapOf
      /\ u.full = t.full /\ u.fence = t.fence /\ u.missed = t.missed /\ u.left = t.left
      /\ u.released = t.released /\ u.wrong = t.wrong /\ u.flips = t.flips
      /\ u.flipping = t.flipping /\ u.flipped = t.flipped /\ u.shown = t.shown
      /\ u.mistaken = t.mistaken
      /\ u.vblank = t.vblank /\ u.exec = t.exec /\ u.list = t.list /\ u.armed = t.armed
  BY <1>5 DEF Same, Fields
<1>7. QueueInv(u, {})
  BY <1>1, <1>4, <1>6 DEF QueueInv, Placed, Flips
<1>8. FlipInv(u) /\ PixmapInv(u) /\ CoverInv(u, {}) /\ ExecInv(u, f, {})
  BY <1>1, <1>6 DEF FlipInv, PixmapInv, Current, CoverInv, ExecInv, HasEvent, Flips
<1>9. TimeInv(u)
  <2>1. ASSUME NEW j \in Ids, InTime(t, j) PROVE InTime(u, j)
    <3>1. t.vblank[j].exec \in -1 .. MaxMsc
      BY <1>1, StateType, VblankType
    <3>2. t.vblank[j].exec <= t.msc => u.vblank[j].exec <= u.msc
      BY <3>1, <1>2, <1>5, <1>6, Constants DEF n
    <3> QED BY <2>1, <3>2, <1>6 DEF InTime, HasEvent
  <2>2. t.exec \subseteq Ids /\ Flips(t) \subseteq Ids /\ Flips(u) = Flips(t)
    BY <1>1, <1>6, StateType, FlipsFacts DEF Flips
  <2> QED BY <2>1, <2>2, <1>1, <1>6 DEF TimeInv, FenceIsSet
<1>10. LeftInv(u, f, {})
  BY <1>6 DEF LeftInv, LeftIn, HasEvent, Flips
<1> QED BY <1>7, <1>8, <1>9, <1>10 DEF Sound, u

\* present_check_flip_window.
LEMMA CheckFlippedKeeps ==
    ASSUME NEW t, NEW f, NEW U, NEW w \in Windows, NEW d, Sound(t, {}, f, {}, U), ~t.unflip
    PROVE  LET u == CheckFlipped(t, w, d)
           IN  Sound(u, {}, f, {}, U \ {w}) /\ Carry(t, {}, u, {}, {}, f)
<1> DEFINE u == CheckFlipped(t, w, d)
           bad == ~present_check_flip(t, w, d)
<1>1. QueueInv(t, {}) /\ FlipInv(t) /\ CoverInv(t, U) /\ w # None
  BY Constants DEF Sound
<1>2. ~bad => t.full = w
  BY DEF present_check_flip
<1>3. bad \in BOOLEAN
  BY DEF present_check_flip
<1> HIDE DEF bad
<1>4. CASE t.pending # 0 /\ t.vblank[t.pending].window = w /\ bad
  <2>1. u = present_set_abort_flip(t)
    BY <1>4 DEF CheckFlipped, bad
  <2> HIDE DEF u
  <2>2. Sound(u, {}, f, {}, U \ {w}) /\ Carry(t, {}, u, {}, {}, f)
    BY <2>1, <1>4, AbortKeeps
  <2> QED BY <2>2 DEF u
<1>5. CASE t.pending = 0 /\ t.flipWindow = w /\ bad
  <2>1. u = present_unflip(t, d)
    BY <1>5 DEF CheckFlipped, bad
  <2>2. t.flip # 0
    BY <1>1, <1>5 DEF FlipInv
  <2> HIDE DEF u
  <2>3. Sound(u, {}, f, {}, {}) /\ Carry(t, {}, u, {}, {}, f)
    BY <2>1, <2>2, <1>5, UnflipKeeps
  <2>4. Sound(u, {}, f, {}, U \ {w})
    BY <2>3, SoundMore
  <2> QED BY <2>3, <2>4 DEF u
<1>6. CASE ~bad \/ (t.pending # 0 /\ t.vblank[t.pending].window # w)
           \/ (t.pending = 0 /\ t.flipWindow # w)
  <2>1. u = t
    BY <1>6 DEF CheckFlipped, bad
  <2>2. CoverInv(t, U \ {w})
    BY <1>1, <1>2, <1>6 DEF CoverInv
  <2>3. Sound(t, {}, f, {}, U \ {w})
    BY <2>2 DEF Sound
  <2> QED BY <2>1, <2>3, CarrySame
<1> QED BY <1>3, <1>4, <1>5, <1>6

LEMMA CheckedDoes ==
    ASSUME NEW q, NEW L, QueueInv(q, L), NEW w \in Windows, NEW d
    PROVE  LET t == [q EXCEPT !.missed = @ \ Range(q.list[w])]
               u == CheckQueued(t, w, d)
           IN  /\ u \in State /\ Same(q, u, {"vblank", "missed"})
               /\ u.missed = q.missed \ Range(q.list[w])
               /\ \A i \in Ids : VSame(q.vblank[i], u.vblank[i], {"flip", "exec"})
               /\ \A i \in Ids : \/ u.vblank[i] = q.vblank[i]
                                 \/ i \in Range(q.list[w]) /\ ~u.vblank[i].flip
               /\ \A i \in Range(q.list[w]) :
                     q.vblank[i].queued /\ u.vblank[i].flip => q.full = w
<1> DEFINE m == q.missed \ Range(q.list[w])
           t == [q EXCEPT !.missed = m]
           x(i) == [t.vblank[i] EXCEPT !.flip = FALSE,
                       !.exec = IF t.vblank[i].sync THEN t.vblank[i].target
                               ELSE t.vblank[i].exec]
           hit(i) == i \in Range(t.list[w]) /\ NoLongerFlips(t, i, w, d)
           V == [i \in Ids |-> IF hit(i) THEN x(i) ELSE t.vblank[i]]
           u == [t EXCEPT !.vblank = V]
<1>1. q \in State
  BY DEF QueueInv
<1>2. t \in State
  <2>1. m \in SUBSET Ids
    BY <1>1, StateType
  <2> QED BY <2>1, <1>1, Zenon DEF State
<1>3. Same(q, t, {"missed"}) /\ t.missed = m
  BY <1>1 DEF Same, Fields, State
<1>4. t.vblank = q.vblank /\ t.list = q.list /\ t.full = q.full
  BY <1>3 DEF Same, Fields
<1> HIDE DEF t, m
<1>5. ASSUME NEW i \in Ids
      PROVE  x(i) \in Vblank /\ VSame(t.vblank[i], x(i), {"flip", "exec"}) /\ ~x(i).flip
  <2>1. PICK v \in Vblank : v = t.vblank[i]
    BY <1>2, StateType
  <2>2. PICK y \in -1 .. MaxMsc : y = IF v.sync THEN v.target ELSE v.exec
    <3>1. v.target \in -1 .. MaxMsc /\ v.exec \in -1 .. MaxMsc
      BY <2>1, VblankType, Constants
    <3> QED BY <3>1
  <2>3. PICK z \in Vblank : z = [v EXCEPT !.flip = FALSE]
    BY VblankSet
  <2>4. [z EXCEPT !.exec = y] \in Vblank
    BY VblankSet
  <2>5. x(i) = [z EXCEPT !.exec = y]
    BY <2>1, <2>2, <2>3 DEF Vblank
  <2>6. VSame(v, [z EXCEPT !.exec = y], {"flip", "exec"}) /\ ~[z EXCEPT !.exec = y].flip
    BY <2>3 DEF VSame, VFields, Vblank
  <2> HIDE DEF x
  <2> QED BY <2>1, <2>4, <2>5, <2>6
<1>6. ASSUME NEW i \in Ids
      PROVE  hit(i) \in BOOLEAN
  BY DEF NoLongerFlips
<1>7. \A i \in Ids : hit(i) => i \in Range(q.list[w])
  BY <1>4
<1>8. \A i \in Range(q.list[w]) :
         i \in Ids => (hit(i) \/ (q.vblank[i].queued /\ q.vblank[i].flip => q.full = w))
  BY <1>4 DEF NoLongerFlips, present_check_flip
<1> HIDE DEF x, hit
<1>9. V \in [Ids -> Vblank]
  BY <1>2, <1>5, StateType
<1>10. \A i \in Ids : V[i] = IF hit(i) THEN x(i) ELSE t.vblank[i]
  OBVIOUS
<1>11. CheckQueued(t, w, d) = u
  BY DEF CheckQueued, x, hit
<1> HIDE DEF V
<1>12. u \in State
  BY <1>2, <1>9, Zenon DEF State
<1>13. Same(t, u, {"vblank"}) /\ u.vblank = V
  BY <1>2 DEF Same, Fields, State
<1> HIDE DEF u
<1>14. Same(q, u, {"vblank", "missed"}) /\ u.missed = q.missed \ Range(q.list[w])
  BY <1>3, <1>13 DEF Same, Fields, m
<1>15. \A i \in Ids : VSame(q.vblank[i], u.vblank[i], {"flip", "exec"})
  BY <1>4, <1>5, <1>10, <1>13 DEF VSame
<1>16. \A i \in Ids : \/ u.vblank[i] = q.vblank[i]
                      \/ i \in Range(q.list[w]) /\ ~u.vblank[i].flip
  BY <1>4, <1>5, <1>7, <1>10, <1>13
<1>17. \A i \in Range(q.list[w]) :
          i \in Ids /\ q.vblank[i].queued /\ u.vblank[i].flip => q.full = w
  BY <1>4, <1>5, <1>8, <1>10, <1>13
<1>18. Range(q.list[w]) \subseteq Ids
  BY <1>1, FlipsFacts
<1>19. [q EXCEPT !.missed = @ \ Range(q.list[w])] = t
  BY DEF t, m
<1> QED BY <1>11, <1>12, <1>14, <1>15, <1>16, <1>17, <1>18, <1>19

LEMMA CheckQueuedKeeps ==
    ASSUME NEW t, NEW f, NEW U, NEW w \in Windows, NEW u \in State, Sound(t, {}, f, {}, U),
           Same(t, u, {"vblank", "missed"}), u.missed = t.missed \ Range(t.list[w]),
           \A i \in Ids : VSame(t.vblank[i], u.vblank[i], {"flip", "exec"}),
           \A i \in Ids : \/ u.vblank[i] = t.vblank[i]
                          \/ i \in Range(t.list[w]) /\ ~u.vblank[i].flip,
           \A i \in Range(t.list[w]) : t.vblank[i].queued /\ u.vblank[i].flip => t.full = w
    PROVE  Sound(u, {}, f, {}, U) /\ Carry(t, {}, u, {}, {}, f)
<1>1. /\ QueueInv(t, {}) /\ FlipInv(t) /\ PixmapInv(t)
      /\ TimeInv(t) /\ ExecInv(t, f, {}) /\ CoverInv(t, U) /\ t \in State
  BY DEF Sound, QueueInv
<1>2. /\ u.last = t.last /\ u.pending = t.pending /\ u.alive = t.alive /\ u.unflip = t.unflip
      /\ u.flip = t.flip /\ u.flipWindow = t.flipWindow /\ u.pixmapOf = t.pixmapOf
      /\ u.full = t.full /\ u.fence = t.fence /\ u.left = t.left /\ u.flips = t.flips
      /\ u.released = t.released /\ u.wrong = t.wrong /\ u.msc = t.msc
      /\ u.flipping = t.flipping /\ u.flipped = t.flipped /\ u.shown = t.shown
      /\ u.mistaken = t.mistaken
      /\ u.exec = t.exec /\ u.list = t.list /\ u.armed = t.armed
  BY DEF Same, Fields
<1>3. \A j \in Ids : /\ u.vblank[j].live = t.vblank[j].live
                     /\ u.vblank[j].window = t.vblank[j].window
                     /\ u.vblank[j].pixmap = t.vblank[j].pixmap
                     /\ u.vblank[j].queued = t.vblank[j].queued
                     /\ u.vblank[j].abort = t.vblank[j].abort
                     /\ u.vblank[j].callback = t.vblank[j].callback
  BY DEF VSame, VFields
<1>4. /\ t.exec \subseteq Ids /\ Flips(t) \subseteq Ids /\ Flips(u) = Flips(t)
      /\ \A j \in Ids : HasEvent(u, j) <=> HasEvent(t, j)
      /\ t.flip # 0 => t.flip \in Ids
      /\ t.pending # 0 => t.pending \in Ids
      /\ t.released \subseteq Ids
  BY <1>1, <1>2, StateType, FlipsFacts DEF HasEvent, Flips
<1>5. \A j \in Ids : j \in Range(t.list[w]) <=> t.vblank[j].queued /\ t.vblank[j].window = w
  BY <1>1 DEF QueueInv, Placed
<1>6. \A j \in Ids : ~t.vblank[j].queued => u.vblank[j] = t.vblank[j]
  BY <1>5
<1>7. t.pending # 0 => ~t.vblank[t.pending].queued
  BY <1>1, <1>4 DEF QueueInv, Placed, FlipInv
<1>8. QueueInv(u, {})
  <2>1. ASSUME NEW j \in Ids PROVE Placed(u, {}, j)
    <3>1. Placed(t, {}, j)
      BY <1>1 DEF QueueInv
    <3>2. ~u.vblank[j].live => u.vblank[j] = Gone
      BY <3>1, <1>3, <1>6, GoneType DEF Placed
    <3> QED BY <3>1, <3>2, <1>2, <1>3, <1>4 DEF Placed
  <2> QED BY <2>1, <1>1, <1>2 DEF QueueInv
<1>9. FlipInv(u)
  BY <1>1, <1>2, <1>3, <1>4, <1>6, <1>7 DEF FlipInv
<1>10. PixmapInv(u)
  BY <1>1, <1>2 DEF PixmapInv, Current
<1>11. TimeInv(u)
  <2>1. ASSUME NEW j \in Ids, InTime(t, j) PROVE InTime(u, j)
    BY <2>1, <1>2, <1>4 DEF InTime
  <2> QED BY <2>1, <1>1, <1>2, <1>4 DEF TimeInv, FenceIsSet
<1>12. ExecInv(u, f, {})
  BY <1>1, <1>2, <1>3, <1>4 DEF ExecInv
<1>13. CoverInv(u, U)
  <2>1. t.flip # 0 => (t.flip \in u.missed <=> t.flip \in t.missed)
    BY <1>1, <1>4, <1>5 DEF FlipInv
  <2>2. t.pending # 0 => (t.pending \in u.missed <=> t.pending \in t.missed)
    BY <1>4, <1>5, <1>7
  <2>3. t.flipWindow # None => t.flip # 0
    BY <1>1 DEF FlipInv
  <2>4. ASSUME NEW i \in Ids, u.vblank[i].queued, u.vblank[i].flip
        PROVE  u.vblank[i].window = u.full \/ i \in u.missed
    <3>1. CASE i \in Range(t.list[w])
      BY <3>1, <2>4, <1>2, <1>3, <1>5
    <3>2. CASE i \notin Range(t.list[w])
      BY <3>2, <2>4, <1>1, <1>2 DEF CoverInv
    <3> QED BY <3>1, <3>2
  <2> QED BY <2>1, <2>2, <2>3, <2>4, <1>1, <1>2, <1>3, <1>4 DEF CoverInv
<1>14. Carry(t, {}, u, {}, {}, f)
  <2>1. ASSUME NEW Z, LeftIn(t, f, {}, Z) PROVE LeftIn(u, f, {}, Z)
    BY <2>1, <1>2, <1>3, <1>4 DEF LeftIn
  <2>2. LeftKept(t, {}, u, {}, f)
    BY <2>1, <1>2 DEF LeftKept, LeftInv
  <2> QED BY <2>2, <1>2 DEF Carry, Stable
<1> QED BY <1>8, <1>9, <1>10, <1>11, <1>12, <1>13, <1>14 DEF Sound

LEMMA CheckWindowKeeps ==
    ASSUME NEW t, NEW f, NEW U, NEW w \in Windows, NEW d, Sound(t, {}, f, {}, U)
    PROVE  LET u == present_check_flip_window(t, w, d)
           IN  Sound(u, {}, f, {}, U \ {w}) /\ Carry(t, {}, u, {}, {}, f)
<1> DEFINE u == present_check_flip_window(t, w, d)
           q == CheckFlipped(t, w, d)
<1>1. CASE t.unflip
  <2>1. u = t
    BY <1>1 DEF present_check_flip_window
  <2>2. CoverInv(t, U \ {w})
    BY <1>1 DEF Sound, CoverInv, FlipInv
  <2>3. Sound(t, {}, f, {}, U \ {w})
    BY <2>2 DEF Sound
  <2> QED BY <2>1, <2>3, CarrySame
<1>2. CASE ~t.unflip
  <2>1. Sound(q, {}, f, {}, U \ {w}) /\ Carry(t, {}, q, {}, {}, f)
    BY <1>2, CheckFlippedKeeps
  <2>2. u = CheckQueued([q EXCEPT !.missed = @ \ Range(q.list[w])], w, d)
    BY <1>2 DEF present_check_flip_window
  <2> HIDE DEF q, u
  <2>3. QueueInv(q, {})
    BY <2>1 DEF Sound
  <2>4. /\ u \in State /\ Same(q, u, {"vblank", "missed"})
        /\ u.missed = q.missed \ Range(q.list[w])
        /\ \A i \in Ids : VSame(q.vblank[i], u.vblank[i], {"flip", "exec"})
        /\ \A i \in Ids : \/ u.vblank[i] = q.vblank[i]
                          \/ i \in Range(q.list[w]) /\ ~u.vblank[i].flip
        /\ \A i \in Range(q.list[w]) : q.vblank[i].queued /\ u.vblank[i].flip => q.full = w
    BY <2>2, <2>3, CheckedDoes
  <2>5. Sound(u, {}, f, {}, U \ {w}) /\ Carry(q, {}, u, {}, {}, f)
    BY <2>1, <2>4, CheckQueuedKeeps
  <2>6. Carry(t, {}, u, {}, {}, f)
    BY <2>1, <2>5, CarryTrans
  <2> QED BY <2>5, <2>6 DEF u
<1> QED BY <1>1, <1>2

CheckStep(g, n, t, ws, d) ==
    IF n = 0 THEN t ELSE present_check_flip_window(g[n - 1], ws[n], d)

LEMMA CheckedExists ==
    ASSUME NEW t, NEW ws, NEW d, NEW N \in Nat
    PROVE  \E g : g = [n \in 0 .. N |-> CheckStep(g, n, t, ws, d)]
<1> DEFINE Good(m) == \E g : g = [n \in 0 .. m |-> CheckStep(g, n, t, ws, d)]
           Bad == {m \in 0 .. N : ~Good(m)}
<1> SUFFICES ASSUME Bad # {} PROVE FALSE
  <2>1. N \notin Bad => Good(N)
    OBVIOUS
  <2> QED BY <2>1
<1>1. Bad \in SUBSET Nat
  OBVIOUS
<1>2. PICK m \in Bad : \A k \in Bad : m <= k
  <2> HIDE DEF Bad
  <2> QED BY <1>1, LeastIndex
<1>3. m \in 0 .. N /\ ~Good(m)
  OBVIOUS
<1>4. CASE m = 0
  <2> DEFINE g == [n \in 0 .. 0 |-> t]
  <2>1. g = [n \in 0 .. 0 |-> CheckStep(g, n, t, ws, d)]
    BY DEF CheckStep
  <2> QED BY <2>1, <1>3, <1>4
<1>5. CASE m # 0
  <2>1. m - 1 \in 0 .. N /\ ~(m <= m - 1) /\ m \in Nat
    BY <1>3, <1>5
  <2>2. Good(m - 1)
    BY <2>1, <1>2
  <2>3. PICK g : g = [n \in 0 .. m - 1 |-> CheckStep(g, n, t, ws, d)]
    BY <2>2
  <2> DEFINE h == [n \in 0 .. m |-> IF n = m THEN CheckStep(g, m, t, ws, d) ELSE g[n]]
  <2>4. ASSUME NEW n \in 0 .. m PROVE h[n] = CheckStep(h, n, t, ws, d)
    <3>1. CASE n = m
      <4>1. h[m - 1] = g[m - 1]
        BY <2>1
      <4>2. h[n] = CheckStep(g, m, t, ws, d)
        BY <3>1
      <4> HIDE DEF h
      <4> QED BY <3>1, <4>1, <4>2 DEF CheckStep
    <3>2. CASE n # m
      <4>1. n \in 0 .. m - 1 /\ h[n] = g[n]
        BY <3>2, <2>1
      <4>2. g[n] = CheckStep(g, n, t, ws, d)
        BY <4>1, <2>3
      <4>3. n # 0 => h[n - 1] = g[n - 1]
        BY <4>1, <2>1
      <4> HIDE DEF h
      <4> QED BY <4>1, <4>2, <4>3 DEF CheckStep
    <3> QED BY <3>1, <3>2
  <2>5. h = [n \in 0 .. m |-> CheckStep(h, n, t, ws, d)]
    <3>1. h = [n \in 0 .. m |-> h[n]]
      OBVIOUS
    <3> HIDE DEF h
    <3> QED BY <3>1, <2>4
  <2> HIDE DEF h
  <2> QED BY <2>5, <1>3
<1> QED BY <1>4, <1>5

\* All windows of ws are checked.
LEMMA CheckAllKeeps ==
    ASSUME NEW t, NEW f, NEW U, NEW ws \in Seq(Windows), NEW d, Sound(t, {}, f, {}, U)
    PROVE  LET u == CheckAll(t, ws, d)
           IN  Sound(u, {}, f, {}, U \ Range(ws)) /\ Carry(t, {}, u, {}, {}, f)
<1> DEFINE N == Len(ws)
           g == CHOOSE g : g = [n \in 0 .. N |-> CheckStep(g, n, t, ws, d)]
           Done(n) == {ws[k] : k \in 1 .. n}
           P(n) == Sound(g[n], {}, f, {}, U \ Done(n)) /\ Carry(t, {}, g[n], {}, {}, f)
           Bad == {n \in 0 .. N : ~P(n)}
<1>0. N \in Nat
  OBVIOUS
<1>1. g = [n \in 0 .. N |-> CheckStep(g, n, t, ws, d)]
  BY <1>0, CheckedExists
<1>2. CheckAll(t, ws, d) = g[N]
  BY DEF CheckAll, CheckStep
<1> HIDE DEF g, N
<1>3. \A n \in 0 .. N : g[n] = IF n = 0 THEN t ELSE present_check_flip_window(g[n - 1], ws[n], d)
  BY <1>1 DEF CheckStep
<1>4. Bad = {}
  <2> SUFFICES ASSUME Bad # {} PROVE FALSE
    OBVIOUS
  <2>1. Bad \in SUBSET Nat
    BY <1>0
  <2>2. PICK m \in Bad : \A k \in Bad : m <= k
    <3> HIDE DEF Bad
    <3> QED BY <2>1, LeastIndex
  <2>3. m \in 0 .. N /\ ~P(m)
    OBVIOUS
  <2>4. CASE m = 0
    <3>1. g[0] = t /\ U \ Done(0) = U
      BY <1>0, <1>3
    <3>2. P(0)
      BY <3>1, CarrySame
    <3> QED BY <3>2, <2>3, <2>4
  <2>5. CASE m # 0
    <3>1. m - 1 \in 0 .. N /\ ~(m <= m - 1) /\ m \in 1 .. N
      BY <1>0, <2>3, <2>5
    <3>2. P(m - 1)
      BY <3>1, <2>2
    <3>3. g[m] = present_check_flip_window(g[m - 1], ws[m], d)
      BY <3>1, <1>3
    <3>4. ws[m] \in Windows
      BY <3>1 DEF N
    <3>5. (U \ Done(m - 1)) \ {ws[m]} = U \ Done(m)
      <4>1. \A k : k \in 1 .. m <=> k \in 1 .. m - 1 \/ k = m
        BY <3>1, <1>0
      <4> QED BY <4>1
    <3>6. PICK a, b, c, y : a = g[m - 1] /\ b = U \ Done(m - 1) /\ c = ws[m] /\ y = g[m]
      OBVIOUS
    <3>7. Sound(a, {}, f, {}, b) /\ Carry(t, {}, a, {}, {}, f) /\ c \in Windows
      BY <3>2, <3>4, <3>6
    <3>8. y = present_check_flip_window(a, c, d)
      BY <3>3, <3>6
    <3>9. Sound(y, {}, f, {}, b \ {c}) /\ Carry(a, {}, y, {}, {}, f)
      BY <3>7, <3>8, CheckWindowKeeps
    <3>10. Carry(t, {}, y, {}, {}, f)
      BY <3>7, <3>9, CarryTrans
    <3>11. P(m)
      BY <3>5, <3>6, <3>9, <3>10
    <3> QED BY <3>11, <2>3
  <2> QED BY <2>4, <2>5
<1>5. P(N)
  <2>1. N \in 0 .. N
    BY <1>0
  <2>2. N \notin Bad
    BY <1>4
  <2> QED BY <2>1, <2>2, Zenon
<1>6. Done(N) = Range(ws)
  BY RangeFacts DEF N, Range
<1> HIDE DEF Done
<1> QED BY <1>2, <1>5, <1>6

\* A list of a set names all its elements.
LEMMA ListOf ==
    ASSUME NEW S, IsFiniteSet(S), NEW ws \in SetToSeqs(S)
    PROVE  ws \in Seq(S) /\ Range(ws) = S
<1> DEFINE n == Cardinality(S)
<1>1. n \in Nat
  BY FS_CardinalityType
<1>2. Cardinality(1 .. n) = n
  BY <1>1, FS_Interval
<1>3. ws \in [1 .. n -> S] /\ \A i, j \in 1 .. n : i # j => ws[i] # ws[j]
  BY DEF SetToSeqs
<1> HIDE DEF n
<1>4. ws \in Injection(1 .. n, S)
  BY <1>3 DEF Injection, IsInjective
<1>5. ws \in Surjection(1 .. n, S)
  BY <1>2, <1>4, FS_Injection DEF n
<1>6. \A x \in S : \E i \in 1 .. n : ws[i] = x
  BY <1>5 DEF Surjection
<1>7. ws \in Seq(S)
  BY <1>1, <1>3, SeqDef
<1>8. Len(ws) = n
  BY <1>1, <1>3, <1>7
<1>9. Range(ws) \subseteq S /\ \A x : x \in Range(ws) <=> \E k \in 1 .. n : ws[k] = x
  BY <1>7, <1>8, RangeFacts
<1> QED BY <1>6, <1>7, <1>9

\* The window that covers the screen changes.
LEMMA CoverDoes ==
    ASSUME NEW t \in State, NEW w \in Windows \cup {None}
    PROVE  LET u == Cover(t, w)
           IN  /\ u \in State /\ Same(t, u, {"full", "missed"}) /\ u.full = w
               /\ t.missed \subseteq u.missed
               /\ w # t.full =>
                    \A i \in Ids : t.vblank[i].queued /\ t.vblank[i].flip
                                      /\ t.vblank[i].window = t.full => i \in u.missed
<1> DEFINE waits(i) == t.vblank[i].queued /\ t.vblank[i].flip /\ t.vblank[i].window = t.full
           m == t.missed \cup {i \in Ids : w # t.full /\ waits(i)}
           u == [t EXCEPT !.full = w, !.missed = m]
<1>1. m \in SUBSET Ids
  BY StateType
<1>2. Cover(t, w) = u
  BY DEF Cover
<1>3. t.missed \subseteq m
  OBVIOUS
<1>4. w # t.full =>
         \A i \in Ids : t.vblank[i].queued /\ t.vblank[i].flip
                           /\ t.vblank[i].window = t.full => i \in m
  OBVIOUS
<1> HIDE DEF m
<1>5. u \in State
  BY <1>1, Zenon DEF State
<1>6. Same(t, u, {"full", "missed"}) /\ u.full = w /\ u.missed = m
  BY DEF Same, Fields, State
<1> HIDE DEF u
<1> QED BY <1>2, <1>3, <1>4, <1>5, <1>6

LEMMA CoverKeeps ==
    ASSUME NEW t, NEW f, NEW w \in Windows \cup {None}, Sound(t, {}, f, {}, {}),
           NEW u \in State, Same(t, u, {"full", "missed"}), u.full = w,
           t.missed \subseteq u.missed,
           w # t.full => \A i \in Ids : t.vblank[i].queued /\ t.vblank[i].flip
                                           /\ t.vblank[i].window = t.full => i \in u.missed
    PROVE  /\ Sound(u, {}, f, {}, {t.full} \ {w, None})
           /\ LeftInv(t, f, {}) => LeftInv(u, f, {})
           /\ u.alive = t.alive /\ u.list = t.list /\ u.vblank = t.vblank
<1> DEFINE U == {t.full} \ {w, None}
<1>1. /\ QueueInv(t, {}) /\ FlipInv(t) /\ PixmapInv(t)
      /\ TimeInv(t) /\ ExecInv(t, f, {}) /\ CoverInv(t, {}) /\ t \in State
  BY DEF Sound, QueueInv
<1>2. /\ u.last = t.last /\ u.pending = t.pending /\ u.alive = t.alive /\ u.unflip = t.unflip
      /\ u.flip = t.flip /\ u.flipWindow = t.flipWindow /\ u.pixmapOf = t.pixmapOf
      /\ u.fence = t.fence /\ u.left = t.left /\ u.flips = t.flips /\ u.vblank = t.vblank
      /\ u.released = t.released /\ u.wrong = t.wrong /\ u.msc = t.msc
      /\ u.flipping = t.flipping /\ u.flipped = t.flipped /\ u.shown = t.shown
      /\ u.mistaken = t.mistaken
      /\ u.exec = t.exec /\ u.list = t.list /\ u.armed = t.armed
  BY DEF Same, Fields
<1>3. QueueInv(u, {})
  BY <1>1, <1>2 DEF QueueInv, Placed, Flips
<1>4. FlipInv(u) /\ PixmapInv(u) /\ ExecInv(u, f, {})
  BY <1>1, <1>2 DEF FlipInv, PixmapInv, Current, ExecInv, HasEvent, Flips
<1>5. TimeInv(u)
  BY <1>1, <1>2 DEF TimeInv, InTime, HasEvent, Flips, FenceIsSet
<1>6. CoverInv(u, U)
  <2>1. u.flipWindow # None /\ u.flipWindow # u.full =>
           u.unflip \/ u.pending # 0 \/ u.flip \in u.missed \/ u.flipWindow \in U
    BY <1>1, <1>2 DEF CoverInv
  <2>2. u.pending # 0 /\ u.vblank[u.pending].window # u.full =>
           \/ u.vblank[u.pending].abort \/ u.pending \in u.missed
           \/ u.vblank[u.pending].window \in U
    BY <1>1, <1>2 DEF CoverInv
  <2>3. \A i \in Ids : u.vblank[i].queued /\ u.vblank[i].flip =>
           u.vblank[i].window = u.full \/ i \in u.missed
    BY <1>1, <1>2 DEF CoverInv
  <2> QED BY <2>1, <2>2, <2>3, <1>1, <1>2 DEF CoverInv
<1>7. LeftInv(t, f, {}) => LeftInv(u, f, {})
  BY <1>2 DEF LeftInv, LeftIn, HasEvent, Flips
<1> QED BY <1>2, <1>3, <1>4, <1>5, <1>6, <1>7 DEF Sound

LEMMA CoverThenCheck ==
    ASSUME NEW t, NEW f, NEW w \in Windows \cup {None}, NEW d, NEW ws \in Seq(Windows),
           Sound(t, {}, f, {}, {}), LeftInv(t, f, {}), {t.full} \ {w, None} \subseteq Range(ws)
    PROVE  LET u == CheckAll(Cover(t, w), ws, d)
           IN  Sound(u, {}, f, {}, {}) /\ LeftInv(u, f, {}) /\ u.alive = t.alive
<1> DEFINE c == Cover(t, w)
           u == CheckAll(c, ws, d)
           U == {t.full} \ {w, None}
<1>1. t \in State
  BY DEF Sound, QueueInv
<1>2. /\ c \in State /\ Same(t, c, {"full", "missed"}) /\ c.full = w
      /\ t.missed \subseteq c.missed
      /\ w # t.full => \A i \in Ids : t.vblank[i].queued /\ t.vblank[i].flip
                                         /\ t.vblank[i].window = t.full => i \in c.missed
  BY <1>1, CoverDoes
<1> HIDE DEF c
<1>3. Sound(c, {}, f, {}, {t.full} \ {w, None}) /\ LeftInv(c, f, {}) /\ c.alive = t.alive
  BY <1>2, CoverKeeps
<1>4. Sound(u, {}, f, {}, U \ Range(ws)) /\ Carry(c, {}, u, {}, {}, f)
  BY <1>3, CheckAllKeeps
<1>5. U \ Range(ws) = {}
  OBVIOUS
<1> HIDE DEF u, U
<1>6. Sound(u, {}, f, {}, {}) /\ LeftInv(u, f, {}) /\ u.alive = t.alive
  BY <1>3, <1>4, <1>5 DEF Carry, LeftKept, Stable
<1> QED BY <1>6 DEF u, c

\* Windows move.
LEMMA ReconfigureKeeps ==
    ASSUME NEW t, NEW f, NEW w \in Windows \cup {None}, NEW d,
           NEW ws \in SetToSeqs({t.full, w} \ {None}),
           Sound(t, {}, f, {}, {}), LeftInv(t, f, {})
    PROVE  LET u == CheckAll(Cover(t, w), ws, d)
           IN  Sound(u, {}, f, {}, {}) /\ LeftInv(u, f, {})
<1> DEFINE S == {t.full, w} \ {None}
<1>1. t.full \in Windows \cup {None}
  BY StateType DEF Sound, QueueInv
<1>2. S \in SUBSET Windows /\ IsFiniteSet(Windows)
  BY <1>1, PresentAssumption
<1>3. IsFiniteSet(S)
  BY <1>2, FS_Subset
<1>4. {t.full} \ {w, None} \subseteq S
  OBVIOUS
<1>5. ws \in SetToSeqs(S)
  OBVIOUS
<1> HIDE DEF S
<1>6. ws \in Seq(S) /\ Range(ws) = S
  BY <1>3, <1>5, ListOf
<1>7. ws \in Seq(Windows)
  BY <1>2, <1>6
<1> QED BY <1>4, <1>6, <1>7, CoverThenCheck

\* The driver has all windows checked.
LEMMA CheckFlipsKeeps ==
    ASSUME NEW t, NEW f, NEW d, NEW ws \in SetToSeqs(t.alive),
           Sound(t, {}, f, {}, {}), LeftInv(t, f, {})
    PROVE  LET u == CheckAll(t, ws, d)
           IN  Sound(u, {}, f, {}, {}) /\ LeftInv(u, f, {})
<1> DEFINE u == CheckAll(t, ws, d)
<1>1. t.alive \in SUBSET Windows /\ IsFiniteSet(Windows)
  BY StateType, PresentAssumption DEF Sound, QueueInv
<1>2. IsFiniteSet(t.alive)
  BY <1>1, FS_Subset
<1>3. ws \in Seq(t.alive)
  BY <1>2, ListOf
<1>4. ws \in Seq(Windows)
  BY <1>1, <1>3
<1>5. Sound(u, {}, f, {}, {} \ Range(ws)) /\ Carry(t, {}, u, {}, {}, f)
  BY <1>4, CheckAllKeeps
<1>6. {} \ Range(ws) = {}
  OBVIOUS
<1> HIDE DEF u
<1>7. Sound(u, {}, f, {}, {}) /\ LeftInv(u, f, {})
  BY <1>5, <1>6 DEF Carry, LeftKept
<1> QED BY <1>7 DEF u

\* The driver's events of a vblank that is gone are taken back.
LEMMA DropEvents ==
    ASSUME NEW t, NEW f, NEW U, Sound(t, {}, f, {}, U), NEW i \in Ids, ~t.vblank[i].live,
           NEW u \in State, Same(t, u, {"armed"}), u.armed = {e \in t.armed : e.id # i}
    PROVE  Sound(u, {}, f, {}, U) /\ (LeftInv(t, f, {}) => LeftInv(u, f, {}))
<1>1. /\ QueueInv(t, {}) /\ FlipInv(t) /\ PixmapInv(t)
      /\ TimeInv(t) /\ ExecInv(t, f, {}) /\ CoverInv(t, U) /\ t \in State
  BY DEF Sound, QueueInv
<1>2. /\ u.last = t.last /\ u.pending = t.pending /\ u.alive = t.alive /\ u.unflip = t.unflip
      /\ u.flip = t.flip /\ u.flipWindow = t.flipWindow /\ u.pixmapOf = t.pixmapOf
      /\ u.full = t.full /\ u.fence = t.fence /\ u.missed = t.missed /\ u.left = t.left
      /\ u.released = t.released /\ u.wrong = t.wrong /\ u.msc = t.msc /\ u.flips = t.flips
      /\ u.flipping = t.flipping /\ u.flipped = t.flipped /\ u.shown = t.shown
      /\ u.mistaken = t.mistaken
      /\ u.vblank = t.vblank /\ u.exec = t.exec /\ u.list = t.list
  BY DEF Same, Fields
<1>3. t.exec \subseteq Ids /\ Flips(t) \subseteq Ids /\ Flips(u) = Flips(t)
  BY <1>1, <1>2, StateType, FlipsFacts DEF Flips
<1>4. i \notin t.exec /\ i \notin Flips(t)
  BY <1>1 DEF QueueInv, Placed
<1>5. \A j \in Ids \ {i} : HasEvent(u, j) <=> HasEvent(t, j)
  BY DEF HasEvent
<1>6. ASSUME NEW j \in Ids \ {i}, InTime(t, j) PROVE InTime(u, j)
  BY <1>2, <1>5, <1>6 DEF InTime
<1>7. QueueInv(u, {})
  BY <1>1, <1>2, <1>3 DEF QueueInv, Placed
<1>8. FlipInv(u) /\ PixmapInv(u) /\ CoverInv(u, U)
  BY <1>1, <1>2, <1>3 DEF FlipInv, PixmapInv, Current, CoverInv
<1>9. TimeInv(u)
  BY <1>1, <1>2, <1>3, <1>4, <1>6 DEF TimeInv, FenceIsSet
<1>10. ExecInv(u, f, {})
  BY <1>1, <1>2, <1>3, <1>4, <1>5 DEF ExecInv
<1>11. LeftInv(t, f, {}) => LeftInv(u, f, {})
  BY <1>2, <1>3, <1>4, <1>5 DEF LeftInv, LeftIn
<1> QED BY <1>7, <1>8, <1>9, <1>10, <1>11 DEF Sound

LEMMA FreeOneKeeps ==
    ASSUME NEW t, NEW f, NEW U, Sound(t, {}, f, {}, U), LeftInv(t, f, {}), NEW i \in Ids,
           t.vblank[i].queued
    PROVE  LET u == [present_vblank_destroy(t, i) EXCEPT !.armed = {e \in @ : e.id # i}]
           IN  /\ Sound(u, {}, f, {}, U) /\ LeftInv(u, f, {}) /\ u.alive = t.alive
               /\ u.vblank[i] = Gone /\ \A j \in Ids \ {i} : u.vblank[j] = t.vblank[j]
<1> DEFINE v == present_vblank_destroy(t, i)
           a == {e \in v.armed : e.id # i}
           u == [v EXCEPT !.armed = a]
<1>1. Placed(t, {}, i) /\ i # 0
  BY Constants DEF Sound, QueueInv
<1>2. t.vblank[i].live /\ i # t.pending
  <2>1. i = t.pending => i \in Flips(t)
    BY <1>1 DEF Sound, FlipInv
  <2> QED BY <2>1, <1>1 DEF Placed
<1>3. /\ Sound(v, {} \ {i}, f, {}, U) /\ LeftInv(v, f, {}) /\ v.alive = t.alive
      /\ v.vblank[i] = Gone /\ \A j \in Ids \ {i} : v.vblank[j] = t.vblank[j]
  BY <1>2, DestroyKeeps
<1>4. {} \ {i} = {}
  OBVIOUS
<1> HIDE DEF v
<1>5. Sound(v, {}, f, {}, U) /\ v \in State
  BY <1>3, <1>4 DEF Sound, QueueInv
<1>6. a \in SUBSET [id : Ids, msc : 0 .. MaxMsc]
  BY <1>5, StateType
<1> HIDE DEF a
<1>7. u \in State
  BY <1>5, <1>6, Zenon DEF State
<1>8. Same(v, u, {"armed"}) /\ u.armed = a
  BY <1>5 DEF Same, Fields, State
<1> HIDE DEF u
<1>9. ~v.vblank[i].live /\ u.armed = {e \in v.armed : e.id # i}
  BY <1>3, <1>8, GoneType DEF a
<1>10. Sound(u, {}, f, {}, U) /\ LeftInv(u, f, {})
  BY <1>3, <1>5, <1>7, <1>8, <1>9, DropEvents
<1>11. u.vblank = v.vblank /\ u.alive = v.alive
  BY <1>8 DEF Same, Fields
<1> QED BY <1>3, <1>10, <1>11 DEF u, v, a

FreeStep(g, n, t, q) ==
    IF n = 0 THEN t
    ELSE [present_vblank_destroy(g[n - 1], q[n]) EXCEPT !.armed = {e \in @ : e.id # q[n]}]

LEMMA FreedExists ==
    ASSUME NEW t, NEW q, NEW N \in Nat
    PROVE  \E g : g = [n \in 0 .. N |-> FreeStep(g, n, t, q)]
<1> DEFINE Good(m) == \E g : g = [n \in 0 .. m |-> FreeStep(g, n, t, q)]
           Bad == {m \in 0 .. N : ~Good(m)}
<1> SUFFICES ASSUME Bad # {} PROVE FALSE
  <2>1. N \notin Bad => Good(N)
    OBVIOUS
  <2> QED BY <2>1
<1>1. Bad \in SUBSET Nat
  OBVIOUS
<1>2. PICK m \in Bad : \A k \in Bad : m <= k
  <2> HIDE DEF Bad
  <2> QED BY <1>1, LeastIndex
<1>3. m \in 0 .. N /\ ~Good(m)
  OBVIOUS
<1>4. CASE m = 0
  <2> DEFINE g == [n \in 0 .. 0 |-> t]
  <2>1. g = [n \in 0 .. 0 |-> FreeStep(g, n, t, q)]
    BY DEF FreeStep
  <2> QED BY <2>1, <1>3, <1>4
<1>5. CASE m # 0
  <2>1. m - 1 \in 0 .. N /\ ~(m <= m - 1) /\ m \in Nat
    BY <1>3, <1>5
  <2>2. Good(m - 1)
    BY <2>1, <1>2
  <2>3. PICK g : g = [n \in 0 .. m - 1 |-> FreeStep(g, n, t, q)]
    BY <2>2
  <2> DEFINE h == [n \in 0 .. m |-> IF n = m THEN FreeStep(g, m, t, q) ELSE g[n]]
  <2>4. ASSUME NEW n \in 0 .. m PROVE h[n] = FreeStep(h, n, t, q)
    <3>1. CASE n = m
      <4>1. h[m - 1] = g[m - 1]
        BY <2>1
      <4>2. h[n] = FreeStep(g, m, t, q)
        BY <3>1
      <4> HIDE DEF h
      <4> QED BY <3>1, <4>1, <4>2 DEF FreeStep
    <3>2. CASE n # m
      <4>1. n \in 0 .. m - 1 /\ h[n] = g[n]
        BY <3>2, <2>1
      <4>2. g[n] = FreeStep(g, n, t, q)
        BY <4>1, <2>3
      <4>3. n # 0 => h[n - 1] = g[n - 1]
        BY <4>1, <2>1
      <4> HIDE DEF h
      <4> QED BY <4>1, <4>2, <4>3 DEF FreeStep
    <3> QED BY <3>1, <3>2
  <2>5. h = [n \in 0 .. m |-> FreeStep(h, n, t, q)]
    <3>1. h = [n \in 0 .. m |-> h[n]]
      OBVIOUS
    <3> HIDE DEF h
    <3> QED BY <3>1, <2>4
  <2> HIDE DEF h
  <2> QED BY <2>5, <1>3
<1> QED BY <1>4, <1>5

\* present_free_window_vblank: what is queued for the window is freed.
LEMMA FreeWindowKeeps ==
    ASSUME NEW t, NEW f, NEW U, Sound(t, {}, f, {}, U), LeftInv(t, f, {}), NEW w \in Windows
    PROVE  LET u == present_free_window_vblank(t, w)
           IN  /\ Sound(u, {}, f, {}, U) /\ LeftInv(u, f, {}) /\ u.alive = t.alive
               /\ \A j \in Ids : u.vblank[j].queued => u.vblank[j].window # w
<1> DEFINE q == t.list[w]
           N == Len(q)
           g == CHOOSE g : g = [n \in 0 .. N |-> FreeStep(g, n, t, q)]
           P(n) == /\ Sound(g[n], {}, f, {}, U) /\ LeftInv(g[n], f, {}) /\ g[n].alive = t.alive
                   /\ \A j \in Ids : \/ g[n].vblank[j] = Gone
                                     \/ /\ g[n].vblank[j] = t.vblank[j]
                                        /\ \A k \in 1 .. n : q[k] # j
                   /\ \A k \in (n + 1) .. N : g[n].vblank[q[k]] = t.vblank[q[k]]
           Bad == {n \in 0 .. N : ~P(n)}
<1>0. QueueInv(t, {}) /\ t \in State /\ q \in Seq(Ids) /\ Distinct(q) /\ N \in Nat
  <2>1. QueueInv(t, {}) /\ t \in State
    BY DEF Sound, QueueInv
  <2>2. q \in Seq(Ids)
    BY <2>1, StateType
  <2> QED BY <2>1, <2>2 DEF QueueInv
<1>1. g = [n \in 0 .. N |-> FreeStep(g, n, t, q)]
  BY <1>0, FreedExists
<1>2. present_free_window_vblank(t, w) = g[N]
  BY DEF present_free_window_vblank, FreeStep
<1>3. \A k \in 1 .. N : q[k] \in Ids /\ t.vblank[q[k]].queued
  <2>1. ASSUME NEW k \in 1 .. N PROVE q[k] \in Ids /\ t.vblank[q[k]].queued
    <3>1. q[k] \in Ids
      BY <1>0
    <3>2. q[k] \in Range(q)
      BY <1>0, RangeFacts
    <3> QED BY <3>1, <3>2, <1>0 DEF QueueInv, Placed
  <2> QED BY <2>1
<1> HIDE DEF g
<1>4. \A n \in 0 .. N : g[n] = IF n = 0 THEN t
         ELSE [present_vblank_destroy(g[n - 1], q[n]) EXCEPT !.armed = {e \in @ : e.id # q[n]}]
  BY <1>1 DEF FreeStep
<1>5. \A j, k \in 1 .. N : q[j] = q[k] => j = k
  BY <1>0 DEF Distinct
<1>6. \A j \in Ids : t.vblank[j].queued /\ t.vblank[j].window = w => \E k \in 1 .. N : q[k] = j
  <2>1. ASSUME NEW j \in Ids, t.vblank[j].queued, t.vblank[j].window = w
        PROVE  \E k \in 1 .. N : q[k] = j
    <3>1. j \in Range(q)
      BY <2>1, <1>0 DEF QueueInv, Placed
    <3> QED BY <3>1, <1>0, RangeFacts
  <2> QED BY <2>1
<1> HIDE DEF N, q
<1>7. Bad = {}
  <2> SUFFICES ASSUME Bad # {} PROVE FALSE
    OBVIOUS
  <2>1. Bad \in SUBSET Nat
    BY <1>0
  <2>2. PICK m \in Bad : \A k \in Bad : m <= k
    <3> HIDE DEF Bad
    <3> QED BY <2>1, LeastIndex
  <2>3. m \in 0 .. N /\ ~P(m)
    OBVIOUS
  <2>4. CASE m = 0
    <3>1. g[0] = t
      <4>1. g[0] = FreeStep(g, 0, t, q)
        BY <1>0, <1>1
      <4> QED BY <4>1, Zenon DEF FreeStep
    <3>2. P(0)
      BY <3>1, <1>0
    <3> QED BY <3>2, <2>3, <2>4
  <2>5. CASE m # 0
    <3>1. m - 1 \in 0 .. N /\ ~(m <= m - 1) /\ m \in 1 .. N /\ (m - 1) + 1 = m
      BY <1>0, <2>3, <2>5
    <3>2. P(m - 1)
      <4>1. m - 1 \notin Bad
        BY <3>1, <2>2
      <4> QED BY <4>1, <3>1, Zenon
    <3>3. PICK a, b, y : a = g[m - 1] /\ b = q[m] /\ y = g[m]
      OBVIOUS
    <3>4. y = [present_vblank_destroy(a, b) EXCEPT !.armed = {e \in @ : e.id # b}]
      BY <3>1, <3>3, <1>4
    <3>5. b \in Ids /\ a.vblank[b].queued /\ t.vblank[b].queued
      <4>1. g[m - 1].vblank[q[m]] = t.vblank[q[m]]
        BY <3>1, <3>2, <1>0
      <4> QED BY <4>1, <3>1, <3>3, <1>3
    <3>6. Sound(a, {}, f, {}, U) /\ LeftInv(a, f, {}) /\ a.alive = t.alive
      BY <3>2, <3>3
    <3>7. /\ Sound(y, {}, f, {}, U) /\ LeftInv(y, f, {}) /\ y.alive = a.alive
          /\ y.vblank[b] = Gone /\ \A j \in Ids \ {b} : y.vblank[j] = a.vblank[j]
      BY <3>4, <3>5, <3>6, FreeOneKeeps
    <3>8. ASSUME NEW j \in Ids
          PROVE  y.vblank[j] = Gone \/ (y.vblank[j] = t.vblank[j] /\ \A k \in 1 .. m : q[k] # j)
      <4>1. CASE j = b
        BY <4>1, <3>7
      <4>2. CASE j # b
        <5>1. \/ a.vblank[j] = Gone
              \/ a.vblank[j] = t.vblank[j] /\ \A k \in 1 .. m - 1 : q[k] # j
          BY <3>2, <3>3
        <5>2. \A k \in 1 .. m : k \in 1 .. m - 1 \/ k = m
          BY <3>1, <1>0
        <5>3. q[m] # j /\ y.vblank[j] = a.vblank[j]
          BY <4>2, <3>3, <3>7
        <5> QED BY <5>1, <5>2, <5>3
      <4> QED BY <4>1, <4>2
    <3>9. ASSUME NEW k \in (m + 1) .. N PROVE y.vblank[q[k]] = t.vblank[q[k]]
      <4>1. k \in ((m - 1) + 1) .. N /\ k \in 1 .. N /\ k # m
        BY <3>1, <1>0
      <4>2. q[k] \in Ids \ {b}
        BY <4>1, <3>1, <3>3, <1>3, <1>5
      <4> QED BY <4>1, <4>2, <3>2, <3>3, <3>7
    <3>10. P(m)
      BY <3>3, <3>6, <3>7, <3>8, <3>9
    <3> QED BY <3>10, <2>3
  <2> QED BY <2>4, <2>5
<1>8. P(N)
  <2>1. N \in 0 .. N
    BY <1>0
  <2>2. N \notin Bad
    BY <1>7
  <2> QED BY <2>1, <2>2, Zenon
<1>9. ASSUME NEW j \in Ids, g[N].vblank[j].queued PROVE g[N].vblank[j].window # w
  BY <1>6, <1>8, <1>9, GoneType
<1> QED BY <1>2, <1>8, <1>9

\* The flip under way loses its window.
LEMMA ClearPendingKeeps ==
    ASSUME NEW t, NEW f, NEW U, Sound(t, {}, f, {}, U), t.pending # 0
    PROVE  LET u == [present_set_abort_flip(t) EXCEPT !.vblank[t.pending].window = None]
           IN  /\ Sound(u, {}, f, {}, U) /\ Same(t, u, {"vblank", "pixmapOf"})
               /\ \A j \in Ids : u.vblank[j].queued = t.vblank[j].queued
               /\ \A j \in Ids \ {t.pending} : u.vblank[j] = t.vblank[j]
               /\ u.vblank[t.pending].window = None
<1> DEFINE a == present_set_abort_flip(t)
           p == t.pending
           x == [a.vblank[p] EXCEPT !.window = None]
           u == [a EXCEPT !.vblank = [a.vblank EXCEPT ![p] = x]]
<1>1. /\ Sound(a, {}, f, {}, U) /\ Same(t, a, {"vblank", "pixmapOf"})
      /\ Only(t, a, p, {"abort"}) /\ a.vblank[p].abort
  BY AbortKeeps
<1> HIDE DEF a
<1>2. /\ QueueInv(a, {}) /\ FlipInv(a) /\ PixmapInv(a)
      /\ TimeInv(a) /\ ExecInv(a, f, {}) /\ CoverInv(a, U) /\ a \in State
  BY <1>1 DEF Sound, QueueInv
<1>3. p = a.pending /\ p \in Ids
  <2>1. p = a.pending
    BY <1>1 DEF Same, Fields
  <2> QED BY <2>1, <1>2, StateType
<1>4. Placed(a, {}, p) /\ p \in Flips(a)
  BY <1>2, <1>3 DEF QueueInv, FlipInv
<1>5. a.vblank[p].live /\ ~a.vblank[p].queued
  BY <1>2, <1>3, <1>4 DEF Placed
<1>6. x \in Vblank /\ VSame(a.vblank[p], x, {"window"}) /\ x.window = None
  <2>1. PICK v \in Vblank : v = a.vblank[p]
    BY <1>2, <1>3, StateType
  <2>2. [v EXCEPT !.window = None] \in Vblank
    BY VblankSet
  <2>3. /\ VSame(v, [v EXCEPT !.window = None], {"window"})
        /\ [v EXCEPT !.window = None].window = None
    BY DEF VSame, VFields, Vblank
  <2> QED BY <2>1, <2>2, <2>3
<1> HIDE DEF x, p
<1>7. /\ u \in State /\ Same(a, u, {"vblank"}) /\ u.vblank[p] = x
      /\ \A j \in Ids \ {p} : u.vblank[j] = a.vblank[j]
  BY <1>2, <1>3, <1>6, PutVblank
<1> HIDE DEF u
<1>8. /\ u.last = a.last /\ u.pending = a.pending /\ u.alive = a.alive /\ u.unflip = a.unflip
      /\ u.flip = a.flip /\ u.flipWindow = a.flipWindow /\ u.list = a.list
      /\ u.full = a.full /\ u.fence = a.fence /\ u.missed = a.missed /\ u.left = a.left
      /\ u.released = a.released /\ u.wrong = a.wrong /\ u.msc = a.msc /\ u.flips = a.flips
      /\ u.flipping = a.flipping /\ u.flipped = a.flipped /\ u.shown = a.shown
      /\ u.mistaken = a.mistaken
      /\ u.armed = a.armed /\ u.exec = a.exec /\ u.pixmapOf = a.pixmapOf
  BY <1>7 DEF Same, Fields
<1>9. \A j \in Ids : /\ u.vblank[j].live = a.vblank[j].live
                     /\ u.vblank[j].pixmap = a.vblank[j].pixmap
                     /\ u.vblank[j].exec = a.vblank[j].exec
                     /\ u.vblank[j].flip = a.vblank[j].flip
                     /\ u.vblank[j].queued = a.vblank[j].queued
                     /\ u.vblank[j].abort = a.vblank[j].abort
                     /\ u.vblank[j].callback = a.vblank[j].callback
  BY <1>6, <1>7 DEF VSame, VFields
<1>10. /\ a.exec \subseteq Ids /\ Flips(a) \subseteq Ids /\ Flips(u) = Flips(a)
       /\ \A j \in Ids : HasEvent(u, j) <=> HasEvent(a, j)
       /\ a.flip # 0 => a.flip \in Ids
       /\ a.released \subseteq Ids
  BY <1>2, <1>8, StateType, FlipsFacts DEF HasEvent, Flips
<1>11. QueueInv(u, {})
  <2>1. ASSUME NEW j \in Ids PROVE Placed(u, {}, j)
    <3>1. Placed(a, {}, j)
      BY <1>2 DEF QueueInv
    <3>2. CASE j = p
      <4>1. \A w \in Windows : j \notin Range(a.list[w])
        BY <3>2, <1>4, <1>5 DEF Placed
      <4> QED BY <3>1, <3>2, <4>1, <1>5, <1>6, <1>7, <1>8, <1>9, <1>10 DEF Placed
    <3>3. CASE j # p
      <4>1. u.vblank[j] = a.vblank[j]
        BY <3>3, <1>7
      <4> QED BY <3>1, <4>1, <1>8, <1>10 DEF Placed
    <3> QED BY <3>2, <3>3
  <2> QED BY <2>1, <1>2, <1>7, <1>8 DEF QueueInv
<1>12. FlipInv(u)
  BY <1>2, <1>3, <1>8, <1>9, <1>10 DEF FlipInv
<1>13. PixmapInv(u)
  BY <1>2, <1>8 DEF PixmapInv, Current
<1>14. TimeInv(u)
  <2>1. ASSUME NEW j \in Ids, InTime(a, j) PROVE InTime(u, j)
    BY <2>1, <1>8, <1>9, <1>10 DEF InTime
  <2> QED BY <2>1, <1>2, <1>8, <1>10 DEF TimeInv, FenceIsSet
<1>15. ExecInv(u, f, {})
  BY <1>2, <1>8, <1>9, <1>10 DEF ExecInv
<1>16. CoverInv(u, U)
  <2>1. u.vblank[u.pending].abort
    BY <1>1, <1>3, <1>8, <1>9
  <2>2. \A i \in Ids : u.vblank[i].queued /\ u.vblank[i].flip =>
           u.vblank[i].window = u.full \/ i \in u.missed
    BY <1>2, <1>5, <1>7, <1>8, <1>9 DEF CoverInv
  <2> QED BY <2>1, <2>2, <1>2, <1>8 DEF CoverInv
<1>17. Sound(u, {}, f, {}, U)
  BY <1>11, <1>12, <1>13, <1>14, <1>15, <1>16 DEF Sound
<1>18. Same(t, u, {"vblank", "pixmapOf"})
  BY <1>1, <1>7 DEF Same, Fields
<1>19. \A j \in Ids : u.vblank[j].queued = t.vblank[j].queued
  BY <1>1, <1>3, <1>9 DEF Only, VSame, VFields
<1>20. \A j \in Ids \ {p} : u.vblank[j] = t.vblank[j]
  BY <1>1, <1>7 DEF Only
<1> QED BY <1>6, <1>7, <1>17, <1>18, <1>19, <1>20 DEF u, x, p, a

\* The flipped window is forgotten.
LEMMA ClearFlippedKeeps ==
    ASSUME NEW t, NEW f, NEW U, Sound(t, {}, f, {}, U), t.flipWindow # None
    PROVE  LET u == [present_restore_screen_pixmap(t) EXCEPT !.flipWindow = None]
           IN  Sound(u, {}, f, {}, U) /\ Same(t, u, {"flipWindow", "pixmapOf"})
               /\ u.flipWindow = None
<1> DEFINE r == present_restore_screen_pixmap(t)
           u == [r EXCEPT !.flipWindow = None]
<1>1. /\ QueueInv(t, {}) /\ FlipInv(t) /\ PixmapInv(t)
      /\ TimeInv(t) /\ ExecInv(t, f, {}) /\ CoverInv(t, U) /\ t \in State
  BY DEF Sound, QueueInv
<1>2. Current(t) # 0
  BY <1>1 DEF Current, FlipInv
<1>3. /\ r \in State /\ Same(t, r, {"pixmapOf"})
      /\ \A x \in t.alive \cup {Root} : r.pixmapOf[x] = Screen
  BY <1>1, <1>2, RestoreDoes
<1> HIDE DEF r
<1>4. u \in State
  <2>1. None \in Windows \cup {None}
    OBVIOUS
  <2> QED BY <2>1, <1>3, Zenon DEF State
<1>5. Same(r, u, {"flipWindow"}) /\ u.flipWindow = None
  BY <1>3 DEF Same, Fields, State
<1> HIDE DEF u
<1>6. Same(t, u, {"flipWindow", "pixmapOf"}) /\ u.pixmapOf = r.pixmapOf
  BY <1>3, <1>5 DEF Same, Fields
<1>7. /\ u.last = t.last /\ u.pending = t.pending /\ u.alive = t.alive /\ u.unflip = t.unflip
      /\ u.flip = t.flip /\ u.list = t.list /\ u.vblank = t.vblank
      /\ u.full = t.full /\ u.fence = t.fence /\ u.missed = t.missed /\ u.left = t.left
      /\ u.released = t.released /\ u.wrong = t.wrong /\ u.msc = t.msc /\ u.flips = t.flips
      /\ u.flipping = t.flipping /\ u.flipped = t.flipped /\ u.shown = t.shown
      /\ u.mistaken = t.mistaken
      /\ u.armed = t.armed /\ u.exec = t.exec
  BY <1>6 DEF Same, Fields
<1>8. QueueInv(u, {})
  BY <1>1, <1>4, <1>7 DEF QueueInv, Placed, Flips
<1>9. FlipInv(u) /\ ExecInv(u, f, {}) /\ CoverInv(u, U)
  BY <1>1, <1>5, <1>7 DEF FlipInv, ExecInv, CoverInv, HasEvent, Flips
<1>10. PixmapInv(u)
  BY <1>1, <1>3, <1>6, <1>7 DEF PixmapInv, Current
<1>11. TimeInv(u)
  BY <1>1, <1>7 DEF TimeInv, InTime, HasEvent, Flips, FenceIsSet
<1> QED BY <1>5, <1>6, <1>8, <1>9, <1>10, <1>11 DEF Sound, u, r

LEMMA LeftSame ==
    ASSUME NEW t, NEW u, NEW f, LeftInv(t, f, {}), u.flips = t.flips, u.armed = t.armed,
           u.left = t.left, t.pending # 0 => u.pending # 0, t.unflip => u.unflip,
           \A j \in Flips(t) : u.pending # 0 \/ u.vblank[j] = t.vblank[j]
    PROVE  LeftInv(u, f, {})
BY DEF LeftInv, LeftIn, HasEvent, Flips

\* present_scmd_clear_window_flip, once nothing is queued for the window.
LEMMA ClearKeeps ==
    ASSUME NEW t, NEW f, NEW U, Sound(t, {}, f, {}, U), LeftInv(t, f, {}), NEW w \in Windows,
           \A j \in Ids : t.vblank[j].queued => t.vblank[j].window # w
    PROVE  LET u == present_scmd_clear_window_flip(t, w)
           IN  /\ Sound(u, {}, f, {}, U) /\ LeftInv(u, f, {}) /\ u.alive = t.alive
               /\ u.flipWindow # w
               /\ \A j \in Ids : u.vblank[j].live => u.vblank[j].window # w
<1> DEFINE mine == t.pending # 0 /\ t.vblank[t.pending].window = w
           c == [present_set_abort_flip(t) EXCEPT !.vblank[t.pending].window = None]
           a == IF mine THEN c ELSE t
           b == [present_restore_screen_pixmap(a) EXCEPT !.flipWindow = None]
           u == IF a.flipWindow # w THEN a ELSE b
<1>1. present_scmd_clear_window_flip(t, w) = u
  BY DEF present_scmd_clear_window_flip
<1>2. w # None
  BY Constants
<1>3. /\ Sound(a, {}, f, {}, U) /\ LeftInv(a, f, {}) /\ a.alive = t.alive
      /\ \A j \in Ids : a.vblank[j].live => a.vblank[j].window # w
  <2>1. ASSUME NEW j \in Ids, t.vblank[j].live, t.vblank[j].window = w PROVE j = t.pending
    <3>1. Placed(t, {}, j)
      BY DEF Sound, QueueInv
    <3> QED BY <3>1, <2>1 DEF Placed
  <2>2. CASE mine
    <3>1. /\ Sound(c, {}, f, {}, U) /\ Same(t, c, {"vblank", "pixmapOf"})
          /\ \A j \in Ids \ {t.pending} : c.vblank[j] = t.vblank[j]
          /\ c.vblank[t.pending].window = None
      BY <2>2, ClearPendingKeeps
    <3>2. a = c
      BY <2>2
    <3> HIDE DEF c, a
    <3>3. /\ c.flips = t.flips /\ c.armed = t.armed /\ c.left = t.left
          /\ c.pending = t.pending /\ c.unflip = t.unflip /\ c.alive = t.alive
      BY <3>1 DEF Same, Fields
    <3>4. LeftInv(c, f, {})
      BY <3>3, <2>2, LeftSame
    <3>5. ASSUME NEW j \in Ids, c.vblank[j].live PROVE c.vblank[j].window # w
      BY <3>1, <3>5, <2>1, <1>2
    <3> QED BY <3>1, <3>2, <3>3, <3>4, <3>5
  <2>3. CASE ~mine
    <3>1. a = t
      BY <2>3
    <3>2. ASSUME NEW j \in Ids, t.vblank[j].live PROVE t.vblank[j].window # w
      BY <3>2, <2>1, <2>3, Constants
    <3> HIDE DEF a
    <3> QED BY <3>1, <3>2
  <2> QED BY <2>2, <2>3
<1> HIDE DEF a
<1>4. CASE a.flipWindow # w
  <2>1. u = a
    BY <1>4
  <2> HIDE DEF u
  <2> QED BY <2>1, <1>1, <1>3, <1>4
<1>5. CASE a.flipWindow = w
  <2>1. u = b
    BY <1>5
  <2>2. Sound(b, {}, f, {}, U) /\ Same(a, b, {"flipWindow", "pixmapOf"}) /\ b.flipWindow = None
    BY <1>2, <1>3, <1>5, ClearFlippedKeeps
  <2> HIDE DEF u, b
  <2>3. /\ b.flips = a.flips /\ b.armed = a.armed /\ b.left = a.left /\ b.vblank = a.vblank
        /\ b.pending = a.pending /\ b.unflip = a.unflip /\ b.alive = a.alive
    BY <2>2 DEF Same, Fields
  <2>4. LeftInv(b, f, {})
    BY <2>3, <1>3, LeftSame
  <2> QED BY <2>1, <2>2, <2>3, <2>4, <1>1, <1>2, <1>3
<1> QED BY <1>4, <1>5

\* The window goes.
LEMMA RemoveWindowKeeps ==
    ASSUME NEW t, NEW f, NEW U, Sound(t, {}, f, {}, U), LeftInv(t, f, {}), NEW w \in Windows,
           t.flipWindow # w, \A j \in Ids : t.vblank[j].live => t.vblank[j].window # w
    PROVE  LET u == [t EXCEPT !.alive = @ \ {w}, !.pixmapOf[w] = Screen]
           IN  Sound(u, {}, f, {}, U) /\ LeftInv(u, f, {})
<1> DEFINE A == t.alive \ {w}
           M == [t.pixmapOf EXCEPT ![w] = Screen]
           u == [t EXCEPT !.alive = A, !.pixmapOf = M]
<1>1. /\ QueueInv(t, {}) /\ FlipInv(t) /\ PixmapInv(t)
      /\ TimeInv(t) /\ ExecInv(t, f, {}) /\ CoverInv(t, U) /\ t \in State
  BY DEF Sound, QueueInv
<1>2. /\ A \in SUBSET Windows /\ M \in [Windows \cup {Root} -> 0 .. MaxPresents]
      /\ \A x \in Windows \cup {Root} : x # w => M[x] = t.pixmapOf[x]
  BY <1>1, StateType, Constants DEF Screen
<1> HIDE DEF M
<1>3. u \in State
  <2> HIDE DEF A
  <2> QED BY <1>1, <1>2, Zenon DEF State
<1>4. Same(t, u, {"alive", "pixmapOf"}) /\ u.alive = A /\ u.pixmapOf = M
  BY <1>1 DEF Same, Fields, State
<1> HIDE DEF u
<1>5. /\ u.last = t.last /\ u.pending = t.pending /\ u.unflip = t.unflip
      /\ u.flip = t.flip /\ u.list = t.list /\ u.vblank = t.vblank
      /\ u.full = t.full /\ u.fence = t.fence /\ u.missed = t.missed /\ u.left = t.left
      /\ u.released = t.released /\ u.wrong = t.wrong /\ u.msc = t.msc /\ u.flips = t.flips
      /\ u.flipping = t.flipping /\ u.flipped = t.flipped /\ u.shown = t.shown
      /\ u.mistaken = t.mistaken
      /\ u.armed = t.armed /\ u.exec = t.exec /\ u.flipWindow = t.flipWindow
  BY <1>4 DEF Same, Fields
<1>6. QueueInv(u, {})
  <2>1. ASSUME NEW j \in Ids PROVE Placed(u, {}, j)
    <3>1. Placed(t, {}, j)
      BY <1>1 DEF QueueInv
    <3>2. t.vblank[j].live => t.vblank[j].window \in A \cup {None}
      BY <3>1 DEF Placed
    <3>3. t.vblank[j].queued => t.vblank[j].window \in A
      BY <3>1 DEF Placed
    <3> QED BY <3>1, <3>2, <3>3, <1>4, <1>5 DEF Placed, Flips
  <2> QED BY <2>1, <1>1, <1>3, <1>5 DEF QueueInv
<1>7. FlipInv(u)
  BY <1>1, <1>4, <1>5 DEF FlipInv, Flips
<1>8. ExecInv(u, f, {}) /\ CoverInv(u, U)
  BY <1>1, <1>5 DEF ExecInv, CoverInv, HasEvent
<1>9. PixmapInv(u)
  <2>1. u.pixmapOf[Root] = t.pixmapOf[Root]
    BY <1>2, <1>4, Constants
  <2>2. \A x \in u.alive : x \in t.alive /\ u.pixmapOf[x] = t.pixmapOf[x]
    BY <1>2, <1>4
  <2> QED BY <2>1, <2>2, <1>1, <1>5 DEF PixmapInv, Current
<1>10. TimeInv(u)
  BY <1>1, <1>5 DEF TimeInv, InTime, HasEvent, Flips, FenceIsSet
<1>11. LeftInv(u, f, {})
  BY <1>5, LeftSame
<1>12. Sound(u, {}, f, {}, U)
  BY <1>6, <1>7, <1>8, <1>9, <1>10 DEF Sound
<1> QED BY <1>11, <1>12 DEF u, M

\* A window is destroyed; full covers the screen from then on.
LEMMA DestroyWindowKeeps ==
    ASSUME NEW t, NEW f, Sound(t, {}, f, {}, {}), LeftInv(t, f, {}), NEW w \in t.alive, NEW d,
           NEW full, NEW told, NEW a, NEW b,
           told = IF t.full # w THEN << >> ELSE IF full = None THEN <<w>> ELSE <<w, full>>,
           IF t.full = w THEN full \in {None} \cup (t.alive \ {w}) ELSE full = t.full,
           a = CheckAll(Cover(t, full), told, d),
           b = present_scmd_clear_window_flip(present_free_window_vblank(a, w), w)
    PROVE  LET u == [b EXCEPT !.alive = @ \ {w}, !.pixmapOf[w] = Screen]
           IN  Sound(u, {}, f, {}, {}) /\ LeftInv(u, f, {})
<1>1. t.alive \subseteq Windows /\ t.full \in Windows \cup {None}
  BY StateType DEF Sound, QueueInv
<1>2. full \in Windows \cup {None} /\ w \in Windows
  BY <1>1
<1>3. told \in Seq(Windows) /\ {t.full} \ {full, None} \subseteq Range(told)
  <2>1. CASE t.full # w
    <3>1. told = << >> /\ full = t.full
      BY <2>1
    <3> QED BY <3>1
  <2>2. CASE t.full = w /\ full = None
    <3>1. told = <<w>>
      BY <2>2
    <3>2. <<w>> \in Seq(Windows) /\ Range(<<w>>) = {w}
      BY <1>2 DEF Range
    <3> QED BY <3>1, <3>2, <2>2
  <2>3. CASE t.full = w /\ full # None
    <3>1. told = <<w, full>> /\ full \in Windows
      BY <2>3, <1>2
    <3>2. <<w, full>> \in Seq(Windows) /\ Range(<<w, full>>) = {w, full}
      BY <3>1, <1>2 DEF Range
    <3> QED BY <3>1, <3>2, <2>3
  <2> QED BY <2>1, <2>2, <2>3
<1>4. Sound(a, {}, f, {}, {}) /\ LeftInv(a, f, {})
  BY <1>2, <1>3, CoverThenCheck
<1>5. PICK v : v = present_free_window_vblank(a, w)
  OBVIOUS
<1>6. /\ Sound(v, {}, f, {}, {}) /\ LeftInv(v, f, {})
      /\ \A j \in Ids : v.vblank[j].queued => v.vblank[j].window # w
  BY <1>2, <1>4, <1>5, FreeWindowKeeps
<1>7. /\ Sound(b, {}, f, {}, {}) /\ LeftInv(b, f, {}) /\ b.flipWindow # w
      /\ \A j \in Ids : b.vblank[j].live => b.vblank[j].window # w
  BY <1>2, <1>5, <1>6, ClearKeeps
<1> QED BY <1>2, <1>7, RemoveWindowKeeps

\* The frame of a request is not past, and is to come if the request is synced.
LEMMA TargetFacts ==
    ASSUME NEW msc \in Nat, NEW arg \in Nat, msc <= arg, NEW divisor \in Nat,
           NEW remainder \in Nat, remainder < divisor \/ divisor + remainder = 0,
           NEW synced \in BOOLEAN, NEW target,
           arg # msc => target = arg,
           arg = msc /\ divisor = 0 => target = IF synced THEN msc + 1 ELSE msc,
           arg = msc /\ divisor # 0 =>
               LET field == msc - (msc % divisor) + remainder
               IN  target = IF field > msc THEN field
                            ELSE IF synced \/ msc > field THEN field + divisor ELSE field
    PROVE  target \in Nat /\ msc <= target /\ (synced => msc < target)
<1> DEFINE field == msc - (msc % divisor) + remainder
<1>1. CASE arg # msc
  BY <1>1
<1>2. CASE arg = msc /\ divisor = 0
  BY <1>2
<1>3. CASE arg = msc /\ divisor # 0
  <2>1. target = IF field > msc THEN field
                 ELSE IF synced \/ msc > field THEN field + divisor ELSE field
    BY <1>3
  <2>2. msc % divisor \in 0 .. (divisor - 1) /\ divisor \in Nat \ {0}
    BY <1>3
  <2>3. remainder < divisor
    BY <1>3
  <2>4. PICK k \in 0 .. (divisor - 1) : k = msc % divisor
    BY <2>2
  <2>5. field = msc - k + remainder /\ field \in Int /\ msc < field + divisor
    BY <2>2, <2>3, <2>4
  <2> HIDE DEF field
  <2>6. target \in Int /\ msc <= target /\ (synced => msc < target)
    BY <2>1, <2>2, <2>5
  <2>7. target \in Nat
    BY <2>6
  <2> QED BY <2>6, <2>7, <1>3
<1> QED BY <1>1, <1>2, <1>3

\* The driver can flip at once, and is asked to.
AtOnce(r) == r.async \cap Capabilities # {}

LEMMA RequestTarget ==
    ASSUME NEW msc \in Nat, NEW r \in Requests, NEW d \in Drivers
    PROVE  LET synced == r.async = {} /\ (r.pixmap \/ r.divisor # 0)
               target == present_get_target_msc(msc + r.ahead, msc, r.divisor, r.remainder,
                                                synced)
           IN  /\ target \in Nat
               /\ QueueHolds /\ r.pixmap /\ ~r.copy /\ ~d.queue =>
                     (IF AtOnce(r) THEN target ELSE target - 1) <= msc
<1> DEFINE synced == r.async = {} /\ (r.pixmap \/ r.divisor # 0)
           arg == msc + r.ahead
           target == present_get_target_msc(arg, msc, r.divisor, r.remainder, synced)
<1>1. /\ r.pixmap \in BOOLEAN /\ r.copy \in BOOLEAN
      /\ r.ahead \in Nat /\ r.divisor \in Nat /\ r.remainder \in Nat
      /\ r.remainder < r.divisor \/ r.divisor + r.remainder = 0
  BY PresentAssumption
<1>2. arg \in Nat /\ msc <= arg /\ (r.ahead = 0 => arg = msc) /\ synced \in BOOLEAN
  BY <1>1
<1>3. r.pixmap => (synced <=> r.async = {})
  BY <1>1
<1> HIDE DEF synced, arg
<1>4. /\ arg # msc => target = arg
      /\ arg = msc /\ r.divisor = 0 => target = IF synced THEN msc + 1 ELSE msc
      /\ arg = msc /\ r.divisor # 0 =>
            LET field == msc - (msc % r.divisor) + r.remainder
            IN  target = IF field > msc THEN field
                         ELSE IF synced \/ msc > field THEN field + r.divisor ELSE field
  BY <1>1, <1>2 DEF present_get_target_msc
<1> HIDE DEF target
<1>5. target \in Nat /\ msc <= target /\ (synced => msc < target)
  BY <1>1, <1>2, <1>4, TargetFacts
<1>6. QueueHolds /\ r.pixmap /\ ~r.copy /\ ~d.queue => r.ahead = 0 /\ r.divisor = 0
  BY DEF QueueHolds
<1>8. QueueHolds /\ r.pixmap /\ ~r.copy /\ ~d.queue =>
         (IF AtOnce(r) THEN target ELSE target - 1) <= msc
  <2>1. AtOnce(r) => r.async # {}
    BY DEF AtOnce
  <2>2. ASSUME QueueHolds, r.pixmap, ~r.copy, ~d.queue
        PROVE  target = IF r.async = {} THEN msc + 1 ELSE msc
    BY <2>2, <1>2, <1>3, <1>4, <1>6
  <2> QED BY <2>1, <2>2
<1> QED BY <1>5, <1>8 DEF target, arg, synced

LEMMA PutScrap ==
    ASSUME NEW t \in State, NEW i \in Ids
    PROVE  LET u == [t EXCEPT !.vblank[i].pixmap = FALSE, !.vblank[i].flip = FALSE]
           IN  /\ u \in State /\ Same(t, u, {"vblank"})
               /\ Only(t, u, i, {"pixmap", "flip"})
               /\ ~u.vblank[i].pixmap /\ ~u.vblank[i].flip
<1> DEFINE x == [[t.vblank[i] EXCEPT !.pixmap = FALSE] EXCEPT !.flip = FALSE]
           V == [t.vblank EXCEPT ![i] = x]
           u == [t EXCEPT !.vblank = V]
<1>1. t.vblank \in [Ids -> Vblank]
  BY StateType
<1>2. PICK v \in Vblank : v = t.vblank[i]
  BY <1>1
<1>3. PICK y \in Vblank : y = [v EXCEPT !.pixmap = FALSE]
  BY VblankSet
<1>4. [y EXCEPT !.flip = FALSE] \in Vblank
  BY VblankSet
<1>5. x = [y EXCEPT !.flip = FALSE]
  BY <1>2, <1>3
<1>6. VSame(v, [y EXCEPT !.flip = FALSE], {"pixmap", "flip"})
  BY <1>3 DEF VSame, VFields, Vblank
<1>7. ~[y EXCEPT !.flip = FALSE].flip /\ ~[y EXCEPT !.flip = FALSE].pixmap
  BY <1>3 DEF Vblank
<1>8. x \in Vblank /\ VSame(t.vblank[i], x, {"pixmap", "flip"}) /\ ~x.pixmap /\ ~x.flip
  BY <1>2, <1>4, <1>5, <1>6, <1>7
<1>9. [t EXCEPT !.vblank[i].pixmap = FALSE, !.vblank[i].flip = FALSE] = u
  BY <1>1 DEF State
<1> HIDE DEF x
<1>10. /\ u \in State /\ Same(t, u, {"vblank"}) /\ u.vblank[i] = x
       /\ \A j \in Ids \ {i} : u.vblank[j] = t.vblank[j]
  BY <1>8, PutVblank
<1> HIDE DEF u
<1>11. Only(t, u, i, {"pixmap", "flip"})
  BY <1>8, <1>10 DEF Only
<1> QED BY <1>8, <1>9, <1>10, <1>11

\* present_vblank_scrap: the pixmap is given back.
LEMMA ScrapDoes ==
    ASSUME NEW t \in State, NEW i \in Ids, i \notin t.released
    PROVE  LET u == present_vblank_scrap(t, i)
           IN  /\ u \in State /\ Same(t, u, {"vblank", "released"})
               /\ u.released = t.released \cup {i}
               /\ Only(t, u, i, {"pixmap", "flip"})
               /\ ~u.vblank[i].pixmap /\ ~u.vblank[i].flip
<1> DEFINE r == Release(t, i)
           u == [r EXCEPT !.vblank[i].pixmap = FALSE, !.vblank[i].flip = FALSE]
<1>1. /\ r \in State /\ Same(t, r, {"released", "wrong"}) /\ r.released = t.released \cup {i}
      /\ r.wrong = t.wrong
  BY ReleaseDoes
<1>2. present_vblank_scrap(t, i) = u
  BY DEF present_vblank_scrap
<1> HIDE DEF r
<1>3. /\ u \in State /\ Same(r, u, {"vblank"}) /\ Only(r, u, i, {"pixmap", "flip"})
      /\ ~u.vblank[i].pixmap /\ ~u.vblank[i].flip
  BY <1>1, PutScrap
<1> HIDE DEF u
<1>4. Same(t, u, {"vblank", "released"}) /\ u.released = t.released \cup {i}
  BY <1>1, <1>3 DEF Same, Fields
<1>5. r.vblank = t.vblank
  BY <1>1 DEF Same, Fields
<1>6. Only(t, u, i, {"pixmap", "flip"})
  BY <1>3, <1>5 DEF Only
<1> QED BY <1>2, <1>3, <1>4, <1>6

LEMMA ScrapOneKeeps ==
    ASSUME NEW t, NEW f, NEW U, Sound(t, {}, f, {}, U), NEW i \in Ids, t.vblank[i].queued,
           t.vblank[i].pixmap, NEW u \in State, Same(t, u, {"vblank", "released"}),
           u.released = t.released \cup {i}, Only(t, u, i, {"pixmap", "flip"}),
           ~u.vblank[i].pixmap, ~u.vblank[i].flip
    PROVE  Sound(u, {}, f, {}, U) /\ Carry(t, {}, u, {}, {}, f) /\ u.vblank[i].queued
<1>1. /\ QueueInv(t, {}) /\ FlipInv(t) /\ PixmapInv(t)
      /\ TimeInv(t) /\ ExecInv(t, f, {}) /\ CoverInv(t, U) /\ t \in State
  BY DEF Sound, QueueInv
<1>2. /\ u.last = t.last /\ u.pending = t.pending /\ u.alive = t.alive /\ u.unflip = t.unflip
      /\ u.flip = t.flip /\ u.flipWindow = t.flipWindow /\ u.pixmapOf = t.pixmapOf
      /\ u.full = t.full /\ u.fence = t.fence /\ u.left = t.left /\ u.flips = t.flips
      /\ u.missed = t.missed /\ u.wrong = t.wrong /\ u.msc = t.msc
      /\ u.flipping = t.flipping /\ u.flipped = t.flipped /\ u.shown = t.shown
      /\ u.mistaken = t.mistaken
      /\ u.exec = t.exec /\ u.list = t.list /\ u.armed = t.armed
  BY DEF Same, Fields
<1>3. \A j \in Ids : /\ u.vblank[j].live = t.vblank[j].live
                     /\ u.vblank[j].window = t.vblank[j].window
                     /\ u.vblank[j].queued = t.vblank[j].queued
                     /\ u.vblank[j].exec = t.vblank[j].exec
                     /\ u.vblank[j].abort = t.vblank[j].abort
                     /\ u.vblank[j].callback = t.vblank[j].callback
  BY DEF Only, VSame, VFields
<1>4. /\ t.exec \subseteq Ids /\ Flips(t) \subseteq Ids /\ Flips(u) = Flips(t)
      /\ \A j \in Ids : HasEvent(u, j) <=> HasEvent(t, j)
      /\ t.flip # 0 => t.flip \in Ids
      /\ t.pending # 0 => t.pending \in Ids
      /\ t.released \subseteq Ids
  BY <1>1, <1>2, StateType, FlipsFacts DEF HasEvent, Flips
<1>5. \A j \in Ids \ {i} : u.vblank[j] = t.vblank[j]
  BY DEF Only
<1>6. Placed(t, {}, i) /\ t.vblank[i].live /\ i <= t.last
  BY <1>1 DEF QueueInv, Placed
<1>7. i # t.pending /\ i # t.flip
  <2>1. i # 0
    BY Constants
  <2> QED BY <2>1, <1>1, <1>6 DEF FlipInv, Placed
<1>8. QueueInv(u, {})
  <2>1. ASSUME NEW j \in Ids PROVE Placed(u, {}, j)
    <3>1. Placed(t, {}, j)
      BY <1>1 DEF QueueInv
    <3>2. ~u.vblank[j].live => u.vblank[j] = Gone
      BY <3>1, <1>3, <1>5, <1>6 DEF Placed
    <3> QED BY <3>1, <3>2, <1>2, <1>3, <1>4 DEF Placed
  <2> QED BY <2>1, <1>1, <1>2 DEF QueueInv
<1>9. FlipInv(u)
  BY <1>1, <1>2, <1>4, <1>5, <1>6, <1>7 DEF FlipInv
<1>10. PixmapInv(u)
  BY <1>1, <1>2 DEF PixmapInv, Current
<1>11. TimeInv(u)
  <2>1. ASSUME NEW j \in Ids, InTime(t, j) PROVE InTime(u, j)
    BY <2>1, <1>2, <1>3, <1>4, <1>5 DEF InTime
  <2> QED BY <2>1, <1>1, <1>2, <1>4 DEF TimeInv, FenceIsSet
<1>12. ExecInv(u, f, {})
  BY <1>1, <1>2, <1>3, <1>4 DEF ExecInv
<1>13. CoverInv(u, U)
  <2>1. \A j \in Ids : u.vblank[j].queued /\ u.vblank[j].flip =>
           u.vblank[j].window = u.full \/ j \in u.missed
    BY <1>1, <1>2, <1>5 DEF CoverInv
  <2> QED BY <2>1, <1>1, <1>2, <1>3, <1>4 DEF CoverInv
<1>14. Carry(t, {}, u, {}, {}, f)
  <2>1. ASSUME NEW Z, LeftIn(t, f, {}, Z) PROVE LeftIn(u, f, {}, Z)
    BY <2>1, <1>2, <1>3, <1>4 DEF LeftIn
  <2>2. LeftKept(t, {}, u, {}, f)
    BY <2>1, <1>2 DEF LeftKept, LeftInv
  <2> QED BY <2>2, <1>2 DEF Carry, Stable
<1> QED BY <1>3, <1>8, <1>9, <1>10, <1>11, <1>12, <1>13, <1>14 DEF Sound

LEMMA ScrapKeeps ==
    ASSUME NEW t, NEW f, NEW U, Sound(t, {}, f, {}, U), LeftInv(t, f, {}), NEW i \in Ids,
           NEW target, NEW d
    PROVE  LET u == Scrap(t, i, target, d)
           IN  Sound(u, {}, f, {}, U) /\ LeftInv(u, f, {}) /\ Stable(t, u)
<1> DEFINE v == t.vblank[i]
           a == present_vblank_scrap(t, i)
           x == present_re_execute(a, i, d)
           u == Scrap(t, i, target, d)
           hit == v.pixmap /\ v.queued /\ v.target = target
<1>1. t \in State /\ FlipInv(t) /\ QueueInv(t, {})
  BY DEF Sound, QueueInv
<1>2. v \in Vblank
  BY <1>1, StateType
<1>3. CASE ~hit
  <2>1. u = t
    BY <1>3 DEF Scrap
  <2>2. Stable(t, t)
    BY DEF Stable
  <2> HIDE DEF u
  <2> QED BY <2>1, <2>2 DEF u
<1>4. CASE hit
  <2>1. i \notin t.released
    BY <1>1, <1>4 DEF FlipInv
  <2>2. /\ a \in State /\ Same(t, a, {"vblank", "released"})
        /\ a.released = t.released \cup {i}
        /\ Only(t, a, i, {"pixmap", "flip"})
        /\ ~a.vblank[i].pixmap /\ ~a.vblank[i].flip
    BY <2>1, <1>1, ScrapDoes
  <2> HIDE DEF a
  <2>3. Sound(a, {}, f, {}, U) /\ Carry(t, {}, a, {}, {}, f) /\ a.vblank[i].queued
    BY <2>2, <1>4, ScrapOneKeeps
  <2>4. LeftInv(a, f, {}) /\ Stable(t, a)
    BY <2>3 DEF Carry, LeftKept
  <2>5. CASE ~v.ready
    <3>1. u = a
      BY <2>5, <1>4 DEF Scrap, a
    <3> HIDE DEF u
    <3> QED BY <3>1, <2>3, <2>4 DEF u
  <2>6. CASE v.ready
    <3>1. u = x
      BY <2>6, <1>4 DEF Scrap, a
    <3>2. Sound(a, {}, f, {i}, U)
      BY <2>3, SoundMore
    <3>3. Due(a, i, a.msc)
      <4>1. Placed(a, {}, i) /\ a.msc \in 0 .. MaxMsc
        BY <2>2, <2>3, StateType DEF Sound, QueueInv
      <4>2. a.msc \in 0 .. a.msc
        BY <4>1, Constants
      <4> QED BY <4>1, <4>2, <2>2, <2>3 DEF Due, Placed
    <3>4. Sound(x, {}, f, {}, U) /\ Carry(a, {i}, x, {}, {}, f)
      BY <3>2, <3>3, PresentExecuteKeeps DEF present_re_execute
    <3>5. LeftInv(a, f, {i})
      BY <2>4 DEF LeftInv, LeftIn
    <3> HIDE DEF u, x
    <3>6. LeftInv(x, f, {}) /\ Stable(t, x)
      BY <3>4, <3>5, <2>4 DEF Carry, LeftKept, Stable
    <3> QED BY <3>1, <3>4, <3>6 DEF u
  <2> QED BY <2>5, <2>6, <1>2, VblankType
<1> QED BY <1>3, <1>4

ScrapStep(g, n, t, q, target, d) ==
    IF n = 0 THEN t ELSE Scrap(g[n - 1], q[n], target, d)

LEMMA ScrappedExists ==
    ASSUME NEW t, NEW q, NEW target, NEW d, NEW N \in Nat
    PROVE  \E g : g = [n \in 0 .. N |-> ScrapStep(g, n, t, q, target, d)]
<1> DEFINE Good(m) == \E g : g = [n \in 0 .. m |-> ScrapStep(g, n, t, q, target, d)]
           Bad == {m \in 0 .. N : ~Good(m)}
<1> SUFFICES ASSUME Bad # {} PROVE FALSE
  <2>1. N \notin Bad => Good(N)
    OBVIOUS
  <2> QED BY <2>1
<1>1. Bad \in SUBSET Nat
  OBVIOUS
<1>2. PICK m \in Bad : \A k \in Bad : m <= k
  <2> HIDE DEF Bad
  <2> QED BY <1>1, LeastIndex
<1>3. m \in 0 .. N /\ ~Good(m)
  OBVIOUS
<1>4. CASE m = 0
  <2> DEFINE g == [n \in 0 .. 0 |-> t]
  <2>1. g = [n \in 0 .. 0 |-> ScrapStep(g, n, t, q, target, d)]
    BY DEF ScrapStep
  <2> QED BY <2>1, <1>3, <1>4
<1>5. CASE m # 0
  <2>1. m - 1 \in 0 .. N /\ ~(m <= m - 1) /\ m \in Nat
    BY <1>3, <1>5
  <2>2. Good(m - 1)
    BY <2>1, <1>2
  <2>3. PICK g : g = [n \in 0 .. m - 1 |-> ScrapStep(g, n, t, q, target, d)]
    BY <2>2
  <2> DEFINE h == [n \in 0 .. m |-> IF n = m THEN ScrapStep(g, m, t, q, target, d) ELSE g[n]]
  <2>4. ASSUME NEW n \in 0 .. m PROVE h[n] = ScrapStep(h, n, t, q, target, d)
    <3>1. CASE n = m
      <4>1. h[m - 1] = g[m - 1]
        BY <2>1
      <4>2. h[n] = ScrapStep(g, m, t, q, target, d)
        BY <3>1
      <4> HIDE DEF h
      <4> QED BY <3>1, <4>1, <4>2 DEF ScrapStep
    <3>2. CASE n # m
      <4>1. n \in 0 .. m - 1 /\ h[n] = g[n]
        BY <3>2, <2>1
      <4>2. g[n] = ScrapStep(g, n, t, q, target, d)
        BY <4>1, <2>3
      <4>3. n # 0 => h[n - 1] = g[n - 1]
        BY <4>1, <2>1
      <4> HIDE DEF h
      <4> QED BY <4>1, <4>2, <4>3 DEF ScrapStep
    <3> QED BY <3>1, <3>2
  <2>5. h = [n \in 0 .. m |-> ScrapStep(h, n, t, q, target, d)]
    <3>1. h = [n \in 0 .. m |-> h[n]]
      OBVIOUS
    <3> HIDE DEF h
    <3> QED BY <3>1, <2>4
  <2> HIDE DEF h
  <2> QED BY <2>5, <1>3
<1> QED BY <1>4, <1>5

\* All requests for the same frame of the window are superseded.
LEMMA SupersedeKeeps ==
    ASSUME NEW t, NEW f, NEW U, Sound(t, {}, f, {}, U), LeftInv(t, f, {}), NEW w \in Windows,
           NEW target, NEW d
    PROVE  LET u == Supersede(t, w, target, d)
           IN  Sound(u, {}, f, {}, U) /\ LeftInv(u, f, {}) /\ Stable(t, u)
<1> DEFINE q == t.list[w]
           N == Len(q)
           g == CHOOSE g : g = [n \in 0 .. N |-> ScrapStep(g, n, t, q, target, d)]
           P(n) == Sound(g[n], {}, f, {}, U) /\ LeftInv(g[n], f, {}) /\ Stable(t, g[n])
           Bad == {n \in 0 .. N : ~P(n)}
<1>0. q \in Seq(Ids) /\ N \in Nat
  <2>1. q \in Seq(Ids)
    BY StateType DEF Sound, QueueInv
  <2> QED BY <2>1
<1>1. g = [n \in 0 .. N |-> ScrapStep(g, n, t, q, target, d)]
  BY <1>0, ScrappedExists
<1>2. Supersede(t, w, target, d) = g[N]
  BY DEF Supersede, ScrapStep
<1>3. \A k \in 1 .. N : q[k] \in Ids
  BY <1>0
<1> HIDE DEF g
<1>4. \A n \in 0 .. N : g[n] = IF n = 0 THEN t ELSE Scrap(g[n - 1], q[n], target, d)
  BY <1>1 DEF ScrapStep
<1> HIDE DEF N, q
<1>5. Bad = {}
  <2> SUFFICES ASSUME Bad # {} PROVE FALSE
    OBVIOUS
  <2>1. Bad \in SUBSET Nat
    BY <1>0
  <2>2. PICK m \in Bad : \A k \in Bad : m <= k
    <3> HIDE DEF Bad
    <3> QED BY <2>1, LeastIndex
  <2>3. m \in 0 .. N /\ ~P(m)
    OBVIOUS
  <2>4. CASE m = 0
    <3>1. g[0] = t
      BY <1>0, <1>4
    <3>2. P(0)
      BY <3>1 DEF Stable
    <3> QED BY <3>2, <2>3, <2>4
  <2>5. CASE m # 0
    <3>1. m - 1 \in 0 .. N /\ ~(m <= m - 1) /\ m \in 1 .. N
      BY <1>0, <2>3, <2>5
    <3>2. P(m - 1)
      <4>1. m - 1 \notin Bad
        BY <3>1, <2>2
      <4> QED BY <4>1, <3>1, Zenon
    <3>3. PICK a, b, y : a = g[m - 1] /\ b = q[m] /\ y = g[m]
      OBVIOUS
    <3>4. y = Scrap(a, b, target, d) /\ b \in Ids
      BY <3>1, <3>3, <1>3, <1>4
    <3>5. Sound(a, {}, f, {}, U) /\ LeftInv(a, f, {}) /\ Stable(t, a)
      BY <3>2, <3>3
    <3>6. Sound(y, {}, f, {}, U) /\ LeftInv(y, f, {}) /\ Stable(a, y)
      BY <3>4, <3>5, ScrapKeeps
    <3>7. P(m)
      BY <3>3, <3>5, <3>6 DEF Stable
    <3> QED BY <3>7, <2>3
  <2> QED BY <2>4, <2>5
<1>6. P(N)
  <2>1. N \in 0 .. N
    BY <1>0
  <2>2. N \notin Bad
    BY <1>5
  <2> QED BY <2>1, <2>2, Zenon
<1> QED BY <1>2, <1>6

LEMMA PutNew ==
    ASSUME NEW t \in State, NEW i \in 0 .. MaxPresents, NEW l \in [Windows -> Seq(Ids)],
           NEW X \in SUBSET Ids, NEW F \in [Ids -> {"none", "unset", "set", "gone"}],
           NEW V \in [Ids -> Vblank]
    PROVE  [t EXCEPT !.last = i, !.list = l, !.exec = X, !.fence = F, !.vblank = V] \in State
BY Zenon DEF State

\* present_vblank_init: the vblank as it is made.
LEMMA InitDoes ==
    ASSUME NEW t \in State, NEW i \in Ids, NEW r \in Requests, NEW target \in 0 .. MaxMsc, NEW d
    PROVE  LET u == present_vblank_init(t, i, r, target, d)
           IN  /\ u \in State /\ Same(t, u, {"last", "list", "exec", "fence", "vblank"})
               /\ u.last = i /\ u.exec = t.exec \cup {i}
               /\ u.list[r.window] = Append(t.list[r.window], i)
               /\ \A w \in Windows \ {r.window} : u.list[w] = t.list[w]
               /\ \A j \in Ids \ {i} : u.vblank[j] = t.vblank[j] /\ u.fence[j] = t.fence[j]
               /\ u.vblank[i].live /\ u.vblank[i].window = r.window /\ u.vblank[i].queued
               /\ ~u.vblank[i].callback
               /\ u.vblank[i].flip =>
                     /\ r.pixmap /\ ~r.copy /\ t.full = r.window
                     /\ u.vblank[i].exec = IF AtOnce(r) THEN target ELSE target - 1
<1> DEFINE w == r.window
           flip == r.pixmap /\ ~r.copy /\ present_check_flip(t, w, d)
           sync == flip /\ ~AtOnce(r)
           exec == IF sync THEN target - 1 ELSE target
           x == [Gone EXCEPT !.live = TRUE, !.window = w, !.pixmap = r.pixmap,
                             !.target = target, !.exec = exec, !.flip = flip,
                             !.sync = sync, !.queued = TRUE]
           l == [t.list EXCEPT ![w] = Append(t.list[w], i)]
           X == t.exec \cup {i}
           F == [t.fence EXCEPT ![i] = IF r.fence THEN "unset" ELSE "none"]
           V == [t.vblank EXCEPT ![i] = x]
           u == [t EXCEPT !.last = i, !.list = l, !.exec = X, !.fence = F, !.vblank = V]
<1>1. w \in Windows /\ r.pixmap \in BOOLEAN /\ r.copy \in BOOLEAN
  BY PresentAssumption
<1>2. flip \in BOOLEAN /\ sync \in BOOLEAN
  BY <1>1 DEF present_check_flip
<1>3. exec \in -1 .. MaxMsc
  <2> HIDE DEF sync
  <2> QED BY Constants
<1>4. present_vblank_init(t, i, r, target, d) = u
  BY DEF present_vblank_init, AtOnce
<1>0. flip => /\ r.pixmap /\ ~r.copy /\ t.full = w
              /\ exec = IF AtOnce(r) THEN target ELSE target - 1
  BY <1>1 DEF present_check_flip
<1> HIDE DEF flip, sync, exec
<1>5. /\ x \in Vblank /\ x.live /\ x.window = w /\ x.queued /\ ~x.callback
      /\ x.pixmap = r.pixmap /\ x.exec = exec /\ x.flip = flip
  <2>1. PICK y \in Windows, p \in BOOLEAN : y = w /\ p = r.pixmap
    BY <1>1
  <2> DEFINE z == [Gone EXCEPT !.live = TRUE, !.window = y, !.pixmap = p,
                               !.target = target, !.exec = exec, !.flip = flip,
                               !.sync = sync, !.queued = TRUE]
  <2>2. /\ z \in Vblank /\ z.live /\ z.window = y /\ z.queued /\ ~z.callback
        /\ z.pixmap = p /\ z.exec = exec /\ z.flip = flip
    BY <1>2, <1>3 DEF Gone, Vblank
  <2>3. x = z
    BY <2>1
  <2> HIDE DEF x, z
  <2> QED BY <2>1, <2>2, <2>3
<1> HIDE DEF w, x
<1>6. /\ t.list \in [Windows -> Seq(Ids)] /\ t.fence \in [Ids -> {"none", "unset", "set", "gone"}]
      /\ t.vblank \in [Ids -> Vblank] /\ t.exec \subseteq Ids
  BY StateType
<1>7. Append(t.list[w], i) \in Seq(Ids)
  BY <1>1, <1>6, AppendFacts
<1>8. /\ l \in [Windows -> Seq(Ids)] /\ l[w] = Append(t.list[w], i)
      /\ \A y \in Windows \ {w} : l[y] = t.list[y]
  BY <1>1, <1>6, <1>7
<1>9. X \in SUBSET Ids /\ i \in 0 .. MaxPresents
  BY <1>6, Constants
<1>10. /\ F \in [Ids -> {"none", "unset", "set", "gone"}]
       /\ \A j \in Ids \ {i} : F[j] = t.fence[j]
  BY <1>6
<1>11. V \in [Ids -> Vblank] /\ V[i] = x /\ \A j \in Ids \ {i} : V[j] = t.vblank[j]
  BY <1>5, <1>6
<1> HIDE DEF l, X, F, V
<1>12. u \in State
  BY <1>8, <1>9, <1>10, <1>11, PutNew, Zenon
<1>13. /\ Same(t, u, {"last", "list", "exec", "fence", "vblank"})
       /\ u.last = i /\ u.exec = X /\ u.list = l /\ u.fence = F /\ u.vblank = V
  BY DEF Same, Fields, State
<1> HIDE DEF u
<1>14. u.exec = t.exec \cup {i}
  BY <1>13 DEF X
<1>15. /\ u.vblank[i].live /\ u.vblank[i].window = r.window /\ u.vblank[i].queued
       /\ ~u.vblank[i].callback /\ u.vblank[i].pixmap = r.pixmap
       /\ u.vblank[i].exec = exec /\ u.vblank[i].flip = flip
  BY <1>5, <1>11, <1>13 DEF w
<1>18. u.vblank[i].flip => /\ r.pixmap /\ ~r.copy /\ t.full = r.window
                           /\ u.vblank[i].exec = IF AtOnce(r) THEN target ELSE target - 1
  BY <1>0, <1>15 DEF w
<1>16. /\ u.list[r.window] = Append(t.list[r.window], i)
       /\ \A y \in Windows \ {r.window} : u.list[y] = t.list[y]
  BY <1>8, <1>13 DEF w
<1>17. \A j \in Ids \ {i} : u.vblank[j] = t.vblank[j] /\ u.fence[j] = t.fence[j]
  BY <1>10, <1>11, <1>13
<1> QED BY <1>4, <1>12, <1>13, <1>14, <1>15, <1>16, <1>17, <1>18

\* Vblank i has been made for window w.
Made(t, u, i, w) ==
    /\ u \in State /\ Same(t, u, {"last", "list", "exec", "fence", "vblank"})
    /\ u.last = i /\ u.exec = t.exec \cup {i} /\ u.list[w] = Append(t.list[w], i)
    /\ \A y \in Windows \ {w} : u.list[y] = t.list[y]
    /\ \A j \in Ids \ {i} : u.vblank[j] = t.vblank[j] /\ u.fence[j] = t.fence[j]
    /\ u.vblank[i].live /\ u.vblank[i].window = w /\ u.vblank[i].queued
    /\ u.vblank[i].flip => t.full = w

\* Its event is still to be asked for.
LEMMA InitKeeps ==
    ASSUME NEW t, NEW f, Sound(t, {}, f, {}, {}), LeftInv(t, f, {}), NEW i \in Ids,
           t.last < i, NEW w \in t.alive, NEW u, Made(t, u, i, w)
    PROVE  /\ QueueInv(u, {}) /\ FlipInv(u) /\ PixmapInv(u) /\ TimeBut(u, i)
           /\ ExecInv(u, f, {i}) /\ CoverInv(u, {}) /\ LeftInv(u, f, {i}) /\ ~HasEvent(u, i)
<1> USE DEF Made
<1>1. /\ QueueInv(t, {}) /\ FlipInv(t) /\ PixmapInv(t)
      /\ TimeInv(t) /\ ExecInv(t, f, {}) /\ CoverInv(t, {}) /\ t \in State
  BY DEF Sound, QueueInv
<1>2. /\ u.pending = t.pending /\ u.alive = t.alive /\ u.unflip = t.unflip
      /\ u.flip = t.flip /\ u.flipWindow = t.flipWindow /\ u.pixmapOf = t.pixmapOf
      /\ u.full = t.full /\ u.left = t.left /\ u.flips = t.flips /\ u.released = t.released
      /\ u.missed = t.missed /\ u.wrong = t.wrong /\ u.msc = t.msc
      /\ u.flipping = t.flipping /\ u.flipped = t.flipped /\ u.shown = t.shown
      /\ u.mistaken = t.mistaken
      /\ u.armed = t.armed
  BY DEF Same, Fields
<1>3. /\ t.exec \subseteq Ids /\ Flips(t) \subseteq Ids /\ Flips(u) = Flips(t)
      /\ \A j \in Ids : HasEvent(u, j) <=> HasEvent(t, j)
      /\ t.flip # 0 => t.flip \in Ids
      /\ t.pending # 0 => t.pending \in Ids
      /\ t.released \subseteq Ids /\ t.last \in Nat /\ w \in Windows
      /\ t.list \in [Windows -> Seq(Ids)]
      /\ t.armed \subseteq [id : Ids, msc : 0 .. MaxMsc]
  BY <1>1, <1>2, StateType, FlipsFacts, Constants DEF HasEvent, Flips
<1>4. ~(i <= t.last) /\ \A j \in Ids : j <= t.last => j <= i
  BY <1>3, Constants
<1>5. Placed(t, {}, i)
  BY <1>1 DEF QueueInv
<1>6. /\ ~t.vblank[i].live /\ i \notin t.exec /\ i \notin Flips(t)
      /\ \A y \in Windows : i \notin Range(t.list[y])
  BY <1>4, <1>5 DEF Placed
<1>7. /\ i # t.pending /\ i # t.flip /\ i \notin t.released /\ ~HasEvent(t, i)
  <2>1. i # 0
    BY Constants
  <2>2. ~HasEvent(t, i)
    BY <1>1, <1>4 DEF HasEvent, TimeInv
  <2> QED BY <2>1, <2>2, <1>1, <1>4, <1>6 DEF FlipInv
<1>8. QueueInv(u, {})
  <2>1. ASSUME NEW y \in Windows PROVE Distinct(u.list[y])
    <3>1. Distinct(t.list[y])
      BY <1>1 DEF QueueInv
    <3>2. CASE y = w
      <4>1. PICK q \in Seq(Ids) : q = t.list[w]
        BY <1>3
      <4>2. Distinct(Append(q, i))
        BY <3>1, <3>2, <4>1, <1>6, AppendFacts
      <4> QED BY <3>2, <4>1, <4>2
    <3>3. CASE y # w
      BY <3>1, <3>3
    <3> QED BY <3>2, <3>3
  <2>2. Range(u.list[w]) = Range(t.list[w]) \cup {i}
    <3>1. t.list[w] \in Seq(Ids)
      BY <1>3
    <3> QED BY <3>1, AppendFacts
  <2>3. ASSUME NEW j \in Ids PROVE Placed(u, {}, j)
    <3>1. CASE j = i
      <4>1. \A y \in Windows : i \in Range(u.list[y]) <=> y = w
        BY <2>2, <1>6
      <4>2. i \in u.exec /\ i \notin Flips(u) /\ i <= u.last
        BY <1>3, <1>6, Constants
      <4>3. u.vblank[i].window \in u.alive
        BY <1>2
      <4> QED BY <3>1, <4>1, <4>2, <4>3 DEF Placed
    <3>2. CASE j # i
      <4>1. Placed(t, {}, j)
        BY <1>1 DEF QueueInv
      <4>2. \A y \in Windows : j \in Range(u.list[y]) <=> j \in Range(t.list[y])
        <5>1. \A y \in Windows \ {w} : Range(u.list[y]) = Range(t.list[y])
          OBVIOUS
        <5>2. j \in Range(u.list[w]) <=> j \in Range(t.list[w])
          BY <3>2, <2>2
        <5> QED BY <5>1, <5>2
      <4>3. u.vblank[j] = t.vblank[j] /\ (j \in u.exec <=> j \in t.exec)
        BY <3>2
      <4>4. t.vblank[j].live => j <= u.last
        BY <4>1, <1>4 DEF Placed
      <4> QED BY <4>1, <4>2, <4>3, <4>4, <1>2, <1>3 DEF Placed
    <3> QED BY <3>1, <3>2
  <2> QED BY <2>1, <2>3, <1>1, <1>2 DEF QueueInv
<1>9. FlipInv(u)
  <2>1. \A j \in t.released : j <= u.last /\ ~u.vblank[j].pixmap
    BY <1>1, <1>3, <1>4, <1>7 DEF FlipInv
  <2>2. t.flip # 0 => t.flip <= u.last /\ u.vblank[t.flip] = t.vblank[t.flip]
    BY <1>1, <1>3, <1>4, <1>7 DEF FlipInv
  <2>3. t.pending # 0 => u.vblank[t.pending] = t.vblank[t.pending]
    BY <1>3, <1>7
  <2>4. ASSUME NEW j \in Ids, j <= t.last
        PROVE  u.vblank[j] = t.vblank[j] /\ j <= u.last
    BY <2>4, <1>4
  <2>5. \A j \in u.flipping \cup u.flipped :
           \/ j # 0 /\ j = u.pending
           \/ j = Unflip /\ u.unflip
           \/ /\ u.mistaken /\ j \in Ids /\ j <= u.last
              /\ ~u.vblank[j].pixmap /\ ~u.vblank[j].queued
    BY <2>4, <1>1, <1>2 DEF FlipInv
  <2> HIDE DEF Made
  <2> QED BY <2>1, <2>2, <2>3, <2>5, <1>1, <1>2, <1>3 DEF FlipInv
<1>10. PixmapInv(u)
  BY <1>1, <1>2 DEF PixmapInv, Current
<1>11. TimeBut(u, i)
  <2>1. ASSUME NEW j \in Ids \ {i}, InTime(t, j) PROVE InTime(u, j)
    BY <2>1, <1>2, <1>3 DEF InTime
  <2>2. \A e \in u.armed : e.id <= u.last
    <3>1. \A e \in t.armed : e.id \in Ids /\ e.id <= t.last
      BY <1>1, <1>3 DEF TimeInv
    <3> QED BY <3>1, <1>2, <1>4
  <2>3. \A j \in Flips(u) : FenceIsSet(u, j)
    BY <1>1, <1>3, <1>6 DEF TimeInv, FenceIsSet
  <2>4. \A j \in (Flips(u) \cup u.exec) \ {i} : InTime(u, j)
    BY <2>1, <1>1, <1>3 DEF TimeInv
  <2>5. QueueHolds => ~u.mistaken
    BY <1>1, <1>2 DEF TimeInv
  <2> QED BY <2>2, <2>3, <2>4, <2>5 DEF TimeBut
<1>12. ExecInv(u, f, {i})
  BY <1>1, <1>2, <1>3 DEF ExecInv
<1>13. CoverInv(u, {})
  <2>1. \A j \in Ids : u.vblank[j].queued /\ u.vblank[j].flip =>
           u.vblank[j].window = u.full \/ j \in u.missed
    BY <1>1, <1>2 DEF CoverInv
  <2>2. u.pending # 0 => u.vblank[u.pending] = t.vblank[t.pending]
    BY <1>2, <1>3, <1>7
  <2> QED BY <2>1, <2>2, <1>1, <1>2 DEF CoverInv
<1>14. LeftInv(u, f, {i})
  BY <1>2, <1>3, <1>6 DEF LeftInv, LeftIn
<1>15. ~HasEvent(u, i)
  BY <1>3, <1>7
<1> QED BY <1>8, <1>9, <1>10, <1>11, <1>12, <1>13, <1>14, <1>15

\* The vblank is made and waits for its frame or is executed.  A flip whose frame is to
\* come must have its event queued.
LEMMA NewKeeps ==
    ASSUME NEW a, NEW f, Sound(a, {}, f, {}, {}), LeftInv(a, f, {}), NEW r \in Requests, NEW d,
           r.window \in a.alive, NEW i \in Ids, a.last < i, NEW target \in 0 .. MaxMsc,
           QueueHolds /\ r.pixmap /\ ~r.copy /\ ~d.queue =>
               (IF AtOnce(r) THEN target ELSE target - 1) <= a.msc
    PROVE  LET b == present_vblank_init(a, i, r, target, d)
               u == IF b.vblank[i].exec > a.msc /\ d.queue
                    THEN present_queue_vblank(b, i, b.vblank[i].exec)
                    ELSE present_execute(b, i, a.msc, d)
           IN  Sound(u, {}, f, {}, {}) /\ LeftInv(u, f, {})
<1> DEFINE b == present_vblank_init(a, i, r, target, d)
           exec == b.vblank[i].exec
           msc == a.msc
           q == d.queue
           z == IF exec > msc /\ q THEN present_queue_vblank(b, i, exec)
                ELSE present_execute(b, i, msc, d)
<1>1. a \in State /\ a.msc \in Nat
  BY StateType, Constants DEF Sound, QueueInv
<1>2. /\ b \in State /\ Same(a, b, {"last", "list", "exec", "fence", "vblank"})
      /\ b.last = i /\ b.exec = a.exec \cup {i}
      /\ b.list[r.window] = Append(a.list[r.window], i)
      /\ \A w \in Windows \ {r.window} : b.list[w] = a.list[w]
      /\ \A j \in Ids \ {i} : b.vblank[j] = a.vblank[j] /\ b.fence[j] = a.fence[j]
      /\ b.vblank[i].live /\ b.vblank[i].window = r.window /\ b.vblank[i].queued
      /\ ~b.vblank[i].callback
      /\ b.vblank[i].flip =>
            /\ r.pixmap /\ ~r.copy /\ a.full = r.window
            /\ b.vblank[i].exec = IF AtOnce(r) THEN target ELSE target - 1
  BY <1>1, InitDoes
<1> HIDE DEF b
<1>3. PICK w \in a.alive : w = r.window
  OBVIOUS
<1>8. Made(a, b, i, w)
  BY <1>2, <1>3 DEF Made
<1>4. /\ QueueInv(b, {}) /\ FlipInv(b) /\ PixmapInv(b) /\ TimeBut(b, i)
      /\ ExecInv(b, f, {i}) /\ CoverInv(b, {}) /\ LeftInv(b, f, {i}) /\ ~HasEvent(b, i)
  BY <1>8, InitKeeps
<1>5. b.msc = msc /\ exec \in -1 .. MaxMsc /\ i <= b.last /\ i \in b.exec
  <2>1. b.msc = msc
    BY <1>2 DEF Same, Fields
  <2>2. b.vblank[i] \in Vblank
    BY <1>2, StateType
  <2>3. exec \in -1 .. MaxMsc
    BY <2>2, VblankType
  <2>4. i <= b.last
    BY <1>2, Constants
  <2> QED BY <2>1, <2>3, <2>4, <1>2
<1>6. ASSUME exec > msc /\ q PROVE Sound(z, {}, f, {}, {}) /\ LeftInv(z, f, {})
  <2> DEFINE u == present_queue_vblank(b, i, exec)
  <2>1. \/ ~(QueueHolds /\ b.vblank[i].flip)
        \/ i \in b.exec /\ ~b.vblank[i].callback /\ exec = b.vblank[i].exec /\ ~HasEvent(b, i)
    BY <1>2, <1>4, <1>5
  <2>4. exec \in 0 .. MaxMsc
    BY <1>1, <1>5, <1>6, Constants
  <2>2. Sound(u, {}, f, {}, {}) /\ Carry(b, {i}, u, {}, {}, f)
    <3> HIDE DEF exec, u
    <3> QED BY <2>1, <2>4, <1>4, <1>5, QueueKeeps DEF u
  <2> HIDE DEF u
  <2>3. LeftInv(u, f, {})
    BY <2>2, <1>4 DEF Carry, LeftKept
  <2> QED BY <2>2, <2>3, <1>6 DEF u
<1>7. ASSUME ~(exec > msc /\ q) PROVE Sound(z, {}, f, {}, {}) /\ LeftInv(z, f, {})
  <2> DEFINE u == present_execute(b, i, msc, d)
  <2>1. QueueHolds /\ b.vblank[i].flip => exec <= msc
    BY <1>1, <1>2, <1>5, <1>7
  <2>2. Due(b, i, msc)
    <3>1. msc \in 0 .. b.msc
      BY <1>1, <1>5
    <3> QED BY <3>1, <2>1, <1>2, <1>4, <1>5 DEF Due
  <2>3. TimeInv(b)
    <3>1. InTime(b, i)
      BY <2>1, <1>2, <1>4, <1>5 DEF InTime
    <3> QED BY <3>1, <1>4 DEF TimeInv, TimeBut
  <2>4. Sound(b, {}, f, {i}, {})
    BY <2>3, <1>4 DEF Sound
  <2>5. Sound(u, {}, f, {}, {}) /\ Carry(b, {i}, u, {}, {}, f)
    BY <2>2, <2>4, PresentExecuteKeeps
  <2> HIDE DEF u
  <2>6. LeftInv(u, f, {})
    BY <2>5, <1>4 DEF Carry, LeftKept
  <2> QED BY <2>5, <2>6, <1>7 DEF u
<1> QED BY <1>6, <1>7 DEF b

\* A request is made.
LEMMA RequestKeeps ==
    ASSUME NEW t, NEW f, Sound(t, {}, f, {}, {}), LeftInv(t, f, {}),
           NEW r \in Requests, NEW d \in Drivers, r.window \in t.alive,
           NEW i \in Ids, t.last < i, NEW target \in 0 .. MaxMsc,
           QueueHolds /\ r.pixmap /\ ~r.copy /\ ~d.queue =>
               (IF AtOnce(r) THEN target ELSE target - 1) <= t.msc
    PROVE  LET a == IF r.pixmap /\ ~r.update THEN Supersede(t, r.window, target, d) ELSE t
               b == present_vblank_init(a, i, r, target, d)
               u == IF b.vblank[i].exec > t.msc /\ d.queue
                    THEN present_queue_vblank(b, i, b.vblank[i].exec)
                    ELSE present_execute(b, i, t.msc, d)
           IN  Sound(u, {}, f, {}, {}) /\ LeftInv(u, f, {})
<1> DEFINE a == IF r.pixmap /\ ~r.update THEN Supersede(t, r.window, target, d) ELSE t
<1>1. r.window \in Windows
  BY PresentAssumption
<1>2. Sound(a, {}, f, {}, {}) /\ LeftInv(a, f, {}) /\ Stable(t, a)
  <2>1. CASE r.pixmap /\ ~r.update
    BY <2>1, <1>1, SupersedeKeeps
  <2>2. CASE ~(r.pixmap /\ ~r.update)
    <3>1. a = t
      BY <2>2
    <3> QED BY <3>1 DEF Stable
  <2> QED BY <2>1, <2>2
<1> HIDE DEF a
<1>3. a.alive = t.alive /\ a.last = t.last /\ a.msc = t.msc
  BY <1>2 DEF Stable
<1> DEFINE b == present_vblank_init(a, i, r, target, d)
           u == IF b.vblank[i].exec > a.msc /\ d.queue
                THEN present_queue_vblank(b, i, b.vblank[i].exec)
                ELSE present_execute(b, i, a.msc, d)
<1>4. r.window \in a.alive /\ a.last < i
  BY <1>3
<1>5. QueueHolds /\ r.pixmap /\ ~r.copy /\ ~d.queue =>
         (IF AtOnce(r) THEN target ELSE target - 1) <= a.msc
  BY <1>3
<1>6. Sound(u, {}, f, {}, {}) /\ LeftInv(u, f, {})
  BY <1>2, <1>4, <1>5, NewKeeps
<1> QED BY <1>3, <1>6, Zenon DEF a

-----------------------------------------------------------------------------
(* Fences.                                                                 *)

\* The fence of i is triggered or destroyed while no triggers are run through.
LEMMA FenceKeeps ==
    ASSUME NEW t, Sound(t, {}, 0, {}, {}), LeftInv(t, 0, {}), NEW i \in Ids,
           t.fence[i] = "unset", NEW x \in {"set", "gone"}, NEW f,
           x = "set" => f = i, x = "gone" => f = 0
    PROVE  LET u == [t EXCEPT !.fence[i] = x]
           IN  Sound(u, {}, f, {}, {}) /\ LeftInv(u, f, {})
<1> DEFINE F == [t.fence EXCEPT ![i] = x]
           u == [t EXCEPT !.fence = F]
<1>1. /\ QueueInv(t, {}) /\ FlipInv(t) /\ PixmapInv(t)
      /\ TimeInv(t) /\ ExecInv(t, 0, {}) /\ CoverInv(t, {}) /\ t \in State
  BY DEF Sound, QueueInv
<1>2. /\ F \in [Ids -> {"none", "unset", "set", "gone"}]
      /\ F[i] = x /\ \A j \in Ids \ {i} : F[j] = t.fence[j]
  BY <1>1, StateType
<1> HIDE DEF F
<1>3. u \in State
  BY <1>1, <1>2, Zenon DEF State
<1>4. Same(t, u, {"fence"}) /\ u.fence = F
  BY <1>1 DEF Same, Fields, State
<1> HIDE DEF u
<1>5. /\ u.last = t.last /\ u.pending = t.pending /\ u.alive = t.alive /\ u.unflip = t.unflip
      /\ u.flip = t.flip /\ u.flipWindow = t.flipWindow /\ u.pixmapOf = t.pixmapOf
      /\ u.full = t.full /\ u.missed = t.missed /\ u.left = t.left /\ u.armed = t.armed
      /\ u.released = t.released /\ u.wrong = t.wrong /\ u.msc = t.msc /\ u.flips = t.flips
      /\ u.flipping = t.flipping /\ u.flipped = t.flipped /\ u.shown = t.shown
      /\ u.mistaken = t.mistaken
      /\ u.vblank = t.vblank /\ u.exec = t.exec /\ u.list = t.list
  BY <1>4 DEF Same, Fields
<1>6. t.exec \subseteq Ids /\ Flips(t) \subseteq Ids /\ Flips(u) = Flips(t)
  BY <1>1, <1>5, StateType, FlipsFacts DEF Flips
<1>7. QueueInv(u, {})
  BY <1>1, <1>3, <1>5 DEF QueueInv, Placed, Flips
<1>8. FlipInv(u) /\ PixmapInv(u) /\ CoverInv(u, {})
  BY <1>1, <1>5 DEF FlipInv, PixmapInv, Current, CoverInv, Flips
<1>9. TimeInv(u)
  <2>1. ASSUME NEW j \in Ids, InTime(t, j) PROVE InTime(u, j)
    BY <2>1, <1>5 DEF InTime, HasEvent
  <2>2. \A j \in Ids : FenceIsSet(t, j) => FenceIsSet(u, j)
    BY <1>2, <1>4 DEF FenceIsSet
  <2> QED BY <2>1, <2>2, <1>1, <1>5, <1>6 DEF TimeInv
<1>10. \A j \in Ids : 0 # j
  BY Constants
<1>11. ExecInv(u, f, {})
  BY <1>1, <1>2, <1>4, <1>5, <1>6, <1>10 DEF ExecInv, HasEvent
<1>12. LeftInv(u, f, {})
  BY <1>5, <1>6, <1>10 DEF LeftInv, LeftIn, HasEvent
<1>13. Sound(u, {}, f, {}, {})
  BY <1>7, <1>8, <1>9, <1>11 DEF Sound
<1> QED BY <1>12, <1>13 DEF u, F

\* A trigger of the fence fires.
LEMMA FiredKeeps ==
    ASSUME NEW t, NEW i \in Ids, Sound(t, {}, i, {}, {}), LeftInv(t, i, {}), Waits(t, i), NEW d
    PROVE  LET u == present_re_execute(t, i, d)
           IN  Sound(u, {}, i, {}, {}) /\ LeftInv(u, i, {})
<1> DEFINE u == present_execute(t, i, t.msc, d)
<1>1. Sound(t, {}, i, {i}, {})
  BY SoundMore
<1>2. Placed(t, {}, i) /\ TimeInv(t) /\ t.msc \in 0 .. MaxMsc
  BY StateType DEF Sound, QueueInv
<1>3. i \in t.exec \cup Flips(t)
  BY <1>2 DEF Placed, Waits
<1>4. Due(t, i, t.msc)
  <2>1. t.msc \in 0 .. t.msc
    BY <1>2, Constants
  <2>2. InTime(t, i)
    BY <1>2, <1>3 DEF TimeInv
  <2> QED BY <2>1, <2>2, <1>3 DEF Due, InTime, Waits
<1>5. Sound(u, {}, i, {}, {}) /\ Carry(t, {i}, u, {}, {}, i)
  BY <1>1, <1>4, PresentExecuteKeeps
<1>6. LeftInv(t, i, {i})
  BY DEF LeftInv, LeftIn
<1> HIDE DEF u
<1>7. LeftInv(u, i, {})
  BY <1>5, <1>6 DEF Carry, LeftKept
<1> QED BY <1>5, <1>7 DEF u, present_re_execute

\* All triggers have fired.
LEMMA FiringEnds ==
    ASSUME NEW t, NEW i \in Ids, Sound(t, {}, i, {}, {}), LeftInv(t, i, {}), ~Waits(t, i)
    PROVE  Sound(t, {}, 0, {}, {}) /\ LeftInv(t, 0, {})
<1>1. QueueInv(t, {}) /\ ExecInv(t, i, {}) /\ Placed(t, {}, i)
  BY DEF Sound, QueueInv
<1>2. i \in t.exec \cup Flips(t) => ~t.vblank[i].callback
  BY <1>1 DEF Placed, Waits
<1>3. ExecInv(t, 0, {})
  BY <1>1, <1>2 DEF ExecInv
<1>4. LeftInv(t, 0, {})
  BY <1>2 DEF LeftInv, LeftIn
<1> QED BY <1>3, <1>4 DEF Sound

-----------------------------------------------------------------------------
(* The specification.                                                      *)

Inv ==
    /\ firing \in 0 .. MaxPresents
    /\ Sound(s, {}, firing, {}, {})
    /\ LeftInv(s, firing, {})

LEMMA InitSound == Init => Inv
<1> SUFFICES ASSUME Init PROVE Inv
  OBVIOUS
<1>1. PICK w \in Windows \cup {None} :
         s = [vblank |-> [i \in Ids |-> Gone], last |-> 0, exec |-> {}, flips |-> << >>,
              list |-> [x \in Windows |-> << >>], pending |-> 0, unflip |-> FALSE,
              flip |-> 0, flipWindow |-> None,
              pixmapOf |-> [x \in Windows \cup {Root} |-> Screen],
              alive |-> Windows, full |-> w, fence |-> [i \in Ids |-> "none"],
              missed |-> {}, left |-> {}, mistaken |-> FALSE, released |-> {}, wrong |-> {},
              msc |-> 0,
              armed |-> {}, flipping |-> {}, flipped |-> {}, shown |-> Screen]
  BY DEF Init
<1>2. firing = 0
  BY DEF Init
<1>3. /\ s.vblank = [i \in Ids |-> Gone] /\ s.last = 0 /\ s.exec = {} /\ s.flips = << >>
      /\ s.list = [x \in Windows |-> << >>] /\ s.pending = 0 /\ s.unflip = FALSE
      /\ s.flip = 0 /\ s.flipWindow = None /\ s.alive = Windows /\ s.full = w
      /\ s.pixmapOf = [x \in Windows \cup {Root} |-> Screen]
      /\ s.fence = [i \in Ids |-> "none"] /\ s.missed = {} /\ s.left = {} /\ s.released = {}
      /\ s.wrong = {} /\ s.msc = 0 /\ s.armed = {} /\ s.flipping = {} /\ s.flipped = {}
      /\ s.shown = Screen /\ s.mistaken = FALSE
  BY <1>1
<1>4. s \in State
  <2>1. /\ [i \in Ids |-> Gone] \in [Ids -> Vblank]
        /\ [x \in Windows |-> << >>] \in [Windows -> Seq(Ids)]
        /\ [i \in Ids |-> "none"] \in [Ids -> {"none", "unset", "set", "gone"}]
        /\ << >> \in Seq(Ids)
    BY GoneType
  <2>2. 0 \in 0 .. MaxPresents /\ 0 \in 0 .. MaxMsc
    BY Constants
  <2>3. [x \in Windows \cup {Root} |-> Screen] \in [Windows \cup {Root} -> 0 .. MaxPresents]
    BY <2>2 DEF Screen
  <2>4. Screen \in 0 .. MaxPresents
    BY <2>2 DEF Screen
  <2> QED BY <1>1, <2>1, <2>2, <2>3, <2>4 DEF State
<1>5. Flips(s) = {} /\ \A w1 \in Windows : s.list[w1] = << >> /\ Range(s.list[w1]) = {}
  BY <1>3 DEF Flips, Range
<1>6. \A i \in Ids : s.vblank[i] = Gone
  BY <1>3
<1>7. QueueInv(s, {})
  <2>1. Distinct(<< >>)
    BY DEF Distinct
  <2>2. ASSUME NEW i \in Ids PROVE Placed(s, {}, i)
    BY <1>3, <1>5, <1>6, GoneType DEF Placed
  <2> QED BY <2>1, <2>2, <1>3, <1>4, <1>5 DEF QueueInv
<1>8. FlipInv(s)
  BY <1>3 DEF FlipInv
<1>9. PixmapInv(s)
  BY <1>3 DEF PixmapInv, Current, Screen
<1>10. TimeInv(s) /\ ExecInv(s, 0, {})
  BY <1>3, <1>5 DEF TimeInv, ExecInv
<1>11. CoverInv(s, {})
  BY <1>3, <1>6, GoneType DEF CoverInv
<1>12. LeftInv(s, 0, {})
  BY <1>5 DEF LeftInv, LeftIn
<1>13. firing \in 0 .. MaxPresents
  BY <1>2, Constants
<1> QED BY <1>2, <1>7, <1>8, <1>9, <1>10, <1>11, <1>12, <1>13 DEF Inv, Sound

\* Inv after a step to a sound state.
LEMMA Arrives ==
    ASSUME NEW u, NEW f \in 0 .. MaxPresents, s' = u, firing' = f,
           Sound(u, {}, f, {}, {}), LeftInv(u, f, {})
    PROVE  Inv'
BY DEF Inv

LEMMA HardwareKeeps == Inv /\ Hardware => Inv'
<1> SUFFICES ASSUME Inv, Hardware PROVE Inv'
  OBVIOUS
<1>1. PICK t, f : t = s /\ f = firing
  OBVIOUS
<1>2. Sound(t, {}, f, {}, {}) /\ LeftInv(t, f, {}) /\ f \in 0 .. MaxPresents /\ firing' = f
  BY <1>1 DEF Inv, Hardware
<1>3. CASE Frame
  <2> DEFINE u == [t EXCEPT !.msc = @ + 1]
  <2>1. t.msc < MaxMsc /\ s' = u
    BY <1>1, <1>3 DEF Frame
  <2>2. Sound(u, {}, f, {}, {}) /\ LeftInv(u, f, {})
    BY <2>1, <1>2, FrameKeeps
  <2> HIDE DEF u
  <2> QED BY <2>1, <2>2, <1>2, Arrives
<1>4. CASE PageFlip
  <2>1. PICK i \in t.flipping :
           s' = [t EXCEPT !.flipping = @ \ {i}, !.flipped = @ \cup {i}, !.shown = i]
    BY <1>1, <1>4 DEF PageFlip
  <2> DEFINE u == [t EXCEPT !.flipping = @ \ {i}, !.flipped = @ \cup {i}, !.shown = i]
  <2>2. t \in State
    BY <1>2 DEF Sound, QueueInv
  <2>3. /\ u \in State /\ Same(t, u, {"flipping", "flipped", "shown"})
        /\ u.flipping = t.flipping \ {i} /\ u.flipped = t.flipped \cup {i} /\ u.shown = i
    BY <2>2, PageFlipDoes
  <2>4. s' = u
    BY <2>1
  <2> HIDE DEF u
  <2>5. Sound(u, {}, f, {}, {}) /\ Carry(t, {}, u, {}, {}, f)
    BY <2>3, <1>2, PageFlipKeeps
  <2>6. LeftInv(u, f, {})
    BY <2>5, <1>2 DEF Carry, LeftKept
  <2> QED BY <2>4, <2>5, <2>6, <1>2, Arrives
<1> QED BY <1>3, <1>4 DEF Hardware

LEMMA FireKeeps == Inv /\ Fire => Inv'
<1> SUFFICES ASSUME Inv, Fire PROVE Inv'
  OBVIOUS
<1>1. PICK t, f : t = s /\ f = firing
  OBVIOUS
<1>2. Sound(t, {}, f, {}, {}) /\ LeftInv(t, f, {}) /\ f \in 0 .. MaxPresents /\ f # 0
  BY <1>1 DEF Inv, Fire, EndOfTriggers, present_wait_fence_triggered
<1>3. f \in Ids /\ 0 \in 0 .. MaxPresents
  BY <1>2, Constants DEF Ids
<1>4. CASE EndOfTriggers
  <2>1. ~Waits(t, f) /\ s' = t /\ firing' = 0
    BY <1>1, <1>4 DEF EndOfTriggers
  <2>2. Sound(t, {}, 0, {}, {}) /\ LeftInv(t, 0, {})
    BY <2>1, <1>2, <1>3, FiringEnds
  <2> QED BY <2>1, <2>2, <1>3, Arrives
<1>5. CASE \E d \in Drivers : present_wait_fence_triggered(d)
  <2>1. PICK d \in Drivers : present_wait_fence_triggered(d)
    BY <1>5
  <2>2. Waits(t, f) /\ s' = present_re_execute(t, f, d) /\ firing' = f
    BY <2>1, <1>1 DEF present_wait_fence_triggered
  <2> DEFINE u == present_re_execute(t, f, d)
  <2>3. Sound(u, {}, f, {}, {}) /\ LeftInv(u, f, {})
    BY <2>2, <1>2, <1>3, FiredKeeps
  <2>4. s' = u
    BY <2>2
  <2> HIDE DEF u
  <2> QED BY <2>2, <2>3, <2>4, <1>2, Arrives
<1> QED BY <1>4, <1>5 DEF Fire

\* What the server does for the driver and for clients, between triggers.
LEMMA ServeKeeps ==
    ASSUME Inv, firing = 0, firing' = firing, NEW d \in Drivers,
           \/ \E r \in Requests : present_scmd_pixmap(r, d)
           \/ VblankEvent(d)
           \/ FlipEvent(d)
           \/ \E w \in Windows \cup {None} : Reconfigure(w, d)
           \/ present_check_flips(d)
           \/ \E w \in Windows, x \in Windows \cup {None} : present_destroy_window(w, x, d)
    PROVE  Inv'
<1>1. PICK t : t = s
  OBVIOUS
<1>2. /\ Sound(t, {}, 0, {}, {}) /\ LeftInv(t, 0, {}) /\ 0 \in 0 .. MaxPresents
      /\ firing' = 0 /\ t \in State
  BY <1>1, Constants DEF Inv, Sound, QueueInv
<1>3. ASSUME NEW u, s' = u, Sound(u, {}, 0, {}, {}), LeftInv(u, 0, {}) PROVE Inv'
  BY <1>2, <1>3, Arrives
<1>4. CASE \E r \in Requests : present_scmd_pixmap(r, d)
  <2>1. PICK r \in Requests : present_scmd_pixmap(r, d)
    BY <1>4
  <2> DEFINE i == t.last + 1
             synced == r.async = {} /\ (r.pixmap \/ r.divisor # 0)
             target == present_get_target_msc(t.msc + r.ahead, t.msc, r.divisor, r.remainder,
                                              synced)
             a == IF r.pixmap /\ ~r.update THEN Supersede(t, r.window, target, d) ELSE t
             b == present_vblank_init(a, i, r, target, d)
             u == IF b.vblank[i].exec > t.msc /\ d.queue
                  THEN present_queue_vblank(b, i, b.vblank[i].exec)
                  ELSE present_execute(b, i, t.msc, d)
  <2>2. r.window \in t.alive /\ i <= MaxPresents /\ target <= MaxMsc /\ s' = u
    BY <2>1, <1>1, Zenon DEF present_scmd_pixmap
  <2>3. t.msc \in Nat /\ t.last \in Nat
    BY <1>2, StateType, Constants
  <2>4. /\ target \in Nat
        /\ QueueHolds /\ r.pixmap /\ ~r.copy /\ ~d.queue =>
              (IF AtOnce(r) THEN target ELSE target - 1) <= t.msc
    <3>1. PICK m \in Nat : m = t.msc
      BY <2>3
    <3> QED BY <3>1, RequestTarget
  <2> HIDE DEF target
  <2>5. i \in Ids /\ t.last < i /\ target \in 0 .. MaxMsc
    BY <2>2, <2>3, <2>4, Constants DEF Ids
  <2> HIDE DEF i
  <2>6. Sound(u, {}, 0, {}, {}) /\ LeftInv(u, 0, {})
    BY <2>2, <2>4, <2>5, <1>2, RequestKeeps
  <2> HIDE DEF u
  <2> QED BY <2>2, <2>6, <1>3
<1>5. CASE VblankEvent(d)
  <2>0. PICK e \in t.armed : \E m \in e.msc .. t.msc :
           s' = present_event_notify([t EXCEPT !.armed = @ \ {e},
                                               !.mistaken = @ \/ TakenForFlip(t, e.id)],
                                     e.id, m, d)
    BY <1>1, <1>5 DEF VblankEvent
  <2> DEFINE a == [t EXCEPT !.armed = @ \ {e}, !.mistaken = @ \/ TakenForFlip(t, e.id)]
  <2>1. PICK m \in e.msc .. t.msc : s' = present_event_notify(a, e.id, m, d)
    BY <2>0
  <2> DEFINE u == present_event_notify(a, e.id, m, d)
  <2>2. Sound(u, {}, 0, {}, {}) /\ LeftInv(u, 0, {})
    BY <1>2, VblankEventKeeps
  <2>3. s' = u
    BY <2>1
  <2> HIDE DEF u
  <2> QED BY <2>2, <2>3, <1>3
<1>6. CASE FlipEvent(d)
  <2>1. PICK i \in t.flipped :
           s' = present_event_notify([t EXCEPT !.flipped = @ \ {i}], i, t.msc, d)
    BY <1>1, <1>6 DEF FlipEvent
  <2> DEFINE u == present_event_notify([t EXCEPT !.flipped = @ \ {i}], i, t.msc, d)
  <2>2. Sound(u, {}, 0, {}, {}) /\ LeftInv(u, 0, {})
    BY <1>2, FlipEventKeeps
  <2>3. s' = u
    BY <2>1
  <2> HIDE DEF u
  <2> QED BY <2>2, <2>3, <1>3
<1>7. CASE \E w \in Windows \cup {None} : Reconfigure(w, d)
  <2>0. PICK w \in Windows \cup {None} : \E ws \in SetToSeqs({t.full, w} \ {None}) :
           s' = CheckAll(Cover(t, w), ws, d)
    BY <1>1, <1>7 DEF Reconfigure
  <2>1. PICK ws \in SetToSeqs({t.full, w} \ {None}) : s' = CheckAll(Cover(t, w), ws, d)
    BY <2>0
  <2> DEFINE u == CheckAll(Cover(t, w), ws, d)
  <2>2. Sound(u, {}, 0, {}, {}) /\ LeftInv(u, 0, {})
    BY <1>2, ReconfigureKeeps
  <2>3. s' = u
    BY <2>1
  <2> HIDE DEF u
  <2> QED BY <2>2, <2>3, <1>3
<1>8. CASE present_check_flips(d)
  <2>1. PICK ws \in SetToSeqs(t.alive) : s' = CheckAll(t, ws, d)
    BY <1>1, <1>8 DEF present_check_flips
  <2> DEFINE u == CheckAll(t, ws, d)
  <2>2. Sound(u, {}, 0, {}, {}) /\ LeftInv(u, 0, {})
    BY <1>2, CheckFlipsKeeps
  <2>3. s' = u
    BY <2>1
  <2> HIDE DEF u
  <2> QED BY <2>2, <2>3, <1>3
<1>9. CASE \E w \in Windows, x \in Windows \cup {None} : present_destroy_window(w, x, d)
  <2>1. PICK w \in Windows, x \in Windows \cup {None} : present_destroy_window(w, x, d)
    BY <1>9
  <2>2. PICK told, a, b, u :
           /\ told = IF t.full # w THEN << >> ELSE IF x = None THEN <<w>> ELSE <<w, x>>
           /\ a = CheckAll(Cover(t, x), told, d)
           /\ b = present_scmd_clear_window_flip(present_free_window_vblank(a, w), w)
           /\ u = [b EXCEPT !.alive = @ \ {w}, !.pixmapOf[w] = Screen]
    OBVIOUS
  <2>3. /\ w \in t.alive /\ s' = u
        /\ IF t.full = w THEN x \in {None} \cup (t.alive \ {w}) ELSE x = t.full
    BY <2>1, <2>2, <1>1 DEF present_destroy_window
  <2>4. Sound(u, {}, 0, {}, {}) /\ LeftInv(u, 0, {})
    BY <2>2, <2>3, <1>2, DestroyWindowKeeps
  <2> QED BY <2>3, <2>4, <1>3
<1> QED BY <1>4, <1>5, <1>6, <1>7, <1>8, <1>9

LEMMA FencesKeep ==
    ASSUME Inv, firing = 0, NEW i \in Ids, miSyncTriggerFence(i) \/ miSyncDestroyFence(i)
    PROVE  Inv'
<1>1. PICK t : t = s
  OBVIOUS
<1>2. Sound(t, {}, 0, {}, {}) /\ LeftInv(t, 0, {})
  BY <1>1 DEF Inv
<1>3. i \in 0 .. MaxPresents /\ 0 \in 0 .. MaxPresents
  BY Constants
<1>4. CASE miSyncTriggerFence(i)
  <2> DEFINE u == [t EXCEPT !.fence[i] = "set"]
  <2>1. t.fence[i] = "unset" /\ s' = u /\ firing' = i
    BY <1>1, <1>4 DEF miSyncTriggerFence
  <2>2. Sound(u, {}, i, {}, {}) /\ LeftInv(u, i, {})
    BY <2>1, <1>2, FenceKeeps
  <2> HIDE DEF u
  <2> QED BY <2>1, <2>2, <1>3, Arrives
<1>5. CASE miSyncDestroyFence(i)
  <2> DEFINE u == [t EXCEPT !.fence[i] = "gone"]
  <2>1. t.fence[i] = "unset" /\ s' = u /\ firing' = 0
    BY <1>1, <1>5 DEF miSyncDestroyFence
  <2>2. Sound(u, {}, 0, {}, {}) /\ LeftInv(u, 0, {})
    BY <2>1, <1>2, FenceKeeps
  <2> HIDE DEF u
  <2> QED BY <2>1, <2>2, <1>3, Arrives
<1> QED BY <1>4, <1>5

LEMMA NextKeeps ==
    ASSUME Inv, [Next]_vars
    PROVE  Inv'
<1>1. CASE Hardware
  BY <1>1, HardwareKeeps
<1>2. CASE Fire
  BY <1>2, FireKeeps
<1>3. CASE \E d \in Drivers :
              \/ \E r \in Requests : Serve(present_scmd_pixmap(r, d))
              \/ Serve(VblankEvent(d))
              \/ Serve(FlipEvent(d))
              \/ \E w \in Windows \cup {None} : Serve(Reconfigure(w, d))
              \/ Serve(present_check_flips(d))
              \/ \E w \in Windows, x \in Windows \cup {None} :
                    Serve(present_destroy_window(w, x, d))
  <2>1. PICK d \in Drivers :
              \/ \E r \in Requests : Serve(present_scmd_pixmap(r, d))
              \/ Serve(VblankEvent(d))
              \/ Serve(FlipEvent(d))
              \/ \E w \in Windows \cup {None} : Serve(Reconfigure(w, d))
              \/ Serve(present_check_flips(d))
              \/ \E w \in Windows, x \in Windows \cup {None} :
                    Serve(present_destroy_window(w, x, d))
    BY <1>3
  <2>2. /\ firing = 0 /\ firing' = firing
        /\ \/ \E r \in Requests : present_scmd_pixmap(r, d)
           \/ VblankEvent(d)
           \/ FlipEvent(d)
           \/ \E w \in Windows \cup {None} : Reconfigure(w, d)
           \/ present_check_flips(d)
           \/ \E w \in Windows, x \in Windows \cup {None} : present_destroy_window(w, x, d)
    BY <2>1, Zenon DEF Serve
  <2> QED BY <2>2, ServeKeeps
<1>4. CASE \E i \in Ids : firing = 0 /\ (miSyncTriggerFence(i) \/ miSyncDestroyFence(i))
  BY <1>4, FencesKeep
<1>5. CASE UNCHANGED vars
  BY <1>5 DEF vars, Inv, Sound, QueueInv, FlipInv, PixmapInv, TimeInv, ExecInv, CoverInv,
              LeftInv, LeftIn
<1> QED BY <1>1, <1>2, <1>3, <1>4, <1>5 DEF Next

\* What the extension, the driver and the clients hold agrees, in every state and for
\* every number of windows, requests and frames, whatever the driver answers
\* (present_execute, present_event_notify).
THEOREM PresentInvariant == Spec => []Inv
<1>1. Init => Inv
  BY InitSound
<1>2. Inv /\ [Next]_vars => Inv'
  BY NextKeeps
<1> QED BY <1>1, <1>2, PTL DEF Spec

\* With drivers that queue the events that flips for a later frame wait for, no frame's
\* event is ever taken for the end of a flip (present_event_notify).
THEOREM NeverMistaken == ASSUME QueueHolds PROVE Spec => []~s.mistaken
<1>1. Inv => ~s.mistaken
  BY DEF Inv, Sound, TimeInv
<1> QED BY <1>1, PresentInvariant, PTL

\* The pixmap that the display will show, and the pixmaps that windows draw into, are not
\* given back to the client; nor is the one that the display shows, unless a frame's event
\* was taken for the end of a flip (present_flip_idle, present_set_tree_pixmap).
THEOREM ShownStaysHeld == Spec => []ShownIsHeld
<1>1. Inv => ShownIsHeld
  <2> SUFFICES ASSUME Inv PROVE ShownIsHeld
    OBVIOUS
  <2>1. /\ QueueInv(s, {}) /\ FlipInv(s) /\ PixmapInv(s) /\ s \in State
    BY DEF Inv, Sound, QueueInv
  <2>2. s.pending # 0 => s.pending \in Ids /\ s.pending \notin s.released
    BY <2>1, StateType DEF FlipInv
  <2>3. s.flip # 0 => s.flip # s.pending
    BY <2>1 DEF FlipInv
  <2>4. s.shown \in {Screen} \cup ({s.flip, s.pending} \ {0}) \/ s.mistaken
    BY <2>1 DEF PixmapInv, Screen
  <2>5. ({s.flip, s.pending} \ {0}) \cap s.released = {}
    BY <2>1, <2>2 DEF FlipInv
  <2>6. \A w \in s.alive \cup {Root} :
           s.pixmapOf[w] \in {Screen} \cup ({s.flip, s.pending} \ {0})
    BY <2>1 DEF PixmapInv, Current, Screen
  <2> QED BY <2>3, <2>4, <2>5, <2>6 DEF ShownIsHeld
<1> QED BY <1>1, PresentInvariant, PTL

\* The driver works on the flip or unflip that the extension waits for, and on another
\* one only if a frame's event was taken for its end, when its request is over.  The
\* assertions hold, and nothing is completed or released twice (present_flip_notify,
\* present_unflip, present_vblank_notify).
THEOREM FlipsAreTracked == Spec => []FlipIsTracked
<1>1. Inv => FlipIsTracked
  <2> SUFFICES ASSUME Inv PROVE FlipIsTracked
    OBVIOUS
  <2> DEFINE awaited == ({s.pending} \ {0}) \cup (IF s.unflip THEN {Unflip} ELSE {})
             strays  == (s.flipping \cup s.flipped) \ awaited
  <2>1. /\ QueueInv(s, {}) /\ FlipInv(s) /\ s \in State /\ TypeOK
    BY DEF Inv, Sound, QueueInv, TypeOK
  <2>2. s.pending \in Ids \cup {0}
    BY <2>1, StateType
  <2>3. awaited \subseteq s.flipping \cup s.flipped
    BY <2>1 DEF FlipInv
  <2>4. ASSUME NEW i \in strays
        PROVE  s.mistaken /\ i # Unflip /\ ~s.vblank[i].live
    <3>1. i # s.pending \/ i = 0
      OBVIOUS
    <3>2. s.mistaken /\ i \in Ids /\ ~s.vblank[i].queued
      BY <2>1, <2>4 DEF FlipInv
    <3>3. i # Unflip /\ i # s.pending
      BY <3>1, <3>2, Constants DEF Unflip
    <3>4. Placed(s, {}, i)
      BY <2>1, <3>2 DEF QueueInv
    <3>5. ~s.vblank[i].live
      BY <3>2, <3>3, <3>4 DEF Placed
    <3> QED BY <3>2, <3>3, <3>5
  <2>5. s.pending # 0 => s.pending \in Range(s.flips) /\ ~s.vblank[s.pending].queued
    <3>1. s.pending # 0 => Placed(s, {}, s.pending) /\ s.pending \in Flips(s)
      BY <2>1, <2>2 DEF QueueInv, FlipInv
    <3> QED BY <3>1 DEF Placed, Flips
  <2>6. s.wrong = {} /\ s.flipping \cap s.flipped = {} /\ ~(s.unflip /\ s.pending # 0)
    BY <2>1 DEF FlipInv
  <2> HIDE DEF awaited, strays
  <2>7. (strays # {} => s.mistaken) /\ \A i \in strays : i # Unflip /\ ~s.vblank[i].live
    BY <2>4
  <2> QED BY <2>1, <2>3, <2>5, <2>6, <2>7, Zenon DEF FlipIsTracked, awaited, strays
<1> QED BY <1>1, PresentInvariant, PTL

\* A window that does not cover the screen is not shown in its place, but for a flip
\* started before the change was checked (present_check_flip_window).
THEOREM OnlyFullScreenFlips == Spec => []FlipsAreFullScreen
<1>1. Inv => FlipsAreFullScreen
  <2> SUFFICES ASSUME Inv PROVE FlipsAreFullScreen
    OBVIOUS
  <2>1. CoverInv(s, {}) /\ s.alive \subseteq Windows
    BY StateType DEF Inv, Sound, QueueInv
  <2>2. None \notin s.alive
    BY <2>1, Constants
  <2> QED BY <2>1, <2>2 DEF FlipsAreFullScreen, CoverInv
<1> QED BY <1>1, PresentInvariant, PTL

\* Every request that is not complete is on one queue and has something to wait for: its
\* frame, its fence, or a flip.  The exceptions are the requests whose fence was destroyed
\* and the flips that present_flip_try_ready leaves behind, which are on the list of a
\* living window (present_execute, miSyncTriggerFence).
THEOREM NobodyGetsForgotten == Spec => []NobodyIsForgotten
<1>1. Inv => NobodyIsForgotten
  <2> SUFFICES ASSUME Inv, NEW i \in Ids, s.vblank[i].live
               PROVE  LET v == s.vblank[i] IN
                      /\ (i \in s.exec) # (i \in Range(s.flips))
                      /\ i # s.pending => v.window \in s.alive /\ i \in Range(s.list[v.window])
                      /\ \/ \E e \in s.armed : e.id = i
                         \/ firing = i
                         \/ i \in s.exec /\ v.callback /\ s.fence[i] = "unset"
                         \/ i \notin s.exec /\ (s.pending # 0 \/ s.unflip \/ i \in s.left)
                         \/ Abandoned(i)
    BY DEF NobodyIsForgotten
  <2>1. /\ Placed(s, {}, i) /\ ExecInv(s, firing, {}) /\ LeftInv(s, firing, {})
        /\ s.alive \subseteq Windows
    BY StateType DEF Inv, Sound, QueueInv
  <2>2. (i \in s.exec \/ i \in Flips(s)) /\ ~(i \in s.exec /\ i \in Flips(s))
    BY <2>1 DEF Placed
  <2>3. (i \in s.exec) # (i \in Range(s.flips))
    BY <2>2 DEF Flips
  <2>4. i # s.pending =>
           /\ s.vblank[i].window \in s.alive
           /\ i \in Range(s.list[s.vblank[i].window])
    BY <2>1, <2>2 DEF Placed
  <2>5. CASE i \in s.exec
    <3>1. \/ HasEvent(s, i) \/ firing = i
          \/ s.vblank[i].callback /\ s.fence[i] \in {"unset", "gone"}
      BY <2>1, <2>5 DEF ExecInv
    <3> QED BY <3>1, <2>3, <2>4, <2>5 DEF HasEvent, Abandoned
  <2>6. CASE i \notin s.exec
    <3>1. \/ HasEvent(s, i) \/ firing = i
          \/ s.pending # 0 \/ s.unflip \/ i \in s.left
      BY <2>1, <2>2, <2>6 DEF LeftInv, LeftIn
    <3> QED BY <3>1, <2>3, <2>4, <2>6 DEF HasEvent
  <2> QED BY <2>5, <2>6
<1> QED BY <1>1, PresentInvariant, PTL
=============================================================================
