-------------------------- MODULE InputThreadProofs --------------------------
(***************************************************************************)
(* Proofs about os/inputthread.c: for any set of descriptors and any       *)
(* number of calls, the input thread's poll set follows the device list    *)
(* that the main thread edits, and no device is read once it was           *)
(* unregistered.                                                           *)
(***************************************************************************)
EXTENDS InputThread, NaturalsInduction, WellFoundedInduction, SequenceTheorems,
        FiniteSetTheorems, TLAPS

-----------------------------------------------------------------------------
(* Least and greatest elements.                                            *)

LEMMA Bounds ==
    /\ MaxCalls \in Nat \ {0} /\ MaxInput \in Nat \ {0}
    /\ NotifySize \in Nat \ {0} /\ ReadMax \in Nat \ {0}
BY BoundsAssumption

LEMMA LeastNat ==
    ASSUME NEW S \in SUBSET Nat, S # {}
    PROVE  \E x \in S : \A y \in S : x <= y
<1> DEFINE R == OpToRel(<, Nat)
<1>1. IsWellFoundedOn(R, Nat)
  BY NatLessThanWellFounded
<1>2. \A x, y \in Nat : ~(<<y, x>> \in R) => x <= y
  BY DEF OpToRel
<1> HIDE DEF R
<1>3. \E x \in S : \A y \in S : ~(<<y, x>> \in R)
  BY <1>1, WFMin
<1> QED BY <1>2, <1>3

LEMMA MinFacts ==
    ASSUME NEW S \in SUBSET Nat, S # {}
    PROVE  Min(S) \in S /\ \A y \in S : Min(S) <= y
BY LeastNat DEF Min

\* The greatest index is the least one counted from the end.
LEMMA MaxFacts ==
    ASSUME NEW n \in Nat, NEW S \in SUBSET (1 .. n), S # {}
    PROVE  Max(S) \in S /\ \A y \in S : Max(S) >= y
<1> DEFINE T == {k \in Nat : k <= n /\ n - k \in S}
<1>1. T # {}
  <2>1. PICK x \in S : TRUE
    OBVIOUS
  <2>2. n - x \in Nat /\ n - x <= n /\ n - (n - x) = x
    OBVIOUS
  <2>3. n - x \in T
    BY <2>2
  <2> QED BY <2>3
<1>2. PICK k \in T : \A l \in T : k <= l
  BY <1>1, LeastNat
<1>3. n - k \in S /\ k \in Nat
  BY <1>2
<1>4. ASSUME NEW y \in S PROVE n - k >= y
  <2>1. n - y \in Nat /\ n - y <= n /\ n - (n - y) = y
    OBVIOUS
  <2>2. n - y \in T
    BY <2>1
  <2>3. k <= n - y
    BY <1>2, <2>2
  <2> QED BY <2>3, <1>3
<1>5. \E x \in S : \A y \in S : x >= y
  BY <1>3, <1>4
<1> QED BY <1>5 DEF Max

-----------------------------------------------------------------------------
(* The pass over the list.                                                 *)

Runs(e) == [e EXCEPT !.state = "running"]

\* The pass leaves r of the first n entries of s: every entry that is not
\* removed, in the same order.
KeptOf(r, s, n) ==
    /\ r \in Seq(Entry) /\ Len(r) <= n
    /\ \A i \in 1 .. Len(r) :
          \E k \in 1 .. n : s[k].state # "removed" /\ r[i] = Runs(s[k])
    /\ \A k \in 1 .. n : s[k].state # "removed" => \E i \in 1 .. Len(r) : r[i] = Runs(s[k])
    /\ \A i, j \in 1 .. Len(r) : i < j =>
          \E k, l \in 1 .. n : /\ k < l
                               /\ s[k].state # "removed" /\ r[i] = Runs(s[k])
                               /\ s[l].state # "removed" /\ r[j] = Runs(s[l])

LEMMA RunsType ==
    ASSUME NEW e \in Entry
    PROVE  /\ Runs(e) \in Entry /\ Runs(e).state = "running"
           /\ Runs(e).fd = e.fd /\ Runs(e).ptr = e.ptr
BY DEF Runs, Entry

\* One round of the loop.
LEMMA PassStep ==
    ASSUME NEW s \in Seq(Entry), NEW n \in 1 .. Len(s), NEW r, KeptOf(r, s, n - 1)
    PROVE  KeptOf(IF s[n].state = "removed" THEN r ELSE Append(r, Runs(s[n])), s, n)
<1>0. s[n] \in Entry /\ n \in Nat /\ n - 1 \in Nat /\ n - 1 <= n
  OBVIOUS
<1>1. CASE s[n].state = "removed"
  <2>1. \A k \in 1 .. n : s[k].state # "removed" => k \in 1 .. n - 1
    BY <1>0, <1>1
  <2>2. \A k \in 1 .. n - 1 : k \in 1 .. n
    BY <1>0
  <2>3. r \in Seq(Entry) /\ Len(r) <= n
    BY <1>0 DEF KeptOf
  <2>4. \A i \in 1 .. Len(r) :
           \E k \in 1 .. n : s[k].state # "removed" /\ r[i] = Runs(s[k])
    BY <2>2 DEF KeptOf
  <2>5. \A k \in 1 .. n : s[k].state # "removed" => \E i \in 1 .. Len(r) : r[i] = Runs(s[k])
    BY <2>1 DEF KeptOf
  <2>6. \A i, j \in 1 .. Len(r) : i < j =>
          \E k, l \in 1 .. n : /\ k < l
                               /\ s[k].state # "removed" /\ r[i] = Runs(s[k])
                               /\ s[l].state # "removed" /\ r[j] = Runs(s[l])
    BY <2>2 DEF KeptOf
  <2> QED BY <1>1, <2>3, <2>4, <2>5, <2>6 DEF KeptOf
<1>2. CASE s[n].state # "removed"
  <2> DEFINE q == Append(r, Runs(s[n]))
  <2>1. r \in Seq(Entry) /\ Len(r) \in Nat /\ Len(r) <= n - 1 /\ Runs(s[n]) \in Entry
    BY <1>0, RunsType DEF KeptOf
  <2>2. /\ q \in Seq(Entry) /\ Len(q) = Len(r) + 1
        /\ \A i \in 1 .. Len(r) : q[i] = r[i]
        /\ q[Len(r) + 1] = Runs(s[n])
    BY <2>1
  <2> HIDE DEF q
  <2>3. Len(q) <= n
    BY <1>0, <2>1, <2>2
  <2>4. ASSUME NEW i \in 1 .. Len(q)
        PROVE  \E k \in 1 .. n : /\ s[k].state # "removed" /\ q[i] = Runs(s[k])
                                 /\ i <= Len(r) => k < n
    <3>1. CASE i <= Len(r)
      <4>1. i \in 1 .. Len(r)
        BY <3>1, <2>1
      <4>2. PICK k \in 1 .. n - 1 : s[k].state # "removed" /\ r[i] = Runs(s[k])
        BY <4>1 DEF KeptOf
      <4>3. k \in 1 .. n /\ k < n
        BY <1>0
      <4> QED BY <4>1, <4>2, <4>3, <2>2
    <3>2. CASE ~(i <= Len(r))
      <4>1. i = Len(r) + 1
        BY <3>2, <2>1, <2>2
      <4> QED BY <3>2, <4>1, <2>2, <1>0, <1>2
    <3> QED BY <3>1, <3>2
  <2>5. ASSUME NEW k \in 1 .. n, s[k].state # "removed"
        PROVE  \E i \in 1 .. Len(q) : q[i] = Runs(s[k])
    <3>1. CASE k = n
      <4>1. Len(r) + 1 \in 1 .. Len(q)
        BY <2>1, <2>2
      <4> QED BY <3>1, <4>1, <2>2
    <3>2. CASE k # n
      <4>1. k \in 1 .. n - 1
        BY <3>2, <1>0
      <4>2. PICK i \in 1 .. Len(r) : r[i] = Runs(s[k])
        BY <4>1, <2>5 DEF KeptOf
      <4>3. i \in 1 .. Len(q)
        BY <2>1, <2>2
      <4> QED BY <4>2, <4>3, <2>2
    <3> QED BY <3>1, <3>2
  <2>6. ASSUME NEW i \in 1 .. Len(q), NEW j \in 1 .. Len(q), i < j
        PROVE  \E k, l \in 1 .. n : /\ k < l
                                    /\ s[k].state # "removed" /\ q[i] = Runs(s[k])
                                    /\ s[l].state # "removed" /\ q[j] = Runs(s[l])
    <3>1. CASE j <= Len(r)
      <4>1. i \in 1 .. Len(r) /\ j \in 1 .. Len(r)
        BY <3>1, <2>1, <2>6
      <4>2. PICK k, l \in 1 .. n - 1 : /\ k < l
                                       /\ s[k].state # "removed" /\ r[i] = Runs(s[k])
                                       /\ s[l].state # "removed" /\ r[j] = Runs(s[l])
        BY <4>1, <2>6 DEF KeptOf
      <4>3. k \in 1 .. n /\ l \in 1 .. n
        BY <1>0
      <4> QED BY <4>1, <4>2, <4>3, <2>2
    <3>2. CASE ~(j <= Len(r))
      <4>1. j = Len(r) + 1 /\ i <= Len(r)
        BY <3>2, <2>1, <2>2, <2>6
      <4>2. PICK k \in 1 .. n : s[k].state # "removed" /\ q[i] = Runs(s[k]) /\ k < n
        BY <2>4, <4>1
      <4>3. q[j] = Runs(s[n]) /\ n \in 1 .. n
        BY <4>1, <2>2, <1>0
      <4> QED BY <4>2, <4>3, <1>2
    <3> QED BY <3>1, <3>2
  <2>7. KeptOf(q, s, n)
    BY <2>2, <2>3, <2>4, <2>5, <2>6 DEF KeptOf
  <2> QED BY <1>2, <2>7 DEF q
<1> QED BY <1>1, <1>2

\* What the pass makes of its result so far, g, at entry n of s.
Round(g, s, n) ==
    IF n = 0 THEN << >>
    ELSE IF s[n].state = "removed" THEN g[n - 1]
    ELSE Append(g[n - 1], Runs(s[n]))

\* The function that the loop computes exists, by taking the least number of
\* rounds for which it would not.
LEMMA PassExists ==
    ASSUME NEW s \in Seq(Entry)
    PROVE  \E g : g = [n \in 0 .. Len(s) |-> Round(g, s, n)]
<1> DEFINE Good(m) == \E g : g = [n \in 0 .. m |-> Round(g, s, n)]
           Bad == {m \in 0 .. Len(s) : ~Good(m)}
<1>0. Len(s) \in Nat
  OBVIOUS
<1> SUFFICES ASSUME Bad # {} PROVE FALSE
  <2>1. Len(s) \notin Bad => Good(Len(s))
    BY <1>0
  <2> QED BY <2>1
<1>1. Bad \in SUBSET Nat
  BY <1>0
<1>2. PICK m \in Bad : \A k \in Bad : m <= k
  <2> HIDE DEF Bad
  <2> QED BY <1>1, LeastNat
<1>3. m \in 0 .. Len(s) /\ ~Good(m)
  OBVIOUS
<1>4. CASE m = 0
  <2> DEFINE g == [n \in 0 .. 0 |-> << >>]
  <2>1. g = [n \in 0 .. 0 |-> Round(g, s, n)]
    BY DEF Round
  <2> QED BY <2>1, <1>3, <1>4
<1>5. CASE m # 0
  <2>1. m - 1 \in 0 .. Len(s) /\ ~(m <= m - 1) /\ m \in Nat
    BY <1>0, <1>3, <1>5
  <2>2. Good(m - 1)
    BY <2>1, <1>2
  <2>3. PICK g : g = [n \in 0 .. m - 1 |-> Round(g, s, n)]
    BY <2>2
  <2> DEFINE h == [n \in 0 .. m |-> IF n = m THEN Round(g, s, m) ELSE g[n]]
  <2>4. ASSUME NEW n \in 0 .. m PROVE h[n] = Round(h, s, n)
    <3>1. CASE n = m
      <4>1. h[m - 1] = g[m - 1]
        BY <2>1
      <4>2. h[n] = Round(g, s, m)
        BY <3>1
      <4> HIDE DEF h
      <4> QED BY <3>1, <4>1, <4>2 DEF Round
    <3>2. CASE n # m
      <4>1. n \in 0 .. m - 1 /\ h[n] = g[n]
        BY <3>2, <2>1
      <4>2. g[n] = Round(g, s, n)
        BY <4>1, <2>3
      <4>3. n # 0 => h[n - 1] = g[n - 1]
        BY <4>1, <2>1
      <4> HIDE DEF h
      <4> QED BY <4>1, <4>2, <4>3 DEF Round
    <3> QED BY <3>1, <3>2
  <2>5. h = [n \in 0 .. m |-> Round(h, s, n)]
    <3>1. h = [n \in 0 .. m |-> h[n]]
      OBVIOUS
    <3> HIDE DEF h
    <3> QED BY <3>1, <2>4
  <2> HIDE DEF h
  <2> QED BY <2>5, <1>3
<1> QED BY <1>4, <1>5

LEMMA PassKeeps ==
    ASSUME NEW s \in Seq(Entry), NEW g, g = [n \in 0 .. Len(s) |-> Round(g, s, n)]
    PROVE  KeptOf(g[Len(s)], s, Len(s))
<1> DEFINE Bad == {n \in 0 .. Len(s) : ~KeptOf(g[n], s, n)}
<1>0. Len(s) \in Nat
  OBVIOUS
<1> SUFFICES ASSUME Bad # {} PROVE FALSE
  BY <1>0
<1>1. Bad \in SUBSET Nat
  BY <1>0
<1>2. PICK m \in Bad : \A k \in Bad : m <= k
  <2> HIDE DEF Bad
  <2> QED BY <1>1, LeastNat
<1>3. m \in 0 .. Len(s) /\ ~KeptOf(g[m], s, m) /\ g[m] = Round(g, s, m)
  OBVIOUS
<1>4. CASE m = 0
  <2>1. g[0] = << >>
    BY <1>3, <1>4 DEF Round
  <2>2. KeptOf(<< >>, s, 0)
    <3>1. << >> \in Seq(Entry) /\ Len(<< >>) = 0
      OBVIOUS
    <3>2. 1 .. 0 = {}
      OBVIOUS
    <3> QED BY <3>1, <3>2 DEF KeptOf
  <2> QED BY <2>1, <2>2, <1>3, <1>4
<1>5. CASE m # 0
  <2>1. m \in 1 .. Len(s) /\ m - 1 \in 0 .. Len(s) /\ ~(m <= m - 1)
    BY <1>0, <1>3, <1>5
  <2>2. KeptOf(g[m - 1], s, m - 1)
    BY <2>1, <1>2
  <2>3. KeptOf(IF s[m].state = "removed" THEN g[m - 1] ELSE Append(g[m - 1], Runs(s[m])), s, m)
    BY <2>1, <2>2, PassStep
  <2> QED BY <2>3, <1>3, <1>5 DEF Round
<1> QED BY <1>4, <1>5

LEMMA AppliedFacts ==
    ASSUME NEW s \in Seq(Entry)
    PROVE  KeptOf(Applied(s), s, Len(s))
<1> DEFINE g == CHOOSE g : g = [n \in 0 .. Len(s) |-> Round(g, s, n)]
<1>1. g = [n \in 0 .. Len(s) |-> Round(g, s, n)]
  BY PassExists
<1>2. Applied(s) = g[Len(s)]
  BY DEF Applied, Round, Runs
<1> HIDE DEF g
<1> QED BY <1>1, <1>2, PassKeeps

-----------------------------------------------------------------------------
(* The inductive invariant.                                                *)

Live(f) == \E i \in 1 .. Len(devs) : devs[i].fd = f /\ devs[i].state # "removed"

\* Addresses are unique; of the entries with the same descriptor all but the
\* last are being removed, and that one is new.
ListInv ==
    \A i, j \in 1 .. Len(devs) : i < j =>
       /\ devs[i].ptr # devs[j].ptr
       /\ devs[i].fd = devs[j].fd =>
             devs[i].state = "removed" /\ devs[j].state # "running"

\* What the ospoll leads to is in the list, and what runs is polled.
PollInv ==
    /\ \A f \in Fds : polled[f] # NoEntry =>
          \E i \in 1 .. Len(devs) : devs[i].ptr = polled[f] /\ devs[i].fd = f
    /\ \A i \in 1 .. Len(devs) :
          devs[i].state = "running" => polled[devs[i].fd] = devs[i].ptr

\* The list says what was registered; without a pending change all of it runs.
UserInv ==
    /\ \A f \in Fds : Live(f) <=> f \in registered \cup missed
    /\ ~changed => \A i \in 1 .. Len(devs) : devs[i].state = "running"

\* Each call adds at most one entry and one byte.
CallsInv ==
    /\ Len(devs) <= calls
    /\ hotplug <= calls
    /\ mpc = "wake" => hotplug < calls

ThreadInv == TypeOK /\ ListInv /\ PollInv /\ UserInv /\ CallsInv

LEMMA EntryFacts ==
    ASSUME TypeOK, NEW i \in 1 .. Len(devs)
    PROVE  /\ devs[i] \in Entry /\ devs[i].fd \in Fds
           /\ devs[i].state \in {"added", "running", "removed"}
           /\ devs[i].ptr \in 1 .. MaxCalls
           /\ devs[i].ptr # NoEntry
<1>1. devs[i] \in Entry
  BY DEF TypeOK
<1>2. /\ devs[i].fd \in Fds
      /\ devs[i].state \in {"added", "running", "removed"}
      /\ devs[i].ptr \in 1 .. MaxCalls
  BY <1>1 DEF Entry
<1>3. devs[i].ptr # NoEntry
  BY <1>2, Bounds DEF NoEntry
<1> QED BY <1>1, <1>2, <1>3

\* There are more addresses than entries.
LEMMA FreshExists ==
    ASSUME ThreadInv, calls < MaxCalls
    PROVE  /\ FreshPtr \in 1 .. MaxCalls
           /\ \A i \in 1 .. Len(devs) : devs[i].ptr # FreshPtr
<1>1. devs \in Seq(Entry) /\ Len(devs) \in Nat /\ Len(devs) < MaxCalls
  <2>1. devs \in Seq(Entry) /\ calls \in 0 .. MaxCalls /\ Len(devs) <= calls
    BY DEF ThreadInv, TypeOK, CallsInv
  <2> QED BY <2>1, Bounds
<1> SUFFICES \E p \in 1 .. MaxCalls : \A i \in 1 .. Len(devs) : devs[i].ptr # p
  BY DEF FreshPtr
<1> SUFFICES ASSUME \A p \in 1 .. MaxCalls : \E i \in 1 .. Len(devs) : devs[i].ptr = p
             PROVE  FALSE
  OBVIOUS
<1> DEFINE I == 1 .. Len(devs)
           P == {devs[i].ptr : i \in I}
           g == [i \in I |-> devs[i].ptr]
<1>2. IsFiniteSet(I) /\ Cardinality(I) = Len(devs)
  <2>1. IsFiniteSet(1 .. Len(devs)) /\
        Cardinality(1 .. Len(devs)) = IF 1 > Len(devs) THEN 0 ELSE Len(devs) - 1 + 1
    BY <1>1, FS_Interval
  <2> QED BY <2>1, <1>1
<1>3. g \in Surjection(I, P)
  BY DEF Surjection
<1>4. IsFiniteSet(P) /\ Cardinality(P) <= Cardinality(I)
  <2> HIDE DEF I, P, g
  <2> QED BY <1>2, <1>3, FS_Surjection
<1>5. 1 .. MaxCalls \in SUBSET P
  OBVIOUS
<1>6. IsFiniteSet(1 .. MaxCalls) /\ Cardinality(1 .. MaxCalls) = MaxCalls
  <2>1. IsFiniteSet(1 .. MaxCalls) /\
        Cardinality(1 .. MaxCalls) = IF 1 > MaxCalls THEN 0 ELSE MaxCalls - 1 + 1
    BY Bounds, FS_Interval
  <2> QED BY <2>1, Bounds
<1>7. Cardinality(1 .. MaxCalls) <= Cardinality(P)
  <2> HIDE DEF P
  <2> QED BY <1>4, <1>5, FS_Subset
<1>8. Cardinality(P) \in Nat
  <2> HIDE DEF P
  <2> QED BY <1>4, FS_CardinalityType
<1> HIDE DEF P, I
<1> QED BY <1>1, <1>2, <1>4, <1>6, <1>7, <1>8, Bounds

LEMMA InitHolds == Init => ThreadInv
<1> SUFFICES ASSUME Init PROVE ThreadInv
  OBVIOUS
<1>1. devs = << >> /\ Len(devs) = 0 /\ devs \in Seq(Entry)
  BY DEF Init
<1>2. TypeOK
  <2>1. 0 \in 0 .. MaxCalls /\ 0 \in 0 .. NotifySize /\ 0 \in 0 .. MaxInput
    BY Bounds
  <2> QED BY <1>1, <2>1 DEF Init, TypeOK, NoEntry
<1>3. ListInv /\ CallsInv
  BY <1>1 DEF Init, ListInv, CallsInv
<1>4. PollInv
  BY <1>1 DEF Init, PollInv
<1>5. UserInv
  BY <1>1 DEF Init, UserInv, Live
<1> QED BY <1>2, <1>3, <1>4, <1>5 DEF ThreadInv

-----------------------------------------------------------------------------
(* Steps that leave the list and the ospoll alone.                         *)

LEMMA QuietHolds ==
    ASSUME ThreadInv, TypeOK', CallsInv',
           UNCHANGED <<devs, polled, registered, missed, changed>>
    PROVE  ThreadInv'
<1>1. ListInv'
  BY DEF ThreadInv, ListInv
<1>2. PollInv'
  BY DEF ThreadInv, PollInv
<1>3. UserInv'
  BY DEF ThreadInv, UserInv, Live
<1> QED BY <1>1, <1>2, <1>3 DEF ThreadInv

LEMMA UnregisterUnknownHolds ==
    ASSUME ThreadInv, NEW f \in Fds, UnregisterUnknown(f) PROVE ThreadInv'
<1>1. UNCHANGED <<devs, polled, registered, missed, changed>>
  BY DEF UnregisterUnknown, threadVars, userVars
<1>2. calls \in 0 .. MaxCalls /\ calls' = calls + 1 /\ calls < MaxCalls
  BY DEF UnregisterUnknown, ThreadInv, TypeOK
<1>3. calls' \in 0 .. MaxCalls
  BY <1>2, Bounds
<1>4. TypeOK'
  BY <1>1, <1>3 DEF UnregisterUnknown, threadVars, pipeVars, userVars, ThreadInv, TypeOK
<1>5. CallsInv'
  <2>1. devs \in Seq(Entry) /\ hotplug \in 0 .. MaxCalls
    BY DEF ThreadInv, TypeOK
  <2>2. Len(devs) \in Nat /\ Len(devs) <= calls /\ hotplug <= calls /\ mpc = "run"
    BY <2>1 DEF ThreadInv, CallsInv, UnregisterUnknown
  <2>3. devs' = devs /\ hotplug' = hotplug /\ mpc' = "run"
    BY <2>2 DEF UnregisterUnknown, pipeVars
  <2>4. Len(devs) <= calls + 1 /\ hotplug <= calls + 1
    BY <1>2, <2>1, <2>2, Bounds
  <2> QED BY <1>2, <2>3, <2>4 DEF CallsInv
<1> QED BY <1>1, <1>4, <1>5, QuietHolds

LEMMA ArriveHolds ==
    ASSUME ThreadInv, NEW f \in Fds, Arrive(f) PROVE ThreadInv'
<1>1. UNCHANGED <<devs, polled, registered, missed, changed>>
  BY DEF Arrive, threadVars, userVars
<1>2. inputs' \in [Fds -> 0 .. MaxInput]
  <2>1. inputs \in [Fds -> 0 .. MaxInput] /\ inputs[f] < MaxInput
    BY DEF ThreadInv, TypeOK, Arrive
  <2>2. inputs[f] + 1 \in 0 .. MaxInput
    BY <2>1, Bounds
  <2> QED BY <2>1, <2>2 DEF Arrive
<1>3. TypeOK'
  BY <1>1, <1>2 DEF Arrive, threadVars, pipeVars, userVars, ThreadInv, TypeOK
<1>4. CallsInv'
  BY <1>1 DEF Arrive, pipeVars, ThreadInv, CallsInv
<1> QED BY <1>1, <1>3, <1>4, QuietHolds

LEMMA WakeThreadHolds ==
    ASSUME ThreadInv, WakeThread PROVE ThreadInv'
<1>1. UNCHANGED <<devs, polled, registered, missed, changed>>
  BY DEF WakeThread, threadVars, userVars
<1>2. /\ hotplug \in 0 .. MaxCalls /\ calls \in 0 .. MaxCalls /\ hotplug < calls
      /\ hotplug' = hotplug + 1 /\ calls' = calls /\ mpc' = "run"
  BY DEF WakeThread, envVars, ThreadInv, TypeOK, CallsInv
<1>3. hotplug' \in 0 .. MaxCalls /\ hotplug' <= calls'
  BY <1>2, Bounds
<1>4. TypeOK'
  BY <1>1, <1>2, <1>3 DEF WakeThread, threadVars, userVars, envVars, ThreadInv, TypeOK
<1>5. CallsInv'
  BY <1>1, <1>2, <1>3 DEF ThreadInv, CallsInv
<1> QED BY <1>1, <1>4, <1>5, QuietHolds

LEMMA DrainNotifyHolds ==
    ASSUME ThreadInv, DrainNotify PROVE ThreadInv'
<1>1. UNCHANGED <<devs, polled, registered, missed, changed>>
  BY DEF DrainNotify, threadVars, userVars
<1>2. notify' \in 0 .. NotifySize
  <2>1. notify \in 0 .. NotifySize
    BY DEF ThreadInv, TypeOK
  <2> QED BY <2>1, Bounds DEF DrainNotify
<1>3. TypeOK'
  BY <1>1, <1>2 DEF DrainNotify, threadVars, userVars, envVars, ThreadInv, TypeOK
<1>4. CallsInv'
  BY <1>1 DEF DrainNotify, envVars, ThreadInv, CallsInv
<1> QED BY <1>1, <1>3, <1>4, QuietHolds

LEMMA FiniHolds ==
    ASSUME ThreadInv, InputThreadFini PROVE ThreadInv'
<1>1. UNCHANGED <<devs, polled, registered, missed, changed>>
  BY DEF InputThreadFini, threadVars, userVars
<1>2. TypeOK'
  BY <1>1 DEF InputThreadFini, threadVars, userVars, envVars, ThreadInv, TypeOK
<1>3. CallsInv'
  BY <1>1 DEF InputThreadFini, envVars, ThreadInv, CallsInv
<1> QED BY <1>1, <1>2, <1>3, QuietHolds

LEMMA StartThreadHolds ==
    ASSUME ThreadInv, StartThread PROVE ThreadInv'
<1>1. UNCHANGED <<devs, polled, registered, missed, changed>>
  BY DEF StartThread, userVars
<1>2. TypeOK'
  BY <1>1 DEF StartThread, pipeVars, userVars, envVars, ThreadInv, TypeOK
<1>3. CallsInv'
  BY <1>1 DEF StartThread, pipeVars, envVars, ThreadInv, CallsInv
<1> QED BY <1>1, <1>2, <1>3, QuietHolds

LEMMA CheckChangedHolds ==
    ASSUME ThreadInv, CheckChanged PROVE ThreadInv'
<1>1. UNCHANGED <<devs, polled, registered, missed, changed>>
  BY DEF CheckChanged, userVars
<1>2. tpc' \in {"start", "check", "apply", "wait", "callbacks", "exit"}
  BY DEF CheckChanged
<1>3. TypeOK'
  BY <1>1, <1>2 DEF CheckChanged, pipeVars, userVars, envVars, ThreadInv, TypeOK
<1>4. CallsInv'
  BY <1>1 DEF CheckChanged, pipeVars, envVars, ThreadInv, CallsInv
<1> QED BY <1>1, <1>3, <1>4, QuietHolds

LEMMA WaitHolds ==
    ASSUME ThreadInv, Wait PROVE ThreadInv'
<1>1. UNCHANGED <<devs, polled, registered, missed, changed>>
  BY DEF Wait, userVars
<1>2. fired' \subseteq Fds \cup {HotplugFd}
  BY DEF Wait, Readable
<1>3. TypeOK'
  BY <1>1, <1>2 DEF Wait, pipeVars, userVars, envVars, ThreadInv, TypeOK
<1>4. CallsInv'
  BY <1>1 DEF Wait, pipeVars, envVars, ThreadInv, CallsInv
<1> QED BY <1>1, <1>3, <1>4, QuietHolds

LEMMA InputReadyHolds ==
    ASSUME ThreadInv, NEW f \in Fds, InputReady(f) PROVE ThreadInv'
<1>1. UNCHANGED <<devs, polled, registered, missed, changed>>
  BY DEF InputReady, userVars
<1>2. ready' \subseteq Fds /\ fired' \subseteq Fds \cup {HotplugFd}
  BY DEF InputReady, ThreadInv, TypeOK
<1>3. TypeOK'
  BY <1>1, <1>2 DEF InputReady, pipeVars, userVars, ThreadInv, TypeOK
<1>4. CallsInv'
  BY <1>1 DEF InputReady, pipeVars, ThreadInv, CallsInv
<1> QED BY <1>1, <1>3, <1>4, QuietHolds

LEMMA PipeNotifyHolds ==
    ASSUME ThreadInv, InputThreadPipeNotify PROVE ThreadInv'
<1>1. UNCHANGED <<devs, polled, registered, missed, changed>>
  BY DEF InputThreadPipeNotify, userVars
<1>2. hotplug \in 0 .. MaxCalls /\ calls \in 0 .. MaxCalls
  BY DEF ThreadInv, TypeOK
<1>3. hotplug' \in 0 .. MaxCalls /\ hotplug' <= hotplug
  BY <1>2, Bounds DEF InputThreadPipeNotify
<1>4. running' \in BOOLEAN /\ fired' \subseteq Fds \cup {HotplugFd}
  BY DEF InputThreadPipeNotify, ThreadInv, TypeOK
<1>5. TypeOK'
  BY <1>1, <1>3, <1>4 DEF InputThreadPipeNotify, userVars, envVars, ThreadInv, TypeOK
<1>6. calls' = calls /\ mpc' = mpc /\ devs' = devs
  BY DEF InputThreadPipeNotify, envVars
<1>7. hotplug' <= calls /\ (mpc = "wake" => hotplug' < calls)
  BY <1>2, <1>3, Bounds DEF ThreadInv, CallsInv
<1>8. CallsInv'
  BY <1>6, <1>7 DEF ThreadInv, CallsInv
<1> QED BY <1>1, <1>5, <1>8, QuietHolds

LEMMA NotifyMainHolds ==
    ASSUME ThreadInv, NotifyMain PROVE ThreadInv'
<1>1. UNCHANGED <<devs, polled, registered, missed, changed>>
  BY DEF NotifyMain, userVars
<1>2. notify' \in 0 .. NotifySize
  <2>1. notify \in 0 .. NotifySize
    BY DEF ThreadInv, TypeOK
  <2> QED BY <2>1, Bounds DEF NotifyMain
<1>3. TypeOK'
  BY <1>1, <1>2 DEF NotifyMain, userVars, envVars, ThreadInv, TypeOK
<1>4. CallsInv'
  BY <1>1 DEF NotifyMain, envVars, ThreadInv, CallsInv
<1> QED BY <1>1, <1>3, <1>4, QuietHolds

LEMMA JoinHolds ==
    ASSUME ThreadInv, Join PROVE ThreadInv'
<1>1. /\ devs' = << >> /\ Len(devs') = 0 /\ devs' \in Seq(Entry)
      /\ polled' = [f \in Fds |-> NoEntry] /\ registered' = {} /\ missed' = {}
  BY DEF Join
<1>2. 0 \in 0 .. MaxCalls /\ polled' \in [Fds -> 0 .. MaxCalls]
  BY <1>1, Bounds DEF NoEntry
<1>3. TypeOK'
  BY <1>1, <1>2 DEF Join, pipeVars, envVars, ThreadInv, TypeOK
<1>4. ListInv'
  BY <1>1 DEF ListInv
<1>5. PollInv'
  BY <1>1 DEF PollInv
<1>6. UserInv'
  BY <1>1 DEF UserInv, Live
<1>7. CallsInv'
  <2>1. calls' \in 0 .. MaxCalls /\ hotplug' = hotplug /\ calls' = calls /\ mpc' = "done"
    BY <1>3 DEF TypeOK, Join, pipeVars, envVars
  <2>2. 0 <= calls'
    BY <2>1, Bounds
  <2> QED BY <1>1, <2>1, <2>2 DEF ThreadInv, CallsInv
<1> QED BY <1>3, <1>4, <1>5, <1>6, <1>7 DEF ThreadInv

-----------------------------------------------------------------------------
(* The calls of the main thread.                                           *)

\* What every call that changes the list does besides.
LEMMA CallFacts ==
    ASSUME ThreadInv, CallDone, calls < MaxCalls, changed' = TRUE,
           devs' \in Seq(Entry), Len(devs') <= Len(devs) + 1,
           registered' \subseteq Fds, missed' \subseteq Fds \ registered'
    PROVE  /\ TypeOK' /\ CallsInv' /\ polled' = polled
<1>1. polled' = polled /\ hotplug' = hotplug /\ mpc' = "wake" /\ calls' = calls + 1
  BY DEF CallDone, threadVars, pipeVars
<1>2. /\ calls \in 0 .. MaxCalls /\ hotplug \in 0 .. MaxCalls /\ Len(devs) \in Nat
      /\ Len(devs) <= calls /\ hotplug <= calls /\ Len(devs') \in Nat
  BY DEF ThreadInv, TypeOK, CallsInv
<1>3. calls' \in 0 .. MaxCalls /\ Len(devs') <= calls' /\ hotplug <= calls' /\ hotplug < calls'
  BY <1>1, <1>2, Bounds
<1>4. TypeOK'
  BY <1>1, <1>3 DEF CallDone, threadVars, pipeVars, ThreadInv, TypeOK
<1>5. CallsInv'
  BY <1>1, <1>3 DEF CallsInv
<1> QED BY <1>1, <1>4, <1>5

LEMMA RegisterHolds ==
    ASSUME ThreadInv, NEW f \in Fds, InputThreadRegisterDev(f) PROVE ThreadInv'
<1>1. /\ devs \in Seq(Entry) /\ Len(devs) \in Nat /\ TypeOK
      /\ registered \subseteq Fds /\ missed \subseteq Fds \ registered
  BY DEF ThreadInv, TypeOK
<1>2. /\ registered' = registered \cup {f} /\ missed' = missed \ {f}
      /\ changed' = TRUE /\ CallDone /\ calls < MaxCalls
  BY DEF InputThreadRegisterDev
<1>3. registered' \subseteq Fds /\ missed' \subseteq Fds \ registered'
  BY <1>1, <1>2
<1>4. CASE \E i \in 1 .. Len(devs) : Reusable(devs[i], f)
  <2>1. devs' = devs
    BY <1>4 DEF InputThreadRegisterDev
  <2>2. Len(devs') <= Len(devs) + 1
    BY <1>1, <2>1
  <2>3. TypeOK' /\ CallsInv' /\ polled' = polled
    BY <1>1, <1>2, <1>3, <2>1, <2>2, CallFacts
  <2>4. ListInv' /\ PollInv'
    BY <2>1, <2>3 DEF ThreadInv, ListInv, PollInv
  <2>5. UserInv'
    <3>1. \A g \in Fds : Live(g)' <=> Live(g)
      BY <2>1 DEF Live
    <3>2. Live(f)
      BY <1>4 DEF Live, Reusable
    <3>3. \A g \in Fds : g # f => (g \in registered' \cup missed' <=> g \in registered \cup missed)
      BY <1>2
    <3>4. \A g \in Fds : Live(g)' <=> g \in registered' \cup missed'
      BY <3>1, <3>2, <3>3, <1>2 DEF ThreadInv, UserInv
    <3> QED BY <3>4, <1>2 DEF UserInv
  <2> QED BY <2>3, <2>4, <2>5 DEF ThreadInv
<1>5. CASE ~\E i \in 1 .. Len(devs) : Reusable(devs[i], f)
  <2> DEFINE n == Len(devs)
             e == NewEntry(f)
  <2>1. devs' = Append(devs, e)
    BY <1>5 DEF InputThreadRegisterDev, AddEntry
  <2>2. /\ FreshPtr \in 1 .. MaxCalls
        /\ \A i \in 1 .. Len(devs) : devs[i].ptr # FreshPtr
    BY <1>2, FreshExists
  <2>3. e \in Entry /\ e.fd = f /\ e.state = "added" /\ e.ptr = FreshPtr
    BY <2>2 DEF NewEntry, Entry
  <2> HIDE DEF e
  <2>4. /\ devs' \in Seq(Entry) /\ Len(devs') = n + 1
        /\ \A i \in 1 .. n : devs'[i] = devs[i]
        /\ devs'[n + 1] = e
    BY <1>1, <2>1, <2>3
  <2>5. TypeOK' /\ CallsInv' /\ polled' = polled
    <3>1. Len(devs') <= Len(devs) + 1
      BY <1>1, <2>4
    <3> QED BY <1>1, <1>2, <1>3, <2>4, <3>1, CallFacts
  <2>6. \A i \in 1 .. n + 1 : i \in 1 .. n \/ i = n + 1
    BY <1>1
  <2>7. \A i \in 1 .. n : devs[i].fd = f => devs[i].state = "removed"
    BY <1>5 DEF Reusable
  <2>8. ListInv'
    <3>1. ASSUME NEW i \in 1 .. n + 1, NEW j \in 1 .. n + 1, i < j
          PROVE  /\ devs'[i].ptr # devs'[j].ptr
                 /\ devs'[i].fd = devs'[j].fd =>
                       devs'[i].state = "removed" /\ devs'[j].state # "running"
      <4>1. i \in 1 .. n
        BY <1>1, <3>1
      <4>2. CASE j \in 1 .. n
        BY <2>4, <3>1, <4>1, <4>2 DEF ThreadInv, ListInv
      <4>3. CASE j = n + 1
        BY <2>2, <2>3, <2>4, <2>7, <4>1, <4>3
      <4> QED BY <2>6, <4>2, <4>3
    <3> QED BY <2>4, <3>1 DEF ListInv
  <2>9. PollInv'
    <3>1. ASSUME NEW g \in Fds, polled[g] # NoEntry
          PROVE  \E i \in 1 .. n + 1 : devs'[i].ptr = polled[g] /\ devs'[i].fd = g
      <4>1. PICK i \in 1 .. n : devs[i].ptr = polled[g] /\ devs[i].fd = g
        BY <3>1 DEF ThreadInv, PollInv
      <4>2. i \in 1 .. n + 1
        BY <1>1
      <4> QED BY <2>4, <4>1, <4>2
    <3>2. ASSUME NEW i \in 1 .. n + 1, devs'[i].state = "running"
          PROVE  polled[devs'[i].fd] = devs'[i].ptr
      <4>1. i # n + 1
        BY <2>3, <2>4, <3>2
      <4>2. i \in 1 .. n
        BY <2>6, <4>1
      <4> QED BY <2>4, <3>2, <4>2 DEF ThreadInv, PollInv
    <3> QED BY <2>4, <2>5, <3>1, <3>2 DEF PollInv
  <2>10. UserInv'
    <3>1. Live(f)'
      <4>1. n + 1 \in 1 .. n + 1
        BY <1>1
      <4> QED BY <2>3, <2>4, <4>1 DEF Live
    <3>2. ASSUME NEW g \in Fds, g # f PROVE Live(g)' <=> Live(g)
      <4>1. Live(g) => Live(g)'
        <5>1. \A i \in 1 .. n : i \in 1 .. n + 1
          BY <1>1
        <5> QED BY <2>4, <5>1 DEF Live
      <4>2. Live(g)' => Live(g)
        BY <2>3, <2>4, <2>6, <3>2 DEF Live
      <4> QED BY <4>1, <4>2
    <3>3. \A g \in Fds : g # f => (g \in registered' \cup missed' <=> g \in registered \cup missed)
      BY <1>2
    <3>4. \A g \in Fds : Live(g)' <=> g \in registered' \cup missed'
      BY <3>1, <3>2, <3>3, <1>2 DEF ThreadInv, UserInv
    <3> QED BY <3>4, <1>2 DEF UserInv
  <2> QED BY <2>5, <2>8, <2>9, <2>10 DEF ThreadInv
<1> QED BY <1>4, <1>5

LEMMA UnregisterHolds ==
    ASSUME ThreadInv, NEW f \in Fds, InputThreadUnregisterDev(f) PROVE ThreadInv'
<1> DEFINE found == {i \in 1 .. Len(devs) : devs[i].fd = f}
           m == Min(found)
<1>1. /\ devs \in Seq(Entry) /\ Len(devs) \in Nat /\ TypeOK
      /\ registered \subseteq Fds /\ missed \subseteq Fds \ registered
  BY DEF ThreadInv, TypeOK
<1>2. /\ found # {} /\ devs' = [devs EXCEPT ![m].state = "removed"]
      /\ changed' = TRUE /\ registered' = registered \ {f} /\ CallDone
      /\ calls < MaxCalls
      /\ missed' = IF devs[m].state = "removed" /\ \E i \in found : devs[i].state # "removed"
                   THEN missed \cup {f} ELSE missed \ {f}
  BY DEF InputThreadUnregisterDev
<1>3. m \in found /\ \A i \in found : m <= i
  <2>1. found \in SUBSET Nat
    BY <1>1
  <2> HIDE DEF found
  <2> QED BY <1>2, <2>1, MinFacts
<1> HIDE DEF m
<1>4. m \in 1 .. Len(devs) /\ devs[m].fd = f
  BY <1>3
<1>5. /\ \A i \in 1 .. Len(devs) : devs[i].fd = f => m <= i
      /\ (\E i \in found : devs[i].state # "removed") <=> Live(f)
  BY <1>3 DEF Live
<1> HIDE DEF found
<1>6. devs[m] \in Entry
  BY <1>1, <1>4
<1>7. /\ devs' \in Seq(Entry) /\ Len(devs') = Len(devs)
      /\ \A i \in 1 .. Len(devs) : i # m => devs'[i] = devs[i]
      /\ devs'[m].fd = f /\ devs'[m].ptr = devs[m].ptr /\ devs'[m].state = "removed"
  <2>1. devs' = [devs EXCEPT ![m] = [devs[m] EXCEPT !.state = "removed"]]
    BY <1>1, <1>2, <1>4
  <2>2. /\ [devs[m] EXCEPT !.state = "removed"] \in Entry
        /\ [devs[m] EXCEPT !.state = "removed"].fd = devs[m].fd
        /\ [devs[m] EXCEPT !.state = "removed"].ptr = devs[m].ptr
        /\ [devs[m] EXCEPT !.state = "removed"].state = "removed"
    BY <1>6 DEF Entry
  <2> QED BY <1>1, <1>4, <2>1, <2>2
<1>8. registered' \subseteq Fds /\ missed' \subseteq Fds \ registered'
  BY <1>1, <1>2
<1>9. TypeOK' /\ CallsInv' /\ polled' = polled
  <2>1. Len(devs') <= Len(devs) + 1
    BY <1>1, <1>7
  <2> QED BY <1>2, <1>7, <1>8, <2>1, CallFacts
<1>10. \A i \in 1 .. Len(devs) :
          /\ devs'[i].fd = devs[i].fd /\ devs'[i].ptr = devs[i].ptr
          /\ devs'[i].state = devs[i].state \/ devs'[i].state = "removed"
  BY <1>4, <1>7
<1>11. ListInv'
  <2>1. ASSUME NEW i \in 1 .. Len(devs), NEW j \in 1 .. Len(devs), i < j
        PROVE  /\ devs'[i].ptr # devs'[j].ptr
               /\ devs'[i].fd = devs'[j].fd =>
                     devs'[i].state = "removed" /\ devs'[j].state # "running"
    <3>1. /\ devs[i].ptr # devs[j].ptr
          /\ devs[i].fd = devs[j].fd =>
                devs[i].state = "removed" /\ devs[j].state # "running"
      BY <2>1 DEF ThreadInv, ListInv
    <3> QED BY <1>10, <3>1
  <2> QED BY <1>7, <2>1 DEF ListInv
<1>12. PollInv'
  <2>1. ASSUME NEW g \in Fds, polled[g] # NoEntry
        PROVE  \E i \in 1 .. Len(devs) : devs'[i].ptr = polled[g] /\ devs'[i].fd = g
    <3>1. PICK i \in 1 .. Len(devs) : devs[i].ptr = polled[g] /\ devs[i].fd = g
      BY <2>1 DEF ThreadInv, PollInv
    <3> QED BY <1>10, <3>1
  <2>2. ASSUME NEW i \in 1 .. Len(devs), devs'[i].state = "running"
        PROVE  polled[devs'[i].fd] = devs'[i].ptr
    BY <1>10, <2>2 DEF ThreadInv, PollInv
  <2> QED BY <1>7, <1>9, <2>1, <2>2 DEF PollInv
<1>13. UserInv'
  <2>1. ASSUME NEW g \in Fds, g # f PROVE Live(g)' <=> Live(g)
    <3>1. \A i \in 1 .. Len(devs) : devs[i].fd = g => i # m
      BY <1>4, <2>1
    <3>2. \A i \in 1 .. Len(devs) : devs'[i].fd = g => i # m
      BY <1>7, <2>1
    <3> QED BY <1>7, <3>1, <3>2 DEF Live
  <2>2. \A g \in Fds : g # f => (g \in registered' \cup missed' <=> g \in registered \cup missed)
    BY <1>2
  <2>3. Live(f)' <=> f \in registered' \cup missed'
    <3>1. CASE devs[m].state = "removed"
      <4>1. Live(f)' <=> Live(f)
        <5>1. Live(f) => Live(f)'
          BY <1>7, <3>1 DEF Live
        <5>2. Live(f)' => Live(f)
          BY <1>4, <1>7 DEF Live
        <5> QED BY <5>1, <5>2
      <4>2. f \in registered' \cup missed' <=> Live(f)
        BY <1>2, <1>5, <3>1
      <4> QED BY <4>1, <4>2
    <3>2. CASE devs[m].state # "removed"
      <4>1. ASSUME Live(f)' PROVE FALSE
        <5>1. PICK i \in 1 .. Len(devs) : devs'[i].fd = f /\ devs'[i].state # "removed"
          BY <1>7, <4>1 DEF Live
        <5>2. i # m /\ devs[i].fd = f
          BY <1>7, <5>1
        <5>3. m < i
          BY <1>1, <1>4, <1>5, <5>2
        <5> QED BY <1>4, <3>2, <5>2, <5>3 DEF ThreadInv, ListInv
      <4>2. f \notin registered' \cup missed'
        BY <1>2, <3>2
      <4> QED BY <4>1, <4>2
    <3> QED BY <3>1, <3>2
  <2>4. \A g \in Fds : Live(g)' <=> g \in registered' \cup missed'
    BY <2>1, <2>2, <2>3 DEF ThreadInv, UserInv
  <2> QED BY <2>4, <1>2 DEF UserInv
<1> QED BY <1>9, <1>11, <1>12, <1>13 DEF ThreadInv

-----------------------------------------------------------------------------
(* The pass of the input thread.                                           *)

\* What the last change to a descriptor is: an entry that was added is the
\* only one that is left; after a removal there is none.
LEMMA LastChangeFacts ==
    ASSUME ThreadInv, NEW f \in Fds
    PROVE  \/ /\ LastChange(f) = 0
              /\ \A i \in 1 .. Len(devs) : devs[i].fd = f => devs[i].state = "running"
           \/ /\ LastChange(f) \in 1 .. Len(devs) /\ LastChange(f) # 0
              /\ devs[LastChange(f)].fd = f
              /\ devs[LastChange(f)].state # "running"
              /\ \A i \in 1 .. Len(devs) : devs[i].fd = f =>
                    i = LastChange(f) \/ devs[i].state = "removed"
<1> DEFINE s == {i \in 1 .. Len(devs) : devs[i].fd = f /\ devs[i].state # "running"}
           m == LastChange(f)
<1>0. devs \in Seq(Entry) /\ Len(devs) \in Nat
  BY DEF ThreadInv, TypeOK
<1>1. CASE s = {}
  BY <1>1 DEF LastChange
<1>2. CASE s # {}
  <2>1. m = Max(s)
    BY <1>2 DEF LastChange
  <2>2. Max(s) \in s /\ \A i \in s : Max(s) >= i
    <3>1. s \in SUBSET (1 .. Len(devs))
      OBVIOUS
    <3> HIDE DEF s
    <3> QED BY <1>0, <1>2, <3>1, MaxFacts
  <2> HIDE DEF m
  <2>3. /\ m \in 1 .. Len(devs) /\ devs[m].fd = f /\ devs[m].state # "running"
        /\ \A i \in 1 .. Len(devs) :
              devs[i].fd = f /\ devs[i].state # "running" => m >= i
    BY <2>1, <2>2
  <2>4. m # 0
    BY <1>0, <2>3
  <2>5. ASSUME NEW i \in 1 .. Len(devs), devs[i].fd = f, i # m
        PROVE  devs[i].state = "removed"
    <3>1. CASE i < m
      BY <2>3, <2>5, <3>1 DEF ThreadInv, ListInv
    <3>2. CASE m < i
      <4>1. devs[i].state # "running"
        BY <2>3, <2>5, <3>2 DEF ThreadInv, ListInv
      <4> QED BY <1>0, <2>3, <2>5, <3>2, <4>1
    <3> QED BY <1>0, <2>3, <2>5, <3>1, <3>2
  <2> QED BY <2>3, <2>4, <2>5 DEF m
<1> QED BY <1>1, <1>2

LEMMA ApplyChangesHolds ==
    ASSUME ThreadInv, ApplyChanges PROVE ThreadInv'
<1> DEFINE n == Len(devs)
<1>1. devs \in Seq(Entry) /\ n \in Nat /\ TypeOK /\ polled \in [Fds -> 0 .. MaxCalls]
  BY DEF ThreadInv, TypeOK
<1>2. KeptOf(devs', devs, n)
  BY <1>1, AppliedFacts DEF ApplyChanges
<1>3. /\ devs' \in Seq(Entry) /\ Len(devs') \in Nat /\ Len(devs') <= n
  BY <1>2 DEF KeptOf
<1>4. \A k \in 1 .. n : /\ Runs(devs[k]).state = "running"
                        /\ Runs(devs[k]).fd = devs[k].fd
                        /\ Runs(devs[k]).ptr = devs[k].ptr
  BY <1>1, EntryFacts, RunsType
<1>5. ASSUME NEW i \in 1 .. Len(devs')
      PROVE  /\ devs'[i].state = "running"
             /\ \E k \in 1 .. n : /\ devs[k].state # "removed"
                                  /\ devs'[i].fd = devs[k].fd
                                  /\ devs'[i].ptr = devs[k].ptr
  <2>1. PICK k \in 1 .. n : devs[k].state # "removed" /\ devs'[i] = Runs(devs[k])
    BY <1>2 DEF KeptOf
  <2> QED BY <1>4, <2>1
<1>6. ASSUME NEW k \in 1 .. n, devs[k].state # "removed"
      PROVE  \E i \in 1 .. Len(devs') : devs'[i].fd = devs[k].fd /\ devs'[i].ptr = devs[k].ptr
  <2>1. PICK i \in 1 .. Len(devs') : devs'[i] = Runs(devs[k])
    BY <1>2, <1>6 DEF KeptOf
  <2> QED BY <1>4, <2>1
<1>7. polled' = [f \in Fds |->
                   IF LastChange(f) = 0 THEN polled[f]
                   ELSE IF devs[LastChange(f)].state = "added" THEN devs[LastChange(f)].ptr
                   ELSE NoEntry]
  BY DEF ApplyChanges
<1>8. polled' \in [Fds -> 0 .. MaxCalls]
  <2>1. ASSUME NEW f \in Fds
        PROVE  (IF LastChange(f) = 0 THEN polled[f]
                ELSE IF devs[LastChange(f)].state = "added" THEN devs[LastChange(f)].ptr
                ELSE NoEntry) \in 0 .. MaxCalls
    <3>1. CASE LastChange(f) = 0
      BY <1>1, <3>1
    <3>2. CASE LastChange(f) # 0
      <4>1. LastChange(f) \in 1 .. n
        BY <3>2, LastChangeFacts
      <4>2. devs[LastChange(f)].ptr \in 1 .. MaxCalls
        BY <1>1, <4>1, EntryFacts
      <4>3. devs[LastChange(f)].ptr \in 0 .. MaxCalls /\ NoEntry \in 0 .. MaxCalls
        BY <4>2, Bounds DEF NoEntry
      <4> QED BY <3>2, <4>3
    <3> QED BY <3>1, <3>2
  <2> QED BY <1>7, <2>1
<1>9. TypeOK'
  BY <1>1, <1>3, <1>8 DEF ApplyChanges, pipeVars, userVars, envVars, TypeOK
<1>10. CallsInv'
  <2>1. /\ calls' = calls /\ hotplug' = hotplug /\ mpc' = mpc
        /\ calls \in 0 .. MaxCalls /\ n <= calls
    BY DEF ApplyChanges, pipeVars, envVars, ThreadInv, TypeOK, CallsInv
  <2>2. Len(devs') <= calls
    BY <1>1, <1>3, <2>1, Bounds
  <2> QED BY <2>1, <2>2 DEF ThreadInv, CallsInv
<1>11. ListInv'
  <2>1. ASSUME NEW i \in 1 .. Len(devs'), NEW j \in 1 .. Len(devs'), i < j
        PROVE  devs'[i].ptr # devs'[j].ptr /\ devs'[i].fd # devs'[j].fd
    <3>1. PICK k, l \in 1 .. n : /\ k < l
                                 /\ devs[k].state # "removed" /\ devs'[i] = Runs(devs[k])
                                 /\ devs[l].state # "removed" /\ devs'[j] = Runs(devs[l])
      BY <1>2, <2>1 DEF KeptOf
    <3>2. devs[k].ptr # devs[l].ptr /\ devs[k].fd # devs[l].fd
      BY <3>1 DEF ThreadInv, ListInv
    <3> QED BY <1>4, <3>1, <3>2
  <2> QED BY <2>1 DEF ListInv
\* The live entry of a descriptor is the one the ospoll leads to afterwards.
<1>12. ASSUME NEW k \in 1 .. n, devs[k].state # "removed"
       PROVE  polled'[devs[k].fd] = devs[k].ptr
  <2> DEFINE f == devs[k].fd
  <2>1. f \in Fds /\ devs[k].state \in {"added", "running", "removed"}
    BY <1>1, EntryFacts
  <2>2. CASE LastChange(f) = 0
    <3>1. devs[k].state = "running"
      BY <2>1, <2>2, LastChangeFacts
    <3>2. polled[f] = devs[k].ptr
      BY <3>1 DEF ThreadInv, PollInv
    <3> QED BY <1>7, <2>1, <2>2, <3>2
  <2>3. CASE LastChange(f) # 0
    <3>1. k = LastChange(f) /\ devs[k].state # "running"
      BY <1>12, <2>1, <2>3, LastChangeFacts
    <3>2. devs[k].state = "added"
      BY <1>12, <2>1, <3>1
    <3> QED BY <1>7, <2>1, <2>3, <3>1, <3>2
  <2> QED BY <2>2, <2>3
<1>13. ASSUME NEW f \in Fds, polled'[f] # NoEntry
       PROVE  \E k \in 1 .. n : /\ devs[k].state # "removed"
                                /\ devs[k].fd = f /\ devs[k].ptr = polled'[f]
  <2>1. CASE LastChange(f) = 0
    <3>1. polled'[f] = polled[f]
      BY <1>7, <2>1
    <3>2. PICK k \in 1 .. n : devs[k].ptr = polled[f] /\ devs[k].fd = f
      BY <1>13, <3>1 DEF ThreadInv, PollInv
    <3>3. devs[k].state = "running"
      BY <2>1, <3>2, LastChangeFacts
    <3> QED BY <3>1, <3>2, <3>3
  <2>2. CASE LastChange(f) # 0
    <3>1. LastChange(f) \in 1 .. n /\ devs[LastChange(f)].fd = f
      BY <2>2, LastChangeFacts
    <3>2. devs[LastChange(f)].state = "added" /\ polled'[f] = devs[LastChange(f)].ptr
      BY <1>7, <1>13, <2>2
    <3> QED BY <3>1, <3>2
  <2> QED BY <2>1, <2>2
<1>14. PollInv'
  <2>1. ASSUME NEW f \in Fds, polled'[f] # NoEntry
        PROVE  \E i \in 1 .. Len(devs') : devs'[i].ptr = polled'[f] /\ devs'[i].fd = f
    BY <1>6, <1>13, <2>1
  <2>2. ASSUME NEW i \in 1 .. Len(devs') PROVE polled'[devs'[i].fd] = devs'[i].ptr
    BY <1>5, <1>12
  <2> QED BY <2>1, <2>2 DEF PollInv
<1>15. UserInv'
  <2>1. ASSUME NEW f \in Fds PROVE Live(f)' <=> Live(f)
    <3>1. Live(f) => Live(f)'
      <4> SUFFICES ASSUME Live(f) PROVE Live(f)'
        OBVIOUS
      <4>1. PICK k \in 1 .. n : devs[k].fd = f /\ devs[k].state # "removed"
        BY DEF Live
      <4>2. PICK i \in 1 .. Len(devs') : devs'[i].fd = devs[k].fd
        BY <1>6, <4>1
      <4>3. devs'[i].state # "removed"
        BY <1>5
      <4> QED BY <4>1, <4>2, <4>3 DEF Live
    <3>2. Live(f)' => Live(f)
      BY <1>5 DEF Live
    <3> QED BY <3>1, <3>2
  <2>2. registered' = registered /\ missed' = missed
    BY DEF ApplyChanges, userVars
  <2>3. \A f \in Fds : Live(f)' <=> f \in registered' \cup missed'
    BY <2>1, <2>2 DEF ThreadInv, UserInv
  <2>4. \A i \in 1 .. Len(devs') : devs'[i].state = "running"
    BY <1>5
  <2> QED BY <2>3, <2>4 DEF UserInv
<1> QED BY <1>9, <1>10, <1>11, <1>14, <1>15 DEF ThreadInv

-----------------------------------------------------------------------------
(* The theorems.                                                           *)

LEMMA StutterHolds ==
    ASSUME ThreadInv, UNCHANGED vars PROVE ThreadInv'
<1>1. UNCHANGED <<devs, polled, registered, missed, changed>>
  BY DEF vars, threadVars, userVars
<1>2. TypeOK' /\ CallsInv'
  BY DEF ThreadInv, TypeOK, CallsInv, vars, threadVars, pipeVars, userVars, envVars
<1> QED BY <1>1, <1>2, QuietHolds

LEMMA StepHolds == ThreadInv /\ [Next]_vars => ThreadInv'
<1> SUFFICES ASSUME ThreadInv, [Next]_vars PROVE ThreadInv'
  OBVIOUS
<1>1. ASSUME NEW f \in Fds, InputThreadRegisterDev(f) PROVE ThreadInv'
  BY <1>1, RegisterHolds
<1>2. ASSUME NEW f \in Fds, InputThreadUnregisterDev(f) PROVE ThreadInv'
  BY <1>2, UnregisterHolds
<1>3. ASSUME NEW f \in Fds, UnregisterUnknown(f) PROVE ThreadInv'
  BY <1>3, UnregisterUnknownHolds
<1>4. ASSUME NEW f \in Fds, Arrive(f) PROVE ThreadInv'
  BY <1>4, ArriveHolds
<1>5. CASE MainStep
  BY <1>5, WakeThreadHolds, DrainNotifyHolds, JoinHolds DEF MainStep
<1>6. CASE InputThreadFini
  BY <1>6, FiniHolds
<1>7. CASE ThreadStep
  BY <1>7, StartThreadHolds, CheckChangedHolds, ApplyChangesHolds, WaitHolds,
     InputReadyHolds, PipeNotifyHolds, NotifyMainHolds DEF ThreadStep
<1>8. CASE Finished \/ UNCHANGED vars
  BY <1>8, StutterHolds DEF Finished
<1> QED BY <1>1, <1>2, <1>3, <1>4, <1>5, <1>6, <1>7, <1>8 DEF Next

\* The list, the ospoll, what the main thread asked for and the bytes in the
\* pipes stay consistent, however the two threads interleave.
THEOREM ThreadInvariant == Spec => []ThreadInv
<1>1. Init => ThreadInv
  BY InitHolds
<1>2. ThreadInv /\ [Next]_vars => ThreadInv'
  BY StepHolds
<1> QED BY <1>1, <1>2, PTL DEF Spec

\* The state of the input thread keeps its type; the pipes do not run below
\* empty and an address is free for every entry that is added.
THEOREM ThreadTypes == Spec => []TypeOK
<1>1. ThreadInv => TypeOK
  BY DEF ThreadInv
<1> QED BY <1>1, ThreadInvariant, PTL

\* The input thread polls what is registered: no pointer in the ospoll leads to
\* an entry that was freed, and no change gets lost between the two threads.
THEOREM PollFollowsList == Spec => []PollMatchesList
<1>1. ThreadInv => PollMatchesList
  <2> SUFFICES ASSUME ThreadInv PROVE PollMatchesList
    OBVIOUS
  <2>1. \A f \in Polled : \E i \in 1 .. Len(devs) : devs[i].ptr = polled[f] /\ devs[i].fd = f
    BY DEF ThreadInv, PollInv, Polled
  <2>2. \A i \in 1 .. Len(devs) :
           devs[i].state = "running" => polled[devs[i].fd] = devs[i].ptr
    BY DEF ThreadInv, PollInv
  <2>3. ASSUME ~changed PROVE Polled = registered \cup missed
    <3>1. \A i \in 1 .. Len(devs) : devs[i].state = "running"
      BY <2>3 DEF ThreadInv, UserInv
    <3>2. \A f \in Fds : f \in Polled <=> Live(f)
      <4>1. ASSUME NEW f \in Fds, f \in Polled PROVE Live(f)
        BY <2>1, <3>1, <4>1 DEF Live
      <4>2. ASSUME NEW f \in Fds, Live(f) PROVE f \in Polled
        <5>1. PICK i \in 1 .. Len(devs) : devs[i].fd = f
          BY <4>2 DEF Live
        <5>2. polled[f] = devs[i].ptr /\ devs[i].ptr # NoEntry
          BY <2>2, <3>1, <5>1, EntryFacts DEF ThreadInv
        <5> QED BY <5>2 DEF Polled
      <4> QED BY <4>1, <4>2
    <3>3. registered \subseteq Fds /\ missed \subseteq Fds /\ Polled \subseteq Fds
      BY DEF ThreadInv, TypeOK, Polled
    <3> QED BY <3>2, <3>3 DEF ThreadInv, UserInv
  <2> QED BY <2>1, <2>2, <2>3 DEF PollMatchesList
<1> QED BY <1>1, ThreadInvariant, PTL

\* Once InputThreadUnregisterDev has marked the entry of a device, InputReady
\* does not call its driver, although the wait had already reported it.
THEOREM UnregisteredIsNotRead == Spec => NoReadAfterUnregister
<1>1. ThreadInv /\ [Next]_vars
        => [\A f \in ready \ ready' : f \in registered \cup missed]_vars
  <2> SUFFICES ASSUME ThreadInv, Next, NEW f \in ready \ ready'
               PROVE  f \in registered \cup missed
    OBVIOUS
  <2>1. PICK g \in Fds : InputReady(g)
    BY DEF Next, MainStep, ThreadStep, Finished, vars, InputThreadRegisterDev,
       InputThreadUnregisterDev, UnregisterUnknown, Arrive, CallDone, WakeThread,
       DrainNotify, Join, InputThreadFini, StartThread, CheckChanged, ApplyChanges,
       Wait, InputThreadPipeNotify, NotifyMain, envVars
  <2>2. PICK i \in 1 .. Len(devs) :
           /\ devs[i].ptr = polled[g]
           /\ ready' = IF MayRead(devs[i]) THEN ready \ {g} ELSE ready
    BY <2>1 DEF InputReady
  <2>3. f = g /\ devs[i].state = "running"
    BY <2>2 DEF MayRead
  <2>4. polled[g] # NoEntry
    BY <2>2, EntryFacts DEF ThreadInv
  <2>5. PICK j \in 1 .. Len(devs) : devs[j].ptr = polled[g] /\ devs[j].fd = g
    BY <2>4 DEF ThreadInv, PollInv
  <2>6. i = j
    <3>1. i < j \/ j < i \/ i = j
      BY DEF ThreadInv, TypeOK
    <3> QED BY <2>2, <2>5, <3>1 DEF ThreadInv, ListInv
  <2>7. Live(f)
    BY <2>3, <2>5, <2>6 DEF Live
  <2> QED BY <2>3, <2>7 DEF ThreadInv, UserInv
<1> QED BY <1>1, ThreadInvariant, PTL DEF Spec, NoReadAfterUnregister
=============================================================================
