----------------------------- MODULE LruProofs -----------------------------
(***************************************************************************)
(* Proofs about the cache for any finite sets of callers and keys, any     *)
(* capacities and any names of flights: the list matches the map, every    *)
(* value is reported once, the lookups are counted, and the cache is an    *)
(* LRU cache (LruOrder).                                                   *)
(*                                                                         *)
(* The argument turns on ranks: a function r that says of every key how    *)
(* far from the head it is.  Matched(C, r) says that the links of C and    *)
(* its map are as r has them.  Every operation on the list takes a cache   *)
(* with ranks to one with others; the loops are covered by induction on    *)
(* their rounds.  From the ranks follow the order that the links run       *)
(* through, the pairs the cache holds and the recency LruOrder speaks of.  *)
(***************************************************************************)
EXTENDS Lru, FiniteSetTheorems, FunctionTheorems, WellFoundedInduction, TLAPS

\* None is no value of its own kind in the code: no key, no caller, and nil for a
\* node.  What WithCapacity and Resize let through is a capacity of 0 or more.
Configured ==
  /\ IsFiniteSet(Callers) /\ IsFiniteSet(Keys)
  /\ None \notin Callers \cup Keys \cup Entries
  /\ Capacities \subseteq Nat

Shapes == [items : [Keys -> Entries \cup {None}], next : [Keys -> Links], prev : [Keys -> Links],
           head : Links, tail : Links, size : Nat]

\* r says how far from the head every key is that the list holds, 1 for the head
\* itself, and 0 for every other key.
Injective(r)  == \A j, k \in Keys : r[j] > 0 /\ r[j] = r[k] => j = k
Covers(r, n)  == (\A k \in Keys : r[k] <= n) /\ \A i \in 1 .. n : \E k \in Keys : r[k] = i
Onward(C, r)  == \A k \in Keys : r[k] > 0 =>
                   IF r[k] = C.size THEN C.next[k] = None
                   ELSE C.next[k] \in Keys /\ r[C.next[k]] = r[k] + 1
Back(C, r)    == \A k \in Keys : r[k] > 0 =>
                   IF r[k] = 1 THEN C.prev[k] = None
                   ELSE C.prev[k] \in Keys /\ r[C.prev[k]] = r[k] - 1
Ends(C, r)    == IF C.size = 0 THEN C.head = None /\ C.tail = None
                 ELSE C.head \in Keys /\ C.tail \in Keys /\ r[C.head] = 1 /\ r[C.tail] = C.size
Ranked(C, r)  == /\ C \in Shapes /\ r \in [Keys -> Nat]
                 /\ Injective(r) /\ Covers(r, C.size) /\ Onward(C, r) /\ Back(C, r) /\ Ends(C, r)

Pushed(r, k) == [j \in Keys |-> IF j = k THEN 1 ELSE IF r[j] = 0 THEN 0 ELSE r[j] + 1]
Gap(r, k)   == [j \in Keys |-> IF j = k THEN 0 ELSE IF r[j] > r[k] THEN r[j] - 1 ELSE r[j]]

-----------------------------------------------------------------------------
(* Induction, for loops. *)

\* A set that holds 0, and with every number the next, holds all.
LEMMA Induction ==
  ASSUME NEW S, 0 \in S, \A n \in Nat : n \in S => n + 1 \in S
  PROVE  Nat \subseteq S
<1>. DEFINE R == OpToRel(<, Nat)
            B == Nat \ S
<1>1. SUFFICES ASSUME B # {} PROVE FALSE
  OBVIOUS
<1>2. PICK x \in B : \A y \in B : ~(<<y, x>> \in R)
  <2>1. IsWellFoundedOn(R, Nat) /\ B \subseteq Nat
    BY NatLessThanWellFounded
  <2>. HIDE DEF R, B
  <2>. QED
    BY <1>1, <2>1, WFMin
<1>3. x - 1 \in Nat /\ x = (x - 1) + 1
  OBVIOUS
<1>4. x - 1 \in B
  BY <1>3
<1>5. <<x - 1, x>> \in R
  BY <1>3 DEF OpToRel
<1>. QED
  BY <1>2, <1>4, <1>5

-----------------------------------------------------------------------------
(* The list. *)

\* listPushFront
LEMMA PushFrontRanks ==
  ASSUME Configured, NEW C, NEW r, Ranked(C, r), NEW k \in Keys, r[k] = 0
  PROVE  /\ Ranked(PushFront(C, k), Pushed(r, k))
         /\ PushFront(C, k).items = C.items /\ PushFront(C, k).size = C.size + 1
<1>. DEFINE D == PushFront(C, k)
            q == Pushed(r, k)
<1>1. /\ C \in Shapes /\ r \in [Keys -> Nat] /\ Injective(r) /\ Covers(r, C.size)
      /\ Onward(C, r) /\ Back(C, r) /\ Ends(C, r) /\ C.size \in Nat /\ None \notin Keys
  BY DEF Ranked, Shapes, Configured
<1>2. /\ D.next = [C.next EXCEPT ![k] = C.head]
      /\ D.prev = [j \in Keys |-> IF j = C.head THEN k ELSE IF j = k THEN None ELSE C.prev[j]]
      /\ D.head = k /\ D.tail = (IF C.tail = None THEN k ELSE C.tail)
      /\ D.size = C.size + 1 /\ D.items = C.items
      /\ D \in [items : {D.items}, next : {D.next}, prev : {D.prev}, head : {D.head},
               tail : {D.tail}, size : {D.size}]
  BY <1>1 DEF PushFront, Shapes
<1>. HIDE DEF D
<1>3. D \in Shapes
  BY <1>1, <1>2 DEF Shapes, Links
<1>4. q \in [Keys -> Nat] /\ \A j \in Keys : q[j] = IF j = k THEN 1 ELSE IF r[j] = 0 THEN 0 ELSE r[j] + 1
  BY <1>1 DEF Pushed
<1>. HIDE DEF q
<1>5. Injective(q)
  BY <1>1, <1>4 DEF Injective
<1>6. Covers(q, D.size)
  <2>1. \A j \in Keys : q[j] <= D.size
    BY <1>1, <1>2, <1>4 DEF Covers
  <2>2. ASSUME NEW i \in 1 .. D.size PROVE \E j \in Keys : q[j] = i
    <3>1. CASE i = 1
      BY <1>4, <3>1
    <3>2. CASE i # 1
      <4>1. i - 1 \in 1 .. C.size
        BY <1>1, <1>2, <3>2
      <4>2. PICK j \in Keys : r[j] = i - 1
        BY <1>1, <4>1 DEF Covers
      <4>. QED
        BY <1>1, <1>4, <3>2, <4>2
    <3>. QED
      BY <3>1, <3>2
  <2>. QED
    BY <2>1, <2>2 DEF Covers
<1>7. Onward(D, q)
  BY <1>1, <1>2, <1>4 DEF Onward, Ends, Covers, Shapes
<1>8. Back(D, q)
  BY <1>1, <1>2, <1>4 DEF Back, Ends, Covers, Injective, Shapes
<1>9. Ends(D, q)
  BY <1>1, <1>2, <1>4 DEF Ends
<1>. QED
  BY <1>2, <1>3, <1>4, <1>5, <1>6, <1>7, <1>8, <1>9 DEF Ranked, D, q

\* listRemove
LEMMA UnlinkRanks ==
  ASSUME Configured, NEW C, NEW r, Ranked(C, r), NEW k \in Keys, r[k] > 0
  PROVE  /\ Ranked(Unlink(C, k), Gap(r, k))
         /\ Unlink(C, k).items = C.items /\ Unlink(C, k).size = C.size - 1
<1>. DEFINE D == Unlink(C, k)
            q == Gap(r, k)
<1>1. /\ C \in Shapes /\ r \in [Keys -> Nat] /\ Injective(r) /\ Covers(r, C.size)
      /\ Onward(C, r) /\ Back(C, r) /\ Ends(C, r) /\ C.size \in Nat /\ None \notin Keys
  BY DEF Ranked, Shapes, Configured
<1>2. /\ D.next = [j \in Keys |-> IF j = k THEN None ELSE IF j = C.prev[k] THEN C.next[k] ELSE C.next[j]]
      /\ D.prev = [j \in Keys |-> IF j = k THEN None ELSE IF j = C.next[k] THEN C.prev[k] ELSE C.prev[j]]
      /\ D.head = (IF C.prev[k] = None THEN C.next[k] ELSE C.head)
      /\ D.tail = (IF C.next[k] = None THEN C.prev[k] ELSE C.tail)
      /\ D.size = C.size - 1 /\ D.items = C.items
      /\ D \in [items : {D.items}, next : {D.next}, prev : {D.prev}, head : {D.head},
               tail : {D.tail}, size : {D.size}]
  BY <1>1 DEF Unlink, Shapes
<1>. HIDE DEF D
<1>3. D \in Shapes /\ 1 <= r[k] /\ r[k] <= C.size
  <2>1. 1 <= r[k] /\ r[k] <= C.size
    BY <1>1 DEF Covers
  <2>. QED
    BY <1>1, <1>2, <2>1 DEF Shapes, Links
<1>4. q \in [Keys -> Nat] /\ \A j \in Keys : q[j] = IF j = k THEN 0 ELSE IF r[j] > r[k] THEN r[j] - 1 ELSE r[j]
  BY <1>1 DEF Gap
<1>. HIDE DEF q
<1>5. Injective(q)
  BY <1>1, <1>4 DEF Injective
<1>6. Covers(q, D.size)
  <2>1. \A j \in Keys : q[j] <= D.size
    BY <1>1, <1>2, <1>3, <1>4 DEF Covers, Injective
  <2>2. ASSUME NEW i \in 1 .. D.size PROVE \E j \in Keys : q[j] = i
    <3>1. CASE i < r[k]
      <4>1. PICK j \in Keys : r[j] = i
        BY <1>1, <1>2 DEF Covers
      <4>. QED
        BY <1>1, <1>4, <3>1, <4>1
    <3>2. CASE i >= r[k]
      <4>1. i + 1 \in 1 .. C.size
        BY <1>1, <1>2, <3>2
      <4>2. PICK j \in Keys : r[j] = i + 1
        BY <1>1, <4>1 DEF Covers
      <4>. QED
        BY <1>1, <1>4, <3>2, <4>2
    <3>. QED
      BY <1>1, <3>1, <3>2
  <2>. QED
    BY <2>1, <2>2 DEF Covers
<1>7. Onward(D, q)
  BY <1>1, <1>2, <1>3, <1>4 DEF Onward, Back, Covers, Injective
<1>8. Back(D, q)
  BY <1>1, <1>2, <1>3, <1>4 DEF Onward, Back, Covers, Injective
<1>9. Ends(D, q)
  BY <1>1, <1>2, <1>3, <1>4 DEF Onward, Back, Ends, Covers, Injective
<1>. QED
  BY <1>2, <1>3, <1>4, <1>5, <1>6, <1>7, <1>8, <1>9 DEF Ranked, D, q

-----------------------------------------------------------------------------
\* The list holds the keys of the map.
Matched(C, r) == Ranked(C, r) /\ \A k \in Keys : C.items[k] # None <=> r[k] > 0

First(r, k) ==
  [j \in Keys |-> IF j = k THEN 1
                  ELSE IF r[j] > 0 /\ (r[k] = 0 \/ r[j] < r[k]) THEN r[j] + 1 ELSE r[j]]

\* The links say nothing of what the nodes hold.
LEMMA ItemsApart ==
  ASSUME NEW C, NEW r, Ranked(C, r), NEW its \in [Keys -> Entries \cup {None}]
  PROVE  /\ Ranked([C EXCEPT !.items = its], r)
         /\ [C EXCEPT !.items = its].items = its
         /\ [C EXCEPT !.items = its].size = C.size /\ [C EXCEPT !.items = its].tail = C.tail
<1>. DEFINE D == [C EXCEPT !.items = its]
<1>1. /\ D.items = its /\ D.next = C.next /\ D.prev = C.prev /\ D.head = C.head
      /\ D.tail = C.tail /\ D.size = C.size /\ D \in Shapes
  BY DEF Ranked, Shapes
<1>. HIDE DEF D
<1>2. Ranked(D, r)
  BY <1>1 DEF Ranked, Onward, Back, Ends
<1>. QED
  BY <1>1, <1>2 DEF D

\* listMoveToFront
LEMMA MoveToFrontRanks ==
  ASSUME Configured, NEW C, NEW r, Ranked(C, r), NEW k \in Keys, r[k] > 0
  PROVE  /\ Ranked(MoveToFront(C, k), First(r, k))
         /\ MoveToFront(C, k).items = C.items /\ MoveToFront(C, k).size = C.size
<1>0. /\ r \in [Keys -> Nat] /\ Injective(r) /\ Covers(r, C.size) /\ Ends(C, r) /\ C.size \in Nat
      /\ None \notin Keys
  BY DEF Ranked, Shapes, Configured
<1>1. CASE C.head = k
  <2>1. r[k] = 1
    BY <1>0, <1>1 DEF Ends
  <2>2. First(r, k) = r
    BY <1>0, <2>1 DEF First
  <2>. QED
    BY <1>1, <2>2 DEF MoveToFront
<1>2. CASE C.head # k
  <2>. DEFINE U == Unlink(C, k)
              q == Gap(r, k)
  <2>1. Ranked(U, q) /\ U.items = C.items /\ U.size = C.size - 1
    BY UnlinkRanks
  <2>2. q[k] = 0
    BY DEF Gap
  <2>3. Pushed(q, k) = First(r, k)
    BY <1>0 DEF Pushed, Gap, First, Injective
  <2>4. MoveToFront(C, k) = PushFront(U, k)
    BY <1>2 DEF MoveToFront
  <2>. HIDE DEF U, q
  <2>5. /\ Ranked(PushFront(U, k), Pushed(q, k))
        /\ PushFront(U, k).items = U.items /\ PushFront(U, k).size = U.size + 1
    BY <2>1, <2>2, PushFrontRanks
  <2>. QED
    BY <1>0, <2>1, <2>3, <2>4, <2>5 DEF q
<1>. QED
  BY <1>1, <1>2

\* removeNodeLocked
LEMMA RemoveNodeRanks ==
  ASSUME Configured, NEW C, NEW r, Matched(C, r), NEW k \in Keys, r[k] > 0
  PROVE  /\ Matched(RemoveNode(C, k), Gap(r, k))
         /\ RemoveNode(C, k).items = [C.items EXCEPT ![k] = None]
         /\ RemoveNode(C, k).size = C.size - 1
<1>. DEFINE U == Unlink(C, k)
            its == [C.items EXCEPT ![k] = None]
<1>1. Ranked(U, Gap(r, k)) /\ U.items = C.items /\ U.size = C.size - 1
  BY UnlinkRanks DEF Matched
<1>2. its \in [Keys -> Entries \cup {None}] /\ C.items \in [Keys -> Entries \cup {None}]
  BY DEF Matched, Ranked, Shapes
<1>3. RemoveNode(C, k) = [U EXCEPT !.items = its]
  BY <1>1 DEF RemoveNode
<1>. HIDE DEF U, its
<1>4. /\ Ranked(RemoveNode(C, k), Gap(r, k)) /\ RemoveNode(C, k).items = its
      /\ RemoveNode(C, k).size = C.size - 1
  BY <1>1, <1>2, <1>3, ItemsApart
<1>5. r \in [Keys -> Nat] /\ \A j \in Keys : C.items[j] # None <=> r[j] > 0
  BY DEF Matched, Ranked
<1>6. \A j \in Keys : its[j] # None <=> Gap(r, k)[j] > 0
  BY <1>2, <1>5 DEF its, Gap
<1>. QED
  BY <1>4, <1>6 DEF Matched, its

\* SetWithTTL, insertLocked
Written(v) == [value |-> v, expired |-> FALSE]
LEMMA PutRanks ==
  ASSUME Configured, NEW C, NEW r, Matched(C, r), NEW k \in Keys, NEW v \in Callers
  PROVE  /\ Matched(Put(C, k, v), First(r, k))
         /\ Put(C, k, v).items = [C.items EXCEPT ![k] = Written(v)]
<1>. DEFINE D == IF k \in Present(C) THEN MoveToFront(C, k) ELSE PushFront(C, k)
            its == [C.items EXCEPT ![k] = Written(v)]
<1>0. /\ r \in [Keys -> Nat] /\ \A j \in Keys : C.items[j] # None <=> r[j] > 0
      /\ C.items \in [Keys -> Entries \cup {None}] /\ Ranked(C, r)
  BY DEF Matched, Ranked, Shapes
<1>1. Written(v) \in Entries /\ Written(v) # None /\ its \in [Keys -> Entries \cup {None}]
  <2>1. Written(v) \in Entries
    BY DEF Written, Entries
  <2>. QED
    BY <1>0, <2>1 DEF Configured
<1>2. Ranked(D, First(r, k)) /\ D.items = C.items
  <2>1. CASE k \in Present(C)
    BY <1>0, <2>1, MoveToFrontRanks DEF Present
  <2>2. CASE k \notin Present(C)
    <3>1. r[k] = 0
      BY <1>0, <2>2 DEF Present
    <3>2. First(r, k) = Pushed(r, k)
      BY <1>0, <3>1 DEF First, Pushed
    <3>. QED
      BY <1>0, <2>2, <3>1, <3>2, PushFrontRanks
  <2>. QED
    BY <2>1, <2>2
<1>3. Put(C, k, v) = [D EXCEPT !.items = its]
  BY <1>2 DEF Put, Written
<1>. HIDE DEF D, its
<1>4. Ranked(Put(C, k, v), First(r, k)) /\ Put(C, k, v).items = its
  BY <1>1, <1>2, <1>3, ItemsApart
<1>5. \A j \in Keys : its[j] # None <=> First(r, k)[j] > 0
  BY <1>0, <1>1 DEF its, First
<1>. QED
  BY <1>4, <1>5 DEF Matched, its
-----------------------------------------------------------------------------
(* The loops: each is a function of the number of rounds. *)

LEMMA EvictLoop ==
  ASSUME NEW C
  PROVE  \A m \in Nat : \E f : f = 
    [i \in 0 .. m |-> IF i = 0 THEN C ELSE LET D == f[i - 1] IN RemoveNode(D, D.tail)]
<1>. DEFINE Step(D, i) == RemoveNode(D, D.tail)
            Is(g, m) == g = [i \in 0 .. m |-> IF i = 0 THEN C ELSE Step(g[i - 1], i)]
            S == {m \in Nat : \E g : Is(g, m)}
<1>. HIDE DEF Step
<1>1. 0 \in S
  <2>. DEFINE g == [i \in 0 .. 0 |-> C]
  <2>1. Is(g, 0)
    OBVIOUS
  <2>. QED
    BY <2>1
<1>2. ASSUME NEW m \in Nat, m \in S PROVE m + 1 \in S
  <2>1. PICK g : Is(g, m)
    BY <1>2
  <2>. DEFINE h == [i \in 0 .. m + 1 |-> IF i = m + 1 THEN Step(g[m], m + 1) ELSE g[i]]
  <2>2. ASSUME NEW i \in 0 .. m + 1 PROVE h[i] = IF i = 0 THEN C ELSE Step(h[i - 1], i)
    <3>1. CASE i = m + 1
      BY <3>1
    <3>2. CASE i \in 1 .. m
      <4>1. h[i] = g[i] /\ h[i - 1] = g[i - 1]
        BY <3>2
      <4>. QED
        BY <2>1, <3>2, <4>1
    <3>3. CASE i = 0
      BY <2>1, <3>3
    <3>. QED
      BY <3>1, <3>2, <3>3
  <2>3. Is(h, m + 1)
    BY <2>2
  <2>. HIDE DEF h, Is
  <2>. QED
    BY <2>3
<1>. HIDE DEF S
<1>3. Nat \subseteq S
  BY <1>1, <1>2, Induction
<1>. QED
  BY <1>3 DEF S, Step

LEMMA RemoveLoop ==
  ASSUME NEW C, NEW ks
  PROVE  \A m \in Nat : \E f : f = [i \in 0 .. m |-> IF i = 0 THEN C ELSE RemoveNode(f[i - 1], ks[i])]
<1>. DEFINE Step(D, i) == RemoveNode(D, ks[i])
            Is(g, m) == g = [i \in 0 .. m |-> IF i = 0 THEN C ELSE Step(g[i - 1], i)]
            S == {m \in Nat : \E g : Is(g, m)}
<1>. HIDE DEF Step
<1>1. 0 \in S
  <2>. DEFINE g == [i \in 0 .. 0 |-> C]
  <2>1. Is(g, 0)
    OBVIOUS
  <2>. QED
    BY <2>1
<1>2. ASSUME NEW m \in Nat, m \in S PROVE m + 1 \in S
  <2>1. PICK g : Is(g, m)
    BY <1>2
  <2>. DEFINE h == [i \in 0 .. m + 1 |-> IF i = m + 1 THEN Step(g[m], m + 1) ELSE g[i]]
  <2>2. ASSUME NEW i \in 0 .. m + 1 PROVE h[i] = IF i = 0 THEN C ELSE Step(h[i - 1], i)
    <3>1. CASE i = m + 1
      BY <3>1
    <3>2. CASE i \in 1 .. m
      <4>1. h[i] = g[i] /\ h[i - 1] = g[i - 1]
        BY <3>2
      <4>. QED
        BY <2>1, <3>2, <4>1
    <3>3. CASE i = 0
      BY <2>1, <3>3
    <3>. QED
      BY <3>1, <3>2, <3>3
  <2>3. Is(h, m + 1)
    BY <2>2
  <2>. HIDE DEF h, Is
  <2>. QED
    BY <2>3
<1>. HIDE DEF S
<1>3. Nat \subseteq S
  BY <1>1, <1>2, Induction
<1>. QED
  BY <1>3 DEF S, Step

LEMMA PutLoop ==
  ASSUME NEW C, NEW ks, NEW v
  PROVE  \A m \in Nat : \E f : f = [i \in 0 .. m |-> IF i = 0 THEN C ELSE Put(f[i - 1], ks[i], v)]
<1>. DEFINE Step(D, i) == Put(D, ks[i], v)
            Is(g, m) == g = [i \in 0 .. m |-> IF i = 0 THEN C ELSE Step(g[i - 1], i)]
            S == {m \in Nat : \E g : Is(g, m)}
<1>. HIDE DEF Step
<1>1. 0 \in S
  <2>. DEFINE g == [i \in 0 .. 0 |-> C]
  <2>1. Is(g, 0)
    OBVIOUS
  <2>. QED
    BY <2>1
<1>2. ASSUME NEW m \in Nat, m \in S PROVE m + 1 \in S
  <2>1. PICK g : Is(g, m)
    BY <1>2
  <2>. DEFINE h == [i \in 0 .. m + 1 |-> IF i = m + 1 THEN Step(g[m], m + 1) ELSE g[i]]
  <2>2. ASSUME NEW i \in 0 .. m + 1 PROVE h[i] = IF i = 0 THEN C ELSE Step(h[i - 1], i)
    <3>1. CASE i = m + 1
      BY <3>1
    <3>2. CASE i \in 1 .. m
      <4>1. h[i] = g[i] /\ h[i - 1] = g[i - 1]
        BY <3>2
      <4>. QED
        BY <2>1, <3>2, <4>1
    <3>3. CASE i = 0
      BY <2>1, <3>3
    <3>. QED
      BY <3>1, <3>2, <3>3
  <2>3. Is(h, m + 1)
    BY <2>2
  <2>. HIDE DEF h, Is
  <2>. QED
    BY <2>3
<1>. HIDE DEF S
<1>3. Nat \subseteq S
  BY <1>1, <1>2, Induction
<1>. QED
  BY <1>3 DEF S, Step

LEMMA EvictRounds ==
  ASSUME NEW C, NEW n, Excess(C, n) \in Nat
  PROVE  \E f : /\ f[0] = C /\ EvictTail(C, n) = f[Excess(C, n)]
               /\ \A i \in 1 .. Excess(C, n) : f[i] = RemoveNode(f[i - 1], f[i - 1].tail)
<1>. DEFINE m == Excess(C, n)
            f == CHOOSE f : f =
                   [i \in 0 .. m |-> IF i = 0 THEN C ELSE LET D == f[i - 1] IN RemoveNode(D, D.tail)]
<1>1. f = [i \in 0 .. m |-> IF i = 0 THEN C ELSE LET D == f[i - 1] IN RemoveNode(D, D.tail)]
  BY EvictLoop
<1>2. EvictTail(C, n) = f[m]
  BY DEF EvictTail
<1>. HIDE DEF f
<1>3. /\ f[0] = C /\ EvictTail(C, n) = f[m]
      /\ \A i \in 1 .. m : f[i] = RemoveNode(f[i - 1], f[i - 1].tail)
  BY <1>1, <1>2
<1>. HIDE DEF m
<1>. QED
  BY <1>3 DEF m

LEMMA RemoveRounds ==
  ASSUME NEW C, NEW K, Cardinality(K) \in Nat
  PROVE  \E f : /\ f[0] = C /\ RemoveAll(C, K) = f[Cardinality(K)]
               /\ \A i \in 1 .. Cardinality(K) : f[i] = RemoveNode(f[i - 1], SetToSeq(K)[i])
<1>. DEFINE m == Cardinality(K)
            f == CHOOSE f : f =
                   [i \in 0 .. m |-> IF i = 0 THEN C ELSE RemoveNode(f[i - 1], SetToSeq(K)[i])]
<1>1. f = [i \in 0 .. m |-> IF i = 0 THEN C ELSE RemoveNode(f[i - 1], SetToSeq(K)[i])]
  BY RemoveLoop
<1>2. RemoveAll(C, K) = f[m]
  BY DEF RemoveAll
<1>. HIDE DEF f
<1>3. /\ f[0] = C /\ RemoveAll(C, K) = f[m]
      /\ \A i \in 1 .. m : f[i] = RemoveNode(f[i - 1], SetToSeq(K)[i])
  BY <1>1, <1>2
<1>. HIDE DEF m
<1>. QED
  BY <1>3 DEF m

LEMMA PutRounds ==
  ASSUME NEW C, NEW ks, NEW v, Len(ks) \in Nat
  PROVE  \E f : /\ f[0] = C /\ PutAll(C, ks, v) = f[Len(ks)]
               /\ \A i \in 1 .. Len(ks) : f[i] = Put(f[i - 1], ks[i], v)
<1>. DEFINE m == Len(ks)
            f == CHOOSE f : f =
                   [i \in 0 .. m |-> IF i = 0 THEN C ELSE Put(f[i - 1], ks[i], v)]
<1>1. f = [i \in 0 .. m |-> IF i = 0 THEN C ELSE Put(f[i - 1], ks[i], v)]
  BY PutLoop
<1>2. PutAll(C, ks, v) = f[m]
  BY DEF PutAll
<1>. HIDE DEF f
<1>3. /\ f[0] = C /\ PutAll(C, ks, v) = f[m]
      /\ \A i \in 1 .. m : f[i] = Put(f[i - 1], ks[i], v)
  BY <1>1, <1>2
<1>. HIDE DEF m
<1>. QED
  BY <1>3 DEF m

-----------------------------------------------------------------------------
(* What the loops leave. *)

LEMMA SeqOfSet ==
  ASSUME NEW K, IsFiniteSet(K)
  PROVE  /\ Cardinality(K) \in Nat
         /\ SetToSeq(K) \in [1 .. Cardinality(K) -> K]
         /\ \A i, j \in 1 .. Cardinality(K) : SetToSeq(K)[i] = SetToSeq(K)[j] => i = j
         /\ \A k \in K : \E i \in 1 .. Cardinality(K) : SetToSeq(K)[i] = k
<1>. DEFINE n == Cardinality(K)
            s == SetToSeq(K)
<1>1. n \in Nat /\ ExistsBijection(1 .. n, K)
  BY FS_CardinalityType
<1>2. \E f \in [1 .. n -> K] : IsInjective(f)
  BY <1>1, Fun_BijectionProperties DEF ExistsBijection, IsInjective, Bijection, Injection
<1>3. s \in [1 .. n -> K] /\ IsInjective(s)
  BY <1>2 DEF SetToSeq
<1>. HIDE DEF s
<1>4. s \in Injection(1 .. n, K)
  BY <1>3, Fun_IsInj DEF IsInjective
<1>5. Cardinality(1 .. n) = n
  BY <1>1, FS_Interval
<1>6. s \in Surjection(1 .. n, K)
  BY <1>4, <1>5, FS_Injection
<1>7. \A k \in K : \E i \in 1 .. n : s[i] = k
  BY <1>6 DEF Surjection
<1>. QED
  BY <1>1, <1>3, <1>7 DEF IsInjective, s

Cut(r, m) == [j \in Keys |-> IF r[j] > m THEN 0 ELSE r[j]]

\* removeTailLocked: the keys beyond the capacity go, the others stay where they are.
LEMMA EvictRanks ==
  ASSUME Configured, NEW C, NEW r, Matched(C, r), NEW n \in Nat
  PROVE  /\ Matched(EvictTail(C, n), IF n = 0 THEN r ELSE Cut(r, n))
         /\ EvictTail(C, n).items =
              [j \in Keys |-> IF n > 0 /\ r[j] > n THEN None ELSE C.items[j]]
<1>. DEFINE m == Excess(C, n)
            w == C.size
            its(i) == [j \in Keys |-> IF r[j] > w - i THEN None ELSE C.items[j]]
<1>0. /\ r \in [Keys -> Nat] /\ Injective(r) /\ Covers(r, w) /\ w \in Nat
      /\ C.items \in [Keys -> Entries \cup {None}] /\ None \notin Keys
      /\ m \in 0 .. w /\ (m > 0 => m = w - n /\ n > 0) /\ (m = 0 => n = 0 \/ w <= n)
  BY DEF Matched, Ranked, Shapes, Configured, Excess
<1>1. PICK f : /\ f[0] = C /\ EvictTail(C, n) = f[m]
               /\ \A i \in 1 .. m : f[i] = RemoveNode(f[i - 1], f[i - 1].tail)
  BY <1>0, EvictRounds
<1>. HIDE DEF m
<1>. DEFINE P(i) == /\ Matched(f[i], Cut(r, w - i)) /\ f[i].size = w - i
                    /\ f[i].items = its(i)
            S == {i \in Nat : i <= m => P(i)}
<1>2. 0 \in S
  <2>1. Cut(r, w) = r
    BY <1>0 DEF Cut, Covers
  <2>2. its(0) = C.items
    BY <1>0 DEF Covers
  <2>. QED
    BY <1>0, <1>1, <2>1, <2>2
<1>3. ASSUME NEW i \in Nat, i \in S PROVE i + 1 \in S
  <2>. SUFFICES ASSUME i + 1 <= m PROVE P(i + 1)
    OBVIOUS
  <2>. DEFINE D == f[i]
              q == Cut(r, w - i)
              k == f[i].tail
  <2>1. Matched(D, q) /\ D.size = w - i /\ D.items = its(i)
    BY <1>0, <1>3
  <2>2. w - i \in Nat /\ w - i > 0
    BY <1>0
  <2>3. k \in Keys /\ q[k] = w - i
    BY <2>1, <2>2 DEF Matched, Ranked, Ends
  <2>4. f[i + 1] = RemoveNode(D, k)
    BY <1>0, <1>1
  <2>. HIDE DEF D, k
  <2>5. /\ Matched(RemoveNode(D, k), Gap(q, k))
        /\ RemoveNode(D, k).items = [D.items EXCEPT ![k] = None]
        /\ RemoveNode(D, k).size = D.size - 1
    BY <2>1, <2>2, <2>3, RemoveNodeRanks
  <2>6. r[k] = w - i
    BY <1>0, <2>2, <2>3 DEF Cut
  <2>7. Gap(q, k) = Cut(r, w - (i + 1))
    <3>1. \A j \in Keys : Gap(q, k)[j] = Cut(r, w - (i + 1))[j]
      BY <1>0, <2>2, <2>3, <2>6 DEF Cut, Gap, Injective
    <3>. QED
      BY <3>1 DEF Cut, Gap
  <2>8. [its(i) EXCEPT ![k] = None] = its(i + 1)
    <3>1. \A j \in Keys : r[j] > w - (i + 1) <=> j = k \/ r[j] > w - i
      BY <1>0, <2>2, <2>3, <2>6 DEF Injective
    <3>. QED
      BY <3>1
  <2>. QED
    BY <1>0, <2>1, <2>4, <2>5, <2>7, <2>8
<1>. HIDE DEF S
<1>4. Nat \subseteq S
  BY <1>2, <1>3, Induction
<1>5. P(m)
  BY <1>0, <1>4 DEF S
<1>6. CASE m > 0
  BY <1>0, <1>1, <1>5, <1>6
<1>7. CASE m = 0
  <2>1. n > 0 => Cut(r, n) = r
    BY <1>0, <1>7 DEF Cut, Covers
  <2>2. \A j \in Keys : ~(n > 0 /\ r[j] > n)
    BY <1>0, <1>7 DEF Covers
  <2>. QED
    BY <1>0, <1>1, <1>7, <2>1, <2>2
<1>. QED
  BY <1>0, <1>6, <1>7

\* DeleteMulti, ExpireOld: q lists the keys of r without those of X, in the same order.
Keeps(r, q, X) ==
  /\ \A j \in Keys : q[j] > 0 <=> r[j] > 0 /\ j \notin X
  /\ \A j, k \in Keys : q[j] > 0 /\ q[k] > 0 => (q[j] < q[k] <=> r[j] < r[k])

LEMMA RemoveAllRanks ==
  ASSUME Configured, NEW C, NEW r, Matched(C, r), NEW K \in SUBSET Keys,
         \A k \in K : r[k] > 0
  PROVE  /\ \E q : Matched(RemoveAll(C, K), q) /\ Keeps(r, q, K)
         /\ RemoveAll(C, K).items = [j \in Keys |-> IF j \in K THEN None ELSE C.items[j]]
<1>. DEFINE m == Cardinality(K)
            s == SetToSeq(K)
            X(i) == {s[l] : l \in 1 .. i}
            its(i) == [j \in Keys |-> IF j \in X(i) THEN None ELSE C.items[j]]
<1>0. /\ r \in [Keys -> Nat] /\ C.items \in [Keys -> Entries \cup {None}]
  BY DEF Matched, Ranked, Shapes
<1>1. /\ m \in Nat /\ s \in [1 .. m -> K] /\ \A i, j \in 1 .. m : s[i] = s[j] => i = j
      /\ \A k \in K : \E i \in 1 .. m : s[i] = k
  <2>1. IsFiniteSet(K)
    BY FS_Subset DEF Configured
  <2>. QED
    BY <2>1, SeqOfSet
<1>2. PICK f : /\ f[0] = C /\ RemoveAll(C, K) = f[m]
               /\ \A i \in 1 .. m : f[i] = RemoveNode(f[i - 1], s[i])
  BY <1>1, RemoveRounds
<1>. HIDE DEF m, s
<1>. DEFINE P(i) == /\ \E q : Matched(f[i], q) /\ Keeps(r, q, X(i))
                    /\ f[i].items = its(i)
            S == {i \in Nat : i <= m => P(i)}
<1>. HIDE DEF P
<1>3. 0 \in S
  <2>1. X(0) = {}
    OBVIOUS
  <2>2. its(0) = C.items /\ Keeps(r, r, X(0))
    BY <1>0, <2>1 DEF Keeps
  <2>. QED
    BY <1>2, <2>2 DEF P
<1>4. ASSUME NEW i \in Nat, i \in S PROVE i + 1 \in S
  <2>. SUFFICES ASSUME i + 1 <= m PROVE P(i + 1)
    BY DEF S
  <2>. DEFINE D == f[i]
              k == s[i + 1]
  <2>0. P(i)
    BY <1>1, <1>4
  <2>1. PICK q : Matched(D, q) /\ Keeps(r, q, X(i))
    BY <2>0 DEF P
  <2>2. D.items = its(i)
    BY <2>0 DEF P
  <2>3. k \in K /\ k \in Keys /\ k \notin X(i) /\ X(i + 1) = X(i) \cup {k}
    <3>1. 1 .. i + 1 = (1 .. i) \cup {i + 1}
      OBVIOUS
    <3>. QED
      BY <1>1, <3>1
  <2>4. q[k] > 0
    BY <2>1, <2>3 DEF Keeps
  <2>5. f[i + 1] = RemoveNode(D, k)
    BY <1>1, <1>2
  <2>. HIDE DEF D, k, X
  <2>6. /\ Matched(RemoveNode(D, k), Gap(q, k))
        /\ RemoveNode(D, k).items = [D.items EXCEPT ![k] = None]
    BY <2>1, <2>3, <2>4, RemoveNodeRanks
  <2>7. Keeps(r, Gap(q, k), X(i + 1))
    <3>1. q \in [Keys -> Nat] /\ Injective(q)
      BY <2>1 DEF Matched, Ranked
    <3>2. \A j \in Keys : Gap(q, k)[j] = IF j = k THEN 0 ELSE IF q[j] > q[k] THEN q[j] - 1 ELSE q[j]
      BY DEF Gap
    <3>3. \A j \in Keys : j # k => (Gap(q, k)[j] > 0 <=> q[j] > 0)
      <4>1. TAKE j \in Keys
      <4>2. q[j] \in Nat /\ q[k] \in Nat
        BY <3>1, <2>3
      <4>. QED
        BY <2>4, <3>2, <4>2
    <3>4. \A j \in Keys : Gap(q, k)[j] > 0 <=> r[j] > 0 /\ j \notin X(i + 1)
      BY <2>1, <2>3, <3>2, <3>3 DEF Keeps
    <3>5. \A j, l \in Keys : Gap(q, k)[j] > 0 /\ Gap(q, k)[l] > 0 =>
             (Gap(q, k)[j] < Gap(q, k)[l] <=> q[j] < q[l])
      BY <2>3, <3>1, <3>2 DEF Injective
    <3>6. \A j, l \in Keys : Gap(q, k)[j] > 0 /\ Gap(q, k)[l] > 0 =>
             (q[j] < q[l] <=> r[j] < r[l])
      BY <2>1, <3>2, <3>3 DEF Keeps
    <3>. QED
      BY <3>4, <3>5, <3>6 DEF Keeps
  <2>8. [its(i) EXCEPT ![k] = None] = its(i + 1)
    BY <1>0, <2>3
  <2>. HIDE DEF its
  <2>. QED
    BY <2>2, <2>5, <2>6, <2>7, <2>8 DEF P
<1>. HIDE DEF S
<1>5. Nat \subseteq S
  BY <1>3, <1>4, Induction
<1>6. P(m)
  BY <1>1, <1>5 DEF S
<1>7. X(m) = K
  BY <1>1
<1>. HIDE DEF X
<1>8. (\E q : Matched(f[m], q) /\ Keeps(r, q, X(m))) /\ f[m].items = its(m)
  BY <1>6 DEF P
<1>. QED
  BY <1>2, <1>7, <1>8

\* q lists what r lists once the first i keys of ks were used after it.
After(r, q, ks, i) ==
  LET X == {ks[l] : l \in 1 .. i}
  IN  /\ \A j \in Keys : q[j] > 0 <=> r[j] > 0 \/ j \in X
      /\ \A l \in 1 .. i : q[ks[l]] = i + 1 - l
      /\ \A j \in Keys \ X : q[j] > 0 => q[j] > i
      /\ \A j, k \in Keys \ X : q[j] > 0 /\ q[k] > 0 => (q[j] < q[k] <=> r[j] < r[k])

LEMMA UsedNext ==
  ASSUME NEW r \in [Keys -> Nat], NEW q \in [Keys -> Nat], Injective(q), NEW n \in Nat,
         NEW ks \in [1 .. n -> Keys], \A a, b \in 1 .. n : ks[a] = ks[b] => a = b,
         NEW i \in Nat, i + 1 <= n, After(r, q, ks, i)
  PROVE  After(r, First(q, ks[i + 1]), ks, i + 1)
<1>. DEFINE X == {ks[l] : l \in 1 .. i}
            Y == {ks[l] : l \in 1 .. i + 1}
            k == ks[i + 1]
            t == First(q, k)
<1>1. k \in Keys /\ k \notin X /\ Y = X \cup {k} /\ X \subseteq Keys
  <2>1. 1 .. i + 1 = (1 .. i) \cup {i + 1}
    OBVIOUS
  <2>. QED
    BY <2>1
<1>2. /\ \A j \in Keys : q[j] > 0 <=> r[j] > 0 \/ j \in X
      /\ \A l \in 1 .. i : q[ks[l]] = i + 1 - l /\ ks[l] \in X /\ ks[l] \in Keys /\ ks[l] # k
      /\ \A j \in Keys \ X : q[j] > 0 => q[j] > i
      /\ \A j, l \in Keys \ X : q[j] > 0 /\ q[l] > 0 => (q[j] < q[l] <=> r[j] < r[l])
  <2>1. \A l \in 1 .. i : ks[l] \in X /\ ks[l] \in Keys
    OBVIOUS
  <2>2. \A l \in 1 .. i : ks[l] # k
    OBVIOUS
  <2>. HIDE DEF k
  <2>. QED
    BY <2>1, <2>2 DEF After
<1>3. \A j \in Keys : t[j] = IF j = k THEN 1
                             ELSE IF q[j] > 0 /\ (q[k] = 0 \/ q[j] < q[k]) THEN q[j] + 1 ELSE q[j]
  BY DEF First
<1>. HIDE DEF X, Y, k, t
<1>4. ASSUME NEW j \in Keys PROVE t[j] > 0 <=> r[j] > 0 \/ j \in Y
  <2>1. CASE j = k
    BY <1>1, <1>3, <2>1
  <2>2. CASE j # k
    <3>1. t[j] > 0 <=> q[j] > 0
      BY <1>3, <2>2
    <3>. QED
      BY <1>1, <1>2, <2>2, <3>1
  <2>. QED
    BY <2>1, <2>2
<1>5. ASSUME NEW l \in 1 .. i + 1 PROVE t[ks[l]] = (i + 1) + 1 - l
  <2>1. CASE l = i + 1
    BY <1>1, <1>3, <2>1 DEF k
  <2>2. CASE l # i + 1
    <3>1. q[ks[l]] = i + 1 - l /\ ks[l] \in Keys /\ ks[l] # k
      BY <1>2, <2>2
    <3>2. q[ks[l]] > 0 /\ (q[k] = 0 \/ q[ks[l]] < q[k])
      BY <1>1, <1>2, <2>2, <3>1
    <3>3. t[ks[l]] = q[ks[l]] + 1
      BY <1>3, <3>1, <3>2
    <3>. QED
      BY <3>1, <3>3
  <2>. QED
    BY <2>1, <2>2
<1>6. ASSUME NEW j \in Keys \ Y, t[j] > 0 PROVE t[j] > i + 1
  <2>1. j # k /\ j \notin X /\ q[j] > 0 /\ q[j] > i
    BY <1>1, <1>2, <1>3, <1>6
  <2>2. q[k] > 0 => q[k] > i
    BY <1>1, <1>2
  <2>3. q[j] # q[k] /\ q[j] \in Nat /\ q[k] \in Nat
    BY <1>1, <2>1 DEF Injective
  <2>4. t[j] = IF q[k] = 0 \/ q[j] < q[k] THEN q[j] + 1 ELSE q[j]
    BY <1>3, <2>1
  <2>. QED
    BY <2>1, <2>2, <2>3, <2>4
<1>7. ASSUME NEW j \in Keys \ Y, NEW l \in Keys \ Y, t[j] > 0, t[l] > 0
      PROVE  t[j] < t[l] <=> r[j] < r[l]
  <2>1. j # k /\ j \notin X /\ q[j] > 0 /\ l # k /\ l \notin X /\ q[l] > 0
    BY <1>1, <1>2, <1>3, <1>7
  <2>2. q[j] < q[l] <=> r[j] < r[l]
    BY <1>2, <2>1
  <2>3. t[j] < t[l] <=> q[j] < q[l]
    BY <1>1, <1>3, <2>1 DEF Injective
  <2>. QED
    BY <2>2, <2>3
<1>8. After(r, t, ks, i + 1)
  BY <1>4, <1>5, <1>6, <1>7 DEF After, Y
<1>. QED
  BY <1>8 DEF t, k

\* SetMulti: the nodes it writes come first, the last of them at the head.
LEMMA PutAllRanks ==
  ASSUME Configured, NEW C, NEW r, Matched(C, r), NEW n \in Nat,
         NEW ks \in [1 .. n -> Keys], \A a, b \in 1 .. n : ks[a] = ks[b] => a = b,
         NEW v \in Callers
  PROVE  /\ \E q : Matched(PutAll(C, ks, v), q) /\ After(r, q, ks, n)
         /\ PutAll(C, ks, v).items =
              [j \in Keys |-> IF \E l \in 1 .. n : ks[l] = j THEN Written(v) ELSE C.items[j]]
<1>. DEFINE its(i) == [j \in Keys |-> IF \E l \in 1 .. i : ks[l] = j THEN Written(v) ELSE C.items[j]]
<1>0. /\ r \in [Keys -> Nat] /\ C.items \in [Keys -> Entries \cup {None}]
      /\ Len(ks) = n
  BY DEF Matched, Ranked, Shapes
<1>1. PICK f : /\ f[0] = C /\ PutAll(C, ks, v) = f[Len(ks)]
               /\ \A i \in 1 .. Len(ks) : f[i] = Put(f[i - 1], ks[i], v)
  BY <1>0, PutRounds
<1>. DEFINE P(i) == /\ \E q : Matched(f[i], q) /\ After(r, q, ks, i)
                    /\ f[i].items = its(i)
            S == {i \in Nat : i <= n => P(i)}
<1>. HIDE DEF P
<1>2. 0 \in S
  <2>1. After(r, r, ks, 0)
    BY <1>0 DEF After
  <2>2. its(0) = C.items
    BY <1>0
  <2>. HIDE DEF its
  <2>3. P(0)
    BY <1>1, <2>1, <2>2 DEF P
  <2>. QED
    BY <2>3
<1>3. ASSUME NEW i \in Nat, i \in S PROVE i + 1 \in S
  <2>. SUFFICES ASSUME i + 1 <= n PROVE P(i + 1)
    BY DEF S
  <2>. DEFINE D == f[i]
              k == ks[i + 1]
  <2>0. P(i)
    BY <1>3
  <2>1. PICK q : Matched(D, q) /\ After(r, q, ks, i)
    BY <2>0 DEF P
  <2>2. D.items = its(i)
    BY <2>0 DEF P
  <2>3. k \in Keys
    OBVIOUS
  <2>4. f[i + 1] = Put(D, k, v)
    BY <1>0, <1>1
  <2>5. q \in [Keys -> Nat] /\ Injective(q)
    BY <2>1 DEF Matched, Ranked
  <2>6. After(r, First(q, k), ks, i + 1)
    BY <1>0, <2>1, <2>5, UsedNext
  <2>7. [its(i) EXCEPT ![k] = Written(v)] = its(i + 1)
    <3>1. \A j \in Keys : (\E l \in 1 .. i + 1 : ks[l] = j) <=> j = k \/ \E l \in 1 .. i : ks[l] = j
      OBVIOUS
    <3>. QED
      BY <3>1
  <2>. HIDE DEF D, k, its
  <2>8. /\ Matched(Put(D, k, v), First(q, k))
        /\ Put(D, k, v).items = [D.items EXCEPT ![k] = Written(v)]
    BY <2>1, <2>3, PutRanks
  <2>. QED
    BY <2>2, <2>4, <2>6, <2>7, <2>8 DEF P
<1>. HIDE DEF S
<1>4. Nat \subseteq S
  BY <1>2, <1>3, Induction
<1>5. P(n)
  BY <1>4 DEF S
<1>6. (\E q : Matched(f[n], q) /\ After(r, q, ks, n)) /\ f[n].items = its(n)
  BY <1>5 DEF P
<1>. QED
  BY <1>0, <1>1, <1>6

-----------------------------------------------------------------------------
(* The links lead through the keys in the order of their ranks. *)

\* f follows the links of C for m nodes.
Follows(C, m, f) ==
  f = [i \in 1 .. m |-> IF i = 1 THEN C.head
                        ELSE LET k == f[i - 1] IN IF k = None THEN None ELSE C.next[k]]

LEMMA OrderLoop ==
  ASSUME NEW C
  PROVE  \A m \in Nat : \E f : Follows(C, m, f)
<1>. DEFINE Step(k, i) == IF k = None THEN None ELSE C.next[k]
            Is(g, m) == g = [i \in 1 .. m |-> IF i = 1 THEN C.head ELSE Step(g[i - 1], i)]
            S == {m \in Nat : \E g : Is(g, m)}
<1>. HIDE DEF Step
<1>1. 0 \in S
  <2>. DEFINE g == [i \in 1 .. 0 |-> C.head]
  <2>1. Is(g, 0)
    OBVIOUS
  <2>. QED
    BY <2>1
<1>2. ASSUME NEW m \in Nat, m \in S PROVE m + 1 \in S
  <2>1. PICK g : Is(g, m)
    BY <1>2
  <2>. DEFINE h == [i \in 1 .. m + 1 |-> IF i = 1 THEN C.head
                                         ELSE IF i = m + 1 THEN Step(g[m], m + 1) ELSE g[i]]
  <2>2. ASSUME NEW i \in 1 .. m + 1 PROVE h[i] = IF i = 1 THEN C.head ELSE Step(h[i - 1], i)
    <3>0. i # 1 => h[i - 1] = g[i - 1]
      <4>1. m > 0 => g[1] = C.head
        BY <2>1
      <4>. QED
        BY <4>1
    <3>1. CASE i = m + 1 /\ i # 1
      BY <3>0, <3>1
    <3>2. CASE i \in 2 .. m
      <4>1. h[i] = g[i]
        BY <3>2
      <4>. QED
        BY <2>1, <3>0, <3>2, <4>1
    <3>3. CASE i = 1
      BY <2>1, <3>3
    <3>. QED
      BY <3>1, <3>2, <3>3
  <2>3. Is(h, m + 1)
    BY <2>2
  <2>. HIDE DEF h, Is
  <2>. QED
    BY <2>3
<1>. HIDE DEF S
<1>3. Nat \subseteq S
  BY <1>1, <1>2, Induction
<1>. QED
  BY <1>3 DEF S, Step, Follows

LEMMA OrderRanks ==
  ASSUME Configured, NEW C, NEW r, Ranked(C, r)
  PROVE  /\ Order(C) \in [1 .. C.size -> Keys]
         /\ \A i \in 1 .. C.size : r[Order(C)[i]] = i
         /\ \A k \in Keys : r[k] > 0 => r[k] \in 1 .. C.size /\ Order(C)[r[k]] = k
<1>. DEFINE n == C.size
            f == CHOOSE f : Follows(C, n, f)
<1>0. /\ r \in [Keys -> Nat] /\ Injective(r) /\ Covers(r, n) /\ Onward(C, r) /\ Ends(C, r)
      /\ n \in Nat /\ None \notin Keys
  BY DEF Ranked, Shapes, Configured
<1>1. Follows(C, n, f)
  <2>. HIDE DEF n
  <2>1. \E g : Follows(C, n, g)
    BY <1>0, OrderLoop
  <2>. QED
    BY <2>1
<1>2. Order(C) = f
  BY DEF Order, Follows
<1>. HIDE DEF f
<1>3. n > 0 => f[1] = C.head
  BY <1>0, <1>1 DEF Follows
<1>4. \A i \in 2 .. n : f[i] = IF f[i - 1] = None THEN None ELSE C.next[f[i - 1]]
  BY <1>0, <1>1 DEF Follows
<1>. DEFINE S == {i \in Nat : i \in 1 .. n => f[i] \in Keys /\ r[f[i]] = i}
<1>5. 0 \in S
  OBVIOUS
<1>6. ASSUME NEW i \in Nat, i \in S PROVE i + 1 \in S
  <2>. SUFFICES ASSUME i + 1 \in 1 .. n PROVE f[i + 1] \in Keys /\ r[f[i + 1]] = i + 1
    OBVIOUS
  <2>1. CASE i = 0
    BY <1>0, <1>3, <2>1 DEF Ends
  <2>2. CASE i # 0
    <3>1. f[i] \in Keys /\ r[f[i]] = i /\ i < n /\ i > 0
      BY <1>0, <1>6, <2>2
    <3>2. f[i + 1] = C.next[f[i]]
      <4>1. i + 1 \in 2 .. n /\ (i + 1) - 1 = i
        BY <1>0, <2>2
      <4>. QED
        BY <1>0, <1>4, <3>1, <4>1
    <3>. QED
      BY <1>0, <3>1, <3>2 DEF Onward
  <2>. QED
    BY <2>1, <2>2
<1>. HIDE DEF S
<1>7. Nat \subseteq S
  BY <1>5, <1>6, Induction
<1>8. \A i \in 1 .. n : f[i] \in Keys /\ r[f[i]] = i
  BY <1>0, <1>7 DEF S
<1>9. f \in [1 .. n -> Keys]
  BY <1>1, <1>8 DEF Follows
<1>10. \A k \in Keys : r[k] > 0 => r[k] \in 1 .. n /\ f[r[k]] = k
  BY <1>0, <1>8 DEF Covers, Injective
<1>. QED
  BY <1>2, <1>8, <1>9, <1>10

LEMMA NewerRanks ==
  ASSUME Configured, NEW C, NEW r, Ranked(C, r)
  PROVE  Newer(C) = {p \in Keys \X Keys : r[p[1]] > 0 /\ r[p[1]] < r[p[2]]}
<1>. DEFINE ks == Order(C)
            n == C.size
<1>0. r \in [Keys -> Nat] /\ n \in Nat
  BY DEF Ranked, Shapes
<1>1. /\ ks \in [1 .. n -> Keys]
      /\ \A i \in 1 .. n : r[ks[i]] = i
      /\ \A k \in Keys : r[k] > 0 => r[k] \in 1 .. n /\ ks[r[k]] = k
  BY OrderRanks
<1>. HIDE DEF ks, n
<1>2. Len(ks) = n /\ DOMAIN ks = 1 .. n
  BY <1>0, <1>1
<1>3. Newer(C) = UNION {{<<ks[i], ks[j]>> : j \in i + 1 .. n} : i \in 1 .. n}
  BY <1>2 DEF Newer, ks
<1>4. ASSUME NEW p \in Newer(C)
      PROVE  p \in Keys \X Keys /\ r[p[1]] > 0 /\ r[p[1]] < r[p[2]]
  <2>1. PICK i \in 1 .. n : \E j \in i + 1 .. n : p = <<ks[i], ks[j]>>
    BY <1>3, <1>4
  <2>2. PICK j \in i + 1 .. n : p = <<ks[i], ks[j]>>
    BY <2>1
  <2>3. j \in 1 .. n
    BY <1>0
  <2>. QED
    BY <1>1, <2>2, <2>3
<1>5. ASSUME NEW p \in Keys \X Keys, r[p[1]] > 0, r[p[1]] < r[p[2]]
      PROVE  p \in Newer(C)
  <2>. DEFINE i == r[p[1]]
              j == r[p[2]]
  <2>1. p[1] \in Keys /\ p[2] \in Keys /\ p = <<p[1], p[2]>>
    OBVIOUS
  <2>2. i \in 1 .. n /\ j \in 1 .. n /\ ks[i] = p[1] /\ ks[j] = p[2] /\ j \in i + 1 .. n
    BY <1>0, <1>1, <1>5, <2>1
  <2>. HIDE DEF i, j
  <2>3. p = <<ks[i], ks[j]>>
    BY <2>1, <2>2
  <2>. QED
    BY <1>3, <2>2, <2>3
<1>. QED
  BY <1>4, <1>5

\* The part of ListMatchesMap that is about the links.
LEMMA ListOfMatched ==
  ASSUME Configured, NEW C, NEW r, Matched(C, r)
  PROVE  LET ks == Order(C)
             n  == C.size
         IN  /\ Range(ks) = Present(C) /\ Cardinality(Present(C)) = n
             /\ \A i \in 1 .. n : /\ C.next[ks[i]] = IF i = n THEN None ELSE ks[i + 1]
                                 /\ C.prev[ks[i]] = IF i = 1 THEN None ELSE ks[i - 1]
             /\ C.head = IF n = 0 THEN None ELSE ks[1]
             /\ C.tail = IF n = 0 THEN None ELSE ks[n]
<1>. DEFINE ks == Order(C)
            n == C.size
<1>0. /\ r \in [Keys -> Nat] /\ n \in Nat /\ Injective(r) /\ Covers(r, n) /\ Onward(C, r)
      /\ Back(C, r) /\ Ends(C, r) /\ Ranked(C, r) /\ \A k \in Keys : C.items[k] # None <=> r[k] > 0
  BY DEF Matched, Ranked, Shapes
<1>1. /\ ks \in [1 .. n -> Keys]
      /\ \A i \in 1 .. n : r[ks[i]] = i
      /\ \A k \in Keys : r[k] > 0 => r[k] \in 1 .. n /\ ks[r[k]] = k
  BY <1>0, OrderRanks
<1>. HIDE DEF ks
<1>2. \A k \in Keys : k \in Present(C) <=> r[k] > 0
  BY <1>0 DEF Present
<1>3. \A k : k \in Present(C) <=> \E i \in 1 .. n : ks[i] = k
  BY <1>0, <1>1, <1>2 DEF Present
<1>4. Range(ks) = Present(C)
  BY <1>1, <1>3 DEF Range
<1>5. Cardinality(Present(C)) = n
  <2>1. ks \in [1 .. n -> Present(C)]
    BY <1>1, <1>3
  <2>2. ks \in Bijection(1 .. n, Present(C))
    BY <1>1, <1>3, <2>1 DEF Bijection, Injection, Surjection, IsInjective
  <2>3. ExistsBijection(1 .. n, Present(C))
    BY <2>2 DEF ExistsBijection
  <2>4. IsFiniteSet(Present(C))
    BY FS_Subset DEF Configured, Present
  <2>. QED
    BY <1>0, <2>3, <2>4, FS_CountingElements
<1>6. ASSUME NEW i \in 1 .. n
      PROVE /\ C.next[ks[i]] = IF i = n THEN None ELSE ks[i + 1]
            /\ C.prev[ks[i]] = IF i = 1 THEN None ELSE ks[i - 1]
  <2>1. ks[i] \in Keys /\ r[ks[i]] = i /\ i > 0
    BY <1>1
  <2>2. C.next[ks[i]] = IF i = n THEN None ELSE ks[i + 1]
    <3>1. CASE i = n
      BY <1>0, <2>1, <3>1 DEF Onward
    <3>2. CASE i # n
      <4>1. C.next[ks[i]] \in Keys /\ r[C.next[ks[i]]] = i + 1
        BY <1>0, <2>1, <3>2 DEF Onward
      <4>. QED
        BY <1>1, <2>1, <3>2, <4>1
    <3>. QED
      BY <3>1, <3>2
  <2>3. C.prev[ks[i]] = IF i = 1 THEN None ELSE ks[i - 1]
    <3>1. CASE i = 1
      BY <1>0, <2>1, <3>1 DEF Back
    <3>2. CASE i # 1
      <4>1. C.prev[ks[i]] \in Keys /\ r[C.prev[ks[i]]] = i - 1
        BY <1>0, <2>1, <3>2 DEF Back
      <4>2. r[C.prev[ks[i]]] > 0
        BY <3>2, <4>1
      <4>. QED
        BY <1>1, <2>1, <3>2, <4>1, <4>2
    <3>. QED
      BY <3>1, <3>2
  <2>. QED
    BY <2>2, <2>3
<1>7. /\ C.head = IF n = 0 THEN None ELSE ks[1]
      /\ C.tail = IF n = 0 THEN None ELSE ks[n]
  <2>1. CASE n = 0
    BY <1>0, <2>1 DEF Ends
  <2>2. CASE n # 0
    <3>1. C.head \in Keys /\ r[C.head] = 1 /\ C.tail \in Keys /\ r[C.tail] = n
      BY <1>0, <2>2 DEF Ends
    <3>2. r[C.head] > 0 /\ r[C.tail] > 0
      BY <1>0, <2>2, <3>1
    <3>. QED
      BY <1>1, <2>2, <3>1, <3>2
  <2>. QED
    BY <2>1, <2>2
<1>. QED
  BY <1>4, <1>5, <1>6, <1>7 DEF ks

-----------------------------------------------------------------------------
(* What the operations on the cache do to the pairs it holds. *)

Listed(C) == \E r : Matched(C, r)

LEMMA PairsOf ==
  ASSUME Configured, NEW C, Listed(C)
  PROVE  /\ C \in Shapes /\ C.size \in Nat /\ C.size = Cardinality(Present(C)) /\ Pairs(C) \subseteq Keys \X Callers
         /\ \A k \in Present(C) : C.items[k].value \in Callers /\ <<k, C.items[k].value>> \in Pairs(C)
         /\ \A p \in Pairs(C) : p[1] \in Present(C) /\ p = <<p[1], C.items[p[1]].value>>
<1>1. PICK r : Matched(C, r)
  BY DEF Listed
<1>2. C \in Shapes /\ C.size = Cardinality(Present(C)) /\ C.size \in Nat
  BY <1>1, ListOfMatched DEF Matched, Ranked, Shapes
<1>3. \A k \in Present(C) : k \in Keys /\ C.items[k].value \in Callers
  <2>. TAKE k \in Present(C)
  <2>1. k \in Keys /\ C.items[k] \in Entries
    BY <1>2 DEF Shapes, Present
  <2>. QED
    BY <2>1 DEF Entries
<1>. QED
  BY <1>2, <1>3 DEF Pairs

LEMMA MovedPairs ==
  ASSUME Configured, NEW C, Listed(C), NEW k \in Present(C)
  PROVE  Listed(MoveToFront(C, k)) /\ Pairs(MoveToFront(C, k)) = Pairs(C)
<1>1. PICK r : Matched(C, r)
  BY DEF Listed
<1>2. k \in Keys /\ r[k] > 0 /\ Ranked(C, r) /\ r \in [Keys -> Nat]
  BY <1>1 DEF Matched, Ranked, Present
<1>3. Ranked(MoveToFront(C, k), First(r, k)) /\ MoveToFront(C, k).items = C.items
  BY <1>2, MoveToFrontRanks
<1>4. \A j \in Keys : r[j] > 0 <=> First(r, k)[j] > 0
  BY <1>2 DEF First
<1>5. Matched(MoveToFront(C, k), First(r, k))
  BY <1>1, <1>3, <1>4 DEF Matched
<1>. QED
  BY <1>3, <1>5 DEF Listed, Pairs, Present

LEMMA RemovedPairs ==
  ASSUME Configured, NEW C, Listed(C), NEW K \in SUBSET Present(C)
  PROVE  Listed(RemoveAll(C, K)) /\ Pairs(RemoveAll(C, K)) \subseteq Pairs(C)
<1>. DEFINE D == RemoveAll(C, K)
<1>1. PICK r : Matched(C, r)
  BY DEF Listed
<1>2. K \in SUBSET Keys /\ \A k \in K : r[k] > 0
  BY <1>1 DEF Matched, Present
<1>3. /\ \E q : Matched(D, q) /\ Keeps(r, q, K)
      /\ D.items = [j \in Keys |-> IF j \in K THEN None ELSE C.items[j]]
  BY <1>1, <1>2, RemoveAllRanks
<1>. HIDE DEF D
<1>4. Listed(D)
  BY <1>3 DEF Listed
<1>5. Pairs(D) \subseteq Pairs(C)
  BY <1>3 DEF Pairs, Present
<1>. QED
  BY <1>4, <1>5 DEF D

LEMMA EvictedPairs ==
  ASSUME Configured, NEW C, Listed(C), NEW n \in Nat
  PROVE  Listed(EvictTail(C, n)) /\ Pairs(EvictTail(C, n)) \subseteq Pairs(C)
<1>. DEFINE D == EvictTail(C, n)
<1>1. PICK r : Matched(C, r)
  BY DEF Listed
<1>2. /\ Matched(D, IF n = 0 THEN r ELSE Cut(r, n))
      /\ D.items = [j \in Keys |-> IF n > 0 /\ r[j] > n THEN None ELSE C.items[j]]
  BY <1>1, EvictRanks
<1>. HIDE DEF D
<1>3. Listed(D)
  BY <1>2 DEF Listed
<1>4. Pairs(D) \subseteq Pairs(C)
  BY <1>2 DEF Pairs, Present
<1>. QED
  BY <1>3, <1>4 DEF D

LEMMA WrittenIsEntry ==
  ASSUME Configured, NEW v \in Callers
  PROVE  Written(v) \in Entries /\ Written(v) # None /\ Written(v).value = v
<1>1. Written(v) \in Entries /\ Written(v).value = v
  BY DEF Written, Entries
<1>. QED
  BY <1>1 DEF Configured

LEMMA PutPairs ==
  ASSUME Configured, NEW C, Listed(C), NEW k \in Keys, NEW v \in Callers
  PROVE  Listed(Put(C, k, v)) /\ Pairs(Put(C, k, v)) \subseteq Pairs(C) \cup ({k} \X {v})
<1>. DEFINE D == Put(C, k, v)
<1>1. PICK r : Matched(C, r)
  BY DEF Listed
<1>2. Matched(D, First(r, k)) /\ D.items = [C.items EXCEPT ![k] = Written(v)]
  BY <1>1, PutRanks
<1>. HIDE DEF D
<1>3. Listed(D)
  BY <1>2 DEF Listed
<1>4. C.items \in [Keys -> Entries \cup {None}]
  BY <1>1 DEF Matched, Ranked, Shapes
<1>5. Pairs(D) \subseteq Pairs(C) \cup ({k} \X {v})
  BY <1>2, <1>4, WrittenIsEntry DEF Pairs, Present
<1>. QED
  BY <1>3, <1>5 DEF D

LEMMA SequencesOf ==
  ASSUME Configured, NEW K \in SUBSET Keys, NEW ks \in SetToSeqs(K)
  PROVE  \E n \in Nat : /\ ks \in [1 .. n -> Keys] /\ Len(ks) = n
                        /\ \A a, b \in 1 .. n : ks[a] = ks[b] => a = b
                        /\ \A k : k \in K <=> \E l \in 1 .. n : ks[l] = k
<1>. DEFINE n == Cardinality(K)
<1>1. IsFiniteSet(K) /\ n \in Nat
  BY FS_Subset, FS_CardinalityType DEF Configured
<1>2. ks \in [1 .. n -> K] /\ \A a, b \in 1 .. n : a # b => ks[a] # ks[b]
  BY DEF SetToSeqs
<1>. HIDE DEF n
<1>3. ks \in Injection(1 .. n, K)
  BY <1>2 DEF Injection, IsInjective
<1>4. Cardinality(1 .. n) = n /\ IsFiniteSet(1 .. n)
  BY <1>1, FS_Interval
<1>5. ks \in Surjection(1 .. n, K)
  BY <1>1, <1>3, <1>4, FS_Injection DEF n
<1>6. \A k \in K : \E l \in 1 .. n : ks[l] = k
  BY <1>5 DEF Surjection
<1>. QED
  BY <1>1, <1>2, <1>6

LEMMA PutAllPairs ==
  ASSUME Configured, NEW C, Listed(C), NEW K \in SUBSET Keys, NEW ks \in SetToSeqs(K),
         NEW v \in Callers
  PROVE  Listed(PutAll(C, ks, v)) /\ Pairs(PutAll(C, ks, v)) \subseteq Pairs(C) \cup (K \X {v})
<1>. DEFINE D == PutAll(C, ks, v)
<1>1. PICK r : Matched(C, r)
  BY DEF Listed
<1>2. PICK n \in Nat : /\ ks \in [1 .. n -> Keys] /\ Len(ks) = n
                       /\ \A a, b \in 1 .. n : ks[a] = ks[b] => a = b
                       /\ \A k : k \in K <=> \E l \in 1 .. n : ks[l] = k
  BY SequencesOf
<1>3. /\ \E q : Matched(D, q) /\ After(r, q, ks, n)
      /\ D.items = [j \in Keys |-> IF \E l \in 1 .. n : ks[l] = j THEN Written(v) ELSE C.items[j]]
  BY <1>1, <1>2, PutAllRanks
<1>. HIDE DEF D
<1>4. Listed(D)
  BY <1>3 DEF Listed
<1>5. \A j \in Keys : D.items[j] = IF j \in K THEN Written(v) ELSE C.items[j]
  BY <1>2, <1>3
<1>6. Pairs(D) \subseteq Pairs(C) \cup (K \X {v})
  BY <1>5, WrittenIsEntry DEF Pairs, Present
<1>. QED
  BY <1>4, <1>6 DEF D

LEMMA EmptyPairs == ASSUME Configured PROVE Listed(Empty) /\ Pairs(Empty) = {}
<1>. DEFINE r == [k \in Keys |-> 0]
<1>1. Empty \in Shapes /\ Empty.size = 0 /\ Empty.head = None /\ Empty.tail = None
      /\ \A k \in Keys : Empty.items[k] = None
  BY DEF Empty, Shapes, Links
<1>2. Matched(Empty, r)
  BY <1>1 DEF Matched, Ranked, Injective, Covers, Onward, Back, Ends
<1>. HIDE DEF r
<1>. QED
  BY <1>1, <1>2 DEF Listed, Pairs, Present

LEMMA AgedPairs ==
  ASSUME Configured, NEW C, Listed(C), NEW k \in Fresh(C)
  PROVE  /\ Listed([C EXCEPT !.items[k].expired = TRUE])
         /\ Pairs([C EXCEPT !.items[k].expired = TRUE]) = Pairs(C)
<1>. DEFINE its == [C.items EXCEPT ![k].expired = TRUE]
            D == [C EXCEPT !.items = its]
<1>1. PICK r : Matched(C, r)
  BY DEF Listed
<1>2. /\ C.items \in [Keys -> Entries \cup {None}] /\ k \in Keys /\ C.items[k] \in Entries
      /\ None \notin Entries /\ Ranked(C, r)
      /\ \A j \in Keys : C.items[j] # None <=> r[j] > 0
  BY <1>1 DEF Matched, Ranked, Shapes, Fresh, Present, Configured
<1>3. [C.items[k] EXCEPT !.expired = TRUE] \in Entries /\ [C.items[k] EXCEPT !.expired = TRUE].value = C.items[k].value
  BY <1>2 DEF Entries
<1>. DEFINE e == [C.items[k] EXCEPT !.expired = TRUE]
<1>. HIDE DEF e
<1>4. its \in [Keys -> Entries \cup {None}] /\ \A j \in Keys : its[j] = IF j = k THEN e ELSE C.items[j]
  BY <1>2, <1>3 DEF e
<1>5. e \in Entries /\ e # None /\ e.value = C.items[k].value /\ C.items[k] # None
  BY <1>2, <1>3 DEF e
<1>6. D = [C EXCEPT !.items[k].expired = TRUE]
  BY <1>1 DEF Matched, Ranked, Shapes
<1>. HIDE DEF its
<1>7. Ranked(D, r) /\ D.items = its
  BY <1>2, <1>4, ItemsApart
<1>. HIDE DEF D
<1>8. Matched(D, r)
  BY <1>2, <1>4, <1>5, <1>7 DEF Matched
<1>9. Pairs(D) = Pairs(C)
  <2>1. Present(D) = Present(C)
    BY <1>2, <1>4, <1>5, <1>7 DEF Present
  <2>2. \A j \in Present(C) : D.items[j].value = C.items[j].value
    BY <1>2, <1>4, <1>5, <1>7 DEF Present
  <2>. QED
    BY <2>1, <2>2 DEF Pairs
<1>. QED
  BY <1>6, <1>8, <1>9 DEF Listed

-----------------------------------------------------------------------------
(* The steps, by what they do to the cache and to the events. *)

LEMMA LookupPairs ==
  ASSUME Configured, Listed(cache), NEW c \in Callers, NEW k \in Keys, Lookup(c, k)
  PROVE  \E D : Becomes(c, D) /\ Listed(D) /\ Pairs(D) \subseteq Pairs(cache)
<1>1. CASE k \in Fresh(cache)
  <2>1. Listed(MoveToFront(cache, k)) /\ Pairs(MoveToFront(cache, k)) = Pairs(cache)
    BY <1>1, MovedPairs DEF Fresh
  <2>. QED
    BY <1>1, <2>1 DEF Lookup
<1>2. CASE k \notin Fresh(cache)
  <2>. DEFINE K == {k} \cap Expired(cache)
  <2>1. K \in SUBSET Present(cache)
    BY DEF Expired
  <2>2. Listed(RemoveAll(cache, K)) /\ Pairs(RemoveAll(cache, K)) \subseteq Pairs(cache)
    BY <2>1, RemovedPairs
  <2>. QED
    BY <1>2, <2>2 DEF Lookup
<1>. QED
  BY <1>1, <1>2

Finished(c) == \/ pc[c] \in {"fire", "done"} /\ fpc[c] = "none"
               \/ fpc[c] \in {"deliver", "done"}

Turned(c) == /\ \E D : Becomes(c, D) /\ Listed(D) /\ Pairs(D) \subseteq Pairs(cache)
             /\ UNCHANGED <<closed, history>>
Added(c)  == /\ ~Finished(c)
             /\ \E D, K : /\ Stores(c, D, K) /\ K \subseteq Keys
                          /\ Listed(D) /\ Pairs(D) \subseteq Pairs(cache) \cup (K \X {c})
             /\ UNCHANGED closed
             /\ Finished(c)'
Fired(c)  == Fire(c) /\ UNCHANGED <<cache, closed>>
Lost      == /\ closed /\ Listed(cache') /\ Pairs(cache') \subseteq Pairs(cache)
             /\ UNCHANGED <<closed, events, history>>
Quiets    == UNCHANGED <<cache, events, history>> /\ (closed => closed')
Aged      == /\ Listed(cache') /\ Pairs(cache') = Pairs(cache)
             /\ UNCHANGED <<closed, events, history>>

Keyed == {"set", "get", "getFast", "touch", "peek", "direct", "check", "compute", "store", "single"}
Steps == \A c \in Callers :
  /\ pc[c] \in Keyed => key[c] \in Keys
  /\ fpc[c] # "none" => key[c] \in Keys /\ pc[c] \in {"await", "done"}
  /\ leader[c] # None => pc[c] \in {"await", "done"}
  /\ pc[c] = "await" => leader[c] # None
  /\ pc[c] \notin {"fire", "done"} => source[c] = "none"
  /\ fpc[c] \in {"none", "peek", "miss", "compute"} => result[c] = None
  /\ fpc[c] \in {"closed", "store"} => result[c] = c

Typed ==
  /\ capacity \in Capacities /\ closed \in BOOLEAN
  /\ flight \in [Flights -> Callers \cup {None}]
  /\ pc \in [Callers -> Labels] /\ fpc \in [Callers -> FlightLabels]
  /\ key \in [Callers -> Links]
  /\ got \in [Callers -> Callers \cup {None}] /\ result \in [Callers -> Callers \cup {None}]
  /\ leader \in [Callers -> Callers \cup {None}]
  /\ source \in [Callers -> Sources]
  /\ events \in [Callers -> SUBSET (Keys \X Callers)]
  /\ stored \subseteq Keys \X Callers /\ reported \subseteq Keys \X Callers

LEMMA PlainMoves ==
  ASSUME Configured, Typed, Listed(cache), Steps, NEW c \in Callers, Plain(c)
  PROVE  Turned(c) \/ Added(c) \/ Fired(c) \/ Quiets
<1>0. key[c] \in Links /\ capacity \in Nat /\ (pc[c] \in Keyed => key[c] \in Keys)
      /\ (fpc[c] # "none" => pc[c] \in {"await", "done"})
      /\ pc \in [Callers -> Labels] /\ fpc \in [Callers -> FlightLabels]
  BY DEF Configured, Typed, Steps
<1>. USE DEF At, Goto
<1>1. CASE Enter(c)
  BY <1>1 DEF Enter, Quiets
<1>2. CASE Set(c)
  <2>. DEFINE D == Put(cache, key[c], c)
  <2>1. key[c] \in Keys /\ ~Finished(c) /\ Finished(c)'
    BY <1>0, <1>2 DEF Set, Keyed, Finished, single
  <2>2. Listed(D) /\ Pairs(D) \subseteq Pairs(cache) \cup ({key[c]} \X {c})
    BY <2>1, PutPairs
  <2>3. Stores(c, EvictTail(D, capacity), {key[c]}) /\ UNCHANGED closed
    BY <1>2 DEF Set
  <2>. HIDE DEF D
  <2>4. Listed(EvictTail(D, capacity)) /\ Pairs(EvictTail(D, capacity)) \subseteq Pairs(D)
    BY <1>0, <2>2, EvictedPairs
  <2>. QED
    BY <2>1, <2>2, <2>3, <2>4 DEF Added
<1>3. CASE SetMulti(c)
  <2>1. PICK K \in (SUBSET Keys) \ {{}} : \E ks \in SetToSeqs(K) :
             Stores(c, EvictTail(PutAll(cache, ks, c), capacity), K)
    BY <1>3 DEF SetMulti
  <2>2. PICK ks \in SetToSeqs(K) : Stores(c, EvictTail(PutAll(cache, ks, c), capacity), K)
    BY <2>1
  <2>. DEFINE D == PutAll(cache, ks, c)
  <2>3. K \in SUBSET Keys /\ Listed(D) /\ Pairs(D) \subseteq Pairs(cache) \cup (K \X {c})
    BY PutAllPairs
  <2>4. ~Finished(c) /\ Finished(c)' /\ UNCHANGED closed
    BY <1>0, <1>3 DEF SetMulti, Finished, single
  <2>5. Stores(c, EvictTail(D, capacity), K)
    BY <2>2
  <2>. HIDE DEF D
  <2>6. Listed(EvictTail(D, capacity)) /\ Pairs(EvictTail(D, capacity)) \subseteq Pairs(D)
    BY <1>0, <2>3, EvictedPairs
  <2>. QED
    BY <2>3, <2>4, <2>5, <2>6 DEF Added
<1>4. CASE Get(c)
  <2>1. key[c] \in Keys /\ Lookup(c, key[c]) /\ UNCHANGED <<closed, history>>
    BY <1>0, <1>4 DEF Get, Keyed
  <2>. QED
    BY <2>1, LookupPairs DEF Turned
<1>5. CASE GetFast(c)
  BY <1>5 DEF GetFast, Quiets
<1>6. CASE Touch(c)
  <2>1. key[c] \in Keys /\ Lookup(c, key[c]) /\ UNCHANGED <<closed, history>>
    BY <1>0, <1>6 DEF Touch, Keyed
  <2>. QED
    BY <2>1, LookupPairs DEF Turned
<1>7. CASE Delete(c)
  <2>1. PICK K \in (SUBSET Keys) \ {{}} : Becomes(c, RemoveAll(cache, K \cap Present(cache)))
    BY <1>7 DEF Delete
  <2>2. K \cap Present(cache) \in SUBSET Present(cache)
    OBVIOUS
  <2>. QED
    BY <1>7, <2>1, <2>2, RemovedPairs DEF Delete, Turned
<1>8. CASE Drain(c)
  <2>1. Becomes(c, Empty) /\ UNCHANGED <<closed, history>>
    BY <1>8 DEF Drain
  <2>. QED
    BY <2>1, EmptyPairs DEF Turned
<1>9. CASE Resize(c)
  <2>1. PICK n \in Capacities : Becomes(c, EvictTail(cache, n))
    BY <1>9 DEF Resize
  <2>2. n \in Nat
    BY DEF Configured
  <2>. QED
    BY <1>9, <2>1, <2>2, EvictedPairs DEF Resize, Turned
<1>10. CASE Sweep(c)
  <2>1. PICK K : K \in SUBSET Present(cache) /\ Becomes(c, RemoveAll(cache, K))
    BY <1>10 DEF Sweep, Expired, Ahead
  <2>. QED
    BY <1>10, <2>1, RemovedPairs DEF Sweep, Turned
<1>11. CASE FireLast(c) \/ CountMiss(c)
  BY <1>11 DEF FireLast, CountMiss, Fired
<1>12. CASE CountHit(c)
  BY <1>12 DEF CountHit, Quiets
<1>. QED
  BY <1>1, <1>2, <1>3, <1>4, <1>5, <1>6, <1>7, <1>8, <1>9, <1>10, <1>11, <1>12 DEF Plain

LEMMA DirectMoves ==
  ASSUME Configured, Typed, Listed(cache), Steps, NEW c \in Callers, Direct(c)
  PROVE  Turned(c) \/ Added(c) \/ Fired(c) \/ Lost \/ Quiets
<1>0. key[c] \in Links /\ capacity \in Nat /\ (pc[c] \in Keyed => key[c] \in Keys)
      /\ (fpc[c] # "none" => pc[c] \in {"await", "done"})
      /\ pc \in [Callers -> Labels] /\ fpc \in [Callers -> FlightLabels]
  BY DEF Configured, Typed, Steps
<1>. USE DEF At, Goto
<1>1. CASE PeekPromote(c) \/ Check(c)
  <2>1. key[c] \in Keys /\ Lookup(c, key[c]) /\ UNCHANGED <<closed, history>>
    BY <1>0, <1>1 DEF PeekPromote, Check, Keyed
  <2>. QED
    BY <2>1, LookupPairs DEF Turned
<1>2. CASE StartDirect(c) \/ Compute(c)
  BY <1>2 DEF StartDirect, Compute, Fired
<1>3. CASE ConvertMissToHit(c)
  BY <1>3 DEF ConvertMissToHit, Quiets
<1>4. CASE Store(c)
  <2>. DEFINE K == {key[c]} \cap Expired(cache)
              E == RemoveAll(cache, K)
              D == Put(E, key[c], c)
  <2>1. key[c] \in Keys /\ ~Finished(c)
    BY <1>0, <1>4 DEF Store, Keyed, Finished
  <2>2. K \in SUBSET Present(cache)
    BY DEF Expired
  <2>3. Listed(E) /\ Pairs(E) \subseteq Pairs(cache)
    BY <2>2, RemovedPairs
  <2>4. \/ UNCHANGED <<cache, events, history, closed>>
        \/ Stores(c, EvictTail(D, capacity), {key[c]}) /\ UNCHANGED closed /\ Finished(c)'
        \/ closed /\ cache' = E /\ UNCHANGED <<events, history, closed>>
    <3>1. fpc[c] = "none" /\ UNCHANGED <<fpc, closed>>
      BY <1>0, <1>4 DEF Store, single
    <3>2. pc'[c] = "fire" => Finished(c)'
      BY <3>1 DEF Finished
    <3>3. \/ UNCHANGED <<cache, events, history, closed>>
          \/ Stores(c, EvictTail(D, capacity), {key[c]}) /\ UNCHANGED closed /\ pc'[c] = "fire"
          \/ closed /\ cache' = E /\ UNCHANGED <<events, history, closed>>
      BY <1>0, <1>4 DEF Store
    <3>. QED
      BY <3>2, <3>3
  <2>. HIDE DEF K, E
  <2>5. Listed(D) /\ Pairs(D) \subseteq Pairs(E) \cup ({key[c]} \X {c})
    BY <2>1, <2>3, PutPairs
  <2>. HIDE DEF D
  <2>6. Listed(EvictTail(D, capacity)) /\ Pairs(EvictTail(D, capacity)) \subseteq Pairs(D)
    BY <1>0, <2>5, EvictedPairs
  <2>7. Stores(c, EvictTail(D, capacity), {key[c]}) /\ UNCHANGED closed /\ Finished(c)' => Added(c)
    BY <2>1, <2>3, <2>5, <2>6 DEF Added
  <2>. QED
    BY <2>1, <2>3, <2>4, <2>7 DEF Lost, Quiets
<1>. QED
  BY <1>1, <1>2, <1>3, <1>4 DEF Direct

LEMMA FlightMoves ==
  ASSUME Configured, Typed, Listed(cache), Steps, NEW c \in Callers, Flight(c)
  PROVE  Turned(c) \/ Added(c) \/ Fired(c) \/ Quiets
<1>0. key[c] \in Links /\ capacity \in Nat /\ (fpc[c] # "none" => key[c] \in Keys)
      /\ fpc \in [Callers -> FlightLabels]
  BY DEF Configured, Typed, Steps
<1>1. CASE FlightPeek(c)
  <2>1. key[c] \in Keys /\ Lookup(c, key[c]) /\ UNCHANGED <<closed, history>>
    BY <1>0, <1>1 DEF FlightPeek
  <2>. QED
    BY <2>1, LookupPairs DEF Turned
<1>2. CASE Join(c) \/ FlightMiss(c) \/ Deliver(c)
  BY <1>2 DEF Join, FlightMiss, Deliver, Fired
<1>3. CASE FlightCompute(c) \/ FlightClosed(c) \/ Await(c)
  BY <1>3 DEF FlightCompute, FlightClosed, Await, Quiets
<1>4. CASE FlightStore(c)
  <2>. DEFINE D == Put(cache, key[c], c)
  <2>1. key[c] \in Keys /\ ~Finished(c) /\ Finished(c)'
    BY <1>0, <1>4 DEF FlightStore, Finished, FlightGoto
  <2>2. Listed(D) /\ Pairs(D) \subseteq Pairs(cache) \cup ({key[c]} \X {c})
    BY <2>1, PutPairs
  <2>3. Stores(c, EvictTail(D, capacity), {key[c]}) /\ UNCHANGED closed
    BY <1>4 DEF FlightStore
  <2>. HIDE DEF D
  <2>4. Listed(EvictTail(D, capacity)) /\ Pairs(EvictTail(D, capacity)) \subseteq Pairs(D)
    BY <1>0, <2>2, EvictedPairs
  <2>. QED
    BY <2>1, <2>2, <2>3, <2>4 DEF Added
<1>. QED
  BY <1>1, <1>2, <1>3, <1>4 DEF Flight

LEMMA ExpireMoves ==
  ASSUME Configured, Listed(cache), Expire
  PROVE  Aged
<1>1. PICK k \in Fresh(cache) : cache' = [cache EXCEPT !.items[k].expired = TRUE]
  BY DEF Expire
<1>. QED
  BY <1>1, AgedPairs DEF Expire, Aged

-----------------------------------------------------------------------------
(* Where every stored pair is. *)

Placed ==
  /\ Pairs(cache) \subseteq stored /\ reported \subseteq stored /\ Pairs(cache) \cap reported = {}
  /\ \A c \in Callers : /\ events[c] \subseteq stored
                        /\ events[c] \cap Pairs(cache) = {} /\ events[c] \cap reported = {}
  /\ \A c, d \in Callers : c # d => events[c] \cap events[d] = {}
  /\ closed \/ \A p \in stored : p \in Pairs(cache) \cup reported \/ \E c \in Callers : p \in events[c]

\* Whoever has stored a value has nothing left to store.
OwnersFinished == \A p \in stored : Finished(p[2])

LEMMA PlacedNext ==
  ASSUME Configured, Typed, Listed(cache), Placed, OwnersFinished, NEW c \in Callers,
         Turned(c) \/ Added(c) \/ Fired(c) \/ Lost \/ Quiets \/ Aged
  PROVE  Listed(cache') /\ Placed'
<1>0. /\ events \in [Callers -> SUBSET (Keys \X Callers)] /\ closed \in BOOLEAN
      /\ Pairs(cache') = Pairs(cache)'
  BY DEF Typed, Pairs, Present
<1>. USE DEF history
<1>1. CASE Turned(c)
  <2>1. PICK D : Becomes(c, D) /\ Listed(D) /\ Pairs(D) \subseteq Pairs(cache)
    BY <1>1 DEF Turned
  <2>2. cache' = D /\ events' = [events EXCEPT ![c] = @ \cup (Pairs(cache) \ Pairs(D))]
        /\ UNCHANGED <<stored, reported, closed>>
    BY <1>1, <2>1 DEF Becomes, Turns, Turned
  <2>3. Pairs(cache)' = Pairs(D)
    BY <1>0, <2>2
  <2>4. \A d \in Callers : events'[d] = IF d = c THEN events[c] \cup (Pairs(cache) \ Pairs(D)) ELSE events[d]
    BY <1>0, <2>2
  <2>5. Placed'
    BY <2>1, <2>2, <2>3, <2>4 DEF Placed
  <2>. QED
    BY <2>1, <2>2, <2>5
<1>2. CASE Added(c)
  <2>1. PICK D, K : /\ Stores(c, D, K) /\ K \subseteq Keys
                    /\ Listed(D) /\ Pairs(D) \subseteq Pairs(cache) \cup (K \X {c})
    BY <1>2 DEF Added
  <2>. DEFINE W == K \X {c}
  <2>2. cache' = D /\ events' = [events EXCEPT ![c] = @ \cup ((Pairs(cache) \cup W) \ Pairs(D))]
        /\ stored' = stored \cup W /\ UNCHANGED <<reported, closed>>
    BY <1>2, <2>1 DEF Stores, Turns, Added
  <2>3. Pairs(cache)' = Pairs(D)
    BY <1>0, <2>2
  <2>4. \A d \in Callers : events'[d] = IF d = c THEN events[c] \cup ((Pairs(cache) \cup W) \ Pairs(D)) ELSE events[d]
    BY <1>0, <2>2
  <2>5. W \cap stored = {}
    BY <1>2 DEF Added, OwnersFinished
  <2>6. Pairs(D) \subseteq Pairs(cache) \cup W
    BY <2>1
  <2>. HIDE DEF W
  <2>7. Placed'
    BY <2>2, <2>3, <2>4, <2>5, <2>6 DEF Placed
  <2>. QED
    BY <2>1, <2>2, <2>7
<1>3. CASE Fired(c)
  <2>1. /\ Pairs(cache)' = Pairs(cache) /\ UNCHANGED <<stored, closed, cache>>
        /\ \A d \in Callers : events'[d] = IF d = c THEN {} ELSE events[d]
        /\ reported' = reported \cup events[c]
    BY <1>0, <1>3 DEF Fired, Fire
  <2>2. Placed'
    BY <2>1 DEF Placed
  <2>. QED
    BY <2>1, <2>2
<1>4. CASE Lost
  BY <1>0, <1>4 DEF Lost, Placed
<1>5. CASE Quiets \/ Aged
  <2>1. Pairs(cache)' = Pairs(cache) /\ UNCHANGED <<events, stored, reported>> /\ (closed => closed')
    BY <1>0, <1>5 DEF Quiets, Aged
  <2>2. Placed'
    BY <2>1 DEF Placed
  <2>3. Listed(cache')
    BY <1>5 DEF Quiets, Aged
  <2>. QED
    BY <2>2, <2>3
<1>. QED
  BY <1>1, <1>2, <1>3, <1>4, <1>5

LEMMA OwnersNext ==
  ASSUME Configured, Typed, Listed(cache), OwnersFinished, NEW c \in Callers,
         Turned(c) \/ Added(c) \/ Fired(c) \/ Lost \/ Quiets \/ Aged,
         \A d \in Callers : Finished(d) => Finished(d)'
  PROVE  OwnersFinished'
<1>0. \A p \in stored : p[2] \in Callers
  BY DEF Typed
<1>1. \A p \in stored : Finished(p[2])'
  BY <1>0 DEF OwnersFinished
<1>2. CASE Added(c)
  <2>1. PICK D, K : Stores(c, D, K)
    BY <1>2 DEF Added
  <2>2. stored' = stored \cup (K \X {c})
    BY <2>1 DEF Stores
  <2>3. \A p \in stored' : p \in stored \/ p[2] = c
    BY <2>2
  <2>4. Finished(c)'
    BY <1>2 DEF Added
  <2>. QED
    BY <1>1, <2>3, <2>4 DEF OwnersFinished, Finished
<1>3. CASE Turned(c) \/ Fired(c) \/ Lost \/ Quiets \/ Aged
  <2>1. stored' = stored
    BY <1>3 DEF Turned, Fired, Fire, Lost, Quiets, Aged, history
  <2>. QED
    BY <1>1, <2>1 DEF OwnersFinished, Finished
<1>. QED
  BY <1>2, <1>3

\* Nobody who has nothing left to store comes to store again.
LEMMA FinishedStays ==
  ASSUME Typed, Steps, NEW c \in Callers, Plain(c) \/ Direct(c) \/ Flight(c),
         NEW d \in Callers, Finished(d)
  PROVE  Finished(d)'
<1>0. /\ pc \in [Callers -> Labels] /\ fpc \in [Callers -> FlightLabels]
      /\ (fpc[d] # "none" => pc[d] \in {"await", "done"})
  BY DEF Typed, Steps
<1>. USE DEF At, Goto, FlightGoto, Finished, single
<1>1. CASE Plain(c)
  BY <1>0, <1>1 DEF Plain, Enter, Set, SetMulti, Get, GetFast, Touch, Delete, Drain, Resize, Sweep,
                    FireLast, CountHit, CountMiss
<1>2. CASE Direct(c)
  BY <1>0, <1>2 DEF Direct, PeekPromote, StartDirect, Check, Compute, Store, ConvertMissToHit
<1>3. CASE Flight(c)
  BY <1>0, <1>3 DEF Flight, Join, FlightPeek, FlightMiss, FlightCompute, FlightClosed, FlightStore,
                    Deliver, Await
<1>. QED
  BY <1>1, <1>2, <1>3

-----------------------------------------------------------------------------
(* Where every caller and its flight are. *)

LEMMA StepsNext ==
  ASSUME Configured, Typed, Steps, NEW c \in Callers, Plain(c) \/ Direct(c) \/ Flight(c)
  PROVE  Steps'
<1>0. /\ pc \in [Callers -> Labels] /\ fpc \in [Callers -> FlightLabels] /\ key \in [Callers -> Links]
      /\ leader \in [Callers -> Callers \cup {None}] /\ source \in [Callers -> Sources]
      /\ result \in [Callers -> Callers \cup {None}] /\ None \notin Callers
      /\ flight \in [Flights -> Callers \cup {None}]
  BY DEF Typed, Configured
<1>. USE DEF At, Goto, FlightGoto, From, single, locals, Keyed
<1>1. CASE Enter(c)
  BY <1>0, <1>1 DEF Enter, Steps
<1>2. CASE Set(c) \/ SetMulti(c) \/ Get(c) \/ GetFast(c) \/ Touch(c) \/ Delete(c) \/ Drain(c)
             \/ Resize(c) \/ Sweep(c)
  BY <1>0, <1>2 DEF Steps, Set, SetMulti, Get, GetFast, Touch, Delete, Drain, Resize, Sweep
<1>3. CASE FireLast(c) \/ CountHit(c) \/ CountMiss(c)
  BY <1>0, <1>3 DEF Steps, FireLast, CountHit, CountMiss
<1>4. CASE PeekPromote(c) \/ StartDirect(c) \/ Check(c) \/ Compute(c) \/ ConvertMissToHit(c)
  BY <1>0, <1>4 DEF Steps, PeekPromote, StartDirect, Check, Compute, ConvertMissToHit
<1>5. CASE Store(c)
  BY <1>0, <1>5 DEF Steps, Store
<1>6. CASE Join(c)
  <2>. DEFINE f == FlightName(key[c])
  <2>1. key[c] \in Keys /\ f \in Flights
    BY <1>6 DEF Join, Steps, Flights
  <2>. HIDE DEF f
  <2>2. /\ pc[c] = "single" /\ pc' = [pc EXCEPT ![c] = "await"]
        /\ UNCHANGED <<key, source, result>>
        /\ \E l \in Callers : leader' = [leader EXCEPT ![c] = l]
        /\ fpc' = fpc \/ fpc' = [fpc EXCEPT ![c] = "peek"]
    BY <1>0, <1>6, <2>1 DEF Join, f
  <2>. QED
    BY <1>0, <2>1, <2>2 DEF Steps
<1>7. CASE FlightPeek(c) \/ FlightMiss(c) \/ FlightCompute(c) \/ FlightClosed(c)
             \/ FlightStore(c) \/ Deliver(c)
  BY <1>0, <1>7 DEF Steps, FlightPeek, FlightMiss, FlightCompute, FlightClosed, FlightStore, Deliver
<1>8. CASE Await(c)
  BY <1>0, <1>8 DEF Steps, Await
<1>. QED
  BY <1>1, <1>2, <1>3, <1>4, <1>5, <1>6, <1>7, <1>8 DEF Plain, Direct, Flight

\* What the steps may write into the events and the history.
LEMMA HistoryTyped ==
  ASSUME Configured, Typed, Listed(cache), NEW c \in Callers,
         Turned(c) \/ Added(c) \/ Fired(c) \/ Lost \/ Quiets \/ Aged
  PROVE  /\ events' \in [Callers -> SUBSET (Keys \X Callers)]
         /\ stored' \subseteq Keys \X Callers /\ reported' \subseteq Keys \X Callers
<1>0. /\ events \in [Callers -> SUBSET (Keys \X Callers)] /\ events[c] \subseteq Keys \X Callers
      /\ stored \subseteq Keys \X Callers /\ reported \subseteq Keys \X Callers
      /\ Pairs(cache) \subseteq Keys \X Callers
  BY PairsOf DEF Typed
<1>. DEFINE W == Keys \X Callers
<1>1. \A X \in SUBSET W : [events EXCEPT ![c] = X] \in [Callers -> SUBSET W]
  BY <1>0
<1>2. CASE Turned(c)
  <2>1. PICK D : Becomes(c, D)
    BY <1>2 DEF Turned
  <2>2. events' = [events EXCEPT ![c] = events[c] \cup (Pairs(cache) \ Pairs(D))]
        /\ UNCHANGED <<stored, reported>>
    BY <1>2, <2>1 DEF Becomes, Turns, Turned, history
  <2>. QED
    BY <1>0, <1>1, <2>2
<1>3. CASE Added(c)
  <2>1. PICK D, K : Stores(c, D, K) /\ K \subseteq Keys
    BY <1>3 DEF Added
  <2>2. events' = [events EXCEPT ![c] = events[c] \cup ((Pairs(cache) \cup (K \X {c})) \ Pairs(D))]
        /\ stored' = stored \cup (K \X {c}) /\ UNCHANGED reported
    BY <2>1 DEF Stores, Turns
  <2>3. K \X {c} \subseteq W
    BY <2>1
  <2>. QED
    BY <1>0, <1>1, <2>2, <2>3
<1>4. CASE Fired(c)
  BY <1>0, <1>1, <1>4 DEF Fired, Fire
<1>5. CASE Lost \/ Quiets \/ Aged
  BY <1>0, <1>5 DEF Lost, Quiets, Aged, history
<1>. QED
  BY <1>2, <1>3, <1>4, <1>5

LEMMA TypedNext ==
  ASSUME Configured, Typed, Listed(cache), Steps, NEW c \in Callers, Plain(c) \/ Direct(c) \/ Flight(c),
         Turned(c) \/ Added(c) \/ Fired(c) \/ Lost \/ Quiets \/ Aged
  PROVE  Typed'
<1>0. /\ capacity \in Capacities /\ closed \in BOOLEAN
      /\ pc \in [Callers -> Labels] /\ fpc \in [Callers -> FlightLabels] /\ key \in [Callers -> Links]
      /\ leader \in [Callers -> Callers \cup {None}] /\ source \in [Callers -> Sources]
      /\ got \in [Callers -> Callers \cup {None}]
      /\ result \in [Callers -> Callers \cup {None}] /\ None \notin Callers
      /\ flight \in [Flights -> Callers \cup {None}]
      /\ \A k \in Fresh(cache) : cache.items[k].value \in Callers
  BY PairsOf DEF Typed, Configured, Fresh
<1>1. /\ events' \in [Callers -> SUBSET (Keys \X Callers)]
      /\ stored' \subseteq Keys \X Callers /\ reported' \subseteq Keys \X Callers
  BY HistoryTyped
<1>. DEFINE Rest1 == /\ capacity' \in Capacities /\ closed' \in BOOLEAN
                     /\ flight' \in [Flights -> Callers \cup {None}]
                     /\ leader' \in [Callers -> Callers \cup {None}]
                     /\ key' \in [Callers -> Links]
            Rest2 == /\ pc' \in [Callers -> Labels] /\ fpc' \in [Callers -> FlightLabels]
                     /\ source' \in [Callers -> Sources]
            Rest3 == /\ got' \in [Callers -> Callers \cup {None}]
                     /\ result' \in [Callers -> Callers \cup {None}]
<1>. USE DEF At, Goto, FlightGoto, From, Found, single, locals
<1>2. Rest1
  <2>. USE DEF Links
  <2>1. CASE Plain(c)
    <3>1. CASE Enter(c)
      <4>1. UNCHANGED <<capacity, flight, leader>>
        BY <3>1 DEF Enter
      <4>2. closed' \in BOOLEAN
        BY <1>0, <3>1 DEF Enter
      <4>3. key' = key \/ \E k \in Keys : key' = [key EXCEPT ![c] = k]
        BY <3>1 DEF Enter
      <4>4. key' \in [Callers -> Links]
        BY <1>0, <4>3
      <4>. QED
        BY <1>0, <4>1, <4>2, <4>4
    <3>2. CASE Resize(c)
      BY <1>0, <3>2 DEF Resize
    <3>3. CASE Set(c) \/ SetMulti(c) \/ Get(c) \/ GetFast(c) \/ Touch(c) \/ Delete(c) \/ Drain(c)
                 \/ Sweep(c) \/ FireLast(c) \/ CountHit(c) \/ CountMiss(c)
      BY <1>0, <3>3 DEF Set, SetMulti, Get, GetFast, Touch, Delete, Drain, Sweep, FireLast, CountHit,
                        CountMiss
    <3>. QED
      BY <2>1, <3>1, <3>2, <3>3 DEF Plain
  <2>2. CASE Direct(c)
    BY <1>0, <2>2 DEF Direct, PeekPromote, StartDirect, Check, Compute, Store, ConvertMissToHit
  <2>3. CASE Join(c)
    <3>1. key[c] \in Keys /\ FlightName(key[c]) \in Flights
      BY <2>3 DEF Join, Steps, Flights, Keyed
    <3>. QED
      BY <1>0, <2>3, <3>1 DEF Join
  <2>4. CASE FlightPeek(c) \/ FlightMiss(c) \/ FlightCompute(c) \/ FlightClosed(c)
               \/ FlightStore(c) \/ Deliver(c) \/ Await(c)
    BY <1>0, <2>4 DEF FlightPeek, FlightMiss, FlightCompute, FlightClosed, FlightStore, Deliver, Await
  <2>. QED
    BY <2>1, <2>2, <2>3, <2>4 DEF Flight
<1>3. Rest2
  <2>. USE DEF Labels, FlightLabels, Sources
  <2>1. CASE Plain(c)
    BY <1>0, <2>1 DEF Plain, Enter, Set, SetMulti, Get, GetFast, Touch, Delete, Drain, Resize, Sweep,
                      FireLast, CountHit, CountMiss
  <2>2. CASE Direct(c)
    BY <1>0, <2>2 DEF Direct, PeekPromote, StartDirect, Check, Compute, Store, ConvertMissToHit
  <2>3. CASE Flight(c)
    BY <1>0, <2>3 DEF Flight, Join, FlightPeek, FlightMiss, FlightCompute, FlightClosed, FlightStore,
                      Deliver, Await
  <2>. QED
    BY <2>1, <2>2, <2>3
<1>4. Rest3
  <2>1. CASE Plain(c)
    BY <1>0, <2>1 DEF Plain, Enter, Set, SetMulti, Get, GetFast, Touch, Delete, Drain, Resize, Sweep,
                      FireLast, CountHit, CountMiss
  <2>2. CASE Direct(c)
    BY <1>0, <2>2 DEF Direct, PeekPromote, StartDirect, Check, Compute, Store, ConvertMissToHit
  <2>3. CASE Await(c)
    <3>1. leader[c] \in Callers
      BY <1>0, <2>3 DEF Await, Steps
    <3>. QED
      BY <1>0, <2>3, <3>1 DEF Await
  <2>4. CASE Join(c) \/ FlightPeek(c) \/ FlightMiss(c) \/ FlightCompute(c) \/ FlightClosed(c)
               \/ FlightStore(c) \/ Deliver(c)
    BY <1>0, <2>4 DEF Join, FlightPeek, FlightMiss, FlightCompute, FlightClosed, FlightStore, Deliver
  <2>. QED
    BY <2>1, <2>2, <2>3, <2>4 DEF Flight
<1>. QED
  BY <1>1, <1>2, <1>3, <1>4 DEF Typed

-----------------------------------------------------------------------------
(* The counters. *)

Served    == {c \in Callers : source[c] = "cache"}
Missing(c) == \/ source[c] \in {"own", "nothing"}
              \/ source[c] = "failed" /\ leader[c] = None
              \/ pc[c] \in {"check", "compute", "store", "convert"}
Computed(c) == \/ fpc[c] \in {"compute", "closed", "store"}
               \/ fpc[c] \in {"deliver", "done"} /\ result[c] \in {c, None}
Missed    == {c \in Callers : Missing(c)}
Led       == {c \in Callers : Computed(c)}

Counted ==
  /\ hits = Cardinality(Served)
  /\ misses = Cardinality(Missed) + Cardinality(Led)

\* Only one caller's place changes.
LEMMA OneMore ==
  ASSUME Configured, NEW S \in SUBSET Callers, NEW T, NEW c \in Callers, c \notin S, T = S \cup {c}
  PROVE  Cardinality(T) = Cardinality(S) + 1
<1>1. IsFiniteSet(S)
  BY FS_Subset DEF Configured
<1>. QED
  BY <1>1, FS_AddElement

LEMMA OneLess ==
  ASSUME Configured, NEW S \in SUBSET Callers, NEW T, NEW c \in Callers, c \in S, T = S \ {c}
  PROVE  Cardinality(T) = Cardinality(S) - 1
<1>1. IsFiniteSet(S)
  BY FS_Subset DEF Configured
<1>. QED
  BY <1>1, FS_RemoveElement

LEMMA Numbers ==
  ASSUME Configured
  PROVE  /\ Cardinality(Served) \in Nat /\ Cardinality(Missed) \in Nat /\ Cardinality(Led) \in Nat
<1>1. IsFiniteSet(Served) /\ IsFiniteSet(Missed) /\ IsFiniteSet(Led)
  BY FS_Subset DEF Configured, Served, Missed, Led
<1>. QED
  BY <1>1, FS_CardinalityType

\* The steps that count.
LEMMA CountedHit ==
  ASSUME Configured, Typed, Steps, Counted, NEW c \in Callers, CountHit(c)
  PROVE  Counted'
<1>1. /\ pc[c] = "hit" /\ pc' = [pc EXCEPT ![c] = "done"] /\ source' = [source EXCEPT ![c] = "cache"]
      /\ hits' = hits + 1 /\ UNCHANGED <<misses, fpc, result, leader>>
      /\ source \in [Callers -> Sources] /\ pc \in [Callers -> Labels] /\ source[c] = "none"
  BY DEF CountHit, At, Goto, From, single, Typed, Steps
<1>2. c \notin Served /\ Served' = Served \cup {c}
  BY <1>1 DEF Served
<1>3. Missed' = Missed /\ Led' = Led
  BY <1>1 DEF Missed, Missing, Led, Computed
<1>4. Served \in SUBSET Callers
  BY DEF Served
<1>5. Cardinality(Served') = Cardinality(Served) + 1
  BY <1>2, <1>4, OneMore
<1>. QED
  BY <1>1, <1>3, <1>5 DEF Counted

LEMMA CountedMiss ==
  ASSUME Configured, Typed, Steps, Counted, NEW c \in Callers, CountMiss(c) \/ StartDirect(c)
  PROVE  Counted'
<1>1. /\ pc[c] \in {"miss", "direct"} /\ misses' = misses + 1
      /\ \/ pc' = [pc EXCEPT ![c] = "done"] /\ source' = [source EXCEPT ![c] = "nothing"]
         \/ pc' = [pc EXCEPT ![c] = "check"] /\ source' = source
      /\ UNCHANGED <<hits, fpc, result, leader>>
      /\ source \in [Callers -> Sources] /\ pc \in [Callers -> Labels] /\ source[c] = "none"
  BY DEF CountMiss, StartDirect, At, Goto, From, single, locals, Typed, Steps
<1>2. c \notin Missed /\ Missed' = Missed \cup {c}
  BY <1>1 DEF Missed, Missing
<1>3. Served' = Served /\ Led' = Led
  BY <1>1 DEF Served, Led, Computed
<1>4. Missed \in SUBSET Callers
  BY DEF Missed
<1>5. Cardinality(Missed') = Cardinality(Missed) + 1
  BY <1>2, <1>4, OneMore
<1>. QED
  BY <1>1, <1>3, <1>5, Numbers DEF Counted

LEMMA CountedConversion ==
  ASSUME Configured, Typed, Steps, Counted, NEW c \in Callers, ConvertMissToHit(c)
  PROVE  Counted'
<1>1. /\ pc[c] = "convert" /\ pc' = [pc EXCEPT ![c] = "done"]
      /\ source' = [source EXCEPT ![c] = "cache"]
      /\ hits' = hits + 1 /\ misses' = misses - 1 /\ UNCHANGED <<fpc, result, leader>>
      /\ source \in [Callers -> Sources] /\ pc \in [Callers -> Labels] /\ source[c] = "none"
  BY DEF ConvertMissToHit, At, Goto, From, single, Typed, Steps
<1>2. c \notin Served /\ Served' = Served \cup {c}
  BY <1>1 DEF Served
<1>3. c \in Missed /\ Missed' = Missed \ {c}
  BY <1>1 DEF Missed, Missing
<1>4. Led' = Led
  BY <1>1 DEF Led, Computed
<1>5. Served \in SUBSET Callers /\ Missed \in SUBSET Callers
  BY DEF Served, Missed
<1>6. Cardinality(Served') = Cardinality(Served) + 1 /\ Cardinality(Missed') = Cardinality(Missed) - 1
  BY <1>2, <1>3, <1>5, OneMore, OneLess
<1>. QED
  BY <1>1, <1>4, <1>6, Numbers DEF Counted

LEMMA CountedFlight ==
  ASSUME Configured, Typed, Steps, Counted, NEW c \in Callers, FlightMiss(c)
  PROVE  Counted'
<1>1. /\ fpc[c] = "miss" /\ fpc' = [fpc EXCEPT ![c] = "compute"] /\ misses' = misses + 1
      /\ UNCHANGED <<hits, pc, source, result, leader>> /\ fpc \in [Callers -> FlightLabels]
  BY DEF FlightMiss, FlightGoto, locals, Typed
<1>2. c \notin Led /\ Led' = Led \cup {c}
  BY <1>1 DEF Led, Computed
<1>3. Served' = Served /\ Missed' = Missed
  BY <1>1 DEF Served, Missed, Missing
<1>4. Led \in SUBSET Callers
  BY DEF Led
<1>5. Cardinality(Led') = Cardinality(Led) + 1
  BY <1>2, <1>4, OneMore
<1>. QED
  BY <1>1, <1>3, <1>5, Numbers DEF Counted

\* All others leave the counters, and everybody where they count.
LEMMA CountedStill ==
  ASSUME Configured, Typed, Listed(cache), Steps, Placed, OwnersFinished, Counted, NEW c \in Callers,
         Plain(c) \/ Direct(c) \/ Flight(c),
         ~(CountHit(c) \/ CountMiss(c) \/ StartDirect(c) \/ ConvertMissToHit(c) \/ FlightMiss(c))
  PROVE  Counted'
<1>0. /\ pc \in [Callers -> Labels] /\ fpc \in [Callers -> FlightLabels]
      /\ leader \in [Callers -> Callers \cup {None}] /\ source \in [Callers -> Sources]
      /\ result \in [Callers -> Callers \cup {None}] /\ None \notin Callers
      /\ (pc[c] \notin {"fire", "done"} => source[c] = "none")
      /\ (leader[c] # None => pc[c] \in {"await", "done"})
      /\ (pc[c] = "await" => leader[c] # None)
      /\ (fpc[c] \in {"none", "peek", "miss", "compute"} => result[c] = None)
      /\ (fpc[c] \in {"closed", "store"} => result[c] = c)
  BY DEF Typed, Steps, Configured
<1>. USE DEF At, Goto, FlightGoto, From, single, locals, stats
<1>1. CASE Plain(c)
  <2>1. UNCHANGED <<hits, misses, source, leader, fpc, result>>
        /\ pc[c] \in {"idle", "set", "setMulti", "get", "getFast", "touch", "delete", "drain",
                      "resize", "sweep", "fire"}
        /\ \E l : pc' = [pc EXCEPT ![c] = l] /\ l \notin {"check", "compute", "store", "convert"}
    BY <1>1 DEF Plain, Enter, Set, SetMulti, Get, GetFast, Touch, Delete, Drain, Resize, Sweep,
                      FireLast
  <2>2. Served' = Served /\ Missed' = Missed /\ Led' = Led
    BY <1>0, <2>1 DEF Served, Missed, Missing, Led, Computed
  <2>. QED
    BY <2>1, <2>2 DEF Counted
<1>2. CASE Direct(c)
  <2>1. UNCHANGED <<hits, misses, leader, fpc, result>>
    BY <1>2 DEF Direct, PeekPromote, Check, Compute, Store
  <2>2. Served' = Served /\ Missed' = Missed
    <3>1. CASE PeekPromote(c) \/ Check(c)
      BY <1>0, <3>1 DEF PeekPromote, Check, Served, Missed, Missing
    <3>2. CASE Compute(c)
      BY <1>0, <3>2 DEF Compute, Served, Missed, Missing
    <3>3. CASE Store(c)
      BY <1>0, <3>3 DEF Store, Served, Missed, Missing
    <3>. QED
      BY <1>2, <3>1, <3>2, <3>3 DEF Direct
  <2>3. Led' = Led
    BY <2>1 DEF Led, Computed
  <2>. QED
    BY <2>1, <2>2, <2>3 DEF Counted
<1>3. CASE Join(c)
  <2>1. /\ UNCHANGED <<hits, misses, source, result>> /\ pc[c] = "single"
        /\ pc' = [pc EXCEPT ![c] = "await"]
        /\ \E l : leader' = [leader EXCEPT ![c] = l]
        /\ fpc' = fpc \/ fpc' = [fpc EXCEPT ![c] = "peek"]
    BY <1>3 DEF Join
  <2>2. fpc[c] = "none"
    BY <2>1 DEF Steps
  <2>3. Served' = Served /\ Missed' = Missed
    BY <1>0, <2>1 DEF Served, Missed, Missing
  <2>4. Led' = Led
    BY <1>0, <2>1, <2>2 DEF Led, Computed
  <2>. QED
    BY <2>1, <2>3, <2>4 DEF Counted
<1>4. CASE FlightPeek(c)
  <2>1. UNCHANGED <<hits, misses, source, leader, pc>> /\ fpc[c] = "peek"
    BY <1>4 DEF FlightPeek
  <2>2. Led' = Led
    <3>1. CASE key[c] \in Fresh(cache)
      <4>. DEFINE v == cache.items[key[c]].value
      <4>1. v \in Callers /\ <<key[c], v>> \in stored
        BY <3>1, PairsOf DEF Fresh, Placed
      <4>2. Finished(v)
        BY <4>1 DEF OwnersFinished
      <4>3. ~Finished(c)
        BY <2>1 DEF Finished
      <4>4. result' = [result EXCEPT ![c] = v] /\ fpc' = [fpc EXCEPT ![c] = "deliver"]
        BY <1>4, <3>1 DEF FlightPeek
      <4>5. v # c /\ v # None
        BY <1>0, <4>1, <4>2, <4>3
      <4>. HIDE DEF v
      <4>. QED
        BY <1>0, <2>1, <4>4, <4>5 DEF Led, Computed
    <3>2. CASE key[c] \notin Fresh(cache)
      BY <1>0, <1>4, <3>2 DEF FlightPeek, Led, Computed
    <3>. QED
      BY <3>1, <3>2
  <2>. QED
    BY <2>1, <2>2 DEF Counted, Served, Missed, Missing
<1>5. CASE FlightCompute(c) \/ FlightClosed(c) \/ FlightStore(c) \/ Deliver(c)
  <2>1. UNCHANGED <<hits, misses, source, leader, pc>>
    BY <1>5 DEF FlightCompute, FlightClosed, FlightStore, Deliver
  <2>2. Led' = Led
    BY <1>0, <1>5 DEF FlightCompute, FlightClosed, FlightStore, Deliver, Led, Computed
  <2>. QED
    BY <2>1, <2>2 DEF Counted, Served, Missed, Missing
<1>6. CASE Await(c)
  <2>1. UNCHANGED <<hits, misses, leader, fpc, result>>
    BY <1>6 DEF Await
  <2>2. Served' = Served /\ Missed' = Missed
    BY <1>0, <1>6 DEF Await, Served, Missed, Missing
  <2>. QED
    BY <2>1, <2>2 DEF Counted, Led, Computed
<1>. QED
  BY <1>1, <1>2, <1>3, <1>4, <1>5, <1>6 DEF Flight

-----------------------------------------------------------------------------
\* The invariant.
Holds == Typed /\ Listed(cache) /\ Steps /\ Placed /\ OwnersFinished /\ Counted

LEMMA InitHolds == ASSUME Configured, Init PROVE Holds
<1>1. Listed(cache) /\ Pairs(cache) = {}
  BY EmptyPairs DEF Init
<1>2. Typed
  BY DEF Init, Typed, Labels, FlightLabels, Sources, Links
<1>3. Steps /\ Placed /\ OwnersFinished
  BY <1>1 DEF Init, Steps, Keyed, Placed, OwnersFinished
<1>4. Served = {} /\ Missed = {} /\ Led = {}
  BY DEF Init, Served, Missed, Missing, Led, Computed
<1>5. Counted
  BY <1>4, FS_EmptySet DEF Init, Counted
<1>. QED
  BY <1>1, <1>2, <1>3, <1>5 DEF Holds

LEMMA NextHolds == ASSUME Configured, Holds, [Next]_vars PROVE Holds'
<1>0. Typed /\ Listed(cache) /\ Steps /\ Placed /\ OwnersFinished /\ Counted
  BY DEF Holds
<1>1. ASSUME NEW c \in Callers, Plain(c) \/ Direct(c) \/ Flight(c) PROVE Holds'
  <2>1. Turned(c) \/ Added(c) \/ Fired(c) \/ Lost \/ Quiets \/ Aged
    BY <1>0, <1>1, PlainMoves, DirectMoves, FlightMoves
  <2>2. Typed'
    BY <1>0, <1>1, <2>1, TypedNext
  <2>3. Steps'
    BY <1>0, <1>1, StepsNext
  <2>4. Listed(cache') /\ Placed'
    BY <1>0, <2>1, PlacedNext
  <2>5. \A d \in Callers : Finished(d) => Finished(d)'
    BY <1>0, <1>1, FinishedStays
  <2>6. OwnersFinished'
    BY <1>0, <2>1, <2>5, OwnersNext
  <2>7. Counted'
    BY <1>0, <1>1, CountedHit, CountedMiss, CountedConversion, CountedFlight, CountedStill
  <2>. QED
    BY <2>2, <2>3, <2>4, <2>6, <2>7 DEF Holds
<1>2. CASE Expire
  <2>1. Aged /\ UNCHANGED <<capacity, hits, misses, flight, leader, fpc, result, pc, key, got, source>>
    BY <1>0, <1>2, ExpireMoves DEF Expire, stats, single, locals
  <2>2. Typed' /\ Steps' /\ OwnersFinished' /\ Counted'
    BY <1>0, <2>1 DEF Aged, history, Typed, Steps, OwnersFinished, Finished, Counted, Served, Missed,
                      Missing, Led, Computed
  <2>3. Listed(cache') /\ Placed'
    <3>1. CASE Callers = {}
      BY <1>0, <2>1, <3>1 DEF Aged, history, Placed, Pairs, Present
    <3>2. CASE Callers # {}
      BY <1>0, <2>1, <3>2, PlacedNext
    <3>. QED
      BY <3>1, <3>2
  <2>. QED
    BY <2>2, <2>3 DEF Holds
<1>3. CASE UNCHANGED vars
  BY <1>0, <1>3 DEF vars, stats, single, locals, history, Holds, Typed, Listed, Steps, Placed, OwnersFinished,
                    Finished, Counted, Served, Missed, Missing, Led, Computed, Pairs, Present
<1>. QED
  BY <1>1, <1>2, <1>3 DEF Next, Rest

LEMMA AlwaysHolds == ASSUME Configured PROVE Spec => []Holds
<1>1. Init => Holds
  BY InitHolds
<1>2. Holds /\ [Next]_vars => Holds'
  BY NextHolds
<1>. QED
  BY <1>1, <1>2, PTL DEF Spec

-----------------------------------------------------------------------------
\* Whatever is put in, read, removed, evicted or swept, the links run through
\* the keys of the map, each once and the same way in both directions
\* (listPushFront, listRemove, removeTailLocked).
THEOREM ListAlwaysMatchesMap == ASSUME Configured PROVE Spec => []ListMatchesMap
<1>1. Holds => ListMatchesMap
  <2>. SUFFICES ASSUME Holds PROVE ListMatchesMap
    OBVIOUS
  <2>1. Typed /\ Listed(cache) /\ Counted
    BY DEF Holds
  <2>2. PICK r : Matched(cache, r)
    BY <2>1 DEF Listed
  <2>3. /\ cache \in Shapes /\ cache.size \in Nat /\ cache.size = Cardinality(Present(cache))
        /\ Present(cache) \subseteq Keys
    BY <2>1, PairsOf DEF Present
  <2>4. IsFiniteSet(Keys) /\ Cardinality(Keys) \in Nat
    BY FS_CardinalityType DEF Configured
  <2>5. cache.size <= Cardinality(Keys)
    BY <2>3, <2>4, FS_Subset
  <2>6. cache \in [items : [Keys -> Entries \cup {None}], next : [Keys -> Links],
                   prev : [Keys -> Links], head : Links, tail : Links,
                   size : 0 .. Cardinality(Keys)]
    BY <2>3, <2>4, <2>5 DEF Shapes
  <2>7. hits \in Nat /\ misses \in Nat
    BY <2>1, Numbers DEF Counted
  <2>8. TypeOK
    BY <2>1, <2>6, <2>7 DEF Typed, TypeOK
  <2>. QED
    BY <2>2, <2>8, ListOfMatched DEF ListMatchesMap
<1>2. Spec => []Holds
  BY AlwaysHolds
<1>. QED
  BY <1>1, <1>2, PTL

\* No value that was stored is ever reported twice, or left out while the cache
\* is open, whichever of the calls that overlap takes it out
\* (removeNodeLocked, fireCallbacks, computeDirect).
THEOREM ValuesReportedOnce == ASSUME Configured PROVE Spec => []EachValueReportedOnce
<1>1. Holds => EachValueReportedOnce
  <2>. SUFFICES ASSUME Holds, NEW p \in stored PROVE Places(p) = 1 \/ (closed /\ Places(p) = 0)
    BY DEF EachValueReportedOnce
  <2>. DEFINE S == {c \in Callers : p \in events[c]}
  <2>1. /\ ~(p \in Pairs(cache) /\ p \in reported)
        /\ \A c \in Callers : p \in events[c] => p \notin Pairs(cache) /\ p \notin reported
        /\ \A c, d \in Callers : p \in events[c] /\ p \in events[d] => c = d
        /\ closed \/ p \in Pairs(cache) \cup reported \/ \E c \in Callers : p \in events[c]
    BY DEF Holds, Placed
  <2>2. S = {} => Cardinality(S) = 0
    BY FS_EmptySet
  <2>3. ASSUME NEW c \in S PROVE Cardinality(S) = 1
    <3>1. S = {c}
      BY <2>1
    <3>. HIDE DEF S
    <3>. QED
      BY <3>1, FS_Singleton
  <2>4. Places(p) = (IF p \in Pairs(cache) THEN 1 ELSE 0) + (IF p \in reported THEN 1 ELSE 0)
                      + Cardinality(S)
    BY DEF Places
  <2>5. CASE S = {}
    BY <2>1, <2>2, <2>4, <2>5
  <2>6. CASE S # {}
    <3>1. Cardinality(S) = 1 /\ p \notin Pairs(cache) /\ p \notin reported
      BY <2>1, <2>3, <2>6
    <3>. QED
      BY <2>4, <3>1
  <2>. QED
    BY <2>5, <2>6
<1>2. Spec => []Holds
  BY AlwaysHolds
<1>. QED
  BY <1>1, <1>2, PTL

\* Once all calls and flights are over, the counters say how many lookups the
\* cache served, and how often a value was missing, with one miss for all who
\* waited for the same flight (convertMissToHit, computeSingle).
THEOREM LookupsAlwaysCounted == ASSUME Configured PROVE Spec => []LookupsCounted
<1>1. Holds => LookupsCounted
  <2>. SUFFICES ASSUME Holds, Quiet
                PROVE  /\ hits = Cardinality({c \in Callers : source[c] = "cache"})
                       /\ misses = Cardinality({c \in Callers : source[c] \in {"own", "nothing"}
                                                  \/ (source[c] = "failed" /\ leader[c] = None)})
                            + Cardinality({c \in Callers : fpc[c] = "done" /\ result[c] \in {c, None}})
    BY DEF LookupsCounted
  <2>1. \A c \in Callers : pc[c] = "done" /\ fpc[c] \in {"none", "done"}
    BY DEF Quiet, At
  <2>2. Missed = {c \in Callers : source[c] \in {"own", "nothing"}
                                    \/ (source[c] = "failed" /\ leader[c] = None)}
    BY <2>1 DEF Missed, Missing
  <2>3. Led = {c \in Callers : fpc[c] = "done" /\ result[c] \in {c, None}}
    BY <2>1 DEF Led, Computed
  <2>. QED
    BY <2>2, <2>3 DEF Holds, Counted, Served
<1>2. Spec => []Holds
  BY AlwaysHolds
<1>. QED
  BY <1>1, <1>2, PTL

-----------------------------------------------------------------------------
(* The ranks are the recency that LruOrder speaks of. *)

Held(r)     == {k \in Keys : r[k] > 0}
Precedes(r) == {p \in Keys \X Keys : r[p[1]] > 0 /\ r[p[1]] < r[p[2]]}

LEMMA RecencyOf ==
  ASSUME Configured, NEW C, NEW r, Matched(C, r)
  PROVE  Present(C) = Held(r) /\ Newer(C) = Precedes(r)
BY NewerRanks DEF Matched, Present, Held, Precedes

\* The instance has its own names for the operators of the libraries.
LEMMA SameCardinality == \A S : Promise!Cardinality(S) = Cardinality(S)
BY DEF Promise!Cardinality, Cardinality

LEMMA MoreRecent ==
  ASSUME Configured, NEW q \in [Keys -> Nat], NEW n \in Nat, Injective(q), Covers(q, n),
         NEW k \in Keys, q[k] > 0
  PROVE  Cardinality({j \in Keys : <<j, k>> \in Precedes(q)}) = q[k] - 1
<1>. DEFINE S == {j \in Keys : <<j, k>> \in Precedes(q)}
            m == q[k] - 1
            f == [j \in S |-> q[j]]
<1>0. S = {j \in Keys : q[j] > 0 /\ q[j] < q[k]} /\ m \in Nat /\ m < n
  BY DEF Precedes, Covers
<1>1. f \in [S -> 1 .. m] /\ \A j \in S : f[j] = q[j]
  BY <1>0
<1>2. \A i, j \in S : f[i] = f[j] => i = j
  BY <1>0, <1>1 DEF Injective
<1>3. \A i \in 1 .. m : \E j \in S : f[j] = i
  <2>. TAKE i \in 1 .. m
  <2>1. i \in 1 .. n
    BY <1>0
  <2>2. PICK j \in Keys : q[j] = i
    BY <2>1 DEF Covers
  <2>. QED
    BY <1>0, <1>1, <2>2
<1>. HIDE DEF f, S, m
<1>4. f \in Bijection(S, 1 .. m)
  BY <1>1, <1>2, <1>3 DEF Bijection, Injection, Surjection, IsInjective
<1>5. IsFiniteSet(S)
  BY <1>0, FS_Subset DEF Configured
<1>6. ExistsBijection(S, 1 .. m)
  BY <1>4 DEF ExistsBijection
<1>7. Cardinality(1 .. m) = Cardinality(S)
  BY <1>5, <1>6, FS_Bijection
<1>. QED
  BY <1>0, <1>7, FS_Interval DEF m, S

LEMMA RecentRanks ==
  ASSUME Configured, NEW q \in [Keys -> Nat], NEW w \in Nat, Injective(q), Covers(q, w), NEW n \in Nat
  PROVE  /\ Promise!Recent(Held(q), Precedes(q), n) = Held(IF n = 0 THEN q ELSE Cut(q, n))
         /\ Promise!Within(Precedes(q), Held(IF n = 0 THEN q ELSE Cut(q, n)))
              = Precedes(IF n = 0 THEN q ELSE Cut(q, n))
<1>1. \A k \in Held(q) : Promise!AmongRecent(k, Precedes(q), n) <=> n = 0 \/ q[k] <= n
  <2>. TAKE k \in Held(q)
  <2>1. k \in Keys /\ q[k] > 0
    BY DEF Held
  <2>2. Cardinality({j \in Keys : <<j, k>> \in Precedes(q)}) = q[k] - 1
    BY <2>1, MoreRecent
  <2>. DEFINE m == Cardinality({j \in Keys : <<j, k>> \in Precedes(q)})
  <2>3. Promise!AmongRecent(k, Precedes(q), n) <=> n = 0 \/ m < n
    BY SameCardinality DEF Promise!AmongRecent
  <2>4. m = q[k] - 1 /\ q[k] \in Nat
    BY <2>1, <2>2
  <2>. HIDE DEF m
  <2>. QED
    BY <2>3, <2>4
<1>2. CASE n = 0
  BY <1>1, <1>2 DEF Promise!Recent, Promise!Within, Held, Precedes
<1>3. CASE n # 0
  <2>1. \A k \in Keys : Cut(q, n)[k] = IF q[k] > n THEN 0 ELSE q[k]
    BY DEF Cut
  <2>2. \A k \in Keys : Cut(q, n)[k] > 0 <=> q[k] > 0 /\ q[k] <= n
    BY <2>1
  <2>3. Promise!Recent(Held(q), Precedes(q), n) = Held(Cut(q, n))
    BY <1>1, <1>3, <2>2 DEF Promise!Recent, Held
  <2>4. Promise!Within(Precedes(q), Held(Cut(q, n))) = Precedes(Cut(q, n))
    <3>1. ASSUME NEW p \in Keys \X Keys
          PROVE  p \in Promise!Within(Precedes(q), Held(Cut(q, n))) <=> p \in Precedes(Cut(q, n))
      <4>1. p[1] \in Keys /\ p[2] \in Keys /\ p = <<p[1], p[2]>>
        OBVIOUS
      <4>2. p \in Held(Cut(q, n)) \X Held(Cut(q, n)) <=>
              q[p[1]] > 0 /\ q[p[1]] <= n /\ q[p[2]] > 0 /\ q[p[2]] <= n
        BY <2>2, <4>1 DEF Held
      <4>. QED
        BY <2>1, <4>1, <4>2 DEF Promise!Within, Precedes
    <3>. QED
      BY <3>1 DEF Promise!Within, Precedes
  <2>. QED
    BY <1>3, <2>3, <2>4
<1>. QED
  BY <1>2, <1>3

LEMMA UsedRanks ==
  ASSUME Configured, NEW r, Matched(cache, r), NEW q \in [Keys -> Nat], Injective(q),
         NEW n \in Nat, NEW ks \in [1 .. n -> Keys],
         \A a, b \in 1 .. n : ks[a] = ks[b] => a = b, After(r, q, ks, n)
  PROVE  /\ Promise!Used(ks) = Precedes(q)
         /\ Present(cache) \cup Promise!Range(ks) = Held(q)
<1>. DEFINE X == {ks[l] : l \in 1 .. n}
<1>0. r \in [Keys -> Nat] /\ Present(cache) = Held(r) /\ Newer(cache) = Precedes(r)
  BY RecencyOf DEF Matched, Ranked
<1>1. Promise!Range(ks) = X /\ X \subseteq Keys /\ \A j \in X : \E a \in 1 .. n : ks[a] = j
  BY DEF Promise!Range
<1>2. /\ \A j \in Keys : q[j] > 0 <=> r[j] > 0 \/ j \in X
      /\ \A l \in 1 .. n : q[ks[l]] = n + 1 - l
      /\ \A j \in Keys \ X : q[j] > 0 => q[j] > n
      /\ \A j, k \in Keys \ X : q[j] > 0 /\ q[k] > 0 => (q[j] < q[k] <=> r[j] < r[k])
  BY DEF After
<1>3. \A a \in 1 .. n : Promise!Index(ks, ks[a]) = a
  BY DEF Promise!Index
<1>4. \A j \in X : q[j] \in 1 .. n
  BY <1>1, <1>2
<1>. HIDE DEF X
<1>5. Present(cache) \cup Promise!Range(ks) = Held(q)
  BY <1>0, <1>1, <1>2 DEF Held
<1>6. ASSUME NEW p \in Keys \X Keys
      PROVE  (IF p[2] \in X THEN p[1] \in X /\ Promise!Index(ks, p[1]) > Promise!Index(ks, p[2])
              ELSE p[2] \in Held(r) /\ (p[1] \in X \/ p \in Precedes(r)))
             <=> q[p[1]] > 0 /\ q[p[1]] < q[p[2]]
  <2>0. p[1] \in Keys /\ p[2] \in Keys
    OBVIOUS
  <2>1. CASE p[2] \in X
    <3>1. CASE p[1] \in X
      <4>1. PICK a, b \in 1 .. n : ks[a] = p[1] /\ ks[b] = p[2]
        BY <1>1, <2>1, <3>1
      <4>. QED
        BY <1>2, <1>3, <2>1, <3>1, <4>1
    <3>2. CASE p[1] \notin X
      BY <1>2, <1>4, <2>0, <2>1, <3>2
    <3>. QED
      BY <3>1, <3>2
  <2>2. CASE p[2] \notin X
    <3>1. p[2] \in Held(r) <=> q[p[2]] > 0
      BY <1>2, <2>0, <2>2 DEF Held
    <3>2. CASE p[1] \in X
      BY <1>2, <1>4, <2>0, <2>2, <3>1, <3>2
    <3>3. CASE p[1] \notin X
      <4>1. p \in Precedes(r) <=> r[p[1]] > 0 /\ r[p[1]] < r[p[2]]
        BY DEF Precedes
      <4>2. q[p[1]] > 0 <=> r[p[1]] > 0
        BY <1>2, <2>0, <3>3
      <4>3. q[p[1]] > 0 /\ q[p[2]] > 0 => (q[p[1]] < q[p[2]] <=> r[p[1]] < r[p[2]])
        BY <1>2, <2>0, <2>2, <3>3
      <4>4. q[p[1]] \in Nat /\ q[p[2]] \in Nat
        BY <2>0
      <4>. QED
        BY <2>2, <3>1, <3>3, <4>1, <4>2, <4>3, <4>4
    <3>. QED
      BY <3>2, <3>3
  <2>. QED
    BY <2>1, <2>2
<1>7. Promise!Used(ks) = Precedes(q)
  BY <1>0, <1>1, <1>6 DEF Promise!Used, Precedes
<1>. QED
  BY <1>5, <1>7

\* Keys are used, and what the capacity has no room for goes.
LEMMA UseStep ==
  ASSUME Configured, NEW r, Matched(cache, r), NEW q, NEW w \in Nat, q \in [Keys -> Nat],
         Injective(q), Covers(q, w), NEW n \in Nat, NEW ks \in [1 .. n -> Keys],
         \A a, b \in 1 .. n : ks[a] = ks[b] => a = b, After(r, q, ks, n), capacity \in Nat,
         Matched(cache', IF capacity = 0 THEN q ELSE Cut(q, capacity)), UNCHANGED capacity
  PROVE  Promise!Use(ks)
<1>. DEFINE t == IF capacity = 0 THEN q ELSE Cut(q, capacity)
<1>1. Present(cache)' = Held(t) /\ Newer(cache)' = Precedes(t)
  <2>1. Present(cache)' = Present(cache') /\ Newer(cache)' = Newer(cache')
    BY DEF Present, Newer, Order
  <2>. QED
    BY <2>1, RecencyOf
<1>2. /\ Promise!Used(ks) = Precedes(q)
      /\ Present(cache) \cup Promise!Range(ks) = Held(q)
  BY UsedRanks
<1>3. /\ Promise!Recent(Held(q), Precedes(q), capacity) = Held(t)
      /\ Promise!Within(Precedes(q), Held(t)) = Precedes(t)
  BY RecentRanks
<1>. HIDE DEF t
<1>. QED
  BY <1>1, <1>2, <1>3 DEF Promise!Use, Promise!Keeps

LEMMA ForgetStep ==
  ASSUME Configured, NEW r, Matched(cache, r), NEW K, K \subseteq Present(cache), NEW q, Keeps(r, q, K),
         Matched(cache', q), UNCHANGED capacity
  PROVE  Promise!Next
<1>1. Present(cache) = Held(r) /\ Newer(cache) = Precedes(r) /\ r \in [Keys -> Nat] /\ q \in [Keys -> Nat]
  BY RecencyOf DEF Matched, Ranked
<1>2. Present(cache)' = Held(q) /\ Newer(cache)' = Precedes(q)
  <2>1. Present(cache)' = Present(cache') /\ Newer(cache)' = Newer(cache')
    BY DEF Present, Newer, Order
  <2>. QED
    BY <2>1, RecencyOf
<1>3. Held(q) = Held(r) \ K
  BY DEF Held, Keeps
<1>4. Precedes(q) = Promise!Within(Precedes(r), Held(q))
  <2>1. ASSUME NEW p \in Keys \X Keys
        PROVE  p \in Precedes(q) <=> p \in Promise!Within(Precedes(r), Held(q))
    <3>1. p[1] \in Keys /\ p[2] \in Keys /\ p = <<p[1], p[2]>> /\ q[p[1]] \in Nat /\ q[p[2]] \in Nat
      BY <1>1
    <3>2. p \in Held(q) \X Held(q) <=> q[p[1]] > 0 /\ q[p[2]] > 0
      BY <3>1 DEF Held
    <3>3. q[p[1]] > 0 => r[p[1]] > 0
      BY <3>1 DEF Keeps
    <3>4. q[p[1]] > 0 /\ q[p[2]] > 0 => (q[p[1]] < q[p[2]] <=> r[p[1]] < r[p[2]])
      BY <3>1 DEF Keeps
    <3>. QED
      BY <3>1, <3>2, <3>3, <3>4 DEF Promise!Within, Precedes
  <2>. QED
    BY <2>1 DEF Promise!Within, Precedes
<1>5. Promise!Forget(K)
  BY <1>1, <1>2, <1>3, <1>4 DEF Promise!Forget, Promise!Keeps
<1>. QED
  BY <1>5 DEF Promise!Next

\* One key is the sequence of itself.
LEMMA OneKey ==
  ASSUME NEW k \in Keys
  PROVE  /\ <<k>> \in [1 .. 1 -> Keys] /\ <<k>>[1] = k
         /\ \A a, b \in 1 .. 1 : <<k>>[a] = <<k>>[b] => a = b
         /\ <<k>> \in Promise!SetToSeqs({k}) /\ {k} \in (SUBSET Keys) \ {{}}
<1>1. Promise!Cardinality({k}) = 1
  BY SameCardinality, FS_Singleton
<1>2. <<k>> \in [1 .. 1 -> {k}] /\ <<k>>[1] = k
  OBVIOUS
<1>. QED
  BY <1>1, <1>2 DEF Promise!SetToSeqs

LEMMA UsedOne ==
  ASSUME NEW r \in [Keys -> Nat], NEW q \in [Keys -> Nat], Injective(q), NEW k \in Keys,
         NEW K, K \subseteq {k}, Keeps(r, q, K)
  PROVE  After(r, First(q, k), <<k>>, 1)
<1>1. After(q, q, <<k>>, 0)
  BY DEF After
<1>2. After(q, First(q, k), <<k>>, 1)
  <2>. DEFINE ks == <<k>>
  <2>1. /\ ks \in [1 .. 1 -> Keys] /\ ks[0 + 1] = k /\ \A a, b \in 1 .. 1 : ks[a] = ks[b] => a = b
        /\ 1 \in Nat /\ 0 \in Nat /\ 0 + 1 <= 1 /\ 0 + 1 = 1
    BY OneKey
  <2>. HIDE DEF ks
  <2>2. After(q, First(q, ks[0 + 1]), ks, 0 + 1)
    BY <1>1, <2>1, UsedNext DEF ks
  <2>. QED
    BY <2>1, <2>2 DEF ks
<1>3. {<<k>>[l] : l \in 1 .. 1} = {k}
  BY OneKey
<1>4. /\ \A j \in Keys : First(q, k)[j] > 0 <=> q[j] > 0 \/ j = k
      /\ \A l \in 1 .. 1 : First(q, k)[<<k>>[l]] = 1 + 1 - l
      /\ \A j \in Keys \ {k} : First(q, k)[j] > 0 => First(q, k)[j] > 1
      /\ \A j, l \in Keys \ {k} : First(q, k)[j] > 0 /\ First(q, k)[l] > 0 =>
           (First(q, k)[j] < First(q, k)[l] <=> q[j] < q[l])
  BY <1>2, <1>3 DEF After
<1>5. \A j \in Keys \ {k} : q[j] > 0 <=> r[j] > 0
  BY DEF Keeps
<1>6. \A j, l \in Keys \ {k} : q[j] > 0 /\ q[l] > 0 => (q[j] < q[l] <=> r[j] < r[l])
  BY DEF Keeps
<1>. HIDE DEF Keeps
<1>7. /\ \A j \in Keys : First(q, k)[j] > 0 <=> r[j] > 0 \/ j = k
      /\ \A j, l \in Keys \ {k} : First(q, k)[j] > 0 /\ First(q, k)[l] > 0 =>
           (First(q, k)[j] < First(q, k)[l] <=> r[j] < r[l])
  BY <1>4, <1>5, <1>6
<1>. QED
  BY <1>3, <1>4, <1>7 DEF After

-----------------------------------------------------------------------------
(* Every step does to the keys what LruOrder says. *)

Bounded == capacity > 0 => cache.size <= capacity
Goes    == /\ capacity' > 0 => cache'.size <= capacity'
           /\ Promise!Next \/ UNCHANGED <<Present(cache), Newer(cache), capacity>>

LEMMA EvictedSize ==
  ASSUME Configured, NEW C, Listed(C), NEW n \in Nat
  PROVE  n > 0 => EvictTail(C, n).size <= n
<1>. DEFINE D == EvictTail(C, n)
<1>1. PICK r : Matched(C, r)
  BY DEF Listed
<1>2. Matched(D, IF n = 0 THEN r ELSE Cut(r, n)) /\ r \in [Keys -> Nat]
  BY <1>1, EvictRanks DEF Matched, Ranked
<1>. HIDE DEF D
<1>3. ASSUME n > 0 PROVE D.size <= n
  <2>1. Ends(D, Cut(r, n)) /\ D.size \in Nat
    BY <1>2, <1>3 DEF Matched, Ranked, Shapes
  <2>2. \A k \in Keys : Cut(r, n)[k] <= n
    BY <1>2 DEF Cut
  <2>. QED
    BY <2>1, <2>2 DEF Ends
<1>. QED
  BY <1>3 DEF D

LEMMA FewerPresent ==
  ASSUME Configured, NEW C, NEW D, Listed(C), Listed(D), Pairs(D) \subseteq Pairs(C)
  PROVE  Present(D) \subseteq Present(C)
<1>1. ASSUME NEW k \in Present(D) PROVE k \in Present(C)
  <2>. DEFINE p == <<k, D.items[k].value>>
  <2>1. p \in Pairs(C) /\ p[1] = k
    BY PairsOf
  <2>. HIDE DEF p
  <2>. QED
    BY <2>1, PairsOf
<1>. QED
  BY <1>1

LEMMA SmallerSize ==
  ASSUME Configured, NEW C, NEW D, Listed(C), Listed(D), Pairs(D) \subseteq Pairs(C)
  PROVE  D.size <= C.size
<1>1. /\ C.size = Cardinality(Present(C)) /\ D.size = Cardinality(Present(D))
      /\ Present(D) \subseteq Present(C)
  BY PairsOf, FewerPresent
<1>2. IsFiniteSet(Present(C))
  BY FS_Subset DEF Configured, Present
<1>. QED
  BY <1>1, <1>2, FS_Subset

LEMMA RemoveGoes ==
  ASSUME Configured, Listed(cache), Bounded, capacity \in Nat, NEW K \in SUBSET Present(cache),
         cache' = RemoveAll(cache, K), UNCHANGED capacity
  PROVE  Goes
<1>1. PICK r : Matched(cache, r)
  BY DEF Listed
<1>2. K \in SUBSET Keys /\ \A k \in K : r[k] > 0
  BY <1>1 DEF Matched, Present
<1>3. PICK q : Matched(cache', q) /\ Keeps(r, q, K)
  BY <1>1, <1>2, RemoveAllRanks
<1>4. Promise!Next
  BY <1>1, <1>3, ForgetStep
<1>5. cache'.size <= cache.size /\ cache'.size \in Nat /\ cache.size \in Nat
  BY RemovedPairs, SmallerSize, PairsOf
<1>. QED
  BY <1>4, <1>5 DEF Goes, Bounded

LEMMA DrainGoes ==
  ASSUME Configured, Listed(cache), capacity \in Nat, cache' = Empty, UNCHANGED capacity
  PROVE  Goes
<1>1. PICK r : Matched(cache, r)
  BY DEF Listed
<1>2. PICK q : Matched(Empty, q)
  BY EmptyPairs DEF Listed
<1>3. \A k \in Keys : q[k] = 0
  BY <1>2 DEF Matched, Ranked, Empty
<1>4. Keeps(r, q, Present(cache))
  BY <1>1, <1>3 DEF Keeps, Matched, Present
<1>5. Promise!Next
  BY <1>1, <1>2, <1>4, ForgetStep
<1>6. cache'.size = 0
  BY DEF Empty
<1>. QED
  BY <1>5, <1>6 DEF Goes

\* A node that is read comes to the head.
LEMMA MoveGoes ==
  ASSUME Configured, Listed(cache), Bounded, capacity \in Nat, NEW k \in Present(cache),
         cache' = MoveToFront(cache, k), UNCHANGED capacity
  PROVE  Goes
<1>. DEFINE w == cache.size
<1>1. PICK r : Matched(cache, r)
  BY DEF Listed
<1>2. k \in Keys /\ r[k] > 0 /\ Ranked(cache, r) /\ r \in [Keys -> Nat] /\ w \in Nat /\ Injective(r)
  BY <1>1 DEF Matched, Ranked, Present, Shapes
<1>. DEFINE q == First(r, k)
<1>3. Ranked(cache', q) /\ cache'.items = cache.items /\ cache'.size = w
  BY <1>2, MoveToFrontRanks
<1>4. \A j \in Keys : r[j] > 0 <=> q[j] > 0
  BY <1>2 DEF First
<1>5. Matched(cache', q) /\ q \in [Keys -> Nat] /\ Injective(q) /\ Covers(q, w)
  BY <1>1, <1>3, <1>4 DEF Matched, Ranked
<1>6. After(r, q, <<k>>, 1)
  <2>1. Keeps(r, r, {})
    BY DEF Keeps
  <2>. QED
    BY <1>2, <2>1, UsedOne
<1>. HIDE DEF q
<1>7. capacity > 0 => Cut(q, capacity) = q
  <2>1. \A j \in Keys : capacity > 0 => q[j] <= capacity
    BY <1>2, <1>5 DEF Covers, Bounded
  <2>. QED
    BY <1>5, <2>1 DEF Cut
<1>8. Promise!Use(<<k>>)
  <2>1. Matched(cache', IF capacity = 0 THEN q ELSE Cut(q, capacity))
    BY <1>5, <1>7
  <2>2. /\ <<k>> \in [1 .. 1 -> Keys] /\ \A a, b \in 1 .. 1 : <<k>>[a] = <<k>>[b] => a = b
        /\ 1 \in Nat
    BY <1>2, OneKey
  <2>. HIDE DEF w
  <2>. QED
    BY <1>1, <1>2, <1>5, <1>6, <2>1, <2>2, UseStep
<1>9. Promise!Next
  BY <1>2, <1>8, OneKey DEF Promise!Next
<1>. QED
  BY <1>3, <1>9 DEF Goes, Bounded

LEMMA LookupGoes ==
  ASSUME Configured, Listed(cache), Bounded, capacity \in Nat, NEW c \in Callers, NEW k \in Keys,
         Lookup(c, k), UNCHANGED capacity
  PROVE  Goes
<1>1. CASE k \in Fresh(cache)
  <2>1. k \in Present(cache) /\ cache' = MoveToFront(cache, k)
    BY <1>1 DEF Fresh, Lookup, Becomes, Turns
  <2>. QED
    BY <2>1, MoveGoes
<1>2. CASE k \notin Fresh(cache)
  <2>1. {k} \cap Expired(cache) \in SUBSET Present(cache)
        /\ cache' = RemoveAll(cache, {k} \cap Expired(cache))
    BY <1>2 DEF Expired, Lookup, Becomes, Turns
  <2>. QED
    BY <2>1, RemoveGoes
<1>. QED
  BY <1>1, <1>2

\* A value is written, over an expired one of its key perhaps.
LEMMA WriteGoes ==
  ASSUME Configured, capacity \in Nat, NEW r, Matched(cache, r), NEW E, NEW p, Matched(E, p),
         NEW k \in Keys, NEW K, K \subseteq {k}, Keeps(r, p, K), NEW v \in Callers,
         cache' = EvictTail(Put(E, k, v), capacity), UNCHANGED capacity
  PROVE  Goes
<1>. DEFINE D == Put(E, k, v)
            q == First(p, k)
            w == D.size
<1>1. Matched(D, q)
  BY PutRanks
<1>2. q \in [Keys -> Nat] /\ Injective(q) /\ Covers(q, w) /\ w \in Nat
  BY <1>1 DEF Matched, Ranked, Shapes
<1>3. After(r, q, <<k>>, 1)
  <2>1. r \in [Keys -> Nat] /\ p \in [Keys -> Nat] /\ Injective(p)
    BY DEF Matched, Ranked
  <2>. QED
    BY <2>1, UsedOne
<1>4. Listed(D) /\ cache' = EvictTail(D, capacity)
  BY <1>1 DEF Listed
<1>. HIDE DEF D, q
<1>5. Matched(cache', IF capacity = 0 THEN q ELSE Cut(q, capacity))
  BY <1>1, <1>4, EvictRanks
<1>6. Promise!Use(<<k>>)
  <2>1. /\ <<k>> \in [1 .. 1 -> Keys] /\ \A a, b \in 1 .. 1 : <<k>>[a] = <<k>>[b] => a = b
        /\ 1 \in Nat
    BY OneKey
  <2>. HIDE DEF w
  <2>. QED
    BY <1>2, <1>3, <1>5, <2>1, UseStep
<1>7. Promise!Next
  BY <1>6, OneKey DEF Promise!Next
<1>8. capacity > 0 => cache'.size <= capacity
  BY <1>4, EvictedSize
<1>. QED
  BY <1>7, <1>8 DEF Goes

LEMMA WriteAllGoes ==
  ASSUME Configured, capacity \in Nat, NEW r, Matched(cache, r),
         NEW K \in (SUBSET Keys) \ {{}}, NEW ks \in SetToSeqs(K), NEW v \in Callers,
         cache' = EvictTail(PutAll(cache, ks, v), capacity), UNCHANGED capacity
  PROVE  Goes
<1>. DEFINE D == PutAll(cache, ks, v)
            w == D.size
<1>1. PICK n \in Nat : /\ ks \in [1 .. n -> Keys] /\ Len(ks) = n
                       /\ \A a, b \in 1 .. n : ks[a] = ks[b] => a = b
                       /\ \A k : k \in K <=> \E l \in 1 .. n : ks[l] = k
  BY SequencesOf
<1>2. PICK q : Matched(D, q) /\ After(r, q, ks, n)
  BY <1>1, PutAllRanks
<1>3. q \in [Keys -> Nat] /\ Injective(q) /\ Covers(q, w) /\ w \in Nat
  BY <1>2 DEF Matched, Ranked, Shapes
<1>4. Listed(D) /\ cache' = EvictTail(D, capacity)
  BY <1>2 DEF Listed
<1>. HIDE DEF D
<1>5. Matched(cache', IF capacity = 0 THEN q ELSE Cut(q, capacity))
  <2>1. Matched(EvictTail(D, capacity), IF capacity = 0 THEN q ELSE Cut(q, capacity))
    BY <1>2, EvictRanks
  <2>. QED
    BY <1>4, <2>1
<1>6. Promise!Use(ks)
  <2>. HIDE DEF w
  <2>. QED
    BY <1>1, <1>2, <1>3, <1>5, UseStep
<1>7. ks \in Promise!SetToSeqs(K)
  BY SameCardinality DEF SetToSeqs, Promise!SetToSeqs
<1>8. Promise!Next
  BY <1>6, <1>7 DEF Promise!Next
<1>9. capacity > 0 => cache'.size <= capacity
  BY <1>4, EvictedSize
<1>. QED
  BY <1>8, <1>9 DEF Goes

LEMMA ResizeGoes ==
  ASSUME Configured, Listed(cache), NEW n \in Nat, capacity' = n, cache' = EvictTail(cache, n)
  PROVE  Goes
<1>1. PICK r : Matched(cache, r)
  BY DEF Listed
<1>. DEFINE t == IF n = 0 THEN r ELSE Cut(r, n)
            w == cache.size
<1>2. r \in [Keys -> Nat] /\ Injective(r) /\ Covers(r, w) /\ w \in Nat /\ Matched(cache', t)
  <2>1. Matched(EvictTail(cache, n), t)
    BY <1>1, EvictRanks
  <2>. HIDE DEF t
  <2>2. Matched(cache', t)
    BY <2>1
  <2>. QED
    BY <1>1, <2>2 DEF Matched, Ranked, Shapes
<1>3. Present(cache) = Held(r) /\ Newer(cache) = Precedes(r)
  BY <1>1, RecencyOf
<1>4. Present(cache)' = Held(t) /\ Newer(cache)' = Precedes(t)
  <2>1. Present(cache)' = Present(cache') /\ Newer(cache)' = Newer(cache')
    BY DEF Present, Newer, Order
  <2>. QED
    BY <1>2, <2>1, RecencyOf
<1>5. /\ Promise!Recent(Held(r), Precedes(r), n) = Held(t)
      /\ Promise!Within(Precedes(r), Held(t)) = Precedes(t)
  <2>. HIDE DEF w
  <2>. QED
    BY <1>2, RecentRanks
<1>. HIDE DEF t
<1>6. Promise!Resize
  BY <1>3, <1>4, <1>5 DEF Promise!Resize, Promise!Keeps
<1>7. n > 0 => cache'.size <= n
  BY EvictedSize
<1>. QED
  BY <1>6, <1>7 DEF Goes, Promise!Next

LEMMA StillGoes ==
  ASSUME Bounded, UNCHANGED <<cache, capacity>>
  PROVE  Goes
BY DEF Goes, Bounded, Present, Newer, Order

LEMMA ExpireGoes ==
  ASSUME Configured, Listed(cache), Bounded, Expire
  PROVE  Goes
<1>1. PICK r : Matched(cache, r)
  BY DEF Listed
<1>2. PICK k \in Fresh(cache) : cache' = [cache EXCEPT !.items[k].expired = TRUE]
  BY DEF Expire
<1>3. /\ cache'.next = cache.next /\ cache'.prev = cache.prev /\ cache'.head = cache.head
      /\ cache'.tail = cache.tail /\ cache'.size = cache.size
  BY <1>1, <1>2 DEF Matched, Ranked, Shapes
<1>4. Present(cache') = Present(cache)
  <2>1. Listed(cache') /\ Pairs(cache') = Pairs(cache)
    BY <1>2, AgedPairs
  <2>. QED
    BY <2>1, FewerPresent
<1>5. Newer(cache') = Newer(cache)
  BY <1>3 DEF Newer, Order
<1>6. Present(cache)' = Present(cache') /\ Newer(cache)' = Newer(cache') /\ UNCHANGED capacity
  BY DEF Present, Newer, Order, Expire
<1>. QED
  BY <1>3, <1>4, <1>5, <1>6 DEF Goes, Bounded

LEMMA PlainGoes ==
  ASSUME Configured, Typed, Listed(cache), Steps, Bounded, NEW c \in Callers, Plain(c)
  PROVE  Goes
<1>0. capacity \in Nat /\ (pc[c] \in Keyed => key[c] \in Keys)
  BY DEF Configured, Typed, Steps
<1>. USE DEF At
<1>1. CASE Enter(c) \/ GetFast(c) \/ FireLast(c) \/ CountHit(c) \/ CountMiss(c)
  BY <1>1, StillGoes DEF Enter, GetFast, FireLast, CountHit, CountMiss
<1>2. CASE Set(c)
  <2>1. PICK r : Matched(cache, r)
    BY DEF Listed
  <2>2. key[c] \in Keys /\ cache' = EvictTail(Put(cache, key[c], c), capacity) /\ UNCHANGED capacity
    BY <1>0, <1>2 DEF Set, Keyed, Stores, Turns
  <2>3. Keeps(r, r, {})
    BY DEF Keeps
  <2>. QED
    BY <1>0, <2>1, <2>2, <2>3, WriteGoes
<1>3. CASE SetMulti(c)
  <2>1. PICK K \in (SUBSET Keys) \ {{}} : \E ks \in SetToSeqs(K) :
             Stores(c, EvictTail(PutAll(cache, ks, c), capacity), K)
    BY <1>3 DEF SetMulti
  <2>2. PICK ks \in SetToSeqs(K) : Stores(c, EvictTail(PutAll(cache, ks, c), capacity), K)
    BY <2>1
  <2>3. cache' = EvictTail(PutAll(cache, ks, c), capacity) /\ UNCHANGED capacity
    BY <1>3, <2>2 DEF SetMulti, Stores, Turns
  <2>4. PICK r : Matched(cache, r)
    BY DEF Listed
  <2>. QED
    BY <1>0, <2>3, <2>4, WriteAllGoes
<1>4. CASE Get(c) \/ Touch(c)
  <2>1. key[c] \in Keys /\ Lookup(c, key[c]) /\ UNCHANGED capacity
    BY <1>0, <1>4 DEF Get, Touch, Keyed
  <2>. QED
    BY <1>0, <2>1, LookupGoes
<1>5. CASE Delete(c)
  <2>1. PICK K \in (SUBSET Keys) \ {{}} : Becomes(c, RemoveAll(cache, K \cap Present(cache)))
    BY <1>5 DEF Delete
  <2>2. K \cap Present(cache) \in SUBSET Present(cache) /\ UNCHANGED capacity
        /\ cache' = RemoveAll(cache, K \cap Present(cache))
    BY <1>5, <2>1 DEF Delete, Becomes, Turns
  <2>. QED
    BY <1>0, <2>2, RemoveGoes
<1>6. CASE Drain(c)
  BY <1>0, <1>6, DrainGoes DEF Drain, Becomes, Turns
<1>7. CASE Resize(c)
  <2>1. PICK n \in Capacities : capacity' = n /\ cache' = EvictTail(cache, n)
    BY <1>7 DEF Resize, Becomes, Turns
  <2>2. n \in Nat
    BY DEF Configured
  <2>. QED
    BY <2>1, <2>2, ResizeGoes
<1>8. CASE Sweep(c)
  <2>1. PICK K : K \in SUBSET Present(cache) /\ cache' = RemoveAll(cache, K)
    BY <1>8 DEF Sweep, Expired, Ahead, Becomes, Turns
  <2>2. UNCHANGED capacity
    BY <1>8 DEF Sweep
  <2>. QED
    BY <1>0, <2>1, <2>2, RemoveGoes
<1>. QED
  BY <1>1, <1>2, <1>3, <1>4, <1>5, <1>6, <1>7, <1>8 DEF Plain

LEMMA DirectGoes ==
  ASSUME Configured, Typed, Listed(cache), Steps, Bounded, NEW c \in Callers, Direct(c)
  PROVE  Goes
<1>0. capacity \in Nat /\ (pc[c] \in Keyed => key[c] \in Keys)
  BY DEF Configured, Typed, Steps
<1>. USE DEF At
<1>1. CASE PeekPromote(c) \/ Check(c)
  <2>1. key[c] \in Keys /\ Lookup(c, key[c]) /\ UNCHANGED capacity
    BY <1>0, <1>1 DEF PeekPromote, Check, Keyed
  <2>. QED
    BY <1>0, <2>1, LookupGoes
<1>2. CASE StartDirect(c) \/ Compute(c) \/ ConvertMissToHit(c)
  BY <1>2, StillGoes DEF StartDirect, Compute, ConvertMissToHit
<1>3. CASE Store(c)
  <2>. DEFINE K == {key[c]} \cap Expired(cache)
              E == RemoveAll(cache, K)
  <2>1. key[c] \in Keys /\ UNCHANGED capacity
    BY <1>0, <1>3 DEF Store, Keyed
  <2>2. K \in SUBSET Present(cache) /\ K \in SUBSET Keys /\ K \subseteq {key[c]}
    BY DEF Expired, Present
  <2>3. PICK r : Matched(cache, r)
    BY DEF Listed
  <2>4. \A k \in K : r[k] > 0
    BY <2>2, <2>3 DEF Matched, Present
  <2>5. PICK p : Matched(E, p) /\ Keeps(r, p, K)
    BY <2>2, <2>3, <2>4, RemoveAllRanks
  <2>6. \/ UNCHANGED cache
        \/ cache' = EvictTail(Put(E, key[c], c), capacity)
        \/ cache' = E
    BY <1>3 DEF Store, Stores, Turns
  <2>7. CASE UNCHANGED cache
    BY <2>1, <2>7, StillGoes
  <2>8. CASE cache' = E
    BY <1>0, <2>1, <2>2, <2>8, RemoveGoes
  <2>9. CASE cache' = EvictTail(Put(E, key[c], c), capacity)
    <3>. HIDE DEF K, E
    <3>. QED
      BY <1>0, <2>1, <2>2, <2>3, <2>5, <2>9, WriteGoes
  <2>. QED
    BY <2>6, <2>7, <2>8, <2>9
<1>. QED
  BY <1>1, <1>2, <1>3 DEF Direct

LEMMA FlightGoes ==
  ASSUME Configured, Typed, Listed(cache), Steps, Bounded, NEW c \in Callers, Flight(c)
  PROVE  Goes
<1>0. capacity \in Nat /\ (fpc[c] # "none" => key[c] \in Keys)
  BY DEF Configured, Typed, Steps
<1>1. CASE FlightPeek(c)
  <2>1. key[c] \in Keys /\ Lookup(c, key[c]) /\ UNCHANGED capacity
    BY <1>0, <1>1 DEF FlightPeek
  <2>. QED
    BY <1>0, <2>1, LookupGoes
<1>2. CASE FlightStore(c)
  <2>1. PICK r : Matched(cache, r)
    BY DEF Listed
  <2>2. key[c] \in Keys /\ cache' = EvictTail(Put(cache, key[c], c), capacity) /\ UNCHANGED capacity
    BY <1>0, <1>2 DEF FlightStore, Stores, Turns
  <2>3. Keeps(r, r, {})
    BY DEF Keeps
  <2>. QED
    BY <1>0, <2>1, <2>2, <2>3, WriteGoes
<1>3. CASE Join(c) \/ FlightMiss(c) \/ FlightCompute(c) \/ FlightClosed(c) \/ Deliver(c) \/ Await(c)
  BY <1>3, StillGoes DEF Join, FlightMiss, FlightCompute, FlightClosed, Deliver, Await
<1>. QED
  BY <1>1, <1>2, <1>3 DEF Flight

LEMMA NextGoes == ASSUME Configured, Holds, Bounded, [Next]_vars PROVE Goes
<1>0. Typed /\ Listed(cache) /\ Steps
  BY DEF Holds
<1>1. CASE UNCHANGED vars
  BY <1>1, StillGoes DEF vars
<1>2. CASE Next
  BY <1>0, <1>1, <1>2, PlainGoes, DirectGoes, FlightGoes, ExpireGoes DEF Next, Rest
<1>. QED
  BY <1>1, <1>2

\* Lookups, writes, removals and expiry do to the keys what they do in an LRU
\* cache: the keys that are read or written become the most recent, and only the
\* oldest give way to the capacity (listMoveToFront, removeTailLocked).
THEOREM CacheIsLru == ASSUME Configured PROVE Spec => IsLru
<1>1. Init => Promise!Init /\ Bounded
  <2>. SUFFICES ASSUME Init PROVE Promise!Init /\ Bounded
    OBVIOUS
  <2>1. PICK r : Matched(Empty, r)
    BY EmptyPairs DEF Listed
  <2>2. \A k \in Keys : r[k] = 0
    BY <2>1 DEF Matched, Ranked, Empty
  <2>3. Present(cache) = {} /\ Newer(cache) = {}
    BY <2>1, <2>2, RecencyOf DEF Init, Held, Precedes
  <2>4. capacity \in Nat
    BY DEF Init, Configured
  <2>. QED
    BY <2>3, <2>4 DEF Init, Promise!Init, Bounded, Empty
<1>2. Holds /\ Bounded /\ [Next]_vars =>
        Bounded' /\ [Promise!Next]_<<Present(cache), Newer(cache), capacity>>
  BY NextGoes DEF Goes, Bounded
<1>3. Spec => []Holds
  BY AlwaysHolds
<1>. QED
  BY <1>1, <1>2, <1>3, PTL DEF Spec, IsLru, Promise!Spec
=============================================================================
