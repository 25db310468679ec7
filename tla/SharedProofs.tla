--------------------------- MODULE SharedProofs -----------------------------
(***************************************************************************)
(* Proofs about objects that goroutines share: the batch processor of      *)
(* poolx, the load shedder, the lazy value and the task group of syncx, and*)
(* the bucket of a rate limiter, and about calls with goroutines of their  *)
(* own: a timeout, a wait for shutdown, health checks, a hedged call and   *)
(* the runs of a warmer, for any number of goroutines and any settings.    *)
(*                                                                         *)
(* A behaviour of Packages is one of the chosen package.  The variables    *)
(* of a package have names of their own here, and its invariant is shown   *)
(* for the behaviours that chose it.                                       *)
(***************************************************************************)
EXTENDS Packages, Sequences, FiniteSetTheorems, FunctionTheorems, WellFoundedInduction, TLAPS

LEMMA StepOfPackage ==
  ASSUME [Next]_vars
  PROVE  /\ package' = package
         /\ package = "batch" => [B!Next]_(B!vars)
         /\ package = "shed" => [S!Next]_(S!vars)
         /\ package = "warm" => [W!Next]_(W!vars)
         /\ package = "hedge" => [H!Next]_(H!vars)
         /\ package = "retry" => [A!Next]_(A!vars)
         /\ package = "lazy" => [L!Next]_(L!vars)
         /\ package = "group" => [G!Next]_(G!vars)
         /\ package = "health" => [C!Next]_(C!vars)
         /\ package = "timeout" => [T!Next]_(T!vars)
         /\ package = "shutdown" => [D!Next]_(D!vars)
         /\ package = "options" => [O!Next]_(O!vars)
         /\ package = "rate" => [R!Next]_(R!vars)
         /\ package = "fallback" => [E!Next]_(E!vars)
         /\ package = "ramp" => [Y!Next]_(Y!vars)
         /\ package = "law" => [N!Next]_(N!vars)
         /\ package = "fall" => UNCHANGED vars \/ (~Drifted /\ F!Next) \/ UNCHANGED F!vars
  BY DEF Next, Rest, vars, B!vars, S!vars, A!vars, L!vars, G!vars, O!vars, H!vars, C!vars, T!vars,
         R!vars, E!vars, E!config, E!counters, FallNext, F!vars, F!walks, D!vars, D!waits,
         D!signals, W!vars, W!channels, W!waiting, Y!vars, Y!ramp, Y!calls, N!vars, N!law, N!past

LEMMA StartOfPackage ==
  ASSUME Init
  PROVE  /\ package = "batch" => B!Init
         /\ package = "shed" => S!Init
         /\ package = "warm" => W!Init
         /\ package = "hedge" => H!Init
         /\ package = "retry" => A!Init
         /\ package = "lazy" => L!Init
         /\ package = "group" => G!Init
         /\ package = "health" => C!Init
         /\ package = "timeout" => T!Init
         /\ package = "shutdown" => D!Init
         /\ package = "options" => O!Init
         /\ package = "rate" => R!Init
         /\ package = "fallback" => E!Init
         /\ package = "ramp" => Y!Init
         /\ package = "law" => N!Init
         /\ package = "fall" => F!Init
  BY DEF Init

-----------------------------------------------------------------------------
(* Sequences without repetitions, and least numbers.                       *)

In(a, s)      == \E i \in DOMAIN s : s[i] = a
Distinct(s)   == \A i, j \in DOMAIN s : s[i] = s[j] => i = j
Disjoint(s, t) == \A i \in DOMAIN s, j \in DOMAIN t : s[i] # t[j]

LEMMA AppendedDistinct ==
  ASSUME NEW I, NEW s \in Seq(I), Distinct(s), NEW a \in I, ~In(a, s)
  PROVE  /\ Append(s, a) \in Seq(I) /\ Distinct(Append(s, a))
         /\ \A b : In(b, Append(s, a)) <=> b = a \/ In(b, s)
<1>1. /\ Append(s, a) \in Seq(I) /\ DOMAIN s = 1 .. Len(s) /\ Len(s) \in Nat
      /\ DOMAIN Append(s, a) = 1 .. Len(s) + 1
      /\ Append(s, a)[Len(s) + 1] = a
      /\ \A i \in 1 .. Len(s) : Append(s, a)[i] = s[i]
  OBVIOUS
<1>2. Distinct(Append(s, a))
  BY <1>1 DEF Distinct, In
<1>3. \A b : In(b, Append(s, a)) <=> b = a \/ In(b, s)
  BY <1>1 DEF In
<1>. QED
  BY <1>1, <1>2, <1>3

LEMMA JoinedDistinct ==
  ASSUME NEW I, NEW s \in Seq(I), NEW t \in Seq(I), Distinct(s), Distinct(t), Disjoint(s, t)
  PROVE  /\ s \o t \in Seq(I) /\ Distinct(s \o t)
         /\ \A b : In(b, s \o t) <=> In(b, s) \/ In(b, t)
<1>1. /\ s \o t \in Seq(I) /\ Len(s \o t) = Len(s) + Len(t)
      /\ DOMAIN s = 1 .. Len(s) /\ DOMAIN t = 1 .. Len(t) /\ Len(s) \in Nat /\ Len(t) \in Nat
      /\ DOMAIN (s \o t) = 1 .. Len(s) + Len(t)
      /\ \A i \in 1 .. Len(s) : (s \o t)[i] = s[i]
      /\ \A i \in 1 .. Len(t) : (s \o t)[Len(s) + i] = t[i]
  OBVIOUS
<1>2. \A i \in 1 .. Len(s) + Len(t) :
        \/ i \in 1 .. Len(s)
        \/ \E j \in 1 .. Len(t) : i = Len(s) + j
  <2>1. \A i \in 1 .. Len(s) + Len(t) :
          \/ i \in 1 .. Len(s)
          \/ i - Len(s) \in 1 .. Len(t) /\ i = Len(s) + (i - Len(s))
    BY <1>1
  <2>. QED
    BY <2>1
<1>3. Distinct(s \o t)
  <2>. SUFFICES ASSUME NEW i \in 1 .. Len(s) + Len(t), NEW j \in 1 .. Len(s) + Len(t),
                       (s \o t)[i] = (s \o t)[j]
                PROVE  i = j
    BY <1>1 DEF Distinct
  <2>1. CASE i \in 1 .. Len(s) /\ j \in 1 .. Len(s)
    BY <1>1, <2>1 DEF Distinct
  <2>2. ASSUME NEW k \in 1 .. Len(t), i = Len(s) + k, NEW l \in 1 .. Len(t), j = Len(s) + l
        PROVE  i = j
    BY <1>1, <2>2 DEF Distinct
  <2>3. ASSUME i \in 1 .. Len(s), NEW l \in 1 .. Len(t), j = Len(s) + l PROVE i = j
    BY <1>1, <2>3 DEF Disjoint
  <2>4. ASSUME j \in 1 .. Len(s), NEW l \in 1 .. Len(t), i = Len(s) + l PROVE i = j
    BY <1>1, <2>4 DEF Disjoint
  <2>. QED
    BY <1>2, <2>1, <2>2, <2>3, <2>4
<1>4. ASSUME NEW b PROVE In(b, s \o t) <=> In(b, s) \/ In(b, t)
  <2>1. In(b, s) => In(b, s \o t)
    BY <1>1 DEF In
  <2>2. In(b, t) => In(b, s \o t)
    <3>. SUFFICES ASSUME NEW k \in 1 .. Len(t), t[k] = b PROVE In(b, s \o t)
      BY <1>1 DEF In
    <3>1. Len(s) + k \in 1 .. Len(s) + Len(t)
      BY <1>1
    <3>. QED
      BY <1>1, <3>1 DEF In
  <2>3. In(b, s \o t) => In(b, s) \/ In(b, t)
    BY <1>1, <1>2, SMTT(60) DEF In
  <2>. QED
    BY <2>1, <2>2, <2>3
<1>. QED
  BY <1>1, <1>3, <1>4

LEMMA EmptyDistinct ==
  Distinct(<<>>) /\ (\A a : ~In(a, <<>>)) /\ \A I : <<>> \in Seq(I)
  BY DEF Distinct, In

\* What is received is the head of a channel.
LEMMA TailDistinct ==
  ASSUME NEW I, NEW s \in Seq(I), Distinct(s), s # <<>>
  PROVE  /\ Head(s) \in I /\ In(Head(s), s) /\ Tail(s) \in Seq(I) /\ Distinct(Tail(s))
         /\ \A b : In(b, Tail(s)) <=> b # Head(s) /\ In(b, s)
<1>1. /\ DOMAIN s = 1 .. Len(s) /\ Len(s) \in Nat /\ Len(s) > 0
      /\ Tail(s) \in Seq(I) /\ Len(Tail(s)) = Len(s) - 1 /\ DOMAIN Tail(s) = 1 .. Len(s) - 1
      /\ \A i \in 1 .. Len(s) - 1 : Tail(s)[i] = s[i + 1]
      /\ Head(s) = s[1] /\ Head(s) \in I
  OBVIOUS
<1>2. Distinct(Tail(s))
  BY <1>1 DEF Distinct
<1>3. ASSUME NEW b, In(b, Tail(s)) PROVE b # Head(s) /\ In(b, s)
  <2>1. PICK i \in 1 .. Len(s) - 1 : Tail(s)[i] = b
    BY <1>1, <1>3 DEF In
  <2>2. i + 1 \in 1 .. Len(s) /\ s[i + 1] = b /\ i + 1 # 1 /\ 1 \in 1 .. Len(s)
    BY <1>1, <2>1
  <2>. QED
    BY <1>1, <2>2 DEF In, Distinct
<1>4. ASSUME NEW b, In(b, s), b # Head(s) PROVE In(b, Tail(s))
  <2>1. PICK i \in 1 .. Len(s) : s[i] = b
    BY <1>1, <1>4 DEF In
  <2>2. i - 1 \in 1 .. Len(s) - 1 /\ (i - 1) + 1 = i
    BY <1>1, <1>4, <2>1
  <2>. QED
    BY <1>1, <2>1, <2>2 DEF In
<1>. QED
  BY <1>1, <1>2, <1>3, <1>4 DEF In

LEMMA LeastOf ==
  ASSUME NEW J, J \subseteq Nat, J # {} PROVE \E n \in J : \A m \in J : n <= m
<1>. DEFINE I == OpToRel(<, Nat)
<1>1. PICK n \in J : \A m \in J : ~(<<m, n>> \in I)
  <2>1. IsWellFoundedOn(I, Nat)
    BY NatLessThanWellFounded
  <2>. HIDE DEF I
  <2>. QED
    BY <2>1, WFMin
<1>2. \A m \in J : m < n => <<m, n>> \in I
  BY DEF OpToRel
<1>3. ASSUME NEW m \in J PROVE n <= m
  <2>1. ~(m < n)
    BY <1>1, <1>2
  <2>2. m \in Nat /\ n \in Nat
    OBVIOUS
  <2>. QED
    BY <2>1, <2>2
<1>. QED
  BY <1>3

-----------------------------------------------------------------------------
(* shedx.Shedder: the count is the number of claims, and no claim that is  *)
(* not critical passes the bound of its priority.                          *)

shedInflight == x1
shedClosed   == x2
shedLatch    == x3
shedPc       == x4
shedPriority == x5
shedClaims   == x6
shedSeen     == x7
USE DEF shedInflight, shedClosed, shedLatch, shedPc, shedPriority, shedClaims, shedSeen

LEMMA ShedCounts == \A Z : S!Cardinality(Z) = Cardinality(Z)
  BY DEF S!Cardinality, Cardinality
USE ShedCounts

\* Of what newConfig makes sure, what the proofs need.
ShedConfigured ==
  /\ IsFiniteSet(Callers)
  /\ Slots \in Nat
  /\ Threshold \in Int /\ Hysteresis \in Nat
  /\ Cutoff \in [{"low", "normal", "high"} -> Int]

ShedClaimers == {c \in Callers : shedPc[c] \in {"commit", "back", "run"}}

\* A claim that is being made was admitted at the count it will make, whatever
\* has become of the latch since.
BelowShedBound(n, p) == S!Below(n, Threshold) \/ S!ApplyCutoffs(n, p)
ShedAdmittedInv ==
  \A c \in Callers :
    /\ shedPc[c] = "swap" =>
       shedPriority[c] = "critical" \/ BelowShedBound(shedSeen[c] + 1, shedPriority[c])
    /\ shedPc[c] = "unlatch" => S!Below(shedSeen[c] + 1, Threshold)

ShedInv == S!TypeOK /\ S!CountIsExact /\ ShedAdmittedInv

-----------------------------------------------------------------------------
LEMMA ShedClaimersFinite ==
  ASSUME ShedConfigured
  PROVE  /\ IsFiniteSet(ShedClaimers) /\ Cardinality(ShedClaimers) \in Nat
         /\ Cardinality(Callers) \in Nat /\ Cardinality(ShedClaimers) <= Cardinality(Callers)
<1>1. ShedClaimers \in SUBSET Callers
  BY DEF ShedClaimers
<1>. QED
  BY <1>1, FS_Subset, FS_CardinalityType DEF ShedConfigured

LEMMA ShedClaimersBounded ==
  ShedConfigured => Cardinality(ShedClaimers') <= Cardinality(Callers)
<1>1. ShedConfigured => ShedClaimers' \in SUBSET Callers
  BY DEF ShedClaimers
<1>. QED
  BY <1>1, FS_Subset DEF ShedConfigured

\* One caller moves; the set of claims follows it.
LEMMA ShedMove ==
  ASSUME ShedConfigured, S!TypeOK, NEW c \in Callers, NEW b \in S!Labels, S!Goto(c, b)
  PROVE  /\ shedPc' \in [Callers -> S!Labels] /\
            \A d \in Callers : shedPc'[d] = IF d = c THEN b ELSE shedPc[d]
         /\ (shedPc[c] \in {"commit", "back", "run"} <=> b \in {"commit", "back", "run"}) =>
              ShedClaimers' = ShedClaimers
         /\ shedPc[c] \notin {"commit", "back", "run"} /\ b \in {"commit", "back", "run"} =>
                  Cardinality(ShedClaimers') = Cardinality(ShedClaimers) + 1
         /\ shedPc[c] \in {"commit", "back", "run"} /\ b \notin {"commit", "back", "run"} =>
                  Cardinality(ShedClaimers') = Cardinality(ShedClaimers) - 1 /\
                  Cardinality(ShedClaimers) >= 1
<1>. DEFINE Claim == {"commit", "back", "run"}
<1>1. shedPc' \in [Callers -> S!Labels] /\
      \A d \in Callers : shedPc'[d] = IF d = c THEN b ELSE shedPc[d]
  BY DEF S!TypeOK, S!Goto
<1>2. (shedPc[c] \in Claim <=> b \in Claim) => ShedClaimers' = ShedClaimers
  BY <1>1 DEF ShedClaimers
<1>3. ASSUME shedPc[c] \notin Claim, b \in Claim
      PROVE Cardinality(ShedClaimers') = Cardinality(ShedClaimers) + 1
  <2>1. ShedClaimers' = ShedClaimers \cup {c} /\ c \notin ShedClaimers
    BY <1>1, <1>3 DEF ShedClaimers
  <2>. QED
    BY <2>1, ShedClaimersFinite, FS_AddElement
<1>4. ASSUME shedPc[c] \in Claim, b \notin Claim
      PROVE  Cardinality(ShedClaimers') = Cardinality(ShedClaimers) - 1 /\
             Cardinality(ShedClaimers) >= 1
  <2>1. ShedClaimers' = ShedClaimers \ {c} /\ c \in ShedClaimers
    BY <1>1, <1>4 DEF ShedClaimers
  <2>2. Cardinality(ShedClaimers) # 0
    BY <2>1, ShedClaimersFinite, FS_EmptySet
  <2>3. Cardinality(ShedClaimers \ {c}) = Cardinality(ShedClaimers) - 1
    BY <2>1, ShedClaimersFinite, FS_RemoveElement
  <2>. QED
    BY <2>1, <2>2, <2>3, ShedClaimersFinite
<1>. QED
  BY <1>1, <1>2, <1>3, <1>4

\* The latch clears below the threshold.
LEMMA ShedClearsBelow ==
  ASSUME ShedConfigured, NEW n \in Nat, S!Below(n, Threshold - Hysteresis)
  PROVE  S!Below(n, Threshold)
<1>1. \A t \in Int, h, k \in Nat : (t - h) * k <= t * k
  <2>. SUFFICES ASSUME NEW t \in Int, NEW h \in Nat, NEW k \in Nat PROVE (t - h) * k <= t * k
    OBVIOUS
  <2>1. (t - h) * k = t * k - h * k /\ h * k >= 0
    OBVIOUS
  <2>. QED
    BY <2>1
<1>2. (Threshold - Hysteresis) * Slots <= Threshold * Slots
  BY <1>1 DEF ShedConfigured
<1>3. /\ (Threshold - Hysteresis) * Slots \in Int
      /\ Threshold * Slots \in Int /\ 100 * n \in Int
  BY DEF ShedConfigured
<1>. QED
  BY <1>2, <1>3 DEF S!Below

\* What admits lets through is below the bound of its priority.
LEMMA ShedAdmitsBelow ==
  ASSUME ShedConfigured, NEW n \in Nat, NEW p \in S!Priorities, NEW latched \in BOOLEAN
  PROVE  /\ S!Admits(n, p, latched) => p = "critical" \/ BelowShedBound(n, p)
         /\ S!Unlatches(n, p, latched) => S!Below(n, Threshold)
  BY ShedClearsBelow DEF S!Admits, S!Unlatches, BelowShedBound

LEMMA ShedInit == ASSUME ShedConfigured PROVE S!Init => ShedInv
<1>. SUFFICES ASSUME S!Init PROVE ShedInv
  OBVIOUS
<1>1. ShedClaimers = {}
  BY DEF S!Init, ShedClaimers
<1>2. S!CountIsExact
  BY <1>1, FS_EmptySet DEF S!CountIsExact, ShedClaimers, S!Init
<1>3. S!TypeOK
  <2>1. /\ shedPc \in [Callers -> S!Labels] /\ shedClosed \in BOOLEAN /\ shedLatch \in BOOLEAN
        /\ shedPriority \in [Callers -> S!Priorities] /\ shedClaims \in [Callers -> BOOLEAN]
    BY DEF S!Init, S!Labels
  <2>2. 0 \in 0 .. Cardinality(Callers)
    BY ShedClaimersFinite
  <2>. QED
    BY <2>1, <2>2 DEF S!Init, S!TypeOK
<1>. QED
  BY <1>2, <1>3 DEF ShedInv, ShedAdmittedInv, S!Init

\* A caller that neither claims nor gives back.
LEMMA ShedQuietStep ==
  ASSUME ShedConfigured, ShedInv, NEW c \in Callers,
         S!Enter(c) \/ S!LoadCount(c) \/ S!Judge(c) \/ S!Unlatch(c) \/ S!Latch(c) \/ S!Commit(c)
           \/ S!ReleaseAgain(c) \/ (S!Swap(c) /\ ~S!Unchanged(c))
  PROVE  ShedInv'
<1>. USE DEF S!At
<1>0. S!TypeOK /\ Cardinality(Callers) \in Nat
  BY ShedClaimersFinite DEF ShedInv
<1>1. PICK b \in S!Labels :
         /\ S!Goto(c, b)
         /\ shedPc[c] \in {"commit", "back", "run"} <=> b \in {"commit", "back", "run"}
         /\ b = "swap" =>
            shedPriority[c] = "critical" \/ BelowShedBound(shedSeen[c] + 1, shedPriority[c])
         /\ b = "unlatch" => S!Below(shedSeen[c] + 1, Threshold)
         /\ b \in {"swap", "unlatch"} => shedSeen' = shedSeen
  <2>1. CASE S!Enter(c) \/ S!LoadCount(c) \/ S!Commit(c) \/ S!ReleaseAgain(c)
    BY <2>1 DEF S!Enter, S!LoadCount, S!Commit, S!RollsBack, S!ReleaseAgain, S!Labels
  <2>2. CASE S!Judge(c)
    <3>. DEFINE n == shedSeen[c] + 1
                p == shedPriority[c]
                b == IF S!Unlatches(n, p, shedLatch) THEN "unlatch"
                     ELSE IF S!Latches(n, p, shedLatch) THEN "latch"
                     ELSE IF S!Admits(n, p, shedLatch) THEN S!Admitted(c) ELSE "done"
    <3>1. n \in Nat /\ p \in S!Priorities /\ shedLatch \in BOOLEAN
      BY <1>0 DEF S!TypeOK
    <3>2. /\ S!Admits(n, p, shedLatch) => p = "critical" \/ BelowShedBound(n, p)
          /\ S!Unlatches(n, p, shedLatch) => S!Below(n, Threshold)
      BY <3>1, ShedAdmitsBelow
    <3>3. S!Goto(c, b) /\ shedPc[c] = "judge" /\ shedSeen' = shedSeen
      BY <2>2 DEF S!Judge
    <3>4. /\ b \in S!Labels /\ b \notin {"commit", "back", "run"}
          /\ b = "swap" => S!Admits(n, p, shedLatch)
          /\ b = "unlatch" => S!Unlatches(n, p, shedLatch)
      BY DEF S!Admitted, S!Labels
    <3>. HIDE DEF n, p, b
    <3>. QED
      BY <3>2, <3>3, <3>4 DEF n, p
  <2>3. CASE S!Unlatch(c)
    BY <2>3 DEF S!Unlatch, S!Admitted, S!Labels, ShedInv, ShedAdmittedInv, BelowShedBound
  <2>4. CASE S!Latch(c)
    BY <2>4 DEF S!Latch, S!Admitted, S!Labels, BelowShedBound
  <2>5. CASE S!Swap(c) /\ ~S!Unchanged(c)
    BY <2>5 DEF S!Swap, S!Labels
  <2>. QED
    BY <2>1, <2>2, <2>3, <2>4, <2>5
<1>2. UNCHANGED <<shedInflight, shedClosed, shedPriority, shedClaims>> /\ shedLatch' \in BOOLEAN
  BY <1>0 DEF S!Enter, S!LoadCount, S!Judge, S!Unlatch, S!Latch, S!Commit, S!ReleaseAgain, S!Swap,
              S!TypeOK
<1>3. /\ shedSeen' \in [Callers -> 0 .. Cardinality(Callers)]
      /\ \A d \in Callers : d # c => shedSeen'[d] = shedSeen[d]
  BY <1>0 DEF S!Enter, S!LoadCount, S!Judge, S!Unlatch, S!Latch, S!Commit, S!ReleaseAgain, S!Swap,
              S!TypeOK
<1>4. ShedClaimers' = ShedClaimers
  BY <1>0, <1>1, ShedMove
<1>5. shedPc' \in [Callers -> S!Labels] /\
      \A d \in Callers : shedPc'[d] = IF d = c THEN b ELSE shedPc[d]
  BY <1>0, <1>1, ShedMove
<1>6. S!TypeOK' /\ S!CountIsExact'
  BY <1>0, <1>2, <1>3, <1>4, <1>5 DEF ShedInv, S!TypeOK, S!CountIsExact, ShedClaimers
<1>7. ShedAdmittedInv'
  <2>1. ASSUME NEW d \in Callers
        PROVE  /\ shedPc'[d] = "swap" =>
                        shedPriority[d] = "critical" \/ BelowShedBound(shedSeen'[d] + 1,
                        shedPriority[d])
               /\ shedPc'[d] = "unlatch" => S!Below(shedSeen'[d] + 1, Threshold)
    <3>1. CASE d = c
      BY <1>1, <1>5, <3>1
    <3>2. CASE d # c
      BY <1>3, <1>5, <3>2 DEF ShedInv, ShedAdmittedInv
    <3>. QED
      BY <3>1, <3>2
  <2>. QED
    BY <1>2, <2>1 DEF ShedAdmittedInv, BelowShedBound, S!Below, S!ApplyCutoffs
<1>. QED
  BY <1>6, <1>7 DEF ShedInv

\* A slot is claimed or given back.
LEMMA ShedSlotStep ==
  ASSUME ShedConfigured, ShedInv, NEW c \in Callers,
         (S!Swap(c) /\ S!Unchanged(c)) \/ S!RollBack(c) \/ S!Release(c)
  PROVE  ShedInv'
<1>. USE DEF S!At
<1>0. /\ S!TypeOK /\ Cardinality(Callers) \in Nat /\ Cardinality(ShedClaimers) \in Nat
      /\ shedInflight = Cardinality(ShedClaimers) /\
         Cardinality(ShedClaimers') <= Cardinality(Callers)
  BY ShedClaimersFinite, ShedClaimersBounded DEF ShedInv, S!CountIsExact, ShedClaimers
<1>1. UNCHANGED <<shedClosed, shedLatch, shedPriority, shedClaims, shedSeen>>
  BY DEF S!Swap, S!RollBack, S!Release
<1>2. PICK b \in S!Labels :
         /\ S!Goto(c, b) /\ b \notin {"swap", "unlatch"}
         /\ shedInflight' = Cardinality(ShedClaimers') /\ shedInflight' \in Nat
  <2>1. CASE S!Swap(c) /\ S!Unchanged(c)
    <3>1. S!Goto(c, "commit") /\ shedInflight' = shedInflight + 1 /\ shedPc[c] = "swap" /\
          "commit" \in S!Labels
      BY <2>1 DEF S!Swap, S!Labels
    <3>2. Cardinality(ShedClaimers') = Cardinality(ShedClaimers) + 1
      BY <1>0, <3>1, ShedMove
    <3>. QED
      BY <1>0, <3>1, <3>2
  <2>2. CASE S!RollBack(c) \/ S!Release(c)
    <3>1. PICK b \in {"done", "spent"} : S!Goto(c, b)
      BY <2>2 DEF S!RollBack, S!Release
    <3>2. shedInflight' = shedInflight - 1 /\ shedPc[c] \in {"back", "run"} /\ b \in S!Labels
      BY <2>2 DEF S!RollBack, S!Release, S!Labels
    <3>3. Cardinality(ShedClaimers') = Cardinality(ShedClaimers) - 1 /\
          Cardinality(ShedClaimers) >= 1
      BY <1>0, <3>1, <3>2, ShedMove
    <3>. QED
      BY <1>0, <3>1, <3>2, <3>3
  <2>. QED
    BY <2>1, <2>2
<1>3. shedPc' \in [Callers -> S!Labels] /\
      \A d \in Callers : shedPc'[d] = IF d = c THEN b ELSE shedPc[d]
  BY <1>0, <1>2, ShedMove
<1>4. S!TypeOK' /\ S!CountIsExact'
  BY <1>0, <1>1, <1>2, <1>3 DEF S!TypeOK, S!CountIsExact, ShedClaimers
<1>5. ShedAdmittedInv'
  BY <1>1, <1>2, <1>3 DEF ShedInv, ShedAdmittedInv, BelowShedBound, S!Below, S!ApplyCutoffs
<1>. QED
  BY <1>4, <1>5 DEF ShedInv

LEMMA ShedNext == ASSUME ShedConfigured PROVE ShedInv /\ [S!Next]_(S!vars) => ShedInv'
<1>. SUFFICES ASSUME ShedInv, [S!Next]_(S!vars) PROVE ShedInv'
  OBVIOUS
<1>1. ASSUME UNCHANGED <<shedInflight, shedLatch, shedPc, shedPriority, shedClaims, shedSeen>>,
             shedClosed' \in BOOLEAN
      PROVE  ShedInv'
  BY <1>1 DEF ShedInv, S!TypeOK, S!CountIsExact, ShedAdmittedInv, BelowShedBound, S!Below,
              S!ApplyCutoffs
<1>2. CASE S!Close \/ S!Rest \/ UNCHANGED S!vars
  BY <1>1, <1>2 DEF S!Close, S!Rest, S!vars, ShedInv, S!TypeOK
<1>. QED
  BY <1>2, ShedQuietStep, ShedSlotStep DEF S!Next

LEMMA ShedInvariant == ASSUME ShedConfigured PROVE Spec => [](package = "shed" => ShedInv)
<1>1. Init => (package = "shed" => ShedInv)
  BY ShedInit, StartOfPackage
<1>2. (package = "shed" => ShedInv) /\ [Next]_vars => (package = "shed" => ShedInv)'
  BY ShedNext, StepOfPackage
<1>. QED
  BY <1>1, <1>2, PTL DEF Spec

\* A claim that is not critical stays within the bound of its priority, though what
\* admits has read of the count and of the latch is old when the claim is made
\* (admits, tryReserve).
LEMMA ShedClaimWithinBound ==
  ASSUME ShedConfigured, ShedInv, ShedInv', [S!Next]_(S!vars)
  PROVE  S!ClaimWithinBound
<1>. SUFFICES ASSUME NEW c \in Callers,
                     shedPc[c] = "swap", shedPc'[c] = "commit", shedPriority[c] # "critical"
              PROVE  shedInflight' \in S!Bound(shedPriority[c])
  BY DEF S!ClaimWithinBound
<1>. USE DEF S!At
<1>1. S!Swap(c) /\ S!Unchanged(c)
  <2>1. ASSUME NEW d \in Callers, d # c, NEW b, S!Goto(d, b) PROVE FALSE
    BY <2>1 DEF S!Goto, ShedInv, S!TypeOK
  <2>2. ASSUME NEW d \in Callers,
               \/ S!Enter(d) \/ S!LoadCount(d) \/ S!Judge(d) \/ S!Unlatch(d) \/ S!Latch(d)
               \/ S!Swap(d) \/ S!Commit(d) \/ S!RollBack(d) \/ S!Release(d) \/ S!ReleaseAgain(d)
        PROVE  d = c
    <3>1. \E b : S!Goto(d, b)
      BY <2>2 DEF S!Enter, S!LoadCount, S!Judge, S!Unlatch, S!Latch, S!Swap, S!Commit, S!RollBack,
                  S!Release,
                  S!ReleaseAgain
    <3>. QED
      BY <2>1, <3>1
  <2>3. ~S!Close /\ ~S!Rest /\ ~UNCHANGED S!vars
    BY DEF S!Close, S!Rest, S!Quiet, S!vars
  <2>4. S!Swap(c)
    BY <2>2, <2>3
       DEF S!Next, S!Enter, S!LoadCount, S!Judge, S!Unlatch, S!Latch, S!Commit, S!RollBack,
           S!Release, S!ReleaseAgain
  <2>5. S!Unchanged(c)
    BY <2>4 DEF S!Swap, S!Goto, ShedInv, S!TypeOK
  <2>. QED
    BY <2>4, <2>5
<1>2. shedInflight' = shedSeen[c] + 1 /\ BelowShedBound(shedSeen[c] + 1, shedPriority[c])
  BY <1>1 DEF S!Swap, S!Unchanged, ShedInv, ShedAdmittedInv
<1>3. shedInflight' \in 1 .. Cardinality(Callers)
  <2>1. shedInflight' \in 0 .. Cardinality(Callers) /\ shedSeen[c] \in 0 .. Cardinality(Callers)
        /\ Cardinality(Callers) \in Nat
    BY ShedClaimersFinite DEF ShedInv, S!TypeOK
  <2>. QED
    BY <1>2, <2>1
<1>. QED
  BY <1>2, <1>3 DEF S!Bound, BelowShedBound
HIDE ShedCounts

HIDE DEF shedInflight, shedClosed, shedLatch, shedPc, shedPriority, shedClaims, shedSeen

-----------------------------------------------------------------------------
(* poolx.Batch: no sequence holds an item twice, no two of them share one, *)
(* and an accepted item that is in none was delivered once.                *)

batchBuf       == x1
batchClosed    == x2
batchDone      == x3
batchOnce      == x4
batchPc        == x5
batchTaken     == x6
batchDelivered == x7
batchLate      == x8
USE DEF batchBuf, batchClosed, batchDone, batchOnce, batchPc, batchTaken, batchDelivered, batchLate

LEMMA BatchCounts == \A Z : B!Cardinality(Z) = Cardinality(Z)
  BY DEF B!Cardinality, Cardinality
\* A goroutine makes one kind of call.
BatchConfigured ==
  /\ Callers \cap ({Flusher} \cup {Ticker} \cup Others) = {}
  /\ Others \cap ({Flusher} \cup {Ticker}) = {}

\* What a goroutine has taken it has until it was delivered or put back.
BatchHandInv ==
  \A g \in B!Goroutines : batchTaken[g] # <<>> => batchPc[g] \in {"signal", "call", "requeue"}

\* Every item is in one place at most, and only accepted items are anywhere.
BatchPlaceInv ==
  /\ Distinct(batchBuf)
  /\ \A g \in B!Goroutines : Distinct(batchTaken[g]) /\ Disjoint(batchBuf, batchTaken[g])
  /\ \A g, h \in B!Goroutines : g # h => Disjoint(batchTaken[g], batchTaken[h])

InBatch(a) == In(a, batchBuf) \/ \E g \in B!Goroutines : In(a, batchTaken[g])

BatchDeliveredInv ==
  \A a \in Callers :
    /\ InBatch(a) => a \in B!Accepted
    /\ batchDelivered[a] = IF a \in B!Accepted /\ ~InBatch(a) THEN 1 ELSE 0

\* How far the one Close that runs has come; and an item that is in the buffer after
\* the block of Close was put back.
BatchCloserInv ==
  /\ \A c \in Others : /\ batchPc[c] \in {"idle", "signal", "call", "requeue", "done"}
                       /\ batchPc[c] \in {"signal", "call", "requeue"} => batchClosed
  /\ batchOnce = "done" => batchClosed
BatchLateInv == batchClosed => \A i \in DOMAIN batchBuf : batchBuf[i] \in batchLate

BatchItemInv  == B!TypeOK /\ BatchHandInv /\ BatchPlaceInv /\ BatchDeliveredInv
BatchInv == BatchItemInv /\ BatchCloserInv /\ BatchLateInv

-----------------------------------------------------------------------------
(* How often a sequence holds an item. *)

LEMMA CountedOnce ==
  ASSUME NEW s \in Seq(Callers), Distinct(s), NEW a
  PROVE  B!Times(a, s) = IF In(a, s) THEN 1 ELSE 0
<1>. DEFINE J == {i \in DOMAIN s : s[i] = a}
<1>1. CASE In(a, s)
  <2>1. PICK i \in DOMAIN s : s[i] = a
    BY <1>1 DEF In
  <2>2. J = {i}
    BY <2>1 DEF Distinct
  <2>. QED
    BY <1>1, <2>2, FS_Singleton, BatchCounts DEF B!Times
<1>2. CASE ~In(a, s)
  <2>1. J = {}
    BY <1>2 DEF In
  <2>. QED
    BY <1>2, <2>1, FS_EmptySet, BatchCounts DEF B!Times
<1>. QED
  BY <1>1, <1>2

-----------------------------------------------------------------------------
(* Who has accepted what. *)

\* One goroutine moves; an adder is accepted when its call of Add has been.
LEMMA BatchMoved ==
  ASSUME BatchConfigured, B!TypeOK, NEW g \in B!Goroutines, NEW b \in B!Labels, B!Goto(g, b)
  PROVE  /\ batchPc' \in [B!Goroutines -> B!Labels]
         /\ \A h \in B!Goroutines : batchPc'[h] = IF h = g THEN b ELSE batchPc[h]
         /\ g \notin Callers \/ (batchPc[g] \in {"idle", "rejected"} <=> b \in {"idle", "rejected"})
              => B!Accepted' = B!Accepted
<1>1. batchPc' \in [B!Goroutines -> B!Labels] /\
      \A h \in B!Goroutines : batchPc'[h] = IF h = g THEN b ELSE batchPc[h]
  BY DEF B!TypeOK, B!Goto
<1>2. Callers \subseteq B!Goroutines
  BY DEF B!Goroutines
<1>. QED
  BY <1>1, <1>2 DEF B!Accepted

\* An item nobody has seen before.
LEMMA BatchFreshItem ==
  ASSUME BatchItemInv, NEW a \in Callers, a \notin B!Accepted
  PROVE  ~In(a, batchBuf) /\ (\A g \in B!Goroutines : ~In(a, batchTaken[g])) /\
         batchDelivered[a] = 0
  BY DEF BatchItemInv, BatchDeliveredInv, InBatch

-----------------------------------------------------------------------------
(* ItemInv is inductive. *)

\* Steps that move no item.
LEMMA BatchNoItemMoves ==
  ASSUME BatchItemInv, UNCHANGED <<batchBuf, batchTaken, batchDelivered>>, B!Accepted' = B!Accepted
  PROVE  BatchPlaceInv' /\ BatchDeliveredInv'
<1>1. BatchPlaceInv'
  BY DEF BatchItemInv, BatchPlaceInv
<1>2. BatchDeliveredInv'
  BY DEF BatchItemInv, BatchDeliveredInv, InBatch
<1>. QED
  BY <1>1, <1>2

\* The whole buffer goes into the hands of a goroutine that has nothing.
LEMMA BatchTakesKeepsItems ==
  ASSUME BatchItemInv, NEW g \in B!Goroutines, batchTaken[g] = <<>>, B!Takes(g),
         batchDelivered' = batchDelivered,
         B!Accepted' = B!Accepted
  PROVE  /\ BatchPlaceInv' /\ BatchDeliveredInv'
         /\ batchBuf' \in Seq(Callers) /\ batchTaken' \in [B!Goroutines -> Seq(Callers)]
<1>1. /\ batchBuf' = <<>> /\ batchBuf' \in Seq(Callers)
      /\ batchTaken' \in [B!Goroutines -> Seq(Callers)]
      /\ \A h \in B!Goroutines : batchTaken'[h] = IF h = g THEN batchBuf ELSE batchTaken[h]
  BY EmptyDistinct DEF B!Takes, BatchItemInv, B!TypeOK
<1>2. BatchPlaceInv'
  <2>1. Distinct(batchBuf') /\ \A h \in B!Goroutines : Distinct(batchTaken'[h]) /\
        Disjoint(batchBuf', batchTaken'[h])
    BY <1>1, EmptyDistinct DEF BatchItemInv, BatchPlaceInv, Disjoint
  <2>2. ASSUME NEW h \in B!Goroutines, NEW k \in B!Goroutines, h # k
        PROVE  Disjoint(batchTaken'[h], batchTaken'[k])
    BY <1>1, <2>2 DEF BatchItemInv, BatchPlaceInv, Disjoint
  <2>. QED
    BY <2>1, <2>2 DEF BatchPlaceInv
<1>3. \A a : InBatch(a)' <=> InBatch(a)
  <2>. SUFFICES ASSUME NEW a PROVE InBatch(a)' <=> InBatch(a)
    OBVIOUS
  <2>1. ~In(a, batchBuf') /\ ~In(a, batchTaken[g])
    BY <1>1, EmptyDistinct
  <2>. QED
    BY <1>1, <2>1 DEF InBatch
<1>4. BatchDeliveredInv'
  BY <1>3 DEF BatchItemInv, BatchDeliveredInv
<1>. QED
  BY <1>1, <1>2, <1>4

\* The flush function takes what a goroutine has.
LEMMA BatchDeliverKeepsItems ==
  ASSUME BatchItemInv, NEW g \in B!Goroutines, batchBuf' = batchBuf,
         batchTaken' = [batchTaken EXCEPT ![g] = <<>>],
         batchDelivered' = [a \in Callers |->
                              batchDelivered[a]
                                + Cardinality({i \in DOMAIN batchTaken[g] :
                                                 batchTaken[g][i] = a})],
         B!Accepted' = B!Accepted
  PROVE  /\ BatchPlaceInv' /\ BatchDeliveredInv'
         /\ batchTaken' \in [B!Goroutines -> Seq(Callers)] /\ batchDelivered' \in [Callers -> Nat]
<1>1. /\ batchTaken' \in [B!Goroutines -> Seq(Callers)] /\ batchTaken[g] \in Seq(Callers)
      /\ \A h \in B!Goroutines : batchTaken'[h] = IF h = g THEN <<>> ELSE batchTaken[h]
  BY EmptyDistinct DEF BatchItemInv, B!TypeOK
<1>2. BatchPlaceInv'
  BY <1>1, EmptyDistinct DEF BatchItemInv, BatchPlaceInv, Disjoint
<1>3. \A a \in Callers : batchDelivered'[a] = batchDelivered[a] +
      IF In(a, batchTaken[g]) THEN 1 ELSE 0
  <2>. SUFFICES ASSUME NEW a \in Callers
                PROVE  batchDelivered'[a] = batchDelivered[a] +
                       IF In(a, batchTaken[g]) THEN 1 ELSE 0
    OBVIOUS
  <2>1. B!Times(a, batchTaken[g]) = IF In(a, batchTaken[g]) THEN 1 ELSE 0
    BY <1>1, CountedOnce DEF BatchItemInv, BatchPlaceInv
  <2>2. batchDelivered'[a] = batchDelivered[a] + B!Times(a, batchTaken[g])
    BY BatchCounts DEF B!Times
  <2>. QED
    BY <2>1, <2>2
<1>4. ASSUME NEW a \in Callers
      PROVE  /\ InBatch(a)' => InBatch(a)
             /\ InBatch(a)' => ~In(a, batchTaken[g])
             /\ InBatch(a) /\ ~In(a, batchTaken[g]) => InBatch(a)'
  <2>1. ASSUME In(a, batchTaken[g])
        PROVE ~In(a, batchBuf) /\ \A h \in B!Goroutines : h # g => ~In(a, batchTaken[h])
    BY <2>1 DEF BatchItemInv, BatchPlaceInv, Disjoint, In
  <2>2. InBatch(a)' <=> In(a, batchBuf) \/ \E h \in B!Goroutines : h # g /\ In(a, batchTaken[h])
    BY <1>1, EmptyDistinct DEF InBatch
  <2>. QED
    BY <2>1, <2>2 DEF InBatch
<1>5. BatchDeliveredInv'
  <2>. SUFFICES ASSUME NEW a \in Callers
                PROVE  /\ InBatch(a)' => a \in B!Accepted
                       /\ batchDelivered'[a] = IF a \in B!Accepted /\ ~InBatch(a)' THEN 1 ELSE 0
    BY DEF BatchDeliveredInv
  <2>1. In(a, batchTaken[g]) => InBatch(a)
    BY DEF InBatch
  <2>2. /\ InBatch(a) => a \in B!Accepted
        /\ batchDelivered[a] = IF a \in B!Accepted /\ ~InBatch(a) THEN 1 ELSE 0
    BY DEF BatchItemInv, BatchDeliveredInv
  <2>. QED
    BY <1>3, <1>4, <2>1, <2>2
<1>6. batchDelivered' \in [Callers -> Nat]
  <2>1. ASSUME NEW a \in Callers PROVE batchDelivered'[a] \in Nat
    <3>1. batchDelivered[a] \in Nat
      BY DEF BatchItemInv, B!TypeOK
    <3>2. CASE In(a, batchTaken[g])
      BY <1>3, <3>1, <3>2
    <3>3. CASE ~In(a, batchTaken[g])
      BY <1>3, <3>1, <3>3
    <3>. QED
      BY <3>2, <3>3
  <2>. QED
    BY <2>1
<1>. QED
  BY <1>1, <1>2, <1>5, <1>6

\* A batch that failed goes back to the front of the buffer.
LEMMA BatchRequeueKeepsItems ==
  ASSUME BatchItemInv, NEW g \in B!Goroutines, batchBuf' = B!Restored(g),
         batchTaken' = [batchTaken EXCEPT ![g] = <<>>],
         batchDelivered' = batchDelivered, B!Accepted' = B!Accepted
  PROVE  /\ BatchPlaceInv' /\ BatchDeliveredInv'
         /\ batchBuf' \in Seq(Callers) /\ batchTaken' \in [B!Goroutines -> Seq(Callers)]
<1>1. /\ batchTaken' \in [B!Goroutines -> Seq(Callers)] /\ batchTaken[g] \in Seq(Callers) /\
         batchBuf \in Seq(Callers)
      /\ \A h \in B!Goroutines : batchTaken'[h] = IF h = g THEN <<>> ELSE batchTaken[h]
  BY EmptyDistinct DEF BatchItemInv, B!TypeOK
<1>2. Distinct(batchTaken[g]) /\ Distinct(batchBuf) /\ Disjoint(batchTaken[g], batchBuf)
  BY DEF BatchItemInv, BatchPlaceInv, Disjoint
<1>3. /\ batchBuf' \in Seq(Callers) /\ Distinct(batchBuf')
      /\ \A b : In(b, batchBuf') <=> In(b, batchTaken[g]) \/ In(b, batchBuf)
  BY <1>1, <1>2, JoinedDistinct DEF B!Restored
<1>4. BatchPlaceInv'
  <2>1. \A h \in B!Goroutines : Distinct(batchTaken'[h])
    BY <1>1, EmptyDistinct DEF BatchItemInv, BatchPlaceInv
  <2>2. ASSUME NEW h \in B!Goroutines PROVE Disjoint(batchBuf', batchTaken'[h])
    <3>1. CASE h = g
      BY <1>1, <3>1, EmptyDistinct DEF Disjoint
    <3>2. CASE h # g
      <4>1. Disjoint(batchBuf, batchTaken[h]) /\ Disjoint(batchTaken[g], batchTaken[h])
        BY <3>2 DEF BatchItemInv, BatchPlaceInv
      <4>2. \A b : ~(In(b, batchTaken[h]) /\ (In(b, batchBuf) \/ In(b, batchTaken[g])))
        BY <4>1 DEF Disjoint, In
      <4>3. \A b : In(b, batchBuf') => ~In(b, batchTaken[h])
        BY <1>3, <4>2
      <4>. QED
        BY <1>1, <3>2, <4>3 DEF Disjoint, In
    <3>. QED
      BY <3>1, <3>2
  <2>3. \A h, k \in B!Goroutines : h # k => Disjoint(batchTaken'[h], batchTaken'[k])
    BY <1>1, EmptyDistinct DEF BatchItemInv, BatchPlaceInv, Disjoint
  <2>. QED
    BY <1>3, <2>1, <2>2, <2>3 DEF BatchPlaceInv
<1>5. \A a : InBatch(a)' <=> InBatch(a)
  BY <1>1, <1>3, EmptyDistinct DEF InBatch
<1>6. BatchDeliveredInv'
  BY <1>5 DEF BatchItemInv, BatchDeliveredInv
<1>. QED
  BY <1>1, <1>3, <1>4, <1>6

LEMMA BatchItemInit == ASSUME BatchConfigured, B!Init PROVE BatchItemInv
<1>1. B!TypeOK
  BY EmptyDistinct DEF B!Init, B!TypeOK, B!Labels, B!Goroutines
<1>2. BatchHandInv /\ BatchPlaceInv
  BY EmptyDistinct DEF B!Init, BatchHandInv, BatchPlaceInv, Disjoint
<1>3. BatchDeliveredInv
  BY EmptyDistinct DEF B!Init, BatchDeliveredInv, InBatch, B!Accepted, B!Goroutines
<1>. QED
  BY <1>1, <1>2, <1>3 DEF BatchItemInv

\* Who finishes is not an adder that was not accepted.
LEMMA BatchFinished ==
  ASSUME BatchConfigured, B!TypeOK, NEW g \in B!Goroutines, batchPc[g] \notin {"idle", "rejected"},
         B!Finish(g)
  PROVE  /\ \E b \in {"idle", "done"} : B!Goto(g, b) /\ (b = "idle" => g = Ticker)
         /\ batchOnce' \in {"new", "running", "done"}
         /\ batchPc' \in [B!Goroutines -> B!Labels] /\
            \A h \in B!Goroutines : h # g => batchPc'[h] = batchPc[h]
         /\ B!Accepted' = B!Accepted
<1>1. PICK b \in {"idle", "done"} : B!Goto(g, b) /\ (b = "idle" => g = Ticker)
  BY DEF B!Finish
<1>2. b \in B!Labels
  BY DEF B!Labels
<1>3. g \in Callers => b = "done"
  BY <1>1 DEF BatchConfigured
<1>4. g \notin Callers \/ (batchPc[g] \in {"idle", "rejected"} <=> b \in {"idle", "rejected"})
  BY <1>1, <1>3
<1>5. batchOnce' \in {"new", "running", "done"}
  BY DEF B!Finish, B!TypeOK
<1>. QED
  BY <1>1, <1>2, <1>4, <1>5, BatchMoved

\* A step of one goroutine that moves no item.
LEMMA BatchQuietStep ==
  ASSUME BatchConfigured, BatchItemInv, NEW g \in B!Goroutines, NEW b \in B!Labels, B!Goto(g, b),
         UNCHANGED <<batchBuf, batchTaken, batchDelivered>>,
         batchClosed' \in BOOLEAN, batchDone' \in BOOLEAN,
         batchOnce' \in {"new", "running", "done"},
         batchLate' \subseteq Callers,
         g \notin Callers \/ (batchPc[g] \in {"idle", "rejected"} <=> b \in {"idle", "rejected"}),
         batchTaken[g] = <<>> \/ b \in {"signal", "call", "requeue"}
  PROVE  BatchItemInv'
<1>1. /\ batchPc' \in [B!Goroutines -> B!Labels] /\
         \A h \in B!Goroutines : batchPc'[h] = IF h = g THEN b ELSE batchPc[h]
      /\ B!Accepted' = B!Accepted
  BY BatchMoved DEF BatchItemInv
<1>2. B!TypeOK' /\ BatchHandInv'
  BY <1>1 DEF BatchItemInv, B!TypeOK, BatchHandInv
<1>. QED
  BY <1>1, <1>2, BatchNoItemMoves DEF BatchItemInv

LEMMA BatchItemStep == ASSUME BatchConfigured, BatchItemInv, B!Next PROVE BatchItemInv'
<1>. USE DEF B!At
<1>0. B!TypeOK /\ BatchHandInv /\ BatchPlaceInv /\ BatchDeliveredInv
  BY DEF BatchItemInv
<1>1. ASSUME NEW g \in Callers, B!Add(g) PROVE BatchItemInv'
  <2>0. g \in B!Goroutines /\ g \notin B!Accepted /\ g # Ticker /\ g \notin Others
    BY <1>1 DEF B!Add, B!Accepted, B!Goroutines, BatchConfigured
  <2>1. CASE batchClosed
    <3>1. B!Goto(g, "rejected") /\
          UNCHANGED <<batchBuf, batchTaken, batchDelivered, batchClosed, batchDone, batchOnce,
          batchLate>>
      BY <1>1, <2>1 DEF B!Add
    <3>2. /\ batchPc' \in [B!Goroutines -> B!Labels]
          /\ \A h \in B!Goroutines : batchPc'[h] = IF h = g THEN "rejected" ELSE batchPc[h]
          /\ B!Accepted' = B!Accepted
      BY <1>0, <1>1, <2>0, <3>1, BatchMoved DEF B!Labels, B!Add
    <3>3. B!TypeOK' /\ BatchHandInv'
      BY <1>0, <1>1, <3>1, <3>2 DEF B!Add, B!TypeOK, BatchHandInv
    <3>. QED
      BY <3>1, <3>2, <3>3, BatchNoItemMoves DEF BatchItemInv
  <2>2. CASE ~batchClosed
    <3>1. PICK b \in {"flush", "done"} : B!Goto(g, b)
      BY <1>1, <2>2 DEF B!Add
    <3>2. batchBuf' = Append(batchBuf, g) /\
          UNCHANGED <<batchTaken, batchDelivered, batchClosed, batchDone, batchOnce, batchLate>>
      BY <1>1, <2>2 DEF B!Add
    <3>3. /\ batchPc' \in [B!Goroutines -> B!Labels]
          /\ \A h \in B!Goroutines : batchPc'[h] = IF h = g THEN b ELSE batchPc[h]
      BY <1>0, <2>0, <3>1, BatchMoved DEF B!Labels
    <3>4. B!Accepted' = B!Accepted \cup {g}
      BY <2>0, <3>1, <3>3 DEF B!Accepted, B!Goroutines
    <3>5. ~In(g, batchBuf) /\ (\A h \in B!Goroutines : ~In(g, batchTaken[h])) /\
          batchDelivered[g] = 0
      BY <2>0, BatchFreshItem
    <3>6. /\ batchBuf' \in Seq(Callers) /\ Distinct(batchBuf')
          /\ \A a : In(a, batchBuf') <=> a = g \/ In(a, batchBuf)
      BY <1>0, <3>2, <3>5, AppendedDistinct DEF B!TypeOK, BatchPlaceInv
    <3>7. B!TypeOK' /\ BatchHandInv'
      BY <1>0, <1>1, <3>2, <3>3, <3>6 DEF B!Add, B!TypeOK, BatchHandInv
    <3>8. BatchPlaceInv'
      <4>1. ASSUME NEW h \in B!Goroutines PROVE Disjoint(batchBuf', batchTaken[h])
        <5>1. \A a : ~(In(a, batchBuf) /\ In(a, batchTaken[h]))
          BY <1>0 DEF BatchPlaceInv, Disjoint, In
        <5>2. \A a : In(a, batchBuf') => ~In(a, batchTaken[h])
          BY <3>5, <3>6, <5>1
        <5>. QED
          BY <5>2 DEF Disjoint, In
      <4>. QED
        BY <1>0, <3>2, <3>6, <4>1 DEF BatchPlaceInv
    <3>9. BatchDeliveredInv'
      <4>1. \A a : InBatch(a)' <=> a = g \/ InBatch(a)
        BY <3>2, <3>6 DEF InBatch
      <4>2. ~InBatch(g)
        BY <3>5 DEF InBatch
      <4>. QED
        BY <1>0, <2>0, <3>2, <3>4, <4>1, <4>2 DEF BatchDeliveredInv
    <3>. QED
      BY <3>7, <3>8, <3>9 DEF BatchItemInv
  <2>. QED
    BY <2>1, <2>2
<1>2. ASSUME NEW g \in B!Goroutines, NEW b \in B!Labels, batchPc[g] = "idle", g \notin Callers,
             b # "rejected", B!Goto(g, b),
             UNCHANGED <<batchBuf, batchClosed, batchDone, batchOnce, batchTaken, batchDelivered,
             batchLate>>
      PROVE  BatchItemInv'
  <2>1. batchTaken[g] = <<>>
    BY <1>0, <1>2 DEF BatchHandInv
  <2>. QED
    BY <1>0, <1>2, <2>1, BatchQuietStep DEF B!TypeOK
<1>3. ASSUME NEW g \in {Flusher} \cup {Ticker}, B!Begin(g) PROVE BatchItemInv'
  BY <1>2, <1>3 DEF B!Begin, B!Goroutines, BatchConfigured, B!Labels
<1>4. ASSUME B!StopTicker PROVE BatchItemInv'
  BY <1>2, <1>4 DEF B!StopTicker, B!Goroutines, BatchConfigured, B!Labels
<1>5. ASSUME NEW g \in Others, B!CloseAgain(g) PROVE BatchItemInv'
  BY <1>2, <1>5 DEF B!CloseAgain, B!Goroutines, BatchConfigured, B!Labels
<1>6. ASSUME NEW g \in B!Goroutines, NEW b \in B!Labels, batchPc[g] \notin {"idle", "rejected"},
             b \notin {"idle", "rejected"}, B!Goto(g, b), batchOnce' = batchOnce,
             UNCHANGED <<batchBuf, batchClosed, batchTaken, batchDelivered, batchLate>>,
             batchDone' \in BOOLEAN,
             batchTaken[g] = <<>> \/ b \in {"signal", "call", "requeue"}
      PROVE  BatchItemInv'
  BY <1>0, <1>6, BatchQuietStep DEF B!TypeOK
<1>7. ASSUME NEW g \in B!Goroutines, batchPc[g] \notin {"idle", "rejected"}, B!Finish(g),
             batchTaken[g] = <<>>,
             UNCHANGED <<batchBuf, batchClosed, batchTaken, batchDelivered, batchLate>>,
             batchDone' \in BOOLEAN
      PROVE  BatchItemInv'
  <2>1. /\ \E b \in {"idle", "done"} : B!Goto(g, b) /\ (b = "idle" => g = Ticker)
        /\ batchOnce' \in {"new", "running", "done"}
    BY <1>0, <1>7, BatchFinished
  <2>2. PICK b \in {"idle", "done"} : B!Goto(g, b) /\ (b = "idle" => g = Ticker)
    BY <2>1
  <2>3. b \in B!Labels /\ (g \notin Callers \/ b # "idle")
    BY <2>2 DEF B!Labels, BatchConfigured
  <2>. QED
    BY <1>0, <1>7, <2>1, <2>2, <2>3, BatchQuietStep DEF B!TypeOK
<1>8. ASSUME NEW g \in B!Goroutines, B!Flush(g) PROVE BatchItemInv'
  <2>1. batchTaken[g] = <<>> /\ batchDone \in BOOLEAN
    BY <1>0, <1>8 DEF B!Flush, BatchHandInv, B!TypeOK
  <2>. QED
    BY <1>6, <1>7, <1>8, <2>1 DEF B!Flush, B!Labels
<1>9. ASSUME NEW g \in B!Goroutines, B!Fail(g) PROVE BatchItemInv'
  <2>1. batchDone \in BOOLEAN
    BY <1>0 DEF B!TypeOK
  <2>. QED
    BY <1>6, <1>9, <2>1 DEF B!Fail, B!Labels
<1>10. ASSUME NEW g \in Others, B!CloseSignal(g) PROVE BatchItemInv'
  <2>1. g \in B!Goroutines
    BY DEF B!Goroutines
  <2>. QED
    BY <1>6, <1>7, <1>10, <2>1 DEF B!CloseSignal, B!Labels
<1>11. ASSUME NEW g \in B!Goroutines, B!TakeBuffer(g) PROVE BatchItemInv'
  <2>1. /\ batchPc[g] = "take" /\ B!Takes(g) /\
           UNCHANGED <<batchClosed, batchDone, batchDelivered, batchLate>>
        /\ batchBuf # <<>> => B!Goto(g, "call") /\ batchOnce' = batchOnce
        /\ batchBuf = <<>> => B!Finish(g)
    BY <1>11 DEF B!TakeBuffer
  <2>2. batchTaken[g] = <<>>
    BY <1>0, <2>1 DEF BatchHandInv
  <2>3. /\ batchPc' \in [B!Goroutines -> B!Labels] /\
           \A h \in B!Goroutines : h # g => batchPc'[h] = batchPc[h]
        /\ batchBuf # <<>> => batchPc'[g] = "call"
        /\ batchOnce' \in {"new", "running", "done"} /\ B!Accepted' = B!Accepted
    <3>1. CASE batchBuf = <<>>
      BY <1>0, <2>1, <3>1, BatchFinished
    <3>2. CASE batchBuf # <<>>
      BY <1>0, <2>1, <3>2, BatchMoved DEF B!Labels, B!TypeOK
    <3>. QED
      BY <3>1, <3>2
  <2>4. /\ BatchPlaceInv' /\ BatchDeliveredInv'
        /\ batchBuf' \in Seq(Callers) /\ batchTaken' \in [B!Goroutines -> Seq(Callers)]
    BY <2>1, <2>2, <2>3, BatchTakesKeepsItems
  <2>5. B!TypeOK'
    BY <1>0, <2>1, <2>3, <2>4 DEF B!TypeOK
  <2>6. BatchHandInv'
    BY <1>0, <2>1, <2>3 DEF BatchHandInv, B!Takes, B!TypeOK
  <2>. QED
    BY <2>4, <2>5, <2>6 DEF BatchItemInv
<1>12. ASSUME NEW g \in Others, B!Close(g) PROVE BatchItemInv'
  <2>0. g \in B!Goroutines /\ g \notin Callers
    BY DEF B!Goroutines, BatchConfigured
  <2>1. batchPc[g] = "idle" /\ B!Takes(g) /\ B!Goto(g, "signal") /\ batchOnce' = "running" /\
        batchClosed' = TRUE
        /\ UNCHANGED <<batchDone, batchDelivered, batchLate>>
    BY <1>12 DEF B!Close
  <2>2. batchTaken[g] = <<>>
    BY <1>0, <2>0, <2>1 DEF BatchHandInv
  <2>3. /\ batchPc' \in [B!Goroutines -> B!Labels]
        /\ \A h \in B!Goroutines : batchPc'[h] = IF h = g THEN "signal" ELSE batchPc[h]
        /\ B!Accepted' = B!Accepted
    BY <1>0, <2>0, <2>1, BatchMoved DEF B!Labels
  <2>4. /\ BatchPlaceInv' /\ BatchDeliveredInv'
        /\ batchBuf' \in Seq(Callers) /\ batchTaken' \in [B!Goroutines -> Seq(Callers)]
    BY <2>0, <2>1, <2>2, <2>3, BatchTakesKeepsItems
  <2>5. B!TypeOK'
    BY <1>0, <2>1, <2>3, <2>4 DEF B!TypeOK
  <2>6. BatchHandInv'
    BY <1>0, <2>0, <2>1, <2>3 DEF BatchHandInv, B!Takes, B!TypeOK
  <2>. QED
    BY <2>4, <2>5, <2>6 DEF BatchItemInv
<1>13. ASSUME NEW g \in B!Goroutines, B!Deliver(g) PROVE BatchItemInv'
  <2>1. /\ batchPc[g] = "call" /\ batchTaken' = [batchTaken EXCEPT ![g] = <<>>] /\ B!Finish(g)
        /\ batchDelivered' = [a \in Callers |->
                                 batchDelivered[a]
                                 + Cardinality({i \in DOMAIN batchTaken[g] :
                                                  batchTaken[g][i] = a})]
        /\ UNCHANGED <<batchBuf, batchClosed, batchDone, batchLate>>
    BY <1>13, BatchCounts DEF B!Deliver
  <2>2. /\ batchPc' \in [B!Goroutines -> B!Labels] /\
           \A h \in B!Goroutines : h # g => batchPc'[h] = batchPc[h]
        /\ batchOnce' \in {"new", "running", "done"} /\ B!Accepted' = B!Accepted
    BY <1>0, <2>1, BatchFinished
  <2>3. /\ BatchPlaceInv' /\ BatchDeliveredInv'
        /\ batchTaken' \in [B!Goroutines -> Seq(Callers)] /\ batchDelivered' \in [Callers -> Nat]
    BY <2>1, <2>2, BatchDeliverKeepsItems
  <2>4. B!TypeOK' /\ BatchHandInv'
    BY <1>0, <2>1, <2>2, <2>3 DEF B!TypeOK, BatchHandInv
  <2>. QED
    BY <2>3, <2>4 DEF BatchItemInv
<1>14. ASSUME NEW g \in B!Goroutines, B!Requeue(g) PROVE BatchItemInv'
  <2>1. /\ batchPc[g] = "requeue" /\ batchBuf' = B!Restored(g)
        /\ batchTaken' = [batchTaken EXCEPT ![g] = <<>>] /\ B!Finish(g)
        /\ batchLate' = (IF batchClosed THEN batchLate \cup B!Range(batchTaken[g]) ELSE batchLate)
        /\ UNCHANGED <<batchClosed, batchDone, batchDelivered>>
    BY <1>14 DEF B!Requeue
  <2>2. /\ batchPc' \in [B!Goroutines -> B!Labels] /\
           \A h \in B!Goroutines : h # g => batchPc'[h] = batchPc[h]
        /\ batchOnce' \in {"new", "running", "done"} /\ B!Accepted' = B!Accepted
    BY <1>0, <2>1, BatchFinished
  <2>3. /\ BatchPlaceInv' /\ BatchDeliveredInv'
        /\ batchBuf' \in Seq(Callers) /\ batchTaken' \in [B!Goroutines -> Seq(Callers)]
    BY <2>1, <2>2, BatchRequeueKeepsItems
  <2>4. batchLate' \subseteq Callers
    <3>1. batchTaken[g] \in Seq(Callers) /\ batchLate \subseteq Callers
      BY <1>0 DEF B!TypeOK
    <3>2. \A i \in DOMAIN batchTaken[g] : batchTaken[g][i] \in Callers
      BY <3>1
    <3>. QED
      BY <2>1, <3>1, <3>2 DEF B!Range
  <2>5. B!TypeOK'
    BY <1>0, <2>1, <2>2, <2>3, <2>4 DEF B!TypeOK
  <2>6. BatchHandInv'
    BY <1>0, <2>1, <2>2 DEF B!TypeOK, BatchHandInv
  <2>. QED
    BY <2>3, <2>5, <2>6 DEF BatchItemInv
<1>15. CASE B!Rest
  <2>1. UNCHANGED <<batchBuf, batchClosed, batchDone, batchOnce, batchPc, batchTaken,
        batchDelivered, batchLate>>
    BY <1>15 DEF B!Rest, B!vars
  <2>2. B!Accepted' = B!Accepted
    BY <2>1 DEF B!Accepted
  <2>3. B!TypeOK' /\ BatchHandInv'
    BY <1>0, <2>1 DEF B!TypeOK, BatchHandInv
  <2>. QED
    BY <2>1, <2>2, <2>3, BatchNoItemMoves DEF BatchItemInv
<1>. QED
  BY <1>1, <1>3, <1>4, <1>5, <1>8, <1>9, <1>10, <1>11, <1>12, <1>13, <1>14, <1>15 DEF B!Next

-----------------------------------------------------------------------------
(* CloserInv and LateInv are inductive, given the types. *)

\* A step of one goroutine that, if it belongs to Close, is one of Close's own.
LEMMA BatchCloserMoves ==
  ASSUME B!TypeOK, BatchCloserInv, NEW g \in B!Goroutines, NEW b, B!Goto(g, b),
         batchClosed => batchClosed',
         g \in Others => /\ b \in {"signal", "call", "requeue", "done"}
                         /\ b # "done" => batchClosed',
         batchOnce' = "done" => batchOnce = "done" \/ batchClosed'
  PROVE  BatchCloserInv'
<1>1. \A c \in Others : c \in B!Goroutines
  BY DEF B!Goroutines
<1>2. \A c \in Others : batchPc'[c] = IF c = g THEN b ELSE batchPc[c]
  BY <1>1 DEF B!TypeOK, B!Goto
<1>. QED
  BY <1>2 DEF BatchCloserInv

LEMMA BatchCloserStep == ASSUME BatchConfigured, B!TypeOK, BatchCloserInv, B!Next
  PROVE BatchCloserInv'
<1>. USE DEF B!At
<1>0. \A c \in Others : batchPc[c] \in {"flush", "take", "signal", "call", "requeue"} =>
        batchClosed /\ batchPc[c] # "flush"
  BY DEF BatchCloserInv
<1>1. ASSUME NEW g \in B!Goroutines, B!Finish(g),
             batchPc[g] \in {"flush", "take", "signal", "call", "requeue"},
             batchClosed' = batchClosed
      PROVE  BatchCloserInv'
  <2>1. PICK b \in {"idle", "done"} : B!Goto(g, b) /\ (b = "idle" => g = Ticker)
    BY <1>1 DEF B!Finish
  <2>2. g \in Others => b = "done"
    BY <2>1 DEF BatchConfigured
  <2>3. g \in Others => batchClosed
    BY <1>0, <1>1
  <2>. QED
    BY <1>1, <2>1, <2>2, <2>3, BatchCloserMoves DEF B!Finish
<1>2. ASSUME NEW g \in B!Goroutines, NEW b \in {"call", "requeue", "take"}, B!Goto(g, b),
             batchPc[g] \in {"flush", "take", "signal", "call"}, batchClosed' = batchClosed,
             batchOnce' = batchOnce,
             b = "take" => batchPc[g] = "flush"
      PROVE  BatchCloserInv'
  <2>1. g \in Others => batchClosed /\ batchPc[g] # "flush"
    BY <1>0, <1>2
  <2>2. b = "take" => batchPc[g] = "flush"
    BY <1>2
  <2>. QED
    BY <1>2, <2>1, <2>2, BatchCloserMoves
<1>3. ASSUME NEW g \in B!Goroutines,
             B!Flush(g) \/ B!TakeBuffer(g) \/ B!Deliver(g) \/ B!Fail(g) \/ B!Requeue(g)
              \/ B!CloseSignal(g)
      PROVE  BatchCloserInv'
  BY <1>1, <1>2, <1>3 DEF B!Flush, B!TakeBuffer, B!Deliver, B!Fail, B!Requeue, B!CloseSignal
<1>4. ASSUME NEW g \in B!Goroutines, NEW b, B!Goto(g, b), g \notin Others,
             UNCHANGED <<batchClosed, batchOnce>>
      PROVE  BatchCloserInv'
  BY <1>4, BatchCloserMoves
<1>5. ASSUME NEW g \in Callers, B!Add(g) PROVE BatchCloserInv'
  <2>1. \E b : B!Goto(g, b) /\ UNCHANGED <<batchClosed, batchOnce>>
    BY <1>5 DEF B!Add
  <2>. QED
    BY <1>4, <2>1 DEF B!Goroutines, BatchConfigured
<1>6. ASSUME NEW g \in {Flusher} \cup {Ticker}, B!Begin(g) PROVE BatchCloserInv'
  BY <1>4, <1>6 DEF B!Begin, B!Goroutines, BatchConfigured
<1>7. ASSUME B!StopTicker PROVE BatchCloserInv'
  BY <1>4, <1>7 DEF B!StopTicker, B!Goroutines, BatchConfigured
<1>8. ASSUME NEW g \in Others, B!Close(g) \/ B!CloseAgain(g) PROVE BatchCloserInv'
  <2>1. g \in B!Goroutines
    BY DEF B!Goroutines
  <2>. QED
    BY <1>8, <2>1, BatchCloserMoves DEF B!Close, B!CloseAgain
<1>9. CASE B!Rest
  BY <1>9 DEF B!Rest, B!vars, BatchCloserInv
<1>. QED
  BY <1>3, <1>5, <1>6, <1>7, <1>8, <1>9 DEF B!Next, B!Goroutines

LEMMA BatchLateStep == ASSUME BatchConfigured, BatchItemInv, BatchLateInv, B!Next
  PROVE BatchLateInv'
<1>. USE DEF B!At
<1>0. B!TypeOK
  BY DEF BatchItemInv
<1>1. CASE UNCHANGED <<batchBuf, batchClosed, batchLate>>
  BY <1>1 DEF BatchLateInv
<1>2. CASE batchBuf' = <<>>
  BY <1>2 DEF BatchLateInv
<1>3. ASSUME NEW g \in Callers, B!Add(g) PROVE BatchLateInv'
  BY <1>1, <1>3 DEF B!Add, BatchLateInv
<1>4. ASSUME NEW g \in B!Goroutines, B!Requeue(g) PROVE BatchLateInv'
  <2>1. /\ batchBuf' = B!Restored(g) /\ batchClosed' = batchClosed
        /\ batchLate' = (IF batchClosed THEN batchLate \cup B!Range(batchTaken[g]) ELSE batchLate)
    BY <1>4 DEF B!Requeue
  <2>2. batchTaken[g] \in Seq(Callers) /\ batchBuf \in Seq(Callers)
    BY <1>0 DEF B!TypeOK
  <2>3. Distinct(batchTaken[g]) /\ Distinct(batchBuf) /\ Disjoint(batchTaken[g], batchBuf)
    BY DEF BatchItemInv, BatchPlaceInv, Disjoint
  <2>4. \A a : In(a, batchBuf') => In(a, batchTaken[g]) \/ In(a, batchBuf)
    BY <2>1, <2>2, <2>3, JoinedDistinct DEF B!Restored
  <2>5. ASSUME batchClosed, NEW a, In(a, batchBuf') PROVE a \in batchLate'
    <3>1. CASE In(a, batchTaken[g])
      BY <2>1, <2>5, <3>1 DEF In, B!Range
    <3>2. CASE In(a, batchBuf)
      BY <2>1, <2>5, <3>2 DEF In, BatchLateInv
    <3>. QED
      BY <2>4, <2>5, <3>1, <3>2
  <2>. QED
    BY <2>1, <2>5 DEF BatchLateInv, In
<1>5. ASSUME NEW g \in B!Goroutines, B!Flush(g) \/ B!TakeBuffer(g) \/ B!Deliver(g) \/ B!Fail(g)
      PROVE BatchLateInv'
  BY <1>1, <1>2, <1>5 DEF B!Flush, B!TakeBuffer, B!Takes, B!Deliver, B!Fail
<1>6. ASSUME NEW g \in Others, B!Close(g) \/ B!CloseAgain(g) \/ B!CloseSignal(g) PROVE BatchLateInv'
  BY <1>1, <1>2, <1>6 DEF B!Close, B!Takes, B!CloseAgain, B!CloseSignal
<1>7. ASSUME NEW g \in {Flusher} \cup {Ticker}, B!Begin(g) PROVE BatchLateInv'
  BY <1>1, <1>7 DEF B!Begin
<1>8. CASE B!StopTicker \/ B!Rest
  BY <1>1, <1>8 DEF B!StopTicker, B!Rest, B!vars
<1>. QED
  BY <1>3, <1>4, <1>5, <1>6, <1>7, <1>8 DEF B!Next

LEMMA BatchInvariant == ASSUME BatchConfigured PROVE Spec => [](package = "batch" => BatchInv)
<1>1. B!Init => BatchInv
  <2>. SUFFICES ASSUME B!Init PROVE BatchInv
    OBVIOUS
  <2>1. BatchCloserInv
    BY DEF B!Init, BatchCloserInv, B!Goroutines
  <2>2. BatchLateInv
    BY DEF B!Init, BatchLateInv
  <2>. QED
    BY <2>1, <2>2, BatchItemInit DEF BatchInv
<1>2. BatchInv /\ [B!Next]_(B!vars) => BatchInv'
  <2>. SUFFICES ASSUME BatchInv, [B!Next]_(B!vars) PROVE BatchInv'
    OBVIOUS
  <2>1. CASE B!Next
    BY <2>1, BatchItemStep, BatchCloserStep, BatchLateStep DEF BatchInv, BatchItemInv
  <2>2. CASE UNCHANGED B!vars
    <3>1. B!Rest \/ UNCHANGED <<batchBuf, batchClosed, batchDone, batchOnce, batchPc, batchTaken,
          batchDelivered, batchLate>>
      BY <2>2 DEF B!vars
    <3>2. B!Accepted' = B!Accepted
      BY <2>2 DEF B!vars, B!Accepted
    <3>3. BatchItemInv'
      <4>1. B!TypeOK' /\ BatchHandInv'
        BY <2>2 DEF B!vars, BatchInv, BatchItemInv, B!TypeOK, BatchHandInv
      <4>. QED
        BY <2>2, <3>2, <4>1, BatchNoItemMoves DEF B!vars, BatchInv, BatchItemInv
    <3>4. BatchCloserInv' /\ BatchLateInv'
      BY <2>2 DEF B!vars, BatchInv, BatchCloserInv, BatchLateInv
    <3>. QED
      BY <3>3, <3>4 DEF BatchInv
  <2>. QED
    BY <2>1, <2>2
<1>3. Init => (package = "batch" => BatchInv)
  BY <1>1, StartOfPackage
<1>4. (package = "batch" => BatchInv) /\ [Next]_vars => (package = "batch" => BatchInv)'
  BY <1>2, StepOfPackage
<1>. QED
  BY <1>3, <1>4, PTL DEF Spec

-----------------------------------------------------------------------------
(* The theorems. *)

\* An item that is in one place at most is counted once.
LEMMA BatchHasOneCopy == ASSUME BatchInv PROVE B!OneCopy
<1>. SUFFICES ASSUME NEW a \in Callers PROVE B!Copies(a) = IF a \in B!Accepted THEN 1 ELSE 0
  BY DEF B!OneCopy
<1>. DEFINE Hands == {g \in B!Goroutines : B!Times(a, batchTaken[g]) = 1}
<1>1. B!Times(a, batchBuf) = IF In(a, batchBuf) THEN 1 ELSE 0
  BY CountedOnce DEF BatchInv, BatchItemInv, B!TypeOK, BatchPlaceInv
<1>2. \A g \in B!Goroutines : B!Times(a, batchTaken[g]) = IF In(a, batchTaken[g]) THEN 1 ELSE 0
  BY CountedOnce DEF BatchInv, BatchItemInv, B!TypeOK, BatchPlaceInv
<1>3. Hands = {g \in B!Goroutines : In(a, batchTaken[g])}
  BY <1>2
<1>4. /\ \A g \in B!Goroutines : In(a, batchTaken[g]) => ~In(a, batchBuf)
      /\ \A g, h \in B!Goroutines : In(a, batchTaken[g]) /\ In(a, batchTaken[h]) => g = h
  BY DEF BatchInv, BatchItemInv, BatchPlaceInv, Disjoint, In
<1>5. /\ In(a, batchBuf) \/ Hands # {} => a \in B!Accepted /\ batchDelivered[a] = 0
      /\ ~In(a, batchBuf) /\ Hands = {} => batchDelivered[a] = IF a \in B!Accepted THEN 1 ELSE 0
  BY <1>3 DEF BatchInv, BatchItemInv, BatchDeliveredInv, InBatch
<1>6. CASE Hands = {}
  <2>1. B!Cardinality(Hands) = 0
    BY <1>6, FS_EmptySet, BatchCounts
  <2>2. CASE In(a, batchBuf)
    BY <1>1, <1>5, <2>1, <2>2 DEF B!Copies
  <2>3. CASE ~In(a, batchBuf)
    BY <1>1, <1>5, <1>6, <2>1, <2>3 DEF B!Copies
  <2>. QED
    BY <2>2, <2>3
<1>7. CASE Hands # {}
  <2>1. PICK g \in B!Goroutines : Hands = {g} /\ In(a, batchTaken[g])
    BY <1>3, <1>4, <1>7
  <2>2. B!Cardinality(Hands) = 1 /\ ~In(a, batchBuf)
    BY <1>4, <2>1, FS_Singleton, BatchCounts
  <2>. QED
    BY <1>1, <1>5, <1>7, <2>2 DEF B!Copies
<1>. QED
  BY <1>6, <1>7

\* poolx.Batch: an item that Add has taken is in exactly one place, in the buffer, in the
\* hands of one flush, or delivered once, however many flushes overlap, fail and put
\* their batches back, and whenever Close comes; and what is in the buffer after Close
\* was put back there by a flush that failed while Close was under way or later
\* (Add, takeBuffer, requeue, Close).
THEOREM BatchAlwaysKeepsItems == ASSUME BatchConfigured PROVE Spec => []BatchKeepsItems
<1>1. BatchInv => B!TypeOK
  BY DEF BatchInv, BatchItemInv
<1>2. BatchInv => B!OnlyFailuresAreLeft
  BY DEF BatchInv, BatchCloserInv, BatchLateInv, B!OnlyFailuresAreLeft, B!Range
<1>3. (package = "batch" => BatchInv) => BatchKeepsItems
  BY <1>1, <1>2, BatchHasOneCopy DEF BatchKeepsItems
<1>. QED
  BY <1>3, BatchInvariant, PTL

HIDE DEF batchBuf, batchClosed, batchDone, batchOnce, batchPc, batchTaken, batchDelivered,
         batchLate

-----------------------------------------------------------------------------
(* syncx.Lazy: between two Resets all Gets return one value, and none that *)
(* is older than the Resets before them.                                   *)

lazyMu     == x1
lazyDone   == x2
lazyVal    == x3
lazyPc     == x4
lazyGot    == x5
lazyResets == x6
lazyAsked  == x7
lazyBegan  == x8
USE DEF lazyMu, lazyDone, lazyVal, lazyPc, lazyGot, lazyResets, lazyAsked, lazyBegan

LazyConfigured == Nothing \notin Callers /\ LazyResets \in Nat

\* Whoever is in the init function has the mutex, so that no Reset and no other init
\* comes between its beginning and its end.
LazyMutexInv ==
  \A c \in Callers : lazyPc[c] = "init" <=> lazyMu = c
LazyInitInv ==
  \A c \in Callers : lazyPc[c] = "init" => ~lazyDone /\ lazyBegan[c] = lazyResets

LazyTimesInv == \A c \in Callers : lazyAsked[c] <= lazyResets /\ lazyBegan[c] <= lazyResets

\* The value at hand, and those that were returned, are of callers that made one.
MadeOne(v)   == v \in Callers /\ lazyPc[v] = "value" /\ lazyGot[v] = v
LazyValueInv == lazyDone => MadeOne(lazyVal) /\ lazyBegan[lazyVal] = lazyResets
LazyGotInv ==
  \A c \in Callers : lazyPc[c] = "value" =>
    /\ MadeOne(lazyGot[c])
    /\ lazyBegan[lazyGot[c]] >= lazyAsked[c]
    /\ lazyBegan[lazyGot[c]] = lazyResets => lazyDone /\ lazyVal = lazyGot[c]
LazyOneInv ==
  \A c, d \in Callers : MadeOne(c) /\ MadeOne(d) /\ lazyBegan[c] = lazyBegan[d] => c = d

LazyInv == /\ L!TypeOK /\ LazyMutexInv /\ LazyInitInv /\ LazyTimesInv
           /\ LazyValueInv /\ LazyGotInv /\ LazyOneInv

LEMMA LazyInit == ASSUME LazyConfigured, L!Init PROVE LazyInv
<1>1. L!TypeOK
  <2>1. lazyResets \in 0 .. LazyResets
    BY DEF LazyConfigured, L!Init
  <2>2. lazyAsked \in [Callers -> Nat] /\ lazyBegan \in [Callers -> Nat]
    BY DEF L!Init
  <2>. QED
    BY <2>1, <2>2 DEF L!Init, L!TypeOK
<1>2. LazyMutexInv /\ LazyInitInv /\ LazyTimesInv /\ LazyValueInv /\ LazyGotInv /\ LazyOneInv
  BY DEF LazyConfigured, L!Init, LazyMutexInv, LazyInitInv, LazyTimesInv, LazyValueInv, LazyGotInv,
         LazyOneInv, MadeOne
<1>. QED
  BY <1>1, <1>2 DEF LazyInv

LEMMA LazyNext == ASSUME LazyConfigured, LazyInv, [L!Next]_(L!vars) PROVE LazyInv'
<1>. USE DEF LazyConfigured, L!At, L!Goto
<1>1. ASSUME NEW c \in Callers, L!Get(c) PROVE LazyInv'
  <2>1. /\ lazyPc[c] = "idle" /\ lazyPc' = [lazyPc EXCEPT ![c] = "lock"]
        /\ lazyAsked' = [lazyAsked EXCEPT ![c] = lazyResets]
        /\ UNCHANGED <<lazyMu, lazyDone, lazyVal, lazyGot, lazyResets, lazyBegan>>
    BY <1>1 DEF L!Get
  <2>2. /\ lazyPc' \in [Callers -> {"idle", "lock", "init", "value", "error"}]
        /\ lazyAsked' \in [Callers -> Nat]
        /\ \A d \in Callers : /\ lazyPc'[d] = IF d = c THEN "lock" ELSE lazyPc[d]
                              /\ lazyAsked'[d] = IF d = c THEN lazyResets ELSE lazyAsked[d]
    BY <2>1 DEF LazyInv, L!TypeOK
  <2>3. \A v : MadeOne(v)' <=> MadeOne(v)
    BY <2>1, <2>2 DEF MadeOne
  <2>4. L!TypeOK' /\ LazyMutexInv' /\ LazyInitInv'
    BY <2>1, <2>2 DEF LazyInv, L!TypeOK, LazyMutexInv, LazyInitInv
  <2>5. LazyTimesInv'
    BY <2>1, <2>2 DEF LazyInv, L!TypeOK, LazyTimesInv
  <2>6. LazyValueInv' /\ LazyGotInv' /\ LazyOneInv'
    BY <2>1, <2>2, <2>3 DEF LazyInv, LazyValueInv, LazyGotInv, LazyOneInv
  <2>. QED
    BY <2>4, <2>5, <2>6 DEF LazyInv
<1>2. ASSUME NEW c \in Callers, L!Cached(c) PROVE LazyInv'
  <2>1. /\ lazyPc[c] = "lock" /\ lazyPc' = [lazyPc EXCEPT ![c] = "value"] /\ lazyDone
        /\ lazyGot' = [lazyGot EXCEPT ![c] = lazyVal]
        /\ UNCHANGED <<lazyMu, lazyDone, lazyVal, lazyResets, lazyAsked, lazyBegan>>
    BY <1>2 DEF L!Cached
  <2>0. MadeOne(lazyVal) /\ lazyBegan[lazyVal] = lazyResets /\ lazyVal # c
    BY <2>1 DEF LazyInv, LazyValueInv, MadeOne
  <2>2. /\ lazyPc' \in [Callers -> {"idle", "lock", "init", "value", "error"}]
        /\ lazyGot' \in [Callers -> Callers \cup {Nothing}]
        /\ \A d \in Callers : /\ lazyPc'[d] = IF d = c THEN "value" ELSE lazyPc[d]
                              /\ lazyGot'[d] = IF d = c THEN lazyVal ELSE lazyGot[d]
    BY <2>1, <2>0 DEF LazyInv, L!TypeOK, MadeOne
  <2>3. \A v : MadeOne(v)' <=> MadeOne(v)
    BY <2>0, <2>1, <2>2 DEF MadeOne
  <2>4. L!TypeOK' /\ LazyMutexInv' /\ LazyInitInv' /\ LazyTimesInv'
    BY <2>1, <2>2 DEF LazyInv, L!TypeOK, LazyMutexInv, LazyInitInv, LazyTimesInv
  <2>5. LazyValueInv' /\ LazyOneInv'
    BY <2>1, <2>2, <2>3 DEF LazyInv, LazyValueInv, LazyOneInv
  <2>6. LazyGotInv'
    <3>1. ASSUME NEW d \in Callers, d # c, lazyPc'[d] = "value"
          PROVE  /\ MadeOne(lazyGot[d]) /\ lazyGot'[d] = lazyGot[d]
                 /\ lazyBegan[lazyGot[d]] >= lazyAsked[d]
                 /\ lazyBegan[lazyGot[d]] = lazyResets => lazyVal = lazyGot[d]
      BY <2>2, <3>1 DEF LazyInv, LazyGotInv
    <3>2. lazyBegan[lazyVal] >= lazyAsked[c]
      BY <2>0 DEF LazyInv, LazyTimesInv, L!TypeOK
    <3>. QED
      BY <2>0, <2>1, <2>2, <2>3, <3>1, <3>2 DEF LazyGotInv
  <2>. QED
    BY <2>4, <2>5, <2>6 DEF LazyInv
<1>3. ASSUME NEW c \in Callers, L!BeginInit(c) PROVE LazyInv'
  <2>1. /\ lazyPc[c] = "lock" /\ lazyPc' = [lazyPc EXCEPT ![c] = "init"] /\ ~lazyDone
        /\ lazyMu = Nothing /\ lazyMu' = c
        /\ lazyBegan' = [lazyBegan EXCEPT ![c] = lazyResets]
        /\ UNCHANGED <<lazyDone, lazyVal, lazyGot, lazyResets, lazyAsked>>
    BY <1>3 DEF L!BeginInit, L!Holder
  <2>2. /\ lazyPc' \in [Callers -> {"idle", "lock", "init", "value", "error"}]
        /\ lazyBegan' \in [Callers -> Nat]
        /\ \A d \in Callers : /\ lazyPc'[d] = IF d = c THEN "init" ELSE lazyPc[d]
                              /\ lazyBegan'[d] = IF d = c THEN lazyResets ELSE lazyBegan[d]
    BY <2>1 DEF LazyInv, L!TypeOK
  <2>3. \A v : (MadeOne(v)' <=> MadeOne(v)) /\ (MadeOne(v) => v # c)
    BY <2>1, <2>2 DEF MadeOne
  <2>4. L!TypeOK'
    BY <2>1, <2>2 DEF LazyInv, L!TypeOK
  <2>5. LazyMutexInv' /\ LazyInitInv'
    BY <2>1, <2>2 DEF LazyInv, LazyMutexInv, LazyInitInv
  <2>6. LazyTimesInv'
    BY <2>1, <2>2 DEF LazyInv, LazyTimesInv, L!TypeOK
  <2>7. LazyValueInv' /\ LazyOneInv'
    BY <2>1, <2>2, <2>3 DEF LazyInv, LazyValueInv, LazyOneInv, MadeOne
  <2>8. LazyGotInv'
    <3>1. ASSUME NEW d \in Callers, lazyPc'[d] = "value"
          PROVE  /\ MadeOne(lazyGot[d]) /\ lazyBegan[lazyGot[d]] >= lazyAsked[d]
                 /\ lazyBegan[lazyGot[d]] = lazyResets => lazyDone /\ lazyVal = lazyGot[d]
                 /\ lazyBegan'[lazyGot[d]] = lazyBegan[lazyGot[d]]
      <4>1. /\ MadeOne(lazyGot[d]) /\ lazyBegan[lazyGot[d]] >= lazyAsked[d]
            /\ lazyBegan[lazyGot[d]] = lazyResets => lazyDone /\ lazyVal = lazyGot[d]
        BY <2>2, <3>1 DEF LazyInv, LazyGotInv
      <4>. QED
        BY <2>2, <2>3, <4>1 DEF MadeOne
    <3>. QED
      BY <2>1, <2>3, <3>1 DEF LazyGotInv
  <2>. QED
    BY <2>4, <2>5, <2>6, <2>7, <2>8 DEF LazyInv
<1>4. ASSUME NEW c \in Callers, L!InitSucceeds(c) PROVE LazyInv'
  <2>1. /\ lazyPc[c] = "init" /\ lazyPc' = [lazyPc EXCEPT ![c] = "value"]
        /\ lazyVal' = c /\ lazyDone' = TRUE /\ lazyMu' = Nothing
        /\ lazyGot' = [lazyGot EXCEPT ![c] = c]
        /\ UNCHANGED <<lazyResets, lazyAsked, lazyBegan>>
    BY <1>4 DEF L!InitSucceeds
  <2>0. lazyMu = c /\ ~lazyDone /\ lazyBegan[c] = lazyResets
    BY <2>1 DEF LazyInv, LazyMutexInv, LazyInitInv
  <2>2. /\ lazyPc' \in [Callers -> {"idle", "lock", "init", "value", "error"}]
        /\ lazyGot' \in [Callers -> Callers \cup {Nothing}]
        /\ \A d \in Callers : /\ lazyPc'[d] = IF d = c THEN "value" ELSE lazyPc[d]
                              /\ lazyGot'[d] = IF d = c THEN c ELSE lazyGot[d]
    BY <2>1 DEF LazyInv, L!TypeOK
  <2>3. \A v : (MadeOne(v)' <=> MadeOne(v) \/ v = c) /\ (MadeOne(v) => v # c)
    BY <2>1, <2>2 DEF MadeOne
  <2>4. L!TypeOK'
    BY <2>1, <2>2 DEF LazyInv, L!TypeOK
  <2>5. LazyMutexInv' /\ LazyInitInv'
    BY <2>0, <2>1, <2>2 DEF LazyInv, LazyMutexInv, LazyInitInv
  <2>6. LazyTimesInv'
    BY <2>1 DEF LazyInv, LazyTimesInv
  <2>7. \A v : MadeOne(v) => lazyBegan[v] # lazyResets
    <3>1. ASSUME NEW v, MadeOne(v) PROVE lazyBegan[v] # lazyResets
      BY <2>0, <3>1 DEF LazyInv, LazyGotInv, MadeOne
    <3>. QED
      BY <3>1
  <2>8. LazyValueInv' /\ LazyOneInv'
    BY <2>0, <2>1, <2>3, <2>7 DEF LazyInv, LazyValueInv, LazyOneInv
  <2>9. LazyGotInv'
    <3>1. ASSUME NEW d \in Callers, d # c, lazyPc'[d] = "value"
          PROVE  /\ MadeOne(lazyGot[d]) /\ lazyGot'[d] = lazyGot[d]
                 /\ lazyBegan[lazyGot[d]] >= lazyAsked[d]
                 /\ lazyBegan[lazyGot[d]] # lazyResets
      BY <2>2, <2>7, <3>1 DEF LazyInv, LazyGotInv
    <3>2. lazyBegan[c] >= lazyAsked[c]
      BY <2>0 DEF LazyInv, LazyTimesInv, L!TypeOK
    <3>. QED
      BY <2>0, <2>1, <2>2, <2>3, <3>1, <3>2 DEF LazyGotInv
  <2>. QED
    BY <2>4, <2>5, <2>6, <2>8, <2>9 DEF LazyInv
<1>5. ASSUME NEW c \in Callers, L!InitFails(c) PROVE LazyInv'
  <2>1. /\ lazyPc[c] = "init" /\ lazyPc' = [lazyPc EXCEPT ![c] = "error"] /\ lazyMu' = Nothing
        /\ UNCHANGED <<lazyDone, lazyVal, lazyGot, lazyResets, lazyAsked, lazyBegan>>
    BY <1>5 DEF L!InitFails
  <2>0. lazyMu = c
    BY <2>1 DEF LazyInv, LazyMutexInv
  <2>2. /\ lazyPc' \in [Callers -> {"idle", "lock", "init", "value", "error"}]
        /\ \A d \in Callers : lazyPc'[d] = IF d = c THEN "error" ELSE lazyPc[d]
    BY <2>1 DEF LazyInv, L!TypeOK
  <2>3. \A v : MadeOne(v)' <=> MadeOne(v)
    BY <2>1, <2>2 DEF MadeOne
  <2>4. L!TypeOK' /\ LazyTimesInv'
    BY <2>1, <2>2 DEF LazyInv, L!TypeOK, LazyTimesInv
  <2>5. LazyMutexInv' /\ LazyInitInv'
    BY <2>0, <2>1, <2>2 DEF LazyInv, LazyMutexInv, LazyInitInv
  <2>6. LazyValueInv' /\ LazyGotInv' /\ LazyOneInv'
    BY <2>1, <2>2, <2>3 DEF LazyInv, LazyValueInv, LazyGotInv, LazyOneInv
  <2>. QED
    BY <2>4, <2>5, <2>6 DEF LazyInv
<1>6. ASSUME L!Reset PROVE LazyInv'
  <2>1. /\ lazyMu = Nothing /\ lazyResets < LazyResets /\ lazyVal' = Nothing /\ lazyDone' = FALSE
        /\ lazyResets' = lazyResets + 1
        /\ UNCHANGED <<lazyMu, lazyPc, lazyGot, lazyAsked, lazyBegan>>
    BY <1>6 DEF L!Reset
  <2>2. lazyResets' \in 0 .. LazyResets
    BY <2>1 DEF LazyInv, L!TypeOK
  <2>3. L!TypeOK'
    BY <2>1, <2>2 DEF LazyInv, L!TypeOK
  <2>4. \A c \in Callers : lazyAsked[c] <= lazyResets' /\ lazyBegan[c] < lazyResets'
    BY <2>1 DEF LazyInv, LazyTimesInv, L!TypeOK
  <2>5. LazyTimesInv'
    BY <2>1, <2>4, <2>2 DEF LazyInv, L!TypeOK, LazyTimesInv
  <2>6. LazyMutexInv' /\ LazyInitInv'
    BY <2>1 DEF LazyInv, LazyMutexInv, LazyInitInv
  <2>7. \A v : MadeOne(v)' <=> MadeOne(v)
    BY <2>1 DEF MadeOne
  <2>8. LazyValueInv' /\ LazyOneInv'
    BY <2>1, <2>7 DEF LazyInv, LazyValueInv, LazyOneInv
  <2>9. LazyGotInv'
    <3>1. \A c \in Callers : lazyBegan[c] # lazyResets'
      BY <2>2, <2>4 DEF LazyInv, L!TypeOK
    <3>. QED
      BY <2>1, <2>7, <3>1 DEF LazyInv, LazyGotInv, MadeOne
  <2>. QED
    BY <2>3, <2>5, <2>6, <2>8, <2>9 DEF LazyInv
<1>7. ASSUME L!Rest \/ UNCHANGED L!vars PROVE LazyInv'
  BY <1>7 DEF L!Rest, L!vars, LazyInv, L!TypeOK, LazyMutexInv, LazyInitInv, LazyTimesInv,
              LazyValueInv, LazyGotInv, LazyOneInv, MadeOne
<1>. QED
  BY <1>1, <1>2, <1>3, <1>4, <1>5, <1>6, <1>7 DEF L!Next

LEMMA LazyInvariant == ASSUME LazyConfigured PROVE Spec => [](package = "lazy" => LazyInv)
<1>1. Init => (package = "lazy" => LazyInv)
  BY LazyInit, StartOfPackage
<1>2. (package = "lazy" => LazyInv) /\ [Next]_vars => (package = "lazy" => LazyInv)'
  BY LazyNext, StepOfPackage
<1>. QED
  BY <1>1, <1>2, PTL DEF Spec

LEMMA LazyOneFreshValue == ASSUME LazyConfigured, LazyInv PROVE L!OneFreshValue
<1>. SUFFICES ASSUME NEW c \in Callers, lazyPc[c] = "value"
              PROVE  /\ lazyGot[c] # Nothing /\ lazyBegan[lazyGot[c]] >= lazyAsked[c]
                     /\ \A d \in Callers :
                          lazyPc[d] = "value" /\ lazyBegan[lazyGot[c]] = lazyBegan[lazyGot[d]]
                            => lazyGot[c] = lazyGot[d]
  BY DEF L!OneFreshValue, L!At
<1>1. \A d \in Callers : lazyPc[d] = "value" => MadeOne(lazyGot[d])
  BY DEF LazyInv, LazyGotInv
<1>2. lazyBegan[lazyGot[c]] >= lazyAsked[c]
  BY DEF LazyInv, LazyGotInv
<1>3. \A d, e \in Callers : MadeOne(d) /\ MadeOne(e) /\ lazyBegan[d] = lazyBegan[e] => d = e
  BY DEF LazyInv, LazyOneInv
<1>4. lazyGot[c] # Nothing
  BY <1>1 DEF MadeOne, LazyConfigured
<1>. QED
  BY <1>1, <1>2, <1>3, <1>4 DEF MadeOne

HIDE DEF lazyMu, lazyDone, lazyVal, lazyPc, lazyGot, lazyResets, lazyAsked, lazyBegan

-----------------------------------------------------------------------------
(* syncx.Group: Wait covers every task, the limit holds, and the slot of a *)
(* task that failed is given back after the cancellation.                  *)

groupLimit     == x1
groupSem       == x2
groupWg        == x3
groupOnce      == x4
groupErr       == x5
groupCancelled == x6
groupWants     == x7
groupState     == x8
groupFailed    == x9
groupOwner     == x10
USE DEF groupLimit, groupSem, groupWg, groupOnce, groupErr, groupCancelled, groupWants,
        groupState, groupFailed, groupOwner

\* The goroutine that owns the group is not one of its tasks.
GroupConfigured ==
  /\ IsFiniteSet(Callers) /\ MaxLimit \in Nat
  /\ Nothing \notin Callers /\ Ticker \notin Callers

GroupActors   == Callers \cup {Ticker}
Holding       == {"running", "failing", "cancelling", "leaving"}
Active        == Holding \cup {"freed"}
TasksIn(J)    == {t \in Callers : groupState[t] \in J}

GroupTypes ==
  /\ groupLimit \in 0 .. MaxLimit
  /\ groupOnce \in {"fresh", "busy", "over"}
  /\ groupErr \in Callers \cup {Nothing}
  /\ groupWants \in [GroupActors -> Callers \cup {Nothing}]
  /\ groupState \in [Callers -> G!States]
  /\ groupFailed \subseteq Callers
  /\ groupOwner \in {"starting", "waiting", "returned"}
GroupFlag == groupCancelled \in BOOLEAN

\* The wait group counts the goroutines, and the semaphore those with a slot.
GroupCounts ==
  /\ groupWg = Cardinality(TasksIn(Active))
  /\ groupLimit = 0 => groupSem = 0
  /\ groupLimit > 0 => groupSem = Cardinality(TasksIn(Holding)) /\ groupSem <= groupLimit

\* Whoever is blocked in Go runs, and is the only one to start its task.
GroupWants ==
  \A a \in GroupActors : groupWants[a] # Nothing =>
    /\ groupState[groupWants[a]] = "asked"
    /\ IF a = Ticker THEN groupOwner = "starting" ELSE groupState[a] = "running"
    /\ \A b \in GroupActors : groupWants[a] = groupWants[b] => a = b

\* How far a task that failed has come, and its part in once.Do.
GroupFailures ==
  /\ \A t \in groupFailed :
       /\ groupState[t] \in {"failing", "cancelling", "leaving", "freed", "gone"}
       /\ groupOnce = "fresh" => groupState[t] = "failing"
       /\ groupState[t] \in {"leaving", "freed", "gone"} => groupCancelled
  /\ \A t \in Callers : groupState[t] \in {"failing", "cancelling"} => t \in groupFailed
  /\ groupOnce = "over" => groupCancelled
  /\ IF groupOnce = "fresh" THEN groupErr = Nothing ELSE groupErr \in groupFailed

GroupOver == groupOwner = "returned" => \A t \in Callers : groupState[t] \notin Active

GroupInv == /\ GroupTypes /\ GroupFlag /\ GroupCounts /\ GroupWants
            /\ GroupFailures /\ GroupOver

LEMMA GroupCards == \A Z : G!Cardinality(Z) = Cardinality(Z)
  BY DEF G!Cardinality, Cardinality

LEMMA TasksFinite ==
  ASSUME GroupConfigured, NEW J
  PROVE  /\ IsFiniteSet(TasksIn(J)) /\ Cardinality(TasksIn(J)) \in Nat
         /\ Cardinality(TasksIn(J)) <= Cardinality(Callers) /\ Cardinality(Callers) \in Nat
<1>1. TasksIn(J) \in SUBSET Callers
  BY DEF TasksIn
<1>. QED
  BY <1>1, FS_Subset, FS_CardinalityType DEF GroupConfigured

\* One task moves, and the sets of tasks with it.
LEMMA OneTaskMoves ==
  ASSUME GroupConfigured, GroupTypes, NEW t \in Callers, NEW s \in G!States, G!Becomes(t, s)
  PROVE  /\ groupState' \in [Callers -> G!States]
         /\ \A u \in Callers : groupState'[u] = IF u = t THEN s ELSE groupState[u]
         /\ \A J : (groupState[t] \in J <=> s \in J) =>
                     Cardinality(TasksIn(J)') = Cardinality(TasksIn(J))
         /\ \A J : groupState[t] \notin J /\ s \in J =>
                     Cardinality(TasksIn(J)') = Cardinality(TasksIn(J)) + 1
         /\ \A J : groupState[t] \in J /\ s \notin J =>
                     Cardinality(TasksIn(J)') = Cardinality(TasksIn(J)) - 1
<1>1. /\ groupState' \in [Callers -> G!States]
      /\ \A u \in Callers : groupState'[u] = IF u = t THEN s ELSE groupState[u]
  BY DEF GroupTypes, G!Becomes
<1>2. ASSUME NEW J, groupState[t] \in J <=> s \in J PROVE TasksIn(J)' = TasksIn(J)
  BY <1>1, <1>2 DEF TasksIn
<1>3. ASSUME NEW J, groupState[t] \notin J, s \in J
      PROVE  Cardinality(TasksIn(J)') = Cardinality(TasksIn(J)) + 1
  <2>1. TasksIn(J)' = TasksIn(J) \cup {t} /\ t \notin TasksIn(J)
    BY <1>1, <1>3 DEF TasksIn
  <2>. QED
    BY <2>1, TasksFinite, FS_AddElement
<1>4. ASSUME NEW J, groupState[t] \in J, s \notin J
      PROVE  Cardinality(TasksIn(J)') = Cardinality(TasksIn(J)) - 1
  <2>1. TasksIn(J)' = TasksIn(J) \ {t} /\ t \in TasksIn(J)
    BY <1>1, <1>4 DEF TasksIn
  <2>. QED
    BY <2>1, TasksFinite, FS_RemoveElement
<1>. QED
  BY <1>1, <1>2, <1>3, <1>4

LEMMA GroupInit == ASSUME GroupConfigured, G!Init PROVE GroupInv
<1>1. GroupTypes /\ GroupFlag
  BY DEF GroupConfigured, G!Init, GroupTypes, GroupFlag, GroupActors, G!States
<1>2. GroupWants /\ GroupFailures /\ GroupOver
  BY DEF GroupConfigured, G!Init, GroupWants, GroupFailures, GroupOver, GroupActors
<1>3. TasksIn(Active) = {} /\ TasksIn(Holding) = {}
  BY DEF G!Init, TasksIn, Active, Holding
<1>4. groupWg = 0 /\ groupSem = 0 /\ groupLimit \in Nat
  BY DEF G!Init, GroupConfigured
<1>5. GroupCounts
  BY <1>3, <1>4, FS_EmptySet DEF GroupCounts
<1>. QED
  BY <1>1, <1>2, <1>5 DEF GroupInv

\* A task is started, by an actor that may be blocked in Go.
LEMMA LaunchStep ==
  ASSUME GroupConfigured, GroupInv, NEW t \in Callers, groupState[t] \in {"new", "asked"},
         NEW a \in GroupActors,
         IF a = Ticker THEN groupOwner = "starting" ELSE groupState[a] = "running",
         IF groupState[t] = "asked" THEN groupWants[a] = t ELSE groupWants[a] = Nothing,
         groupWants' = [groupWants EXCEPT ![a] = Nothing],
         G!Room, G!Launch(t),
         UNCHANGED <<groupLimit, groupOnce, groupErr, groupCancelled, groupFailed, groupOwner>>
  PROVE  GroupInv'
<1>0. GroupTypes /\ GroupCounts
  BY DEF GroupInv
<1>1. "running" \in G!States /\ G!Becomes(t, "running")
  BY DEF G!States, G!Launch
<1>2. /\ groupState' \in [Callers -> G!States]
      /\ \A u \in Callers : groupState'[u] = IF u = t THEN "running" ELSE groupState[u]
  BY <1>0, <1>1, OneTaskMoves
<1>3. /\ groupWants' \in [GroupActors -> Callers \cup {Nothing}]
      /\ \A b \in GroupActors : groupWants'[b] = IF b = a THEN Nothing ELSE groupWants[b]
  BY <1>0 DEF GroupTypes
<1>4. GroupTypes' /\ GroupFlag'
  BY <1>2, <1>3 DEF GroupInv, GroupTypes, GroupFlag
<1>5. GroupCounts'
  <2>1. /\ Cardinality(TasksIn(Active)') = Cardinality(TasksIn(Active)) + 1
        /\ Cardinality(TasksIn(Holding)') = Cardinality(TasksIn(Holding)) + 1
    <3>1. /\ groupState[t] \notin Active /\ "running" \in Active
          /\ groupState[t] \notin Holding /\ "running" \in Holding
      BY DEF Active, Holding
    <3>. QED
      BY <1>0, <1>1, <3>1, OneTaskMoves
  <2>2. /\ Cardinality(TasksIn(Active)) \in Nat /\ Cardinality(TasksIn(Holding)) \in Nat
        /\ groupLimit \in Nat
    BY <1>0, TasksFinite DEF GroupConfigured, GroupTypes
  <2>3. /\ groupWg' = groupWg + 1
        /\ groupSem' = IF groupLimit = 0 THEN 0 ELSE groupSem + 1
        /\ groupLimit = 0 \/ groupSem < groupLimit
    BY DEF G!Launch, G!Room
  <2>. QED
    BY <1>0, <2>1, <2>2, <2>3 DEF GroupCounts
<1>6. GroupWants'
  <2>. SUFFICES ASSUME NEW b \in GroupActors, groupWants'[b] # Nothing
                PROVE  /\ groupState'[groupWants'[b]] = "asked"
                       /\ IF b = Ticker THEN groupOwner' = "starting"
                             ELSE groupState'[b] = "running"
                       /\ \A d \in GroupActors : groupWants'[b] = groupWants'[d] => b = d
    BY DEF GroupWants
  <2>1. b # a /\ groupWants'[b] = groupWants[b] /\ groupWants[b] \in Callers
    BY <1>0, <1>3 DEF GroupTypes
  <2>2. /\ groupState[groupWants[b]] = "asked"
        /\ IF b = Ticker THEN groupOwner = "starting" ELSE groupState[b] = "running"
        /\ \A d \in GroupActors : groupWants[b] = groupWants[d] => b = d
    BY <2>1 DEF GroupInv, GroupWants
  <2>3. groupWants[b] # t
    BY <2>1, <2>2
  <2>4. b # Ticker => b \in Callers
    BY DEF GroupActors
  <2>. QED
    BY <1>2, <1>3, <2>1, <2>2, <2>3, <2>4
<1>7. GroupFailures'
  <2>1. t \notin groupFailed
    BY DEF GroupInv, GroupFailures
  <2>. QED
    BY <1>2, <2>1 DEF GroupInv, GroupFailures, GroupTypes
<1>8. GroupOver'
  BY DEF GroupInv, GroupOver, GroupActors, Active, Holding
<1>. QED
  BY <1>4, <1>5, <1>6, <1>7, <1>8 DEF GroupInv

LEMMA StartStep ==
  ASSUME GroupConfigured, GroupInv, NEW a \in GroupActors,
         G!GetSlot(a) \/ \E t \in Callers : G!Go(a, t) \/ G!TryGo(a, t)
  PROVE  GroupInv'
<1>0. GroupTypes
  BY DEF GroupInv
<1>1. CASE G!GetSlot(a)
  <2>1. groupWants[a] # Nothing /\ groupWants[a] \in Callers
    BY <1>0, <1>1 DEF G!GetSlot, GroupTypes
  <2>2. /\ groupState[groupWants[a]] = "asked"
        /\ IF a = Ticker THEN groupOwner = "starting" ELSE groupState[a] = "running"
    BY <2>1 DEF GroupInv, GroupWants
  <2>. QED
    BY <1>1, <2>1, <2>2, LaunchStep DEF G!GetSlot
<1>2. ASSUME NEW t \in Callers, G!TryGo(a, t), G!Room /\ G!Launch(t) PROVE GroupInv'
  <2>1. /\ groupWants[a] = Nothing /\ groupState[t] = "new"
        /\ IF a = Ticker THEN groupOwner = "starting" ELSE groupState[a] = "running"
    BY <1>2 DEF G!TryGo, G!Free
  <2>2. groupWants' = [groupWants EXCEPT ![a] = Nothing]
    BY <1>0, <1>2, <2>1 DEF G!TryGo, GroupTypes
  <2>. QED
    BY <1>2, <2>1, <2>2, LaunchStep DEF G!TryGo
<1>3. ASSUME NEW t \in Callers, G!Go(a, t) \/ (G!TryGo(a, t) /\ ~G!Room) PROVE GroupInv'
  <2>. DEFINE s == IF G!Go(a, t) THEN "asked" ELSE "refused"
  <2>1. /\ s \in {"asked", "refused"} /\ G!Becomes(t, s) /\ groupState[t] = "new"
        /\ groupWants[a] = Nothing
        /\ IF a = Ticker THEN groupOwner = "starting" ELSE groupState[a] = "running"
        /\ UNCHANGED <<groupLimit, groupSem, groupWg, groupOnce, groupErr, groupCancelled,
                       groupFailed, groupOwner>>
    BY <1>3 DEF G!Go, G!TryGo, G!Free
  <2>2. groupWants' = [groupWants EXCEPT ![a] = IF s = "asked" THEN t ELSE Nothing]
    BY <1>0, <1>3, <2>1 DEF G!Go, G!TryGo, GroupTypes
  <2>. HIDE DEF s
  <2>3. s \in G!States
    BY <2>1 DEF G!States
  <2>4. /\ groupState' \in [Callers -> G!States]
        /\ \A u \in Callers : groupState'[u] = IF u = t THEN s ELSE groupState[u]
    BY <1>0, <2>1, <2>3, OneTaskMoves
  <2>5. /\ groupWants' \in [GroupActors -> Callers \cup {Nothing}]
        /\ \A b \in GroupActors :
             groupWants'[b] = IF b = a THEN IF s = "asked" THEN t ELSE Nothing ELSE groupWants[b]
    BY <1>0, <2>2 DEF GroupTypes
  <2>6. GroupTypes' /\ GroupFlag'
    BY <2>1, <2>4, <2>5 DEF GroupInv, GroupTypes, GroupFlag
  <2>7. GroupCounts'
    <3>1. /\ groupState[t] \in Active <=> s \in Active
          /\ groupState[t] \in Holding <=> s \in Holding
      BY <2>1 DEF Active, Holding
    <3>2. /\ Cardinality(TasksIn(Active)') = Cardinality(TasksIn(Active))
          /\ Cardinality(TasksIn(Holding)') = Cardinality(TasksIn(Holding))
      BY <1>0, <2>1, <2>3, <3>1, OneTaskMoves
    <3>. QED
      BY <2>1, <3>2 DEF GroupInv, GroupCounts
  <2>8. GroupWants'
    <3>. SUFFICES ASSUME NEW b \in GroupActors, groupWants'[b] # Nothing
                  PROVE  /\ groupState'[groupWants'[b]] = "asked"
                         /\ IF b = Ticker THEN groupOwner' = "starting"
                             ELSE groupState'[b] = "running"
                         /\ \A d \in GroupActors : groupWants'[b] = groupWants'[d] => b = d
      BY DEF GroupWants
    <3>1. b # Ticker => b \in Callers
      BY DEF GroupActors
    <3>2. \A d \in GroupActors : groupWants[d] # t
      BY <2>1 DEF GroupInv, GroupWants, GroupConfigured
    <3>3. CASE b = a
      BY <2>1, <2>4, <2>5, <3>1, <3>2, <3>3 DEF GroupConfigured
    <3>4. CASE b # a
      <4>1. groupWants[b] \in Callers /\ groupWants'[b] = groupWants[b]
        BY <1>0, <2>5, <3>4 DEF GroupTypes
      <4>2. /\ groupState[groupWants[b]] = "asked"
            /\ IF b = Ticker THEN groupOwner = "starting" ELSE groupState[b] = "running"
            /\ \A d \in GroupActors : groupWants[b] = groupWants[d] => b = d
        BY <2>5, <3>4 DEF GroupInv, GroupWants
      <4>. QED
        BY <2>1, <2>4, <2>5, <3>1, <3>2, <3>4, <4>1, <4>2
    <3>. QED
      BY <3>3, <3>4
  <2>9. GroupFailures'
    <3>1. t \notin groupFailed
      BY <2>1 DEF GroupInv, GroupFailures
    <3>. QED
      BY <2>1, <2>4, <3>1 DEF GroupInv, GroupFailures, GroupTypes
  <2>10. GroupOver'
    BY <2>1, <2>4 DEF GroupInv, GroupOver, Active, Holding
  <2>. QED
    BY <2>6, <2>7, <2>8, <2>9, <2>10 DEF GroupInv
<1>. QED
  BY <1>1, <1>2, <1>3 DEF G!TryGo

\* A task ends: what its goroutine does changes its own state, once and the counts.
LEMMA EndStep ==
  ASSUME GroupConfigured, GroupInv, NEW t \in Callers,
         \/ G!Return(t) \/ G!FirstFailure(t) \/ G!CancelSiblings(t) \/ G!LaterFailure(t)
         \/ G!FreeSlot(t) \/ G!Done(t)
  PROVE  GroupInv'
<1>0. GroupTypes /\ GroupCounts /\ GroupFailures
  BY DEF GroupInv
<1>1. PICK s \in {"leaving", "failing", "cancelling", "freed", "gone"} :
        /\ G!Becomes(t, s)
        /\ groupState[t] \in {"running", "failing", "cancelling", "leaving", "freed"}
        /\ groupState[t] = "running" => groupWants[t] = Nothing
        /\ s = "freed" <=> groupState[t] = "leaving"
        /\ s = "gone" <=> groupState[t] = "freed"
        /\ UNCHANGED <<groupLimit, groupWants, groupOwner>>
        /\ groupSem' = IF s = "freed" /\ groupLimit # 0 THEN groupSem - 1
                       ELSE IF s = "freed" THEN 0 ELSE groupSem
        /\ groupWg' = IF s = "gone" THEN groupWg - 1 ELSE groupWg
  BY DEF G!Return, G!FirstFailure, G!CancelSiblings, G!LaterFailure, G!FreeSlot, G!Done
<1>2. s \in G!States
  BY DEF G!States
<1>3. /\ groupState' \in [Callers -> G!States]
      /\ \A u \in Callers : groupState'[u] = IF u = t THEN s ELSE groupState[u]
  BY <1>0, <1>1, <1>2, OneTaskMoves
<1>4. GroupTypes' /\ GroupFlag' /\ GroupFailures'
  <2>1. CASE G!Return(t)
    <3>1. /\ groupState[t] = "running" /\ s \in {"leaving", "failing"}
          /\ UNCHANGED <<groupOnce, groupErr, groupCancelled>>
      BY <1>0, <1>3, <2>1 DEF G!Return, G!Becomes, GroupTypes
    <3>2. groupFailed' = IF s = "failing" THEN groupFailed \cup {t} ELSE groupFailed
      BY <1>0, <1>3, <2>1 DEF G!Return, G!Becomes, GroupTypes
    <3>3. t \notin groupFailed
      BY <1>0, <3>1 DEF GroupFailures
    <3>4. GroupTypes' /\ GroupFlag'
      BY <1>0, <1>1, <1>3, <3>1, <3>2 DEF GroupInv, GroupTypes, GroupFlag
    <3>. QED
      BY <1>0, <1>3, <3>1, <3>2, <3>3, <3>4 DEF GroupFailures, GroupTypes
  <2>2. CASE G!FirstFailure(t)
    <3>1. /\ groupState[t] = "failing" /\ s = "cancelling" /\ groupOnce = "fresh"
          /\ groupOnce' = "busy" /\ groupErr' = t
          /\ UNCHANGED <<groupCancelled, groupFailed>>
      BY <1>0, <1>3, <2>2 DEF G!FirstFailure, G!Becomes, GroupTypes
    <3>2. GroupTypes' /\ GroupFlag'
      BY <1>0, <1>1, <1>3, <3>1 DEF GroupInv, GroupTypes, GroupFlag
    <3>. QED
      BY <1>0, <1>3, <3>1, <3>2 DEF GroupFailures, GroupTypes
  <2>3. CASE G!CancelSiblings(t)
    <3>1. /\ groupState[t] = "cancelling" /\ s = "leaving"
          /\ groupOnce' = "over" /\ groupCancelled' = TRUE
          /\ UNCHANGED <<groupErr, groupFailed>>
      BY <1>0, <1>3, <2>3 DEF G!CancelSiblings, G!Becomes, GroupTypes
    <3>2. GroupTypes' /\ GroupFlag'
      BY <1>0, <1>1, <1>3, <3>1 DEF GroupInv, GroupTypes, GroupFlag
    <3>3. groupOnce # "fresh"
      BY <1>0, <3>1 DEF GroupFailures
    <3>. QED
      BY <1>0, <1>3, <3>1, <3>2, <3>3 DEF GroupFailures, GroupTypes
  <2>4. CASE G!LaterFailure(t) \/ G!FreeSlot(t) \/ G!Done(t)
    <3>1. /\ UNCHANGED <<groupOnce, groupErr, groupCancelled, groupFailed>>
          /\ s \in {"leaving", "freed", "gone"}
          /\ groupState[t] \in {"leaving", "freed"} \/ groupOnce = "over"
      BY <1>0, <1>3, <2>4 DEF G!LaterFailure, G!FreeSlot, G!Done, G!Becomes, GroupTypes, G!OnceOver
    <3>2. GroupTypes' /\ GroupFlag'
      BY <1>0, <1>1, <1>3, <3>1 DEF GroupInv, GroupTypes, GroupFlag
    <3>3. t \in groupFailed => groupCancelled /\ groupOnce # "fresh"
      BY <1>0, <3>1 DEF GroupFailures
    <3>. QED
      BY <1>0, <1>3, <3>1, <3>2, <3>3 DEF GroupFailures, GroupTypes
  <2>. QED
    BY <2>1, <2>2, <2>3, <2>4
<1>5. GroupCounts'
  <2>1. /\ Cardinality(TasksIn(Active)') =
             IF s = "gone" THEN Cardinality(TasksIn(Active)) - 1 ELSE Cardinality(TasksIn(Active))
        /\ Cardinality(TasksIn(Holding)') =
             IF s = "freed" THEN Cardinality(TasksIn(Holding)) - 1
             ELSE Cardinality(TasksIn(Holding))
    <3>1. /\ groupState[t] \in Active /\ (s = "gone" <=> s \notin Active)
          /\ s = "freed" => groupState[t] \in Holding /\ s \notin Holding
          /\ s # "freed" => (groupState[t] \in Holding <=> s \in Holding)
      BY <1>1 DEF Active, Holding
    <3>. QED
      BY <1>0, <1>1, <1>2, <3>1, OneTaskMoves
  <2>2. /\ Cardinality(TasksIn(Active)) \in Nat /\ Cardinality(TasksIn(Holding)) \in Nat
        /\ groupLimit \in Nat
    BY <1>0, TasksFinite DEF GroupConfigured, GroupTypes
  <2>. QED
    BY <1>0, <1>1, <2>1, <2>2 DEF GroupCounts
<1>6. GroupWants'
  <2>. SUFFICES ASSUME NEW b \in GroupActors, groupWants[b] # Nothing
                PROVE  /\ groupState'[groupWants[b]] = "asked"
                       /\ IF b = Ticker THEN groupOwner' = "starting"
                             ELSE groupState'[b] = "running"
                       /\ \A d \in GroupActors : groupWants[b] = groupWants[d] => b = d
    BY <1>1 DEF GroupWants
  <2>1. /\ groupState[groupWants[b]] = "asked" /\ groupWants[b] \in Callers
        /\ IF b = Ticker THEN groupOwner = "starting" ELSE groupState[b] = "running"
        /\ \A d \in GroupActors : groupWants[b] = groupWants[d] => b = d
    BY <1>0 DEF GroupInv, GroupWants, GroupTypes
  <2>2. b # Ticker => b \in Callers
    BY DEF GroupActors
  <2>3. groupWants[b] # t /\ (b # Ticker => b # t)
    BY <1>1, <2>1
  <2>. QED
    BY <1>1, <1>3, <2>1, <2>2, <2>3
<1>7. GroupOver'
  BY <1>1, <1>3 DEF GroupInv, GroupOver, Active, Holding
<1>. QED
  BY <1>4, <1>5, <1>6, <1>7 DEF GroupInv

LEMMA WaitStep == ASSUME GroupConfigured, GroupInv, G!Wait \/ G!WaitReturns PROVE GroupInv'
<1>1. /\ UNCHANGED <<groupLimit, groupSem, groupWg, groupOnce, groupErr, groupWants, groupState,
                     groupFailed>>
      /\ groupOwner' \in {"waiting", "returned"}
      /\ groupCancelled' \in BOOLEAN /\ (groupCancelled => groupCancelled')
  BY DEF G!Wait, G!WaitReturns, GroupInv, GroupFlag
<1>2. GroupTypes' /\ GroupFlag'
  BY <1>1 DEF GroupInv, GroupTypes, GroupFlag
<1>3. GroupCounts'
  BY <1>1 DEF GroupInv, GroupCounts, TasksIn
<1>4. GroupFailures'
  BY <1>1 DEF GroupInv, GroupFailures
<1>5. GroupWants'
  <2>1. groupWants[Ticker] = Nothing
    BY DEF G!Wait, G!Free, G!WaitReturns, GroupInv, GroupWants, GroupActors
  <2>. QED
    BY <1>1, <2>1 DEF GroupInv, GroupWants
<1>6. GroupOver'
  <2>. SUFFICES ASSUME groupOwner' = "returned", NEW t \in Callers, groupState[t] \in Active
                PROVE  FALSE
    BY <1>1 DEF GroupOver
  <2>1. groupWg = 0
    BY DEF G!Wait, G!WaitReturns
  <2>2. TasksIn(Active) = {}
    BY <2>1, TasksFinite, FS_EmptySet DEF GroupInv, GroupCounts
  <2>. QED
    BY <2>2 DEF TasksIn
<1>. QED
  BY <1>2, <1>3, <1>4, <1>5, <1>6 DEF GroupInv

LEMMA GroupInvariant == ASSUME GroupConfigured PROVE Spec => [](package = "group" => GroupInv)
<1>1. Init => (package = "group" => GroupInv)
  BY GroupInit, StartOfPackage
<1>2. (package = "group" => GroupInv) /\ [Next]_vars => (package = "group" => GroupInv)'
  <2>1. ASSUME GroupInv, G!Rest \/ UNCHANGED G!vars PROVE GroupInv'
    BY <2>1 DEF G!Rest, G!vars, GroupInv, GroupTypes, GroupFlag, GroupCounts, TasksIn, GroupWants,
                GroupFailures, GroupOver
  <2>2. ASSUME GroupInv, [G!Next]_(G!vars) PROVE GroupInv'
    BY <2>1, <2>2, StartStep, EndStep, WaitStep DEF G!Next, GroupActors
  <2>. QED
    BY <2>2, StepOfPackage
<1>. QED
  BY <1>1, <1>2, PTL DEF Spec

LEMMA GroupAnswers ==
  ASSUME GroupConfigured, GroupInv
  PROVE  G!TypeOK /\ G!WaitCoversAll /\ G!SlotsAfterCancel
<1>1. G!TypeOK
  <2>1. groupWg \in 0 .. Cardinality(Callers)
    BY TasksFinite DEF GroupInv, GroupCounts
  <2>2. groupSem \in 0 .. groupLimit
    <3>1. groupLimit \in Nat
      BY DEF GroupInv, GroupTypes, GroupConfigured
    <3>. QED
      BY <3>1, TasksFinite DEF GroupInv, GroupCounts
  <2>. QED
    BY <2>1, <2>2, GroupCards DEF GroupInv, GroupTypes, GroupFlag, GroupActors, G!TypeOK
<1>2. G!WaitCoversAll
  <2>. SUFFICES ASSUME groupOwner = "returned"
                PROVE  /\ \A t \in G!Started : groupState[t] = "gone"
                       /\ IF groupFailed = {} THEN groupErr = Nothing ELSE groupErr \in groupFailed
    BY DEF G!WaitCoversAll
  <2>1. \A t \in G!Started : groupState[t] = "gone"
    BY DEF G!Started, GroupInv, GroupTypes, GroupOver, Active, Holding, G!States
  <2>2. groupFailed = {} => groupErr = Nothing
    BY DEF GroupInv, GroupFailures
  <2>3. groupFailed # {} => groupErr \in groupFailed
    BY DEF GroupInv, GroupFailures, GroupOver, GroupTypes, Active, Holding
  <2>. QED
    BY <2>1, <2>2, <2>3
<1>3. G!SlotsAfterCancel
  <2>1. {t \in G!Started : groupState[t] \notin {"freed", "gone"}} = TasksIn(Holding)
    BY DEF G!Started, TasksIn, Holding, GroupInv, GroupTypes, G!States
  <2>2. groupLimit > 0 =>
          Cardinality({t \in G!Started : groupState[t] \notin {"freed", "gone"}}) <= groupLimit
    BY <2>1 DEF GroupInv, GroupCounts
  <2>3. (\E t \in groupFailed : groupState[t] \in {"leaving", "freed", "gone"}) => groupCancelled
    BY DEF GroupInv, GroupFailures
  <2>. QED
    BY <2>2, <2>3, GroupCards DEF G!SlotsAfterCancel
<1>. QED
  BY <1>1, <1>2, <1>3

HIDE DEF groupLimit, groupSem, groupWg, groupOnce, groupErr, groupCancelled, groupWants,
         groupState, groupFailed, groupOwner

-----------------------------------------------------------------------------
\* syncx: Wait covers all tasks and reports a failure, and whoever gets the slot of a task
\* that failed finds the context cancelled (launch, Wait); Gets share one value, and none
\* is older than the last Reset before them (Get, Reset).
THEOREM SyncxAlwaysAnswersTrue ==
  ASSUME GroupConfigured, LazyConfigured PROVE Spec => []SyncxAnswersTrue
<1>1. LazyInv => L!TypeOK
  BY DEF LazyInv
<1>2. (package = "group" => GroupInv) /\ (package = "lazy" => LazyInv) => SyncxAnswersTrue
  BY <1>1, GroupAnswers, LazyOneFreshValue DEF SyncxAnswersTrue
<1>. QED
  BY <1>2, GroupInvariant, LazyInvariant, PTL

-----------------------------------------------------------------------------
(* ratex.Limiter: no token is made, and allowed counts the calls that keep *)
(* their tokens.                                                           *)

rateTokens     == x1
rateLast       == x2
rateAllowed    == x3
rateNow        == x4
rateDead       == x5
ratePc         == x6
rateAsked      == x7
rateResets     == x8
rateStatResets == x9
USE DEF rateTokens, rateLast, rateAllowed, rateNow, rateDead, ratePc, rateAsked, rateResets,
        rateStatResets

\* A burst of at least 1 is what newConfig lets through (NewConfigIsSound).
RateConfigured ==
  /\ IsFiniteSet(Callers)
  /\ Burst \in Nat /\ Burst >= 1
  /\ RateTime \in Nat /\ RateResets \in Nat

Owning == {"recheck", "held", "refund", "kept"}

RateNumbers ==
  /\ rateTokens \in 0 .. Burst /\ rateAllowed \in Nat
  /\ rateNow \in 0 .. RateTime /\ rateLast \in 0 .. rateNow
  /\ rateResets \in 0 .. RateResets /\ rateStatResets \in 0 .. RateResets
RateCalls ==
  /\ rateDead \subseteq Callers
  /\ ratePc \in [Callers -> R!Labels]
  /\ rateAsked \in [Callers -> 0 .. Burst]
RateInv == RateNumbers /\ RateCalls /\ R!NoTokenMade /\ R!AllowedExact

LEMMA RateCounts == \A Z : R!Cardinality(Z) = Cardinality(Z)
  BY DEF R!Cardinality, Cardinality

LEMMA RateMin == \A a, b \in Int : R!Min({a, b}) = IF a <= b THEN a ELSE b
<1>. SUFFICES ASSUME NEW a \in Int, NEW b \in Int
              PROVE  R!Min({a, b}) = IF a <= b THEN a ELSE b
  OBVIOUS
<1>1. R!Min({a, b}) = CHOOSE x \in {a, b} : \A y \in {a, b} : x <= y
  BY DEF R!Min
<1>2. \A x \in {a, b} : (\A y \in {a, b} : x <= y) <=> x = IF a <= b THEN a ELSE b
  OBVIOUS
<1>. QED
  BY <1>1, <1>2

LEMMA RateSets ==
  ASSUME RateConfigured, RateCalls
  PROVE  /\ IsFiniteSet(R!Owners) /\ Cardinality(R!Owners) \in Nat
         /\ IsFiniteSet(R!Taken) /\ Cardinality(R!Taken) \in Nat
<1>1. IsFiniteSet(Callers \X (1 .. Burst))
  <2>1. IsFiniteSet(1 .. Burst)
    BY FS_Interval DEF RateConfigured
  <2>. QED
    BY <2>1, FS_Product DEF RateConfigured
<1>2. R!Owners \subseteq Callers /\ R!Taken \subseteq Callers \X (1 .. Burst)
  BY DEF R!Owners, R!Taken
<1>. QED
  BY <1>1, <1>2, FS_Subset, FS_CardinalityType DEF RateConfigured

\* A call moves from label to label.
LEMMA RateMove ==
  ASSUME RateCalls, NEW c \in Callers, NEW b \in R!Labels, R!Goto(c, b)
  PROVE  /\ ratePc' \in [Callers -> R!Labels]
         /\ \A d \in Callers : ratePc'[d] = IF d = c THEN b ELSE ratePc[d]
BY DEF RateCalls, R!Goto

\* Tokens stay where they are.
LEMMA RateStays ==
  ASSUME \A d \in Callers : /\ ratePc'[d] \in Owning <=> ratePc[d] \in Owning
                            /\ ratePc[d] \in Owning => rateAsked'[d] = rateAsked[d]
  PROVE  R!Owners' = R!Owners /\ R!Taken' = R!Taken
<1>1. R!Owners' = R!Owners
  BY DEF R!Owners, Owning
<1>2. \A d \in R!Owners : rateAsked'[d] = rateAsked[d]
  BY DEF R!Owners, Owning
<1>. HIDE DEF Owning
<1>. QED
  BY <1>1, <1>2 DEF R!Taken

LEMMA RateApart ==
  ASSUME NEW Z, NEW J, IsFiniteSet(Z), IsFiniteSet(J), Z \cap J = {}
  PROVE  Cardinality(Z \cup J) = Cardinality(Z) + Cardinality(J)
<1>1. Cardinality(Z \cap J) = 0
  BY FS_EmptySet
<1>2. Cardinality(Z \cup J) = Cardinality(Z) + Cardinality(J) - Cardinality(Z \cap J)
  BY FS_Union
<1>3. Cardinality(Z) \in Nat /\ Cardinality(J) \in Nat
  BY FS_CardinalityType
<1>. QED
  BY <1>1, <1>2, <1>3

LEMMA RatePairs ==
  ASSUME NEW c, NEW n \in Nat
  PROVE  IsFiniteSet({c} \X (1 .. n)) /\ Cardinality({c} \X (1 .. n)) = n
<1>. DEFINE I == 1 .. n
<1>1. IsFiniteSet(I) /\ Cardinality(I) = n
  BY FS_Interval, 1 \in Int, n \in Int
<1>2. IsFiniteSet({c}) /\ Cardinality({c}) = 1
  BY FS_Singleton
<1>. HIDE DEF I
<1>3. IsFiniteSet({c} \X I) /\ Cardinality({c} \X I) = Cardinality({c}) * Cardinality(I)
  BY <1>1, <1>2, FS_Product
<1>4. 1 * n = n
  OBVIOUS
<1>. QED
  BY <1>1, <1>2, <1>3, <1>4 DEF I

\* A call takes the tokens it asked for, or gives them back.
LEMMA RateTakes ==
  ASSUME RateConfigured, RateCalls, NEW c \in Callers, NEW b \in R!Labels, R!Goto(c, b),
         rateAsked' = rateAsked, ratePc[c] \notin Owning, b \in Owning
  PROVE  /\ Cardinality(R!Owners') = Cardinality(R!Owners) + 1
         /\ Cardinality(R!Taken') = Cardinality(R!Taken) + rateAsked[c]
<1>. DEFINE more == {c} \X (1 .. rateAsked[c])
<1>1. \A d \in Callers : ratePc'[d] = IF d = c THEN b ELSE ratePc[d]
  BY RateMove
<1>2. R!Owners' = R!Owners \cup {c} /\ c \notin R!Owners
  BY <1>1 DEF R!Owners, Owning
<1>3. rateAsked[c] \in 0 .. Burst
  BY DEF RateCalls
<1>4. R!Taken' = R!Taken \cup more /\ R!Taken \cap more = {}
  <2>1. R!Taken' = {p \in Callers \X (1 .. Burst) : p[1] \in R!Owners' /\ p[2] <= rateAsked[p[1]]}
    BY DEF R!Taken
  <2>. QED
    BY <1>2, <1>3, <2>1 DEF RateConfigured, R!Taken
<1>5. IsFiniteSet(more) /\ Cardinality(more) = rateAsked[c]
  <2>1. rateAsked[c] \in Nat
    BY <1>3 DEF RateConfigured
  <2>. QED
    BY <2>1, RatePairs
<1>. HIDE DEF more
<1>6. Cardinality(R!Taken \cup more) = Cardinality(R!Taken) + rateAsked[c]
  BY <1>4, <1>5, RateSets, RateApart
<1>7. Cardinality(R!Owners \cup {c}) = Cardinality(R!Owners) + 1
  BY <1>2, RateSets, FS_AddElement
<1>. QED
  BY <1>2, <1>4, <1>6, <1>7

LEMMA RateGives ==
  ASSUME RateConfigured, RateCalls, NEW c \in Callers, NEW b \in R!Labels, R!Goto(c, b),
         rateAsked' = rateAsked, ratePc[c] \in Owning, b \notin Owning
  PROVE  /\ Cardinality(R!Owners') = Cardinality(R!Owners) - 1 /\ Cardinality(R!Owners) >= 1
         /\ Cardinality(R!Taken') = Cardinality(R!Taken) - rateAsked[c]
<1>. DEFINE less == {c} \X (1 .. rateAsked[c])
<1>1. \A d \in Callers : ratePc'[d] = IF d = c THEN b ELSE ratePc[d]
  BY RateMove
<1>2. R!Owners' = R!Owners \ {c} /\ c \in R!Owners
  BY <1>1 DEF R!Owners, Owning
<1>3. rateAsked[c] \in 0 .. Burst
  BY DEF RateCalls
<1>4. R!Taken = R!Taken' \cup less /\ R!Taken' \cap less = {}
  <2>1. R!Taken' = {p \in Callers \X (1 .. Burst) : p[1] \in R!Owners' /\ p[2] <= rateAsked[p[1]]}
    BY DEF R!Taken
  <2>. QED
    BY <1>2, <1>3, <2>1 DEF RateConfigured, R!Taken
<1>5. IsFiniteSet(less) /\ Cardinality(less) = rateAsked[c]
  <2>1. rateAsked[c] \in Nat
    BY <1>3 DEF RateConfigured
  <2>. QED
    BY <2>1, RatePairs
<1>6. IsFiniteSet(R!Taken') /\ Cardinality(R!Taken') \in Nat
  <2>1. R!Taken' \subseteq R!Taken
    BY <1>4
  <2>. QED
    BY <2>1, RateSets, FS_Subset, FS_CardinalityType
<1>. HIDE DEF less
<1>7. Cardinality(R!Taken' \cup less) = Cardinality(R!Taken') + rateAsked[c]
  BY <1>4, <1>5, <1>6, RateApart
<1>8. Cardinality(R!Owners \ {c}) = Cardinality(R!Owners) - 1
  BY <1>2, RateSets, FS_RemoveElement
<1>9. Cardinality(R!Owners \ {c}) \in Nat
  BY RateSets, FS_RemoveElement, FS_CardinalityType
<1>. QED
  BY <1>2, <1>3, <1>4, <1>6, <1>7, <1>8, <1>9, RateSets

LEMMA RateInit == RateConfigured /\ R!Init => RateInv
<1>. SUFFICES ASSUME RateConfigured, R!Init PROVE RateInv
  OBVIOUS
<1>1. R!Owners = {} /\ R!Taken = {}
  BY DEF R!Init, R!Owners, R!Taken
<1>2. Cardinality(R!Owners) = 0 /\ Cardinality(R!Taken) = 0
  BY <1>1, FS_EmptySet
<1>3. RateNumbers
  BY DEF R!Init, RateConfigured, RateNumbers
<1>4. RateCalls
  BY DEF R!Init, RateConfigured, RateCalls, R!Labels, R!Looking
<1>5. Burst * 0 = 0
  BY DEF RateConfigured
<1>6. R!NoTokenMade
  BY <1>2, <1>5, RateCounts DEF R!NoTokenMade, R!Init, RateConfigured
<1>7. R!AllowedExact
  BY <1>2, RateCounts DEF R!AllowedExact, R!Init
<1>. QED
  BY <1>3, <1>4, <1>6, <1>7 DEF RateInv

\* The four things a step may change, as numbers.
RateSums ==
  /\ rateTokens + Cardinality(R!Taken) <= Burst + rateLast + Burst * rateResets
  /\ rateStatResets = 0 => rateAllowed = Cardinality(R!Owners)

LEMMA RateSumsSame == RateInv <=> RateNumbers /\ RateCalls /\ RateSums
  BY RateCounts DEF RateInv, RateSums, R!NoTokenMade, R!AllowedExact

LEMMA RateSumsSameNext == RateInv' <=> RateNumbers' /\ RateCalls' /\ RateSums'
  BY RateSumsSame, PTL

\* A lap of the clock and what it refills.
LEMMA RateRefilled ==
  ASSUME RateConfigured, RateNumbers
  PROVE  /\ R!Refilled \in 0 .. Burst
         /\ R!Refilled <= rateTokens + (rateNow - rateLast)
BY RateMin DEF RateConfigured, RateNumbers, R!Refilled

LEMMA RateAccrual ==
  ASSUME NEW a \in Nat, NEW aa \in Nat, NEW l \in Nat, NEW ll \in Nat, NEW n \in Nat,
         NEW k \in Nat, NEW m \in Nat, aa - a <= ll - l, a + n <= k + l + m
  PROVE  aa + n <= k + ll + m
OBVIOUS

LEMMA RateDrawn ==
  ASSUME NEW a \in Nat, NEW f \in Nat, NEW n \in Nat, NEW t \in Nat, NEW l \in Nat, NEW ll \in Nat,
         NEW k \in Nat, NEW m \in Nat, a + t <= k + l + m, f <= a + (ll - l)
  PROVE  (f - n) + (t + n) <= k + ll + m
OBVIOUS

LEMMA RateReturned ==
  ASSUME NEW a \in Nat, NEW aa \in Nat, NEW n \in Nat, NEW t \in Nat, NEW l \in Nat,
         NEW k \in Nat, NEW m \in Nat, a + t <= k + l + m, aa <= a + n
  PROVE  aa + (t - n) <= k + l + m
OBVIOUS

LEMMA RateStep ==
  ASSUME RateConfigured, RateInv, [R!Next]_(R!vars) PROVE RateInv'
<1>. DEFINE m == Cardinality(R!Owners)
            t == Cardinality(R!Taken)
<1>1. RateNumbers /\ RateCalls /\ RateSums /\ m \in Nat /\ t \in Nat
  BY RateSumsSame, RateSets
<1>2. \A k \in Nat : Burst * k \in Nat /\ Burst * (k + 1) = Burst * k + Burst
  BY DEF RateConfigured
<1>3. ASSUME NEW c \in Callers, NEW b \in R!Labels, R!Goto(c, b),
             b \in Owning <=> ratePc[c] \in Owning,
             \/ rateAsked' = rateAsked
             \/ ratePc[c] \notin Owning /\
                \E n \in 0 .. Burst : rateAsked' = [rateAsked EXCEPT ![c] = n],
             rateDead' = rateDead,
             UNCHANGED <<rateAllowed, rateNow, rateResets, rateStatResets>>,
             rateTokens' \in 0 .. Burst, rateLast' \in rateLast .. rateNow,
             rateTokens' - rateTokens <= rateLast' - rateLast
      PROVE  RateInv'
  <2>1. /\ ratePc' \in [Callers -> R!Labels]
        /\ \A d \in Callers : ratePc'[d] = IF d = c THEN b ELSE ratePc[d]
    BY <1>1, <1>3, RateMove
  <2>2. rateAsked' \in [Callers -> 0 .. Burst]
        /\ \A d \in Callers : ratePc[d] \in Owning => rateAsked'[d] = rateAsked[d]
    BY <1>1, <1>3 DEF RateCalls
  <2>3. R!Owners' = R!Owners /\ R!Taken' = R!Taken
    BY <1>3, <2>1, <2>2, RateStays
  <2>4. RateNumbers'
    BY <1>1, <1>3 DEF RateNumbers, RateConfigured
  <2>5. RateCalls'
    BY <1>1, <1>3, <2>1, <2>2 DEF RateCalls
  <2>6. RateSums'
    <3>1. /\ rateTokens + t <= Burst + rateLast + Burst * rateResets
          /\ rateStatResets = 0 => rateAllowed = m
      BY <1>1 DEF RateSums
    <3>2. /\ Cardinality(R!Owners') = m /\ Cardinality(R!Taken') = t
          /\ rateResets' = rateResets /\ rateStatResets' = rateStatResets
          /\ rateAllowed' = rateAllowed
      BY <1>3, <2>3
    <3>. HIDE DEF m, t
    <3>3. /\ rateTokens \in Nat /\ rateTokens' \in Nat /\ rateLast \in Nat /\ rateLast' \in Nat
          /\ Burst \in Nat /\ Burst * rateResets \in Nat
      BY <1>1, <1>2, <1>3 DEF RateNumbers, RateConfigured
    <3>4. t \in Nat /\ rateTokens' - rateTokens <= rateLast' - rateLast
      BY <1>1, <1>3
    <3>5. rateTokens' + t <= Burst + rateLast' + Burst * rateResets
      BY <3>1, <3>3, <3>4, RateAccrual
    <3>. QED
      BY <3>1, <3>2, <3>5 DEF RateSums
  <2>. QED
    BY <2>4, <2>5, <2>6, RateSumsSameNext
<1>4. ASSUME NEW c \in Callers, R!Take(c) PROVE RateInv'
  <2>1. R!Refilled \in 0 .. Burst /\ R!Refilled <= rateTokens + (rateNow - rateLast)
    BY <1>1, RateRefilled
  <2>2. ratePc[c] \notin Owning /\ rateAsked[c] \in 0 .. Burst
    BY <1>1, <1>4 DEF R!Take, Owning, RateCalls
  <2>3. CASE R!Refilled >= rateAsked[c]
    <3>. DEFINE b == IF R!At(c, "allow") THEN "held" ELSE "recheck"
    <3>1. /\ rateTokens' = R!Refilled - rateAsked[c] /\ rateAllowed' = rateAllowed + 1
          /\ R!Goto(c, b) /\ rateLast' = rateNow
          /\ UNCHANGED <<rateNow, rateDead, rateAsked, rateResets, rateStatResets>>
      BY <1>4, <2>3 DEF R!Take
    <3>2. b \in R!Labels /\ b \in Owning
      <4>1. b = "held" \/ b = "recheck"
        OBVIOUS
      <4>. HIDE DEF b
      <4>. QED
        BY <4>1 DEF R!Labels, R!Looking, Owning
    <3>. HIDE DEF b
    <3>3. Cardinality(R!Owners') = m + 1 /\ Cardinality(R!Taken') = t + rateAsked[c]
      BY <1>1, <2>2, <3>1, <3>2, RateTakes
    <3>4. RateCalls'
      BY <1>1, <3>1, <3>2, RateMove DEF RateCalls
    <3>5. RateNumbers'
      BY <1>1, <2>1, <2>2, <2>3, <3>1 DEF RateNumbers, RateConfigured
    <3>6. rateTokens' + (t + rateAsked[c]) <= Burst + rateLast' + Burst * rateResets
      <4>1. /\ rateTokens + t <= Burst + rateLast + Burst * rateResets
            /\ R!Refilled <= rateTokens + (rateNow - rateLast)
            /\ rateTokens' = R!Refilled - rateAsked[c] /\ rateLast' = rateNow
        BY <1>1, <2>1, <3>1 DEF RateSums
      <4>2. /\ rateTokens \in Nat /\ R!Refilled \in Nat /\ rateAsked[c] \in Nat /\ t \in Nat
            /\ rateLast \in Nat /\ rateNow \in Nat /\ Burst \in Nat /\ Burst * rateResets \in Nat
        BY <1>1, <1>2, <2>1, <2>2 DEF RateNumbers, RateConfigured
      <4>. QED
        BY <4>1, <4>2, RateDrawn
    <3>7. RateSums'
      BY <1>1, <3>1, <3>3, <3>6 DEF RateSums
    <3>. QED
      BY <3>4, <3>5, <3>7, RateSumsSameNext
  <2>4. CASE ~(R!Refilled >= rateAsked[c])
    <3>. DEFINE b == IF R!At(c, "take") THEN "delay" ELSE "done"
    <3>1. /\ rateTokens' = R!Refilled /\ R!Goto(c, b) /\ rateLast' = rateNow
          /\ UNCHANGED <<rateAllowed, rateNow, rateDead, rateAsked, rateResets, rateStatResets>>
      BY <1>4, <2>4 DEF R!Take
    <3>2. b \in R!Labels /\ b \notin Owning
      <4>1. b = "delay" \/ b = "done"
        OBVIOUS
      <4>. HIDE DEF b
      <4>. QED
        BY <4>1 DEF R!Labels, R!Looking, Owning
    <3>. HIDE DEF b
    <3>3. rateTokens' \in 0 .. Burst /\ rateLast' \in rateLast .. rateNow
          /\ rateTokens' - rateTokens <= rateLast' - rateLast
      BY <1>1, <2>1, <3>1 DEF RateNumbers, RateConfigured
    <3>. QED
      BY <1>3, <2>2, <3>1, <3>2, <3>3
  <2>. QED
    BY <2>3, <2>4
<1>5. ASSUME NEW c \in Callers, R!Refund(c) PROVE RateInv'
  <2>1. /\ rateTokens' = R!Capped(rateAsked[c])
        /\ rateAllowed' = IF rateAllowed > 0 THEN rateAllowed - 1 ELSE 0
        /\ R!Goto(c, "done") /\ ratePc[c] = "refund"
        /\ UNCHANGED <<rateLast, rateNow, rateDead, rateAsked, rateResets, rateStatResets>>
    BY <1>5 DEF R!Refund, R!At
  <2>2. "done" \in R!Labels /\ "done" \notin Owning /\ ratePc[c] \in Owning /\
        rateAsked[c] \in 0 .. Burst
    BY <1>1, <2>1 DEF R!Labels, Owning, RateCalls
  <2>3. /\ Cardinality(R!Owners') = m - 1 /\ m >= 1
        /\ Cardinality(R!Taken') = t - rateAsked[c]
    BY <1>1, <2>1, <2>2, RateGives
  <2>4. R!Capped(rateAsked[c]) \in 0 .. Burst /\ R!Capped(rateAsked[c]) <= rateTokens + rateAsked[c]
    BY <1>1, <2>2, RateMin DEF R!Capped, RateNumbers, RateConfigured
  <2>5. RateCalls'
    BY <1>1, <2>1, <2>2, RateMove DEF RateCalls
  <2>6. RateNumbers'
    BY <1>1, <2>1, <2>4 DEF RateNumbers, RateConfigured
  <2>8. /\ rateTokens + t <= Burst + rateLast + Burst * rateResets
        /\ rateTokens' <= rateTokens + rateAsked[c]
        /\ rateStatResets = 0 => rateAllowed = m
    BY <1>1, <2>1, <2>4 DEF RateSums
  <2>9. /\ rateTokens \in Nat /\ rateTokens' \in Nat /\ rateAsked[c] \in Nat /\ t \in Nat
        /\ rateLast \in Nat /\ Burst \in Nat /\ Burst * rateResets \in Nat
    BY <1>1, <1>2, <2>1, <2>2, <2>4 DEF RateNumbers, RateConfigured
  <2>10. rateTokens' + (t - rateAsked[c]) <= Burst + rateLast + Burst * rateResets
    BY <2>8, <2>9, RateReturned
  <2>11. rateStatResets = 0 => rateAllowed' = m - 1
    BY <1>1, <2>1, <2>3, <2>8 DEF RateNumbers
  <2>7. RateSums'
    BY <2>1, <2>3, <2>10, <2>11 DEF RateSums
  <2>. QED
    BY <2>5, <2>6, <2>7, RateSumsSameNext
<1>6. ASSUME NEW c \in Callers, R!Enter(c) PROVE RateInv'
  <2>1. /\ ratePc[c] = "idle"
        /\ UNCHANGED <<rateTokens, rateLast, rateAllowed, rateNow, rateDead, rateResets,
           rateStatResets>>
    BY <1>6 DEF R!Enter, R!At
  <2>2. PICK b \in {"allow", "check", "try", "done"} :
           /\ R!Goto(c, b)
           /\ \/ rateAsked' = rateAsked
               \/ \E n \in 0 .. Burst : rateAsked' = [rateAsked EXCEPT ![c] = n]
    <3>1. 1 \in 0 .. Burst /\ \A n \in 1 .. Burst : n \in 0 .. Burst
      BY DEF RateConfigured
    <3>. QED
      BY <1>6, <3>1 DEF R!Enter
  <2>3. b \in R!Labels /\ b \notin Owning /\ ratePc[c] \notin Owning
    BY <2>1 DEF R!Labels, R!Looking, Owning
  <2>4. rateTokens' \in 0 .. Burst /\ rateLast' \in rateLast .. rateNow
        /\ rateTokens' - rateTokens <= rateLast' - rateLast
    BY <1>1, <2>1 DEF RateNumbers
  <2>. QED
    BY <1>3, <2>1, <2>2, <2>3, <2>4
<1>7. ASSUME NEW c \in Callers, R!Check(c) \/ R!Delay(c) \/ R!Wake(c) \/ R!Recheck(c) \/ R!Finish(c)
      PROVE  RateInv'
  <2>1. R!Refilled \in 0 .. Burst /\ R!Refilled <= rateTokens + (rateNow - rateLast)
    BY <1>1, RateRefilled
  <2>2. /\ UNCHANGED <<rateAllowed, rateNow, rateDead, rateAsked, rateResets, rateStatResets>>
        /\ \/ rateTokens' = rateTokens /\ rateLast' = rateLast
           \/ rateTokens' = R!Refilled /\ rateLast' = rateNow
    BY <1>7 DEF R!Check, R!Delay, R!Wake, R!Recheck, R!Finish
  <2>3. \E b \in R!Labels : R!Goto(c, b) /\ (b \in Owning <=> ratePc[c] \in Owning)
    BY <1>7 DEF R!Check, R!Delay, R!Wake, R!Recheck, R!Finish, R!At, R!Labels, R!Looking, Owning
  <2>4. rateTokens' \in 0 .. Burst /\ rateLast' \in rateLast .. rateNow
        /\ rateTokens' - rateTokens <= rateLast' - rateLast
    BY <1>1, <2>1, <2>2 DEF RateNumbers, RateConfigured
  <2>. QED
    BY <1>3, <2>2, <2>3, <2>4
<1>8. ASSUME R!Tokens \/ R!Reset \/ R!ResetStats \/ R!Tick \/ UNCHANGED R!vars PROVE RateInv'
  <2>1. R!Refilled \in 0 .. Burst /\ R!Refilled <= rateTokens + (rateNow - rateLast)
    BY <1>1, RateRefilled
  <2>2. UNCHANGED <<rateDead, ratePc, rateAsked>>
    BY <1>8 DEF R!Tokens, R!Reset, R!ResetStats, R!Tick, R!vars
  <2>3. R!Owners' = R!Owners /\ R!Taken' = R!Taken
    BY <2>2 DEF R!Owners, R!Taken
  <2>4. RateCalls'
    BY <1>1, <2>2 DEF RateCalls
  <2>5. RateNumbers'
    BY <1>1, <1>8, <2>1
       DEF RateNumbers, RateConfigured, R!Tokens, R!Reset, R!ResetStats, R!Tick, R!vars
  <2>6. rateTokens' + t <= Burst + rateLast' + Burst * rateResets'
    <3>1. CASE R!Reset
      <4>1. rateTokens' = Burst /\ rateLast' = rateNow /\ rateResets' = rateResets + 1
        BY <3>1 DEF R!Reset
      <4>. QED
        BY <1>1, <1>2, <4>1 DEF RateSums, RateNumbers, RateConfigured
    <3>2. CASE ~R!Reset
      <4>1. rateResets' = rateResets /\ \/ rateTokens' = rateTokens /\ rateLast' = rateLast
                                        \/ rateTokens' = R!Refilled /\ rateLast' = rateNow
        BY <1>8, <3>2 DEF R!Tokens, R!ResetStats, R!Tick, R!vars
      <4>. QED
        BY <1>1, <1>2, <2>1, <4>1 DEF RateSums, RateNumbers, RateConfigured
    <3>. QED
      BY <3>1, <3>2
  <2>7. rateStatResets' = 0 => rateStatResets = 0 /\ rateAllowed' = rateAllowed
    BY <1>1, <1>8 DEF RateNumbers, R!Tokens, R!Reset, R!ResetStats, R!Tick, R!vars
  <2>8. RateSums'
    BY <1>1, <2>3, <2>6, <2>7 DEF RateSums
  <2>. QED
    BY <2>4, <2>5, <2>8, RateSumsSameNext
<1>9. ASSUME NEW c \in Callers, R!Cancel(c) PROVE RateInv'
  <2>1. /\ rateDead' = rateDead \cup {c}
        /\ UNCHANGED <<rateTokens, rateLast, rateAllowed, rateNow, ratePc, rateAsked, rateResets,
                       rateStatResets>>
    BY <1>9 DEF R!Cancel
  <2>2. R!Owners' = R!Owners /\ R!Taken' = R!Taken
    BY <2>1 DEF R!Owners, R!Taken
  <2>. QED
    BY <1>1, <2>1, <2>2, RateSumsSameNext DEF RateNumbers, RateCalls, RateSums
<1>. QED
  BY <1>4, <1>5, <1>6, <1>7, <1>8, <1>9 DEF R!Next, R!Rest

LEMMA RateInvariant == ASSUME RateConfigured PROVE Spec => [](package = "rate" => RateInv)
<1>1. Init => (package = "rate" => RateInv)
  BY RateInit, StartOfPackage
<1>2. (package = "rate" => RateInv) /\ [Next]_vars => (package = "rate" => RateInv)'
  BY RateStep, StepOfPackage
<1>. QED
  BY <1>1, <1>2, PTL DEF Spec

LEMMA RateBalances == RateConfigured /\ RateInv => R!TypeOK /\ R!NoTokenMade /\ R!AllowedExact
  BY DEF RateInv, RateNumbers, RateCalls, R!TypeOK

HIDE DEF rateTokens, rateLast, rateAllowed, rateNow, rateDead, ratePc, rateAsked,
         rateResets, rateStatResets

-----------------------------------------------------------------------------
(* toutx.Execute: a result that was there before the timeout context ended *)
(* is returned, and an error names what happened.                          *)

timeoutParent == x1
timeoutCtx    == x2
timeoutFn     == x3
timeoutRet    == x4
timeoutPc     == x5
timeoutAnswer == x6
timeoutEarly  == x7
USE DEF timeoutParent, timeoutCtx, timeoutFn, timeoutRet, timeoutPc, timeoutAnswer, timeoutEarly

\* The timeout context ends with its deadline or as its parent did.
ContextsAgree == timeoutCtx = "canceled" => timeoutParent = "canceled"

\* The goroutine: what it returned is there once it sends.
FunctionInv ==
  /\ timeoutPc = "start" => timeoutFn = "off" /\ timeoutAnswer = "none"
  /\ timeoutFn = "off" => timeoutPc \in {"start", "done"}
  /\ timeoutFn = "off" => timeoutAnswer # "own"
  /\ timeoutFn \in {"sending", "sent"} => timeoutRet \in T!Returns
  /\ timeoutEarly => timeoutFn = "sent"
  /\ timeoutPc \notin {"start", "done"} => timeoutAnswer = "none"

\* What each look at a context leaves true, whatever the contexts do after it.
LookInv ==
  /\ timeoutPc = "recheck" => timeoutCtx # "none"
  /\ timeoutPc = "cause" => timeoutCtx # "none" /\ ~timeoutEarly
  /\ timeoutPc \in {"normalize", "parentLive", "tctxLive", "parentDone", "expired", "whose"}
       => timeoutFn = "sent"
  /\ timeoutPc \in {"parentLive", "tctxLive", "parentDone"} => timeoutRet = "canceled"
  /\ timeoutPc \in {"expired", "whose"} => timeoutRet = "deadline"
  /\ timeoutPc = "parentDone" => timeoutParent # "none" \/ timeoutCtx # "none"
  /\ timeoutPc = "whose" => timeoutCtx # "none"

\* A call that got a result and does not return it was told of the end of a context by
\* it; one that got none returned after the timeout context had ended.
GivenInv ==
  timeoutPc = "done" =>
    /\ timeoutAnswer = "own" => timeoutFn = "sent"
    /\ timeoutAnswer # "own" =>
         \/ timeoutFn = "off"
         \/ timeoutCtx # "none" /\ ~timeoutEarly
         \/ timeoutFn = "sent" /\ timeoutRet \in T!CtxErrs
    /\ timeoutAnswer = "ErrCancelled" => timeoutParent # "none"
    /\ timeoutAnswer = "ErrDeadlineExceeded" => timeoutCtx = "deadline"

TimeoutInv == T!TypeOK /\ ContextsAgree /\ FunctionInv /\ LookInv /\ GivenInv

LEMMA TimeoutInit == ASSUME T!Init PROVE TimeoutInv
  BY DEF T!Init, TimeoutInv, T!TypeOK, ContextsAgree, FunctionInv, LookInv, GivenInv

LEMMA TimeoutNext == ASSUME TimeoutInv, [T!Next]_(T!vars) PROVE TimeoutInv'
<1>. USE DEF TimeoutInv, T!TypeOK, ContextsAgree, FunctionInv, LookInv, GivenInv,
             T!CtxErrs, T!Returns, T!Answers
<1>1. CASE T!Start
  <2>1. CASE timeoutParent # "none"
    BY <1>1, <2>1 DEF T!Start, T!Answer
  <2>2. CASE timeoutParent = "none"
    BY <1>1, <2>2 DEF T!Start, T!Goto
  <2>. QED
    BY <2>1, <2>2
<1>2. CASE T!Return
  BY <1>2 DEF T!Return
<1>3. CASE T!Send
  <2>1. CASE timeoutCtx = "none"
    BY <1>3, <2>1 DEF T!Send
  <2>2. CASE timeoutCtx # "none"
    BY <1>3, <2>2 DEF T!Send
  <2>. QED
    BY <2>1, <2>2
<1>4. CASE T!Receive
  BY <1>4 DEF T!Receive, T!Goto, T!Looks
<1>5. CASE T!SeeExpiry
  BY <1>5 DEF T!SeeExpiry, T!Goto, T!Looks
<1>6. CASE T!NothingThere
  BY <1>6 DEF T!NothingThere, T!NoResult, T!Goto, T!Looks
<1>7. CASE T!ByCause
  BY <1>7 DEF T!ByCause, T!Answer, T!Looks
<1>8. CASE T!Normalize
  BY <1>8 DEF T!Normalize, T!Goto, T!Answer, T!Looks
<1>9. CASE T!ParentLive
  BY <1>9 DEF T!ParentLive, T!Goto, T!Looks
<1>10. CASE T!TctxLive
  BY <1>10 DEF T!TctxLive, T!Goto, T!Answer, T!Looks
<1>11. CASE T!ParentDone
  BY <1>11 DEF T!ParentDone, T!Answer, T!Looks
<1>12. CASE T!Expired
  BY <1>12 DEF T!Expired, T!Goto, T!Answer, T!Looks
<1>13. CASE T!Whose
  BY <1>13 DEF T!Whose, T!Answer, T!Looks
<1>14. CASE T!ParentEnds
  BY <1>14 DEF T!ParentEnds
<1>15. CASE T!Propagates
  BY <1>15 DEF T!Propagates
<1>16. CASE T!TimeoutFires
  BY <1>16 DEF T!TimeoutFires
<1>17. CASE UNCHANGED T!vars
  BY <1>17 DEF T!vars
<1>. QED
  BY <1>1, <1>2, <1>3, <1>4, <1>5, <1>6, <1>7, <1>8, <1>9, <1>10, <1>11, <1>12, <1>13, <1>14,
     <1>15, <1>16, <1>17 DEF T!Next, T!Rest

LEMMA TimeoutInvariant == Spec => [](package = "timeout" => TimeoutInv)
<1>1. Init => (package = "timeout" => TimeoutInv)
  BY StartOfPackage, TimeoutInit
<1>2. (package = "timeout" => TimeoutInv) /\ [Next]_vars => (package = "timeout" => TimeoutInv)'
  BY StepOfPackage, TimeoutNext
<1>. QED
  BY <1>1, <1>2, PTL DEF Spec

LEMMA TimeoutAnswersTrue == ASSUME TimeoutInv PROVE T!TypeOK /\ T!EarlyResultKept
  BY DEF TimeoutInv, T!TypeOK, FunctionInv, GivenInv, T!EarlyResultKept, T!CtxErrs, T!Returns,
         T!Answers

HIDE DEF timeoutParent, timeoutCtx, timeoutFn, timeoutRet, timeoutPc, timeoutAnswer, timeoutEarly

-----------------------------------------------------------------------------
(* signalx: no signal is lost, and a Wait runs the hooks that were there   *)
(* when the context ended, or says that its time was up.                   *)

downHooks   == x1
downCh      == x2
downDone    == x3
downWatcher == x4
downPc      == x5
downAll     == x6
downNext    == x7
downEnded   == x8
downTimed   == x9
downDue     == x10
downTrapped == x11
USE DEF downHooks, downCh, downDone, downWatcher, downPc, downAll, downNext, downEnded, downTimed,
        downDue, downTrapped

\* A goroutine registers a hook or waits, and only Waits have deadlines.
ShutdownConfigured == Others \cap ShutdownWaits = {} /\ BoundedWaits \subseteq ShutdownWaits

DownTypes ==
  /\ downHooks \in Seq(Others) /\ downDue \subseteq Others
  /\ downPc \in [Others \cup ShutdownWaits -> {"idle", "loop", "hook", "after", "done"}]
  /\ downAll \in [ShutdownWaits -> Seq(Others \cup ShutdownWaits)]
  /\ downNext \in [ShutdownWaits -> Nat]
DownFlags ==
  /\ downCh \in BOOLEAN /\ downDone \in BOOLEAN /\ downTrapped \in BOOLEAN
  /\ downWatcher \in {"starting", "select", "cancel", "stop", "gone"}
  /\ downEnded \in [ShutdownWaits -> BOOLEAN] /\ downTimed \in [ShutdownWaits -> BOOLEAN]

LEMMA DownTypeOK == D!TypeOK <=> DownTypes /\ DownFlags
  BY DEF D!TypeOK, DownTypes, DownFlags, D!Hooks

\* The watcher leaves its select only with the context ended or about to, and a signal
\* is in the channel or was received.
WatcherInv ==
  /\ ~downDone => downWatcher \in {"starting", "select", "cancel"}
  /\ D!SignalNotLost

\* The hooks that are due are registered, and every Wait that has begun has them in its
\* list, with its own hook at the end.
HookAt(s, h) == \E i \in 1 .. Len(s) : s[i] = h
HooksInv ==
  /\ ~downDone => downDue = {} /\ \A w \in ShutdownWaits : downPc[w] = "idle"
  /\ \A h \in downDue : HookAt(downHooks, h)
  /\ \A w \in ShutdownWaits : downPc[w] # "idle" =>
       /\ \A h \in downDue : HookAt(downAll[w], h)
       /\ Len(downAll[w]) > 0 /\ downAll[w][Len(downAll[w])] = w

\* Where a Wait is in its loop.
WaitInv(w) ==
  /\ downEnded[w] => w \in BoundedWaits
  /\ downTimed[w] => downEnded[w]
  /\ downPc[w] \in {"idle", "loop", "hook"} => ~downTimed[w]
  /\ downPc[w] = "after" /\ ~downTimed[w] => ~D!More(w)
  /\ downPc[w] = "done" => (downTimed[w] <=> downEnded[w]) /\ (~downTimed[w] => ~D!More(w))

WaitsInv == \A w \in ShutdownWaits : WaitInv(w)

DownInv == DownTypes /\ DownFlags /\ WatcherInv /\ HooksInv /\ WaitsInv

-----------------------------------------------------------------------------
(* Lists of hooks. *)

LEMMA DownHasAll ==
  ASSUME NEW I, NEW s \in Seq(I)
  PROVE  /\ D!Range(s) = {h \in I : HookAt(s, h)}
         /\ \A h \in D!Range(s) : HookAt(s, h)
  BY DEF D!Range, HookAt

LEMMA DownAppended ==
  ASSUME NEW I, NEW J, NEW s \in Seq(I), NEW e \in J
  PROVE  /\ Append(s, e) \in Seq(I \cup J)
         /\ Len(Append(s, e)) > 0 /\ Append(s, e)[Len(Append(s, e))] = e
         /\ \A h : HookAt(s, h) => HookAt(Append(s, e), h)
<1>1. Append(s, e) \in Seq(I \cup J) /\ Len(Append(s, e)) = Len(s) + 1 /\ Len(s) \in Nat
  OBVIOUS
<1>2. Append(s, e)[Len(s) + 1] = e /\ \A i \in 1 .. Len(s) : Append(s, e)[i] = s[i]
  OBVIOUS
<1>3. ASSUME NEW h, HookAt(s, h) PROVE HookAt(Append(s, e), h)
  <2>1. PICK i \in 1 .. Len(s) : s[i] = h
    BY <1>3 DEF HookAt
  <2>2. i \in 1 .. Len(Append(s, e)) /\ Append(s, e)[i] = h
    BY <1>1, <1>2, <2>1
  <2>. QED
    BY <2>2 DEF HookAt
<1>. QED
  BY <1>1, <1>2, <1>3

LEMMA DownInit == ASSUME D!Init, ShutdownConfigured PROVE DownInv
<1>1. DownTypes
  <2>1. \A I : <<>> \in Seq(I)
    OBVIOUS
  <2>. QED
    BY <2>1 DEF D!Init, DownTypes
<1>5. DownFlags
  BY DEF D!Init, DownFlags
<1>2. WatcherInv
  BY DEF D!Init, WatcherInv, D!SignalNotLost
<1>3. HooksInv
  BY DEF D!Init, HooksInv
<1>4. WaitsInv
  BY DEF D!Init, WaitsInv, WaitInv
<1>. QED
  BY <1>1, <1>2, <1>3, <1>4, <1>5 DEF DownInv

\* A step that leaves a part of the state alone keeps what is said of it.
LEMMA DownSameWaits ==
  ASSUME WaitsInv, UNCHANGED <<downAll, downNext, downEnded, downTimed>>,
         \A w \in ShutdownWaits : downPc'[w] = downPc[w]
  PROVE  WaitsInv'
  BY DEF WaitsInv, WaitInv, D!More

LEMMA DownEnding ==
  ASSUME DownInv, D!EndContext, UNCHANGED <<downHooks, downPc, downAll>>
  PROVE  HooksInv'
<1>1. CASE downDone
  BY <1>1 DEF DownInv, DownFlags, D!EndContext, HooksInv
<1>2. CASE ~downDone
  <2>1. downDue' = D!Range(downHooks) /\ downDone' = TRUE
    BY <1>2 DEF D!EndContext
  <2>2. \A h \in downDue' : HookAt(downHooks, h)
    BY <2>1, DownHasAll DEF DownInv, DownTypes
  <2>. QED
    BY <1>2, <2>1, <2>2 DEF DownInv, HooksInv
<1>. QED
  BY <1>1, <1>2

\* The registry and the watcher.
LEMMA DownRegistryStep ==
  ASSUME DownInv, ShutdownConfigured, (\E g \in Others : D!OnShutdown(g)) \/ D!ResetHooks
  PROVE  DownInv'
<1>1. CASE D!ResetHooks
  <2>1. DownTypes' /\ DownFlags'
    BY <1>1 DEF DownInv, DownTypes, DownFlags, D!ResetHooks, D!signals, D!waits
  <2>2. WatcherInv'
    BY <1>1 DEF DownInv, WatcherInv, D!SignalNotLost, D!ResetHooks, D!signals
  <2>3. HooksInv'
    BY <1>1 DEF DownInv, HooksInv, D!ResetHooks, D!signals, D!waits
  <2>4. WaitsInv'
    BY <1>1, DownSameWaits DEF DownInv, D!ResetHooks, D!waits
  <2>. QED
    BY <2>1, <2>2, <2>3, <2>4 DEF DownInv
<1>2. ASSUME NEW g \in Others, D!OnShutdown(g) PROVE DownInv'
  <2>. USE <1>2 DEF D!OnShutdown, D!signals
  <2>1. downHooks' = Append(downHooks, g) /\ downHooks \in Seq(Others)
    BY DEF DownInv, DownTypes
  <2>2. downHooks' \in Seq(Others) /\ \A h : HookAt(downHooks, h) => HookAt(downHooks', h)
    BY <2>1, DownAppended, Others \cup Others = Others
  <2>3. downPc' = [downPc EXCEPT ![g] = "done"] /\ \A w \in ShutdownWaits : downPc'[w] = downPc[w]
    BY DEF DownInv, DownTypes, D!Goto, ShutdownConfigured
  <2>4. DownTypes' /\ DownFlags'
    BY <2>2, <2>3 DEF DownInv, DownTypes, DownFlags
  <2>5. WatcherInv'
    BY DEF DownInv, WatcherInv, D!SignalNotLost
  <2>6. HooksInv'
    BY <2>2, <2>3 DEF DownInv, HooksInv
  <2>7. WaitsInv'
    BY <2>3, DownSameWaits DEF DownInv
  <2>. QED
    BY <2>4, <2>5, <2>6, <2>7 DEF DownInv
<1>. QED
  BY <1>1, <1>2

LEMMA DownWatcherStep ==
  ASSUME DownInv,
         D!Signal \/ D!Watch \/ D!Receive \/ D!WatcherCancels \/ D!SeeDone \/ D!Stop \/ D!Cancel
  PROVE  DownInv'
<1>. USE DEF D!Signal, D!Deliver, D!Watch, D!Receive, D!WatcherCancels, D!SeeDone, D!Stop, D!Cancel
<1>1. UNCHANGED <<downHooks, downPc, downAll, downNext, downEnded, downTimed>>
  BY DEF D!waits
<1>2. D!EndContext \/ UNCHANGED <<downDue, downDone>>
  OBVIOUS
<1>3. D!EndContext => downDue' \subseteq Others /\ downDone' = TRUE
  BY DownHasAll DEF DownInv, DownTypes, D!EndContext
<1>4. DownTypes'
  BY <1>1, <1>2, <1>3 DEF DownInv, DownTypes
<1>5. DownFlags'
  BY <1>1, <1>2, <1>3 DEF DownInv, DownFlags
<1>6. WatcherInv'
  BY <1>2, <1>3 DEF DownInv, DownFlags, WatcherInv, D!SignalNotLost
<1>7. HooksInv'
  BY <1>1, <1>2, DownEnding DEF DownInv, HooksInv
<1>8. WaitsInv'
  BY <1>1, DownSameWaits DEF DownInv
<1>. QED
  BY <1>4, <1>5, <1>6, <1>7, <1>8 DEF DownInv

-----------------------------------------------------------------------------
(* A Wait. *)

LEMMA DownWaitStep ==
  ASSUME DownInv, ShutdownConfigured, NEW w \in ShutdownWaits,
         D!Collect(w) \/ D!Loop(w) \/ D!RunHook(w) \/ D!After(w) \/ D!Deadline(w)
  PROVE  DownInv'
<1>. USE DEF D!At, D!Goto
<1>1. UNCHANGED <<downHooks, downDue, downCh, downDone, downWatcher, downTrapped>>
  BY DEF D!Collect, D!Loop, D!RunHook, D!After, D!Deadline, D!signals
<1>2. WatcherInv'
  BY <1>1 DEF DownInv, WatcherInv, D!SignalNotLost
<1>3. \A u \in ShutdownWaits \ {w} :
        UNCHANGED <<downPc[u], downAll[u], downNext[u], downEnded[u], downTimed[u]>>
  BY DEF D!Collect, D!Loop, D!RunHook, D!After, D!Deadline, DownInv, DownTypes, DownFlags
<1>4. \A u \in ShutdownWaits \ {w} : WaitInv(u)'
  BY <1>3 DEF DownInv, WaitsInv, WaitInv, D!More
<1>5. CASE D!Collect(w)
  <2>. USE <1>5 DEF D!Collect
  <2>1. downAll' = [downAll EXCEPT ![w] = Append(downHooks, w)] /\ downHooks \in Seq(Others)
    BY DEF DownInv, DownTypes
  <2>2. /\ Append(downHooks, w) \in Seq(Others \cup ShutdownWaits)
        /\ Len(Append(downHooks, w)) > 0 /\ Append(downHooks, w)[Len(Append(downHooks, w))] = w
        /\ \A h : HookAt(downHooks, h) => HookAt(Append(downHooks, w), h)
    BY <2>1, DownAppended
  <2>3. DownTypes'
    BY <1>1, <2>1, <2>2 DEF DownInv, DownTypes
  <2>4. DownFlags'
    BY <1>1 DEF DownInv, DownFlags
  <2>5. downAll'[w] = Append(downHooks, w) /\ downPc'[w] = "loop"
    BY <2>1 DEF DownInv, DownTypes
  <2>6. HooksInv'
    BY <1>1, <1>3, <2>2, <2>5 DEF DownInv, HooksInv
  <2>7. WaitInv(w)'
    BY <2>5 DEF DownInv, WaitsInv, WaitInv
  <2>. QED
    BY <1>2, <1>4, <2>3, <2>4, <2>6, <2>7 DEF DownInv, WaitsInv
<1>6. CASE D!Loop(w) \/ D!RunHook(w) \/ D!After(w) \/ D!Deadline(w)
  <2>1. downAll' = downAll /\ downPc[w] # "idle"
    BY <1>6 DEF D!Loop, D!RunHook, D!After, D!Deadline
  <2>2. DownTypes'
    <3>1. downPc' \in [Others \cup ShutdownWaits -> {"idle", "loop", "hook", "after", "done"}]
      BY <1>6 DEF DownInv, DownTypes, D!Loop, D!RunHook, D!After, D!Deadline
    <3>2. downNext' \in [ShutdownWaits -> Nat]
      BY <1>6 DEF DownInv, DownTypes, D!Loop, D!RunHook, D!After, D!Deadline
    <3>. QED
      BY <1>1, <2>1, <3>1, <3>2 DEF DownInv, DownTypes
  <2>3. DownFlags'
    BY <1>1, <1>6 DEF DownInv, DownFlags, D!Loop, D!RunHook, D!After, D!Deadline, D!Overrun, D!More
  <2>4. HooksInv'
    BY <1>1, <1>3, <2>1 DEF DownInv, HooksInv
  <2>5. ASSUME D!Loop(w) PROVE WaitInv(w)'
    BY <2>5 DEF D!Loop, DownInv, DownTypes, DownFlags, WaitsInv, WaitInv, D!More
  <2>6. ASSUME D!RunHook(w) PROVE WaitInv(w)'
    BY <2>6 DEF D!RunHook, DownInv, DownTypes, DownFlags, WaitsInv, WaitInv, D!More
  <2>7. ASSUME D!After(w) PROVE WaitInv(w)'
    BY <2>7 DEF D!After, D!Overrun, DownInv, DownTypes, DownFlags, WaitsInv, WaitInv, D!More
  <2>8. ASSUME D!Deadline(w) PROVE WaitInv(w)'
    BY <2>8 DEF D!Deadline, DownInv, DownTypes, DownFlags, WaitsInv, WaitInv, D!More
  <2>9. WaitInv(w)'
    BY <1>6, <2>5, <2>6, <2>7, <2>8
  <2>. QED
    BY <1>2, <1>4, <2>2, <2>3, <2>4, <2>9 DEF DownInv, WaitsInv
<1>. QED
  BY <1>5, <1>6

LEMMA DownStep == ASSUME ShutdownConfigured, DownInv, [D!Next]_(D!vars) PROVE DownInv'
<1>1. CASE UNCHANGED D!vars
  BY <1>1 DEF D!vars, D!signals, D!waits, DownInv, DownTypes, DownFlags, WatcherInv, HooksInv,
              WaitsInv, WaitInv, D!SignalNotLost, D!More
<1>. QED
  BY <1>1, DownRegistryStep, DownWatcherStep, DownWaitStep DEF D!Next, D!Rest

LEMMA ShutdownInvariant ==
  ASSUME ShutdownConfigured PROVE Spec => [](package = "shutdown" => DownInv)
<1>1. Init => (package = "shutdown" => DownInv)
  BY StartOfPackage, DownInit
<1>2. (package = "shutdown" => DownInv) /\ [Next]_vars => (package = "shutdown" => DownInv)'
  BY StepOfPackage, DownStep
<1>. QED
  BY <1>1, <1>2, PTL DEF Spec

LEMMA ShutdownAnswersTrue ==
  ASSUME DownInv PROVE D!TypeOK /\ D!HooksRunOrReported /\ D!SignalNotLost
<1>1. ASSUME NEW w \in ShutdownWaits, downPc[w] # "idle"
      PROVE  downDue \subseteq D!Range(downAll[w]) /\ downAll[w][Len(downAll[w])] = w
  <2>1. downAll[w] \in Seq(Others \cup ShutdownWaits) /\ downDue \subseteq Others
    BY DEF DownInv, DownTypes
  <2>2. D!Range(downAll[w]) = {h \in Others \cup ShutdownWaits : HookAt(downAll[w], h)}
    BY <2>1, DownHasAll
  <2>. QED
    BY <1>1, <2>1, <2>2 DEF DownInv, HooksInv
<1>2. D!HooksRunOrReported
  BY <1>1 DEF D!HooksRunOrReported, D!At, DownInv, WaitsInv, WaitInv
<1>. QED
  BY <1>2, DownTypeOK DEF DownInv, WatcherInv

HIDE DEF downHooks, downCh, downDone, downWatcher, downPc, downAll, downNext, downEnded, downTimed,
         downDue, downTrapped

-----------------------------------------------------------------------------
(* healthx.Readiness: an entry of the report is the result of a check of   *)
(* its name, or a timeout if there was none when the deadline was seen.    *)

healthDown       == x1
healthExpired    == x2
healthOverdue    == x3
healthDropped    == x4
healthStep       == x5
healthResult     == x6
healthResults    == x7
healthComponents == x8
healthPc         == x9
healthReport     == x10
healthOnTime     == x11
USE DEF healthDown, healthExpired, healthOverdue, healthDropped, healthStep, healthResult,
        healthResults, healthComponents, healthPc, healthReport, healthOnTime

\* A checker has some number of checks, under any names.
HealthConfigured == HealthChecks \in Nat

LEMMA HealthCards == \A Z : C!Cardinality(Z) = Cardinality(Z)
  BY DEF C!Cardinality, Cardinality

Verdicts == {"up", "unhealthy", "timeout"}
HealthTypes ==
  /\ healthOverdue \subseteq C!Checks
  /\ healthStep \in [C!Checks -> {"off", "running", "sending", "sent"}]
  /\ healthResult \in [C!Checks -> Verdicts \cup {"none"}]
  /\ healthResults \in Seq(C!Checks) /\ Len(healthResults) <= HealthChecks
  /\ healthComponents \in [C!Names -> Verdicts \cup {"none"}]
  /\ healthOnTime \subseteq C!Names
HealthFlags ==
  /\ healthDown \in BOOLEAN /\ healthExpired \in BOOLEAN /\ healthDropped \in BOOLEAN
  /\ healthPc \in {"idle", "collect", "drain", "fill", "judge", "done"}
  /\ healthReport \in {"none", "up", "down"}

Waits(c)     == \E i \in 1 .. Len(healthResults) : healthResults[i] = c
HasEntry(n)  == healthComponents[n] # "none"
FromCheck(n) == \E c \in C!Checks : /\ NamesOfChecks[c] = n /\ healthStep[c] = "sent"
                                    /\ healthComponents[n] = healthResult[c]
TimedOut(n)  == healthComponents[n] = "timeout" /\ healthExpired /\ n \notin healthOnTime
NoEntry      == \A n \in C!Names : ~HasEntry(n)

\* A check that has sent its result has one, which waits in the channel or has left an
\* entry under the name of the check.
ChannelInv ==
  /\ \A c \in C!Checks : healthStep[c] \in {"sending", "sent"} => healthResult[c] \in Verdicts
  /\ \A i \in 1 .. Len(healthResults) : healthStep[healthResults[i]] = "sent"
  /\ \A c \in C!Checks : healthStep[c] = "sent" => Waits(c) \/ HasEntry(NamesOfChecks[c])

\* Where the entries come from, before and after fillTimedOut; and what was there when
\* the deadline was seen is drained.
EntriesInv ==
  /\ healthPc = "idle" => NoEntry /\ \A c \in C!Checks : healthStep[c] = "off"
  /\ healthPc \in {"idle", "collect", "drain", "fill"} =>
       \A n \in C!Names : HasEntry(n) => FromCheck(n)
  /\ healthPc \in {"drain", "fill"} => healthExpired
  /\ healthPc = "drain" => \A n \in healthOnTime :
       HasEntry(n) \/ \E c \in C!Checks : NamesOfChecks[c] = n /\ Waits(c)
  /\ healthPc = "fill" => \A n \in healthOnTime : HasEntry(n)
  /\ healthPc = "judge" => \A n \in C!Names : FromCheck(n) \/ TimedOut(n)
  /\ healthPc = "done" => NoEntry \/
       /\ \A n \in C!Names : FromCheck(n) \/ TimedOut(n)
       /\ healthReport = "up" <=> \A n \in C!Names : healthComponents[n] = "up"

HealthInv == HealthTypes /\ HealthFlags /\ ChannelInv /\ EntriesInv

-----------------------------------------------------------------------------
LEMMA HealthInit == ASSUME HealthConfigured, C!Init PROVE HealthInv
<1>1. HealthTypes
  <2>1. healthResults = <<>> /\ <<>> \in Seq(C!Checks) /\ Len(<<>>) = 0
    BY DEF C!Init
  <2>. QED
    BY <2>1 DEF C!Init, HealthTypes, HealthConfigured
<1>2. HealthFlags
  BY DEF C!Init, HealthFlags
<1>3. ChannelInv
  BY DEF C!Init, ChannelInv
<1>4. EntriesInv
  BY DEF C!Init, EntriesInv, HasEntry, NoEntry
<1>. QED
  BY <1>1, <1>2, <1>3, <1>4 DEF HealthInv

\* A step that changes no check, channel or entry.
LEMMA HealthSameChannel ==
  ASSUME ChannelInv, UNCHANGED <<healthStep, healthResult, healthResults, healthComponents>>
  PROVE  /\ ChannelInv'
         /\ \A n : HasEntry(n)' = HasEntry(n) /\ FromCheck(n)' = FromCheck(n)
         /\ \A c : Waits(c)' = Waits(c)
         /\ NoEntry' = NoEntry
  BY DEF ChannelInv, HasEntry, FromCheck, Waits, NoEntry

\* The surroundings, and the ends of the phases.
LEMMA HealthQuietStep ==
  ASSUME HealthConfigured, HealthInv,
         \/ C!MarkDown \/ C!Deadline \/ C!CallerLeaves \/ \E c \in C!Checks : C!Overdue(c)
         \/ C!SeeDeadline \/ C!EndDrain \/ C!Judge \/ UNCHANGED C!vars
  PROVE  HealthInv'
<1>. USE DEF C!MarkDown, C!Deadline, C!CallerLeaves, C!Overdue, C!SeeDeadline, C!EndDrain, C!Judge,
             C!vars
<1>1. UNCHANGED <<healthStep, healthResult, healthResults, healthComponents>>
  OBVIOUS
<1>2. /\ ChannelInv'
      /\ \A n : HasEntry(n)' = HasEntry(n) /\ FromCheck(n)' = FromCheck(n)
      /\ \A c : Waits(c)' = Waits(c)
      /\ NoEntry' = NoEntry
  BY <1>1, HealthSameChannel DEF HealthInv
<1>3. healthOverdue' \subseteq C!Checks /\ healthOnTime' \subseteq C!Names
  <2>1. C!SeeDeadline => healthOnTime' \subseteq C!Names
    BY DEF C!Names
  <2>. QED
    BY <2>1 DEF HealthInv, HealthTypes
<1>4. HealthTypes'
  BY <1>1, <1>3 DEF HealthInv, HealthTypes
<1>5. HealthFlags'
  BY DEF HealthInv, HealthFlags
<1>6. ASSUME ~C!SeeDeadline, ~C!EndDrain, ~C!Judge PROVE EntriesInv'
  <2>1. UNCHANGED <<healthPc, healthReport, healthOnTime>> /\ (healthExpired => healthExpired')
    BY <1>6
  <2>2. \A n : TimedOut(n) => TimedOut(n)'
    BY <1>1, <2>1 DEF TimedOut
  <2>. QED
    BY <1>1, <1>2, <2>1, <2>2 DEF HealthInv, EntriesInv
<1>7. ASSUME C!SeeDeadline PROVE EntriesInv'
  <2>1. \A n \in healthOnTime' : \E c \in C!Checks : NamesOfChecks[c] = n /\ healthStep[c] = "sent"
    BY <1>7
  <2>2. \A n \in healthOnTime' : HasEntry(n) \/ \E c \in C!Checks : NamesOfChecks[c] = n /\ Waits(c)
    BY <2>1 DEF HealthInv, ChannelInv
  <2>3. healthPc' = "drain" /\ healthPc = "collect" /\ healthExpired'
    BY <1>7
  <2>. QED
    BY <1>2, <2>2, <2>3 DEF HealthInv, EntriesInv
<1>8. ASSUME C!EndDrain PROVE EntriesInv'
  <2>1. healthResults = <<>> /\ UNCHANGED <<healthOnTime, healthExpired>>
    BY <1>8 DEF C!Drained
  <2>2. \A c : ~Waits(c)
    BY <2>1 DEF Waits
  <2>3. healthPc' = "fill" /\ healthPc = "drain"
    BY <1>8
  <2>. QED
    BY <1>2, <2>1, <2>2, <2>3 DEF HealthInv, EntriesInv
<1>9. ASSUME C!Judge PROVE EntriesInv'
  <2>1. /\ healthPc' = "done" /\ healthPc = "judge"
        /\ UNCHANGED <<healthOnTime, healthExpired>>
    BY <1>9
  <2>2. \A n \in C!Names : FromCheck(n) \/ TimedOut(n)
    BY <2>1 DEF HealthInv, EntriesInv
  <2>3. \A n \in C!Names : healthComponents[n] \in Verdicts
    BY <2>2 DEF FromCheck, TimedOut, HealthInv, ChannelInv, Verdicts
  <2>4. healthReport' = "up" <=> \A n \in C!Names : healthComponents'[n] = "up"
    BY <1>1, <1>9, <2>3 DEF C!Bad, Verdicts
  <2>5. \A n \in C!Names : TimedOut(n)' = TimedOut(n)
    BY <1>1, <2>1 DEF TimedOut
  <2>. QED
    BY <1>2, <2>1, <2>2, <2>4, <2>5 DEF EntriesInv
<1>. QED
  BY <1>2, <1>4, <1>5, <1>6, <1>7, <1>8, <1>9 DEF HealthInv

LEMMA HealthBeginStep == ASSUME HealthConfigured, HealthInv, C!Begin PROVE HealthInv'
<1>. USE DEF C!Begin
<1>1. HealthTypes'
  BY DEF HealthInv, HealthTypes
<1>2. HealthFlags'
  BY DEF HealthInv, HealthFlags
<1>3. \A c \in C!Checks : healthStep[c] = "off"
  BY DEF HealthInv, EntriesInv
<1>4. ~Waits(1) /\ Len(healthResults) = 0
  <2>1. \A i \in 1 .. Len(healthResults) : FALSE
    BY <1>3 DEF HealthInv, HealthTypes, ChannelInv
  <2>2. Len(healthResults) \in Nat
    BY DEF HealthInv, HealthTypes
  <2>3. ~(1 <= Len(healthResults))
    BY <2>1, <2>2
  <2>. QED
    BY <2>2, <2>3 DEF Waits
<1>5. \A c \in C!Checks : healthStep'[c] \in {"off", "running"}
  BY <1>3 DEF HealthInv, HealthTypes
<1>6. ChannelInv'
  BY <1>4, <1>5 DEF ChannelInv
<1>7. NoEntry'
  BY DEF HealthInv, EntriesInv, NoEntry, HasEntry
<1>8. EntriesInv'
  BY <1>7 DEF EntriesInv, NoEntry
<1>. QED
  BY <1>1, <1>2, <1>6, <1>8 DEF HealthInv

-----------------------------------------------------------------------------
(* A check. *)

LEMMA HealthEndStep ==
  ASSUME HealthConfigured, HealthInv, NEW c \in C!Checks, C!EndCheck(c) PROVE HealthInv'
<1>. USE DEF C!EndCheck
<1>1. PICK v \in Verdicts : healthResult' = [healthResult EXCEPT ![c] = v]
  BY DEF C!Verdict, Verdicts
<1>2. HealthTypes'
  BY <1>1 DEF HealthInv, HealthTypes
<1>3. HealthFlags'
  BY DEF HealthInv, HealthFlags
<1>4. \A d \in C!Checks : healthStep'[d] = "sent" <=> healthStep[d] = "sent"
  BY DEF HealthInv, HealthTypes
<1>5. \A d \in C!Checks : healthStep[d] = "sent" => healthResult'[d] = healthResult[d]
  BY <1>1 DEF HealthInv, HealthTypes
<1>6. /\ \A n : HasEntry(n)' = HasEntry(n) /\ TimedOut(n)' = TimedOut(n)
      /\ \A d : Waits(d)' = Waits(d)
      /\ NoEntry' = NoEntry
  BY DEF HasEntry, Waits, NoEntry, TimedOut
<1>7. \A n : FromCheck(n) => FromCheck(n)'
  BY <1>4, <1>5 DEF FromCheck
<1>8. ChannelInv'
  <2>1. \A d \in C!Checks : healthStep'[d] \in {"sending", "sent"} => healthResult'[d] \in Verdicts
    BY <1>1 DEF HealthInv, HealthTypes, ChannelInv
  <2>2. \A i \in 1 .. Len(healthResults) : healthResults[i] \in C!Checks
    BY DEF HealthInv, HealthTypes
  <2>. QED
    BY <1>4, <1>6, <2>1, <2>2 DEF HealthInv, ChannelInv
<1>9. healthPc # "idle"
  BY DEF HealthInv, EntriesInv
<1>10. EntriesInv'
  BY <1>6, <1>7, <1>9 DEF HealthInv, EntriesInv
<1>. QED
  BY <1>2, <1>3, <1>8, <1>10 DEF HealthInv

LEMMA HealthSendStep ==
  ASSUME HealthConfigured, HealthInv, NEW c \in C!Checks, C!Send(c) PROVE HealthInv'
<1>. USE DEF C!Send
<1>1. /\ healthResults' \in Seq(C!Checks) /\ Len(healthResults') = Len(healthResults) + 1
      /\ Len(healthResults) \in Nat /\ healthResults'[Len(healthResults) + 1] = c
      /\ \A i \in 1 .. Len(healthResults) : healthResults'[i] = healthResults[i]
  BY DEF HealthInv, HealthTypes
<1>2. HealthTypes'
  BY <1>1 DEF HealthInv, HealthTypes, HealthConfigured
<1>3. HealthFlags'
  BY DEF HealthInv, HealthFlags
<1>4. \A d \in C!Checks : healthStep'[d] = IF d = c THEN "sent" ELSE healthStep[d]
  BY DEF HealthInv, HealthTypes
<1>5. Waits(c)' /\ \A d : Waits(d) => Waits(d)'
  BY <1>1 DEF Waits
<1>6. /\ \A n : HasEntry(n)' = HasEntry(n) /\ TimedOut(n)' = TimedOut(n)
      /\ NoEntry' = NoEntry
  BY DEF HasEntry, NoEntry, TimedOut
<1>7. \A n : FromCheck(n) => FromCheck(n)'
  BY <1>4 DEF FromCheck
<1>8. ChannelInv'
  <2>1. \A i \in 1 .. Len(healthResults') : healthStep'[healthResults'[i]] = "sent"
    <3>1. \A i \in 1 .. Len(healthResults) : healthResults[i] \in C!Checks
      BY DEF HealthInv, HealthTypes
    <3>. QED
      BY <1>1, <1>4, <3>1 DEF HealthInv, ChannelInv
  <2>. QED
    BY <1>4, <1>5, <1>6, <2>1 DEF HealthInv, ChannelInv
<1>9. healthPc # "idle"
  BY DEF HealthInv, EntriesInv
<1>10. EntriesInv'
  BY <1>5, <1>6, <1>7, <1>9 DEF HealthInv, EntriesInv
<1>. QED
  BY <1>2, <1>3, <1>8, <1>10 DEF HealthInv

-----------------------------------------------------------------------------
(* The collector. *)

\* The head of the channel gets the entry of its name.
LEMMA HealthRecord ==
  ASSUME HealthConfigured, HealthInv, C!Record,
         UNCHANGED <<healthStep, healthResult, healthExpired, healthOnTime, healthOverdue>>
  PROVE  /\ HealthTypes' /\ ChannelInv' /\ Len(healthResults') = Len(healthResults) - 1
         /\ \A n \in C!Names : HasEntry(n) => HasEntry(n)'
         /\ (\A n \in C!Names : HasEntry(n) => FromCheck(n))
              => \A n \in C!Names : HasEntry(n)' => FromCheck(n)'
         /\ \A d : Waits(d) => Waits(d)' \/ (d \in C!Checks /\ HasEntry(NamesOfChecks[d])')
<1>0. /\ healthResults \in Seq(C!Checks) /\ healthResults # <<>>
      /\ Head(healthResults) \in C!Checks
  BY DEF C!Record, HealthInv, HealthTypes
<1>. PICK h \in C!Checks : h = Head(healthResults)
  BY <1>0
<1>1. /\ healthResults \in Seq(C!Checks) /\ Len(healthResults) \in Nat /\ Len(healthResults) > 0
      /\ h = healthResults[1]
      /\ healthResults' \in Seq(C!Checks) /\ Len(healthResults') = Len(healthResults) - 1
      /\ \A i \in 1 .. Len(healthResults') : healthResults'[i] = healthResults[i + 1]
  BY DEF C!Record, HealthInv, HealthTypes
<1>2. healthStep[h] = "sent" /\ healthResult[h] \in Verdicts /\ NamesOfChecks[h] \in C!Names
  BY <1>1 DEF HealthInv, ChannelInv, C!Names
<1>3. healthComponents' = [healthComponents EXCEPT ![NamesOfChecks[h]] = healthResult[h]]
  BY DEF C!Record
<1>4. HealthTypes'
  BY <1>1, <1>2, <1>3 DEF HealthInv, HealthTypes, HealthConfigured
<1>5. /\ healthComponents'[NamesOfChecks[h]] = healthResult[h]
      /\ \A n \in C!Names : n # NamesOfChecks[h] => healthComponents'[n] = healthComponents[n]
  BY <1>2, <1>3 DEF HealthInv, HealthTypes
<1>6. HasEntry(NamesOfChecks[h])' /\ \A n \in C!Names : HasEntry(n) => HasEntry(n)'
  BY <1>2, <1>5 DEF HasEntry, Verdicts
<1>7. ASSUME \A n \in C!Names : HasEntry(n) => FromCheck(n), NEW n \in C!Names, HasEntry(n)'
      PROVE  FromCheck(n)'
  <2>1. CASE n = NamesOfChecks[h]
    BY <1>1, <1>2, <1>5, <2>1 DEF FromCheck
  <2>2. CASE n # NamesOfChecks[h]
    BY <1>5, <1>7, <2>2 DEF FromCheck, HasEntry
  <2>. QED
    BY <2>1, <2>2
<1>8. ASSUME NEW d, Waits(d) PROVE Waits(d)' \/ d = h
  <2>1. PICK i \in 1 .. Len(healthResults) : healthResults[i] = d
    BY <1>8 DEF Waits
  <2>2. CASE i = 1
    BY <1>1, <2>1, <2>2
  <2>3. CASE i # 1
    <3>1. i - 1 \in 1 .. Len(healthResults') /\ (i - 1) + 1 = i
      BY <1>1, <2>3
    <3>. QED
      BY <1>1, <2>1, <3>1 DEF Waits
  <2>. QED
    BY <2>2, <2>3
<1>9. ChannelInv'
  <2>1. \A i \in 1 .. Len(healthResults') : healthStep[healthResults'[i]] = "sent"
    <3>. TAKE i \in 1 .. Len(healthResults')
    <3>1. i + 1 \in 1 .. Len(healthResults) /\ healthResults'[i] = healthResults[i + 1]
      BY <1>1
    <3>. QED
      BY <3>1 DEF HealthInv, ChannelInv
  <2>2. \A d \in C!Checks : NamesOfChecks[d] \in C!Names
    BY DEF C!Names
  <2>. QED
    BY <1>1, <1>6, <1>8, <2>1, <2>2 DEF HealthInv, ChannelInv
<1>. QED
  BY <1>1, <1>4, <1>6, <1>7, <1>8, <1>9

\* If all results have been taken every name has an entry.
LEMMA HealthAllTaken ==
  ASSUME HealthConfigured, HealthTypes, healthResults # <<>>, C!Taken + 1 = HealthChecks
  PROVE  Len(healthResults) = 1 /\ \A c \in C!Checks : healthStep[c] = "sent"
<1>. DEFINE Z == {c \in C!Checks : healthStep[c] = "sent"}
<1>1. IsFiniteSet(C!Checks) /\ Cardinality(C!Checks) = HealthChecks
  BY FS_Interval DEF C!Checks, HealthConfigured
<1>2. /\ Cardinality(Z) \in Nat /\ Cardinality(Z) <= HealthChecks
      /\ Cardinality(Z) = HealthChecks => Z = C!Checks
  BY <1>1, FS_Subset, FS_CardinalityType
<1>3. Len(healthResults) \in Nat /\ Len(healthResults) > 0
  BY DEF HealthTypes
<1>4. Cardinality(Z) - Len(healthResults) + 1 = HealthChecks
  BY HealthCards DEF C!Taken
<1>. HIDE DEF Z
<1>5. Len(healthResults) = 1 /\ Cardinality(Z) = HealthChecks
  <2>1. \A k, m, n \in Nat : k <= n /\ m > 0 /\ k - m + 1 = n => m = 1 /\ k = n
    OBVIOUS
  <2>. QED
    BY <1>2, <1>3, <1>4, <2>1 DEF HealthConfigured
<1>. QED
  BY <1>2, <1>5 DEF Z

LEMMA HealthCollectStep == ASSUME HealthConfigured, HealthInv, C!Collect PROVE HealthInv'
<1>. USE DEF C!Collect
<1>1. UNCHANGED <<healthStep, healthResult, healthExpired, healthOnTime, healthOverdue>>
  OBVIOUS
<1>2. /\ HealthTypes' /\ ChannelInv' /\ Len(healthResults') = Len(healthResults) - 1
      /\ \A n \in C!Names : HasEntry(n)' => FromCheck(n)'
  <2>1. \A n \in C!Names : HasEntry(n) => FromCheck(n)
    BY DEF HealthInv, EntriesInv
  <2>. QED
    BY <1>1, <2>1, HealthRecord
<1>3. HealthFlags'
  BY DEF HealthInv, HealthFlags
<1>4. CASE C!Taken + 1 = HealthChecks
  <2>1. Len(healthResults) = 1 /\ \A c \in C!Checks : healthStep[c] = "sent"
    BY <1>4, HealthAllTaken DEF HealthInv, C!Record
  <2>2. \A c : ~Waits(c)'
    BY <1>2, <2>1 DEF Waits
  <2>3. \A n \in C!Names : HasEntry(n)'
    BY <1>1, <1>2, <2>1, <2>2 DEF ChannelInv, C!Names
  <2>4. healthPc' = "judge"
    BY <1>4
  <2>. QED
    BY <1>2, <1>3, <2>3, <2>4 DEF HealthInv, EntriesInv
<1>5. CASE C!Taken + 1 # HealthChecks
  <2>1. healthPc' = "collect"
    BY <1>5
  <2>. QED
    BY <1>2, <1>3, <2>1 DEF HealthInv, EntriesInv
<1>. QED
  BY <1>4, <1>5

LEMMA HealthDrainStep == ASSUME HealthConfigured, HealthInv, C!Drain PROVE HealthInv'
<1>. USE DEF C!Drain
<1>1. /\ UNCHANGED <<healthStep, healthResult, healthExpired, healthOnTime, healthOverdue>>
      /\ UNCHANGED <<healthPc, healthReport, healthDown, healthDropped>> /\ healthPc = "drain"
  OBVIOUS
<1>2. \A n \in C!Names : HasEntry(n) => FromCheck(n)
  BY <1>1 DEF HealthInv, EntriesInv
<1>3. /\ HealthTypes' /\ ChannelInv'
      /\ \A n \in C!Names : HasEntry(n) => HasEntry(n)'
      /\ \A n \in C!Names : HasEntry(n)' => FromCheck(n)'
      /\ \A d : Waits(d) => Waits(d)' \/ (d \in C!Checks /\ HasEntry(NamesOfChecks[d])')
  BY <1>1, <1>2, HealthRecord
<1>4. HealthFlags'
  BY <1>1 DEF HealthInv, HealthFlags
<1>5. ASSUME NEW n \in healthOnTime
      PROVE  HasEntry(n)' \/ \E c \in C!Checks : NamesOfChecks[c] = n /\ Waits(c)'
  BY <1>1, <1>3 DEF HealthInv, HealthTypes, EntriesInv
<1>6. EntriesInv'
  <2>1. healthExpired
    BY <1>1 DEF HealthInv, EntriesInv
  <2>. QED
    BY <1>1, <1>3, <1>5, <2>1 DEF EntriesInv
<1>. QED
  BY <1>3, <1>4, <1>6 DEF HealthInv

LEMMA HealthFillStep == ASSUME HealthConfigured, HealthInv, C!Fill PROVE HealthInv'
<1>. USE DEF C!Fill
<1>1. UNCHANGED <<healthStep, healthResult, healthResults, healthExpired, healthOnTime>>
  OBVIOUS
<1>2. \A n \in C!Names :
        healthComponents'[n] = IF HasEntry(n) THEN healthComponents[n] ELSE "timeout"
  BY DEF HasEntry
<1>3. HealthTypes'
  BY DEF HealthInv, HealthTypes, Verdicts
<1>4. HealthFlags'
  BY DEF HealthInv, HealthFlags
<1>5. \A n \in C!Names : HasEntry(n)'
  BY <1>2 DEF HasEntry
<1>6. ChannelInv'
  <2>1. \A c \in C!Checks : NamesOfChecks[c] \in C!Names
    BY DEF C!Names
  <2>. QED
    BY <1>1, <1>5, <2>1 DEF HealthInv, ChannelInv
<1>7. ASSUME NEW n \in C!Names PROVE FromCheck(n)' \/ TimedOut(n)'
  <2>1. CASE HasEntry(n)
    BY <1>1, <1>2, <2>1 DEF HealthInv, EntriesInv, FromCheck
  <2>2. CASE ~HasEntry(n)
    BY <1>1, <1>2, <2>2 DEF HealthInv, EntriesInv, TimedOut
  <2>. QED
    BY <2>1, <2>2
<1>8. EntriesInv'
  BY <1>7 DEF EntriesInv
<1>. QED
  BY <1>3, <1>4, <1>6, <1>8 DEF HealthInv

LEMMA HealthNext == ASSUME HealthConfigured, HealthInv, [C!Next]_(C!vars) PROVE HealthInv'
  BY HealthQuietStep, HealthBeginStep, HealthEndStep, HealthSendStep, HealthCollectStep,
     HealthDrainStep, HealthFillStep DEF C!Next, C!Rest

LEMMA HealthInvariant ==
  ASSUME HealthConfigured PROVE Spec => [](package = "health" => HealthInv)
<1>1. Init => (package = "health" => HealthInv)
  BY StartOfPackage, HealthInit
<1>2. (package = "health" => HealthInv) /\ [Next]_vars => (package = "health" => HealthInv)'
  BY StepOfPackage, HealthNext
<1>. QED
  BY <1>1, <1>2, PTL DEF Spec

LEMMA HealthAnswersTrue == ASSUME HealthInv PROVE C!TypeOK /\ C!ResultsNotLost
<1>1. C!TypeOK
  BY DEF HealthInv, HealthTypes, HealthFlags, C!TypeOK, C!Results, C!Bad, C!Overall, Verdicts
<1>2. C!ResultsNotLost
  <2>1. NoEntry => healthComponents = [n \in C!Names |-> "none"]
    BY DEF NoEntry, HasEntry, HealthInv, HealthTypes
  <2>. QED
    BY <2>1 DEF C!ResultsNotLost, HealthInv, EntriesInv, FromCheck, TimedOut
<1>. QED
  BY <1>1, <1>2

HIDE DEF healthDown, healthExpired, healthOverdue, healthDropped, healthStep, healthResult,
         healthResults, healthComponents, healthPc, healthReport, healthOnTime

-----------------------------------------------------------------------------
(* hedgex: a call that waits is owed an answer, ErrAllFailed means that    *)
(* all was tried, and a value is that of the first success taken.          *)

hedgeGiven   == x1
hedgeDead    == x2
hedgeAnswer  == x3
hedgeNext    == x4
hedgeAttempt == x5
hedgePending == x6
hedgeTimer   == x7
hedgeFailed  == x8
hedgeCopy    == x9
hedgeOutcome == x10
hedgeCh      == x11
hedgeReaped  == x12
USE DEF hedgeGiven, hedgeDead, hedgeAnswer, hedgeNext, hedgeAttempt, hedgePending, hedgeTimer,
        hedgeFailed, hedgeCopy, hedgeOutcome, hedgeCh, hedgeReaped

\* A call has some number of entries.
HedgeConfigured == HedgeEntries \in Nat

LEMMA HedgeCards == \A Z : H!Cardinality(Z) = Cardinality(Z)
  BY DEF H!Cardinality, Cardinality

\* H!TypeOK in parts.
HedgeNumbers ==
  /\ hedgeNext \in 1 .. HedgeEntries + 1 /\ hedgeAttempt \in 0 .. HedgeEntries
  /\ hedgePending \in 0 .. HedgeEntries
HedgeFlags ==
  /\ hedgeDead \in BOOLEAN /\ hedgeTimer \in BOOLEAN /\ hedgeFailed \in BOOLEAN
  /\ hedgeAnswer \in H!Answers \cup {"idle", "inline", "waiting"}
HedgeTypes ==
  /\ hedgeGiven \subseteq H!Copies
  /\ hedgeCopy \in [H!Copies -> H!Steps] /\ hedgeOutcome \in [H!Copies -> H!Outcomes \cup {"none"}]
  /\ hedgeCh \in Seq(H!Copies) /\ hedgeReaped \in Seq(H!Copies)

Taken    == {c \in H!Copies : In(c, hedgeReaped)}
Ended(c) == hedgeCopy[c] \in {"sending", "sent", "dropped"}

\* Copies are of entries that are there, and have an outcome once their callback ended.
CopyInv ==
  /\ H!Launched \subseteq hedgeGiven
  /\ \A c \in H!Copies : Ended(c) <=> hedgeOutcome[c] \in H!Outcomes

\* A result that was sent is in the channel or was taken, once.
ResultInv ==
  /\ Distinct(hedgeCh) /\ Distinct(hedgeReaped)
  /\ \A c \in H!Copies : ~(In(c, hedgeCh) /\ In(c, hedgeReaped))
  /\ \A c \in H!Copies : hedgeCopy[c] = "sent" <=> In(c, hedgeCh) \/ In(c, hedgeReaped)
  /\ Cardinality(Taken) = Len(hedgeReaped)

\* The loop has launched the entries before next, and counts those whose result it has
\* not taken; what it took were no successes.
Reached == H!Launched = {c \in hedgeGiven : c < hedgeNext}
Waiting ==
  /\ Reached /\ hedgeAttempt = Cardinality(H!Launched)
  /\ hedgePending > 0 /\ hedgePending = Cardinality(H!Launched) - Len(hedgeReaped)
  /\ \A c \in H!Copies : hedgeCopy[c] = "dropped" => hedgeDead
  /\ \A c \in Taken : hedgeOutcome[c] # "success"
AnsweredTrue ==
  /\ hedgeAnswer = "allFailed" =>
       /\ H!Launched = hedgeGiven \/ (hedgeAttempt = 0 /\ Cardinality(H!Launched) = 1)
       /\ \A c \in H!Launched : hedgeOutcome[c] \in {"failure", "withdrawn"}
  /\ hedgeAnswer = "value" => \A i \in DOMAIN hedgeReaped :
       (hedgeOutcome[hedgeReaped[i]] = "success") <=> (i = Len(hedgeReaped))
PhaseInv ==
  /\ hedgeAnswer = "idle" =>
       /\ H!Launched = {} /\ hedgeNext = 1 /\ hedgeAttempt = 0 /\ hedgeReaped = <<>>
       /\ hedgeCh = <<>>
  /\ hedgeAnswer = "inline" =>
       /\ hedgeAttempt = 0 /\ hedgeReaped = <<>> /\ hedgeCh = <<>>
       /\ \E c \in H!Copies : H!Launched = {c} /\ hedgeCopy[c] = "running"
  /\ hedgeAnswer = "waiting" => Waiting

HedgeInv ==
  HedgeNumbers /\ HedgeFlags /\ HedgeTypes /\ CopyInv /\ ResultInv /\ AnsweredTrue /\ PhaseInv

-----------------------------------------------------------------------------
LEMMA HedgeFinite ==
  ASSUME HedgeConfigured
  PROVE  /\ IsFiniteSet(H!Copies) /\ Cardinality(H!Copies) = HedgeEntries
         /\ \A Z \in SUBSET H!Copies :
              IsFiniteSet(Z) /\ Cardinality(Z) \in Nat /\ Cardinality(Z) <= HedgeEntries
<1>1. IsFiniteSet(H!Copies) /\ Cardinality(H!Copies) = HedgeEntries
  BY FS_Interval DEF H!Copies, HedgeConfigured
<1>. QED
  BY <1>1, FS_Subset, FS_CardinalityType

LEMMA HedgeInit == ASSUME HedgeConfigured, H!Init PROVE HedgeInv
<1>. USE DEF H!Init
<1>1. HedgeNumbers
  BY DEF HedgeNumbers, HedgeConfigured
<1>2. HedgeFlags
  BY DEF HedgeFlags
<1>3. HedgeTypes
  BY EmptyDistinct DEF HedgeTypes, H!Steps
<1>4. \A c \in H!Copies : hedgeCopy[c] = "off" /\ hedgeOutcome[c] = "none"
  OBVIOUS
<1>5. H!Launched = {}
  BY <1>4 DEF H!Launched
<1>6. CopyInv
  BY <1>4, <1>5 DEF CopyInv, Ended, H!Outcomes
<1>7. Taken = {}
  BY EmptyDistinct DEF Taken
<1>8. ResultInv
  BY <1>4, <1>7, EmptyDistinct, FS_EmptySet DEF ResultInv
<1>9. AnsweredTrue
  BY DEF AnsweredTrue
<1>10. PhaseInv
  BY <1>5 DEF PhaseInv
<1>. QED
  BY <1>1, <1>2, <1>3, <1>6, <1>8, <1>9, <1>10 DEF HedgeInv

\* The launch of the next entry.
LEMMA HedgeLaunch ==
  ASSUME HedgeConfigured, HedgeNumbers, HedgeTypes, CopyInv, Reached, H!Left # {}, H!Launch,
         UNCHANGED <<hedgeGiven, hedgeOutcome>>
  PROVE  /\ Reached' /\ Cardinality(H!Launched)' = Cardinality(H!Launched) + 1
         /\ Cardinality(H!Launched) \in Nat /\ Cardinality(H!Launched)' <= HedgeEntries
         /\ hedgeNext' \in 1 .. HedgeEntries + 1
         /\ hedgeAttempt' = hedgeAttempt + 1
         /\ hedgeTimer' \in BOOLEAN
         /\ hedgeCopy' \in [H!Copies -> H!Steps] /\ CopyInv'
         /\ H!Launched \subseteq (H!Launched)'
         /\ \A c \in H!Copies : \/ hedgeCopy'[c] = hedgeCopy[c]
                                \/ hedgeCopy[c] = "off" /\ hedgeCopy'[c] = "running"
<1>1. H!Left \subseteq Nat /\ H!Left \subseteq 1 .. HedgeEntries
  <2>1. H!Left \subseteq hedgeGiven
    BY DEF H!Left
  <2>2. hedgeGiven \subseteq 1 .. HedgeEntries
    BY DEF HedgeTypes, H!Copies
  <2>3. 1 .. HedgeEntries \subseteq Nat
    BY DEF HedgeConfigured
  <2>. QED
    BY <2>1, <2>2, <2>3
<1>2. \E m \in H!Left : \A c \in H!Left : m <= c
  BY <1>1, LeastOf
<1>. PICK m \in H!Left : m = H!Min(H!Left) /\ \A c \in H!Left : m <= c
  BY <1>2 DEF H!Min
<1>3. /\ hedgeCopy' = [hedgeCopy EXCEPT ![m] = "running"] /\ hedgeNext' = m + 1
      /\ hedgeAttempt' = hedgeAttempt + 1 /\ hedgeTimer' \in BOOLEAN
  BY DEF H!Launch
<1>4. m \in hedgeGiven /\ m \in 1 .. HedgeEntries /\ m \in H!Copies /\ m >= hedgeNext
  BY <1>1 DEF H!Left, H!Copies
<1>5. \A c \in hedgeGiven : c < hedgeNext \/ m <= c
  BY DEF H!Left, HedgeNumbers, HedgeTypes, H!Copies
<1>6. m \notin H!Launched /\ hedgeCopy[m] = "off"
  <2>1. m \notin H!Launched
    BY <1>4 DEF Reached, HedgeNumbers
  <2>. QED
    BY <1>4, <2>1 DEF H!Launched
<1>7. hedgeCopy' \in [H!Copies -> H!Steps]
  BY <1>3 DEF HedgeTypes, H!Steps
<1>8. (H!Launched)' = H!Launched \cup {m}
  BY <1>3, <1>4 DEF H!Launched, HedgeTypes
<1>9. Reached'
  <2>1. \A c \in hedgeGiven : c < m + 1 <=> c < hedgeNext \/ c = m
    BY <1>4, <1>5 DEF HedgeNumbers, HedgeTypes, H!Copies
  <2>. QED
    BY <1>3, <1>4, <1>8, <2>1 DEF Reached
<1>10. /\ Cardinality(H!Launched)' = Cardinality(H!Launched) + 1
       /\ Cardinality(H!Launched) \in Nat /\ Cardinality(H!Launched)' <= HedgeEntries
  <2>1. H!Launched \in SUBSET H!Copies /\ H!Launched \cup {m} \in SUBSET H!Copies
    BY <1>4 DEF H!Launched
  <2>. DEFINE Z == H!Launched
  <2>2. (H!Launched)' = Z \cup {m} /\ m \notin Z
         /\ Z \in SUBSET H!Copies /\ Z \cup {m} \in SUBSET H!Copies
    BY <1>6, <1>8, <2>1
  <2>. HIDE DEF Z
  <2>3. IsFiniteSet(Z) /\ Cardinality(Z) \in Nat /\ Cardinality(Z \cup {m}) <= HedgeEntries
    BY <2>2, HedgeFinite
  <2>4. Cardinality(Z \cup {m}) = Cardinality(Z) + 1
    BY <2>2, <2>3, FS_AddElement
  <2>. QED
    BY <2>2, <2>3, <2>4 DEF Z
<1>11. CopyInv'
  BY <1>3, <1>4, <1>6, <1>8 DEF CopyInv, Ended, HedgeTypes
<1>12. hedgeNext' \in 1 .. HedgeEntries + 1
  BY <1>3, <1>4 DEF HedgeConfigured
<1>. QED
  BY <1>3, <1>6, <1>7, <1>8, <1>9, <1>10, <1>11, <1>12 DEF HedgeTypes

\* A step that keeps the sequences and what was sent.
LEMMA HedgeSameResults ==
  ASSUME ResultInv, UNCHANGED <<hedgeCh, hedgeReaped>>,
         \A c \in H!Copies : hedgeCopy'[c] = "sent" <=> hedgeCopy[c] = "sent"
  PROVE  ResultInv' /\ Taken' = Taken
  BY DEF ResultInv, Taken

-----------------------------------------------------------------------------
(* The start of a call. *)

LEMMA HedgeStartStep ==
  ASSUME HedgeConfigured, HedgeInv, H!Refuse \/ H!RunInline \/ H!Dispatch PROVE HedgeInv'
<1>1. /\ hedgeAnswer = "idle" /\ H!Launched = {} /\ hedgeNext = 1 /\ hedgeAttempt = 0
      /\ hedgeReaped = <<>> /\ hedgeCh = <<>>
  BY DEF HedgeInv, PhaseInv, H!Refuse, H!RunInline, H!Dispatch
<1>2. \A c \in H!Copies : hedgeCopy[c] = "off"
  BY <1>1 DEF H!Launched
<1>3. CASE H!Refuse
  <2>. USE <1>3 DEF H!Refuse
  <2>1. HedgeNumbers' /\ HedgeTypes'
    BY DEF HedgeInv, HedgeNumbers, HedgeTypes
  <2>2. HedgeFlags'
    BY DEF HedgeInv, HedgeFlags, H!Answers
  <2>3. CopyInv' /\ ResultInv'
    BY HedgeSameResults DEF HedgeInv, CopyInv, Ended, H!Launched
  <2>4. AnsweredTrue' /\ PhaseInv'
    BY DEF AnsweredTrue, PhaseInv
  <2>. QED
    BY <2>1, <2>2, <2>3, <2>4 DEF HedgeInv
<1>4. CASE H!RunInline
  <2>. USE <1>4 DEF H!RunInline
  <2>1. hedgeGiven \subseteq Nat
    BY DEF HedgeInv, HedgeTypes, H!Copies
  <2>2. \E m \in hedgeGiven : \A c \in hedgeGiven : m <= c
    BY <2>1, LeastOf
  <2>. PICK m \in hedgeGiven : m = H!Min(hedgeGiven)
    BY <2>2 DEF H!Min
  <2>3. hedgeCopy' = [hedgeCopy EXCEPT ![m] = "running"] /\ m \in H!Copies
    BY DEF HedgeInv, HedgeTypes
  <2>4. HedgeNumbers' /\ HedgeFlags'
    BY DEF HedgeInv, HedgeNumbers, HedgeFlags
  <2>5. HedgeTypes'
    BY <2>3 DEF HedgeInv, HedgeTypes, H!Steps
  <2>6. (H!Launched)' = {m} /\ hedgeCopy'[m] = "running"
    BY <1>2, <2>3 DEF HedgeInv, HedgeTypes, H!Launched
  <2>7. CopyInv'
    BY <1>2, <2>3, <2>6 DEF HedgeInv, HedgeTypes, CopyInv, Ended
  <2>8. ResultInv'
    BY <1>2, <2>3, HedgeSameResults DEF HedgeInv, HedgeTypes
  <2>9. AnsweredTrue' /\ PhaseInv'
    BY <1>1, <2>3, <2>6 DEF AnsweredTrue, PhaseInv
  <2>. QED
    BY <2>4, <2>5, <2>7, <2>8, <2>9 DEF HedgeInv
<1>5. CASE H!Dispatch
  <2>. USE <1>5 DEF H!Dispatch
  <2>1. hedgeNext = 1 /\ H!Launched = {}
    BY DEF HedgeInv, PhaseInv
  <2>2. Reached /\ H!Left # {}
    <3>1. \A c \in 1 .. HedgeEntries : c >= 1 /\ ~(c < 1)
      BY DEF HedgeConfigured
    <3>2. \A c \in hedgeGiven : c >= 1 /\ ~(c < 1)
      BY <3>1 DEF HedgeInv, HedgeTypes, H!Copies
    <3>3. hedgeGiven # {}
      BY HedgeCards, FS_EmptySet DEF H!Backends
    <3>4. PICK c \in hedgeGiven : c >= hedgeNext
      BY <2>1, <3>2, <3>3
    <3>5. Reached
      BY <2>1, <3>2 DEF Reached
    <3>6. H!Left # {}
      BY <3>4 DEF H!Left
    <3>. QED
      BY <3>5, <3>6
  <2>3. /\ Reached' /\ Cardinality(H!Launched)' = Cardinality(H!Launched) + 1
        /\ Cardinality(H!Launched)' <= HedgeEntries
        /\ hedgeNext' \in 1 .. HedgeEntries + 1
        /\ hedgeAttempt' = hedgeAttempt + 1
        /\ hedgeTimer' \in BOOLEAN
        /\ hedgeCopy' \in [H!Copies -> H!Steps] /\ CopyInv'
        /\ \A c \in H!Copies : \/ hedgeCopy'[c] = hedgeCopy[c]
                               \/ hedgeCopy[c] = "off" /\ hedgeCopy'[c] = "running"
    BY <2>2, HedgeLaunch DEF HedgeInv
  <2>4. Cardinality(H!Launched) = 0
    BY <1>1, FS_EmptySet
  <2>5. HedgeNumbers'
    BY <1>1, <2>3, <2>4 DEF HedgeNumbers, HedgeConfigured
  <2>6. HedgeFlags'
    BY <2>3 DEF HedgeInv, HedgeFlags
  <2>7. HedgeTypes'
    BY <2>3 DEF HedgeInv, HedgeTypes
  <2>8. ResultInv' /\ Taken' = Taken
    BY <1>2, <2>3, HedgeSameResults DEF HedgeInv
  <2>9. Taken = {} /\ Len(hedgeReaped') = 0
    BY <1>1, EmptyDistinct DEF Taken
  <2>10. Waiting'
    BY <1>1, <1>2, <2>3, <2>4, <2>8, <2>9 DEF Waiting
  <2>11. AnsweredTrue' /\ PhaseInv'
    BY <2>10 DEF AnsweredTrue, PhaseInv
  <2>. QED
    BY <2>3, <2>5, <2>6, <2>7, <2>8, <2>11 DEF HedgeInv
<1>. QED
  BY <1>3, <1>4, <1>5

LEMMA HedgeEndInline ==
  ASSUME HedgeConfigured, HedgeInv, NEW c \in H!Copies, H!EndInline(c) PROVE HedgeInv'
<1>. USE DEF H!EndInline
<1>. PICK how \in H!Outcomes : /\ hedgeOutcome' = [hedgeOutcome EXCEPT ![c] = how]
                               /\ hedgeAnswer' = IF how = "success" THEN "value" ELSE "allFailed"
  OBVIOUS
<1>1. /\ hedgeAttempt = 0 /\ hedgeReaped = <<>> /\ hedgeCh = <<>> /\ H!Launched = {c}
  BY DEF HedgeInv, PhaseInv, H!Launched
<1>2. hedgeReaped' = <<c>> /\ Len(hedgeReaped') = 1 /\ hedgeReaped'[1] = c
      /\ DOMAIN hedgeReaped' = {1} /\ hedgeReaped' \in Seq(H!Copies)
  OBVIOUS
<1>3. \A d \in H!Copies : /\ hedgeCopy'[d] = IF d = c THEN "sent" ELSE hedgeCopy[d]
                          /\ hedgeOutcome'[d] = IF d = c THEN how ELSE hedgeOutcome[d]
  BY DEF HedgeInv, HedgeTypes
<1>4. HedgeNumbers'
  BY DEF HedgeInv, HedgeNumbers
<1>5. HedgeFlags'
  BY DEF HedgeInv, HedgeFlags, H!Answers
<1>6. HedgeTypes'
  BY <1>2 DEF HedgeInv, HedgeTypes, H!Steps
<1>7. (H!Launched)' = {c}
  BY <1>1, <1>3 DEF H!Launched
<1>8. CopyInv'
  BY <1>1, <1>3, <1>7 DEF HedgeInv, CopyInv, Ended
<1>9. ResultInv'
  <2>1. \A d : In(d, hedgeReaped') <=> d = c
    BY <1>2 DEF In
  <2>2. Taken' = {c} /\ Cardinality({c}) = 1
    BY <2>1, FS_Singleton DEF Taken
  <2>3. Distinct(hedgeReaped')
    BY <1>2 DEF Distinct
  <2>4. Distinct(hedgeCh') /\ \A d : ~In(d, hedgeCh') /\ ~In(d, hedgeCh) /\ ~In(d, hedgeReaped)
    BY <1>1, EmptyDistinct
  <2>. QED
    BY <1>2, <1>3, <2>1, <2>2, <2>3, <2>4 DEF HedgeInv, ResultInv
<1>10. AnsweredTrue'
  <2>1. Cardinality({c}) = 1
    BY FS_Singleton
  <2>. QED
    BY <1>1, <1>2, <1>3, <1>7, <2>1 DEF AnsweredTrue, H!Outcomes
<1>11. PhaseInv'
  BY DEF PhaseInv
<1>. QED
  BY <1>4, <1>5, <1>6, <1>8, <1>9, <1>10, <1>11 DEF HedgeInv

-----------------------------------------------------------------------------
(* The loop. *)

LEMMA HedgeTimerStep ==
  ASSUME HedgeConfigured, HedgeInv, H!TimerFires PROVE HedgeInv'
<1>. USE DEF H!TimerFires
<1>1. Waiting
  BY DEF HedgeInv, PhaseInv
<1>2. /\ Reached' /\ Cardinality(H!Launched)' = Cardinality(H!Launched) + 1
      /\ Cardinality(H!Launched) \in Nat /\ Cardinality(H!Launched)' <= HedgeEntries
      /\ hedgeNext' \in 1 .. HedgeEntries + 1
      /\ hedgeAttempt' = hedgeAttempt + 1
      /\ hedgeTimer' \in BOOLEAN
      /\ hedgeCopy' \in [H!Copies -> H!Steps] /\ CopyInv'
      /\ \A c \in H!Copies : \/ hedgeCopy'[c] = hedgeCopy[c]
                             \/ hedgeCopy[c] = "off" /\ hedgeCopy'[c] = "running"
  BY <1>1, HedgeLaunch DEF HedgeInv, Waiting
<1>3. Len(hedgeReaped) \in Nat
  BY DEF HedgeInv, HedgeTypes
<1>4. HedgeNumbers'
  BY <1>1, <1>2, <1>3 DEF HedgeInv, HedgeNumbers, Waiting, HedgeConfigured
<1>5. HedgeFlags'
  BY <1>2 DEF HedgeInv, HedgeFlags
<1>6. HedgeTypes'
  BY <1>2 DEF HedgeInv, HedgeTypes
<1>7. ResultInv' /\ Taken' = Taken
  BY <1>2, HedgeSameResults DEF HedgeInv
<1>8. hedgePending' > 0 /\ hedgePending' = Cardinality(H!Launched)' - Len(hedgeReaped)'
  BY <1>1, <1>2, <1>3 DEF Waiting
<1>9. Waiting'
  BY <1>1, <1>2, <1>7, <1>8 DEF Waiting
<1>10. AnsweredTrue' /\ PhaseInv'
  BY <1>9 DEF AnsweredTrue, PhaseInv
<1>. QED
  BY <1>2, <1>4, <1>5, <1>6, <1>7, <1>10 DEF HedgeInv

\* consumeResult takes the head of the channel.
LEMMA HedgeConsume ==
  ASSUME HedgeConfigured, HedgeInv, H!Consume,
         \A c \in H!Copies : hedgeCopy'[c] = "sent" <=> hedgeCopy[c] = "sent"
  PROVE  /\ hedgeCh' \in Seq(H!Copies) /\ hedgeReaped' \in Seq(H!Copies) /\ ResultInv'
         /\ Len(hedgeReaped) \in Nat /\ Len(hedgeReaped') = Len(hedgeReaped) + 1
         /\ Head(hedgeCh) \in H!Copies /\ hedgeCopy[Head(hedgeCh)] = "sent"
         /\ hedgeReaped'[Len(hedgeReaped) + 1] = Head(hedgeCh)
         /\ \A i \in 1 .. Len(hedgeReaped) : hedgeReaped'[i] = hedgeReaped[i]
         /\ DOMAIN hedgeReaped' = 1 .. Len(hedgeReaped) + 1
         /\ Taken' = Taken \cup {Head(hedgeCh)}
         /\ Waiting
<1>0. hedgeCh \in Seq(H!Copies) /\ hedgeCh # <<>> /\ Waiting
  BY DEF H!Consume, HedgeInv, HedgeTypes, PhaseInv
<1>. PICK h \in H!Copies : h = Head(hedgeCh)
  BY <1>0
<1>1. /\ In(h, hedgeCh) /\ Tail(hedgeCh) \in Seq(H!Copies) /\ Distinct(Tail(hedgeCh))
      /\ \A b : In(b, Tail(hedgeCh)) <=> b # h /\ In(b, hedgeCh)
  BY <1>0, TailDistinct DEF HedgeInv, ResultInv
<1>2. hedgeCopy[h] = "sent" /\ ~In(h, hedgeReaped)
  BY <1>1 DEF HedgeInv, ResultInv
<1>3. hedgeCh' = Tail(hedgeCh) /\ hedgeReaped' = Append(hedgeReaped, h)
      /\ hedgeReaped \in Seq(H!Copies)
  BY DEF H!Consume, HedgeInv, HedgeTypes
<1>4. /\ hedgeReaped' \in Seq(H!Copies) /\ Distinct(hedgeReaped')
      /\ \A b : In(b, hedgeReaped') <=> b = h \/ In(b, hedgeReaped)
  BY <1>2, <1>3, AppendedDistinct DEF HedgeInv, ResultInv
<1>5. /\ Len(hedgeReaped) \in Nat /\ Len(hedgeReaped') = Len(hedgeReaped) + 1
      /\ hedgeReaped'[Len(hedgeReaped) + 1] = h
      /\ \A i \in 1 .. Len(hedgeReaped) : hedgeReaped'[i] = hedgeReaped[i]
      /\ DOMAIN hedgeReaped' = 1 .. Len(hedgeReaped) + 1
  BY <1>3
<1>6. Taken' = Taken \cup {h} /\ h \notin Taken
  BY <1>2, <1>4 DEF Taken
<1>7. Cardinality(Taken') = Cardinality(Taken) + 1
  <2>1. IsFiniteSet(Taken)
    BY HedgeFinite DEF Taken
  <2>2. \A Z : IsFiniteSet(Z) /\ h \notin Z => Cardinality(Z \cup {h}) = Cardinality(Z) + 1
    BY FS_AddElement
  <2>. QED
    BY <1>6, <2>1, <2>2
<1>8. ResultInv'
  <2>1. Distinct(hedgeCh') /\ Distinct(hedgeReaped') /\ Cardinality(Taken') = Len(hedgeReaped')
    BY <1>1, <1>3, <1>4, <1>5, <1>7 DEF HedgeInv, ResultInv
  <2>2. \A b : In(b, hedgeCh') <=> b # h /\ In(b, hedgeCh)
    BY <1>1, <1>3
  <2>. QED
    BY <1>1, <1>4, <2>1, <2>2 DEF HedgeInv, ResultInv
<1>. QED
  BY <1>0, <1>1, <1>2, <1>3, <1>4, <1>5, <1>6, <1>8

LEMMA HedgeSuccessStep ==
  ASSUME HedgeConfigured, HedgeInv, H!ConsumeSuccess PROVE HedgeInv'
<1>. USE DEF H!ConsumeSuccess
<1>1. /\ hedgeCh' \in Seq(H!Copies) /\ hedgeReaped' \in Seq(H!Copies) /\ ResultInv'
      /\ Len(hedgeReaped) \in Nat /\ Len(hedgeReaped') = Len(hedgeReaped) + 1
      /\ hedgeReaped'[Len(hedgeReaped) + 1] = Head(hedgeCh)
      /\ \A i \in 1 .. Len(hedgeReaped) : hedgeReaped'[i] = hedgeReaped[i]
      /\ DOMAIN hedgeReaped' = 1 .. Len(hedgeReaped) + 1
      /\ Waiting
  BY HedgeConsume
<1>2. HedgeNumbers'
  BY <1>1 DEF HedgeInv, HedgeNumbers, Waiting, HedgeConfigured
<1>3. HedgeFlags'
  BY DEF HedgeInv, HedgeFlags, H!Answers, H!Consume
<1>4. HedgeTypes'
  BY <1>1 DEF HedgeInv, HedgeTypes
<1>5. CopyInv'
  BY DEF HedgeInv, CopyInv, Ended, H!Launched
<1>6. \A i \in 1 .. Len(hedgeReaped) : hedgeReaped[i] \in Taken
  <2>1. \A i \in 1 .. Len(hedgeReaped) : hedgeReaped[i] \in H!Copies
    BY DEF HedgeInv, HedgeTypes
  <2>2. DOMAIN hedgeReaped = 1 .. Len(hedgeReaped)
    BY DEF HedgeInv, HedgeTypes
  <2>. QED
    BY <2>1, <2>2 DEF Taken, In
<1>7. AnsweredTrue'
  <2>1. \A i \in 1 .. Len(hedgeReaped) : hedgeOutcome[hedgeReaped'[i]] # "success"
    BY <1>1, <1>6 DEF Waiting
  <2>. QED
    BY <1>1, <2>1 DEF AnsweredTrue
<1>8. PhaseInv'
  BY DEF PhaseInv
<1>. QED
  BY <1>1, <1>2, <1>3, <1>4, <1>5, <1>7, <1>8 DEF HedgeInv

LEMMA HedgeFailureStep ==
  ASSUME HedgeConfigured, HedgeInv, H!ConsumeFailure PROVE HedgeInv'
<1>. USE DEF H!ConsumeFailure
<1>1. /\ hedgeCh' \in Seq(H!Copies) /\ hedgeReaped' \in Seq(H!Copies) /\ ResultInv'
      /\ Len(hedgeReaped) \in Nat /\ Len(hedgeReaped') = Len(hedgeReaped) + 1
      /\ Taken' = Taken \cup {Head(hedgeCh)}
      /\ Waiting
  BY HedgeConsume
<1>2. HedgeNumbers'
  BY DEF HedgeInv, HedgeNumbers, HedgeConfigured
<1>3. HedgeFlags'
  BY DEF HedgeInv, HedgeFlags, H!Consume
<1>4. HedgeTypes'
  BY <1>1 DEF HedgeInv, HedgeTypes
<1>5. CopyInv' /\ (H!Launched)' = H!Launched /\ Reached' = Reached
  BY DEF HedgeInv, CopyInv, Ended, H!Launched, Reached
<1>6. Cardinality(H!Launched) \in Nat
  BY HedgeFinite DEF H!Launched
<1>7. hedgePending' > 0 /\ hedgePending' = Cardinality(H!Launched) - Len(hedgeReaped')
  BY <1>1, <1>6 DEF HedgeInv, HedgeNumbers, Waiting
<1>8. Waiting'
  BY <1>1, <1>5, <1>7 DEF Waiting
<1>9. AnsweredTrue' /\ PhaseInv'
  BY <1>8 DEF AnsweredTrue, PhaseInv, H!Consume
<1>. QED
  BY <1>1, <1>2, <1>3, <1>4, <1>5, <1>9 DEF HedgeInv

LEMMA HedgeRelaunchStep ==
  ASSUME HedgeConfigured, HedgeInv, H!Relaunch PROVE HedgeInv'
<1>. USE DEF H!Relaunch
<1>0. Reached /\ hedgeAnswer = "waiting"
  BY DEF HedgeInv, PhaseInv, Waiting, H!Consume
<1>1. /\ Reached' /\ Cardinality(H!Launched)' = Cardinality(H!Launched) + 1
      /\ Cardinality(H!Launched) \in Nat /\ Cardinality(H!Launched)' <= HedgeEntries
      /\ hedgeNext' \in 1 .. HedgeEntries + 1
      /\ hedgeAttempt' = hedgeAttempt + 1
      /\ hedgeTimer' \in BOOLEAN
      /\ hedgeCopy' \in [H!Copies -> H!Steps] /\ CopyInv'
      /\ \A c \in H!Copies : \/ hedgeCopy'[c] = hedgeCopy[c]
                             \/ hedgeCopy[c] = "off" /\ hedgeCopy'[c] = "running"
  BY <1>0, HedgeLaunch DEF HedgeInv
<1>2. /\ hedgeCh' \in Seq(H!Copies) /\ hedgeReaped' \in Seq(H!Copies) /\ ResultInv'
      /\ Len(hedgeReaped) \in Nat /\ Len(hedgeReaped') = Len(hedgeReaped) + 1
      /\ Taken' = Taken \cup {Head(hedgeCh)}
      /\ Waiting
  BY <1>1, HedgeConsume
<1>3. HedgeNumbers'
  BY <1>1, <1>2 DEF HedgeInv, HedgeNumbers, Waiting, HedgeConfigured
<1>4. HedgeFlags'
  BY <1>1 DEF HedgeInv, HedgeFlags, H!Consume
<1>5. HedgeTypes'
  BY <1>1, <1>2 DEF HedgeInv, HedgeTypes
<1>6. hedgePending' > 0 /\ hedgePending' = Cardinality(H!Launched)' - Len(hedgeReaped)'
  BY <1>1, <1>2 DEF Waiting
<1>7. Waiting'
  BY <1>1, <1>2, <1>6 DEF Waiting
<1>8. AnsweredTrue' /\ PhaseInv'
  BY <1>0, <1>7 DEF AnsweredTrue, PhaseInv
<1>. QED
  BY <1>1, <1>2, <1>3, <1>4, <1>5, <1>8 DEF HedgeInv

LEMMA HedgeGiveUpStep ==
  ASSUME HedgeConfigured, HedgeInv, H!GiveUp PROVE HedgeInv'
<1>. USE DEF H!GiveUp
<1>1. /\ hedgeCh' \in Seq(H!Copies) /\ hedgeReaped' \in Seq(H!Copies) /\ ResultInv'
      /\ Len(hedgeReaped) \in Nat /\ Len(hedgeReaped') = Len(hedgeReaped) + 1
      /\ Head(hedgeCh) \in H!Copies /\ hedgeCopy[Head(hedgeCh)] = "sent"
      /\ Taken' = Taken \cup {Head(hedgeCh)}
      /\ Waiting
  BY HedgeConsume
<1>2. HedgeNumbers'
  BY DEF HedgeInv, HedgeNumbers, HedgeConfigured
<1>3. HedgeFlags'
  BY DEF HedgeInv, HedgeFlags, H!Consume, H!Answers
<1>4. HedgeTypes'
  BY <1>1 DEF HedgeInv, HedgeTypes
<1>5. CopyInv' /\ (H!Launched)' = H!Launched
  BY DEF HedgeInv, CopyInv, Ended, H!Launched
<1>6. H!Launched = hedgeGiven
  <2>1. \A c \in hedgeGiven : c < hedgeNext
    BY DEF H!NothingLeft, H!Left, HedgeInv, HedgeNumbers, HedgeTypes, H!Copies
  <2>. QED
    BY <1>1, <2>1 DEF Waiting, Reached
<1>7. Taken' = H!Launched
  <2>1. Cardinality(Taken') = Cardinality(H!Launched)
    <3>1. Cardinality(H!Launched) \in Nat /\ 1 = Cardinality(H!Launched) - Len(hedgeReaped)
      BY <1>1, HedgeFinite DEF Waiting, H!Launched
    <3>2. Cardinality(Taken') = Len(hedgeReaped) + 1
      BY <1>1 DEF ResultInv
    <3>. QED
      BY <1>1, <3>1, <3>2
  <2>2. Taken' \subseteq H!Launched
    <3>1. \A c \in Taken : hedgeCopy[c] = "sent"
      BY DEF Taken, HedgeInv, ResultInv
    <3>. QED
      BY <1>1, <3>1 DEF H!Launched, Taken
  <2>3. IsFiniteSet(H!Launched)
    BY HedgeFinite DEF H!Launched
  <2>4. \A Z, J : IsFiniteSet(J) /\ Z \in SUBSET J /\ Cardinality(Z) = Cardinality(J) => Z = J
    BY FS_Subset
  <2>. QED
    BY <2>1, <2>2, <2>3, <2>4
<1>8. \A c \in H!Launched : hedgeOutcome[c] \in {"failure", "withdrawn"}
  <2>1. \A c \in Taken' : hedgeOutcome[c] # "success"
    BY <1>1 DEF Waiting
  <2>2. \A c \in Taken' : c \in H!Copies /\ hedgeCopy[c] = "sent"
    BY <1>1 DEF Taken, HedgeInv, ResultInv
  <2>3. \A c \in Taken' : hedgeOutcome[c] \in H!Outcomes
    BY <2>2 DEF HedgeInv, CopyInv, Ended
  <2>. QED
    BY <1>7, <2>1, <2>3 DEF H!Outcomes
<1>9. AnsweredTrue' /\ PhaseInv'
  BY <1>5, <1>6, <1>8 DEF AnsweredTrue, PhaseInv
<1>. QED
  BY <1>1, <1>2, <1>3, <1>4, <1>5, <1>9 DEF HedgeInv

-----------------------------------------------------------------------------
(* The copies and the caller. *)

LEMMA HedgeReturnStep ==
  ASSUME HedgeConfigured, HedgeInv, NEW c \in H!Copies, H!Return(c) PROVE HedgeInv'
<1>. USE DEF H!Return
<1>. PICK how \in H!Outcomes : hedgeOutcome' = [hedgeOutcome EXCEPT ![c] = how]
  OBVIOUS
<1>1. \A d \in H!Copies : /\ hedgeCopy'[d] = IF d = c THEN "sending" ELSE hedgeCopy[d]
                          /\ hedgeOutcome'[d] = IF d = c THEN how ELSE hedgeOutcome[d]
  BY DEF HedgeInv, HedgeTypes
<1>2. HedgeNumbers' /\ HedgeFlags'
  BY DEF HedgeInv, HedgeNumbers, HedgeFlags
<1>3. HedgeTypes'
  BY DEF HedgeInv, HedgeTypes, H!Steps
<1>4. (H!Launched)' = H!Launched /\ c \in H!Launched
  BY <1>1 DEF H!Launched
<1>5. CopyInv'
  BY <1>1, <1>4 DEF HedgeInv, CopyInv, Ended
<1>6. ResultInv' /\ Taken' = Taken
  BY <1>1, HedgeSameResults DEF HedgeInv
<1>7. ~In(c, hedgeReaped) /\ hedgeOutcome[c] \notin H!Outcomes
  BY DEF HedgeInv, ResultInv, CopyInv, Ended
<1>8. AnsweredTrue'
  <2>1. hedgeAnswer # "allFailed"
    BY <1>4, <1>7 DEF HedgeInv, AnsweredTrue, H!Outcomes
  <2>2. \A i \in DOMAIN hedgeReaped : hedgeReaped[i] \in H!Copies /\ hedgeReaped[i] # c
    BY <1>7 DEF In, HedgeInv, HedgeTypes
  <2>. QED
    BY <1>1, <2>1, <2>2 DEF HedgeInv, AnsweredTrue
<1>9. ASSUME hedgeAnswer = "waiting" PROVE Waiting'
  <2>1. \A d \in Taken : hedgeOutcome'[d] = hedgeOutcome[d]
    BY <1>1, <1>7 DEF Taken
  <2>2. Reached' = Reached
    BY <1>4 DEF Reached
  <2>. QED
    BY <1>1, <1>4, <1>6, <1>9, <2>1, <2>2 DEF HedgeInv, PhaseInv, Waiting
<1>10. PhaseInv'
  BY <1>4, <1>9 DEF HedgeInv, PhaseInv
<1>. QED
  BY <1>2, <1>3, <1>5, <1>6, <1>8, <1>10 DEF HedgeInv

LEMMA HedgeSendStep ==
  ASSUME HedgeConfigured, HedgeInv, NEW c \in H!Copies, H!Send(c) \/ H!Drop(c) PROVE HedgeInv'
<1>. USE DEF H!Send, H!Drop
<1>1. PICK s \in {"sent", "dropped"} : /\ hedgeCopy' = [hedgeCopy EXCEPT ![c] = s]
                                       /\ s = "sent" => hedgeCh' = Append(hedgeCh, c)
                                       /\ s = "dropped" => hedgeCh' = hedgeCh /\ H!HedgeDead
  OBVIOUS
<1>2. /\ hedgeCopy[c] = "sending"
      /\ UNCHANGED <<hedgeGiven, hedgeDead, hedgeAnswer, hedgeNext, hedgeAttempt, hedgePending,
                     hedgeTimer, hedgeFailed, hedgeOutcome, hedgeReaped>>
  OBVIOUS
<1>. HIDE DEF H!Send, H!Drop
<1>3. \A d \in H!Copies : hedgeCopy'[d] = IF d = c THEN s ELSE hedgeCopy[d]
  BY <1>1 DEF HedgeInv, HedgeTypes
<1>4. HedgeNumbers' /\ HedgeFlags'
  BY <1>2 DEF HedgeInv, HedgeNumbers, HedgeFlags
<1>5. ~In(c, hedgeCh) /\ ~In(c, hedgeReaped)
  BY <1>2 DEF HedgeInv, ResultInv
<1>6. /\ hedgeCh' \in Seq(H!Copies) /\ Distinct(hedgeCh')
      /\ \A b : In(b, hedgeCh') <=> (b = c /\ s = "sent") \/ In(b, hedgeCh)
  <2>1. hedgeCh \in Seq(H!Copies) /\ Distinct(hedgeCh)
    BY DEF HedgeInv, HedgeTypes, ResultInv
  <2>2. CASE s = "sent"
    <3>1. hedgeCh' = Append(hedgeCh, c)
      BY <1>1, <2>2
    <3>2. /\ Append(hedgeCh, c) \in Seq(H!Copies) /\ Distinct(Append(hedgeCh, c))
          /\ \A b : In(b, Append(hedgeCh, c)) <=> b = c \/ In(b, hedgeCh)
      BY <1>5, <2>1, AppendedDistinct
    <3>. QED
      BY <2>2, <3>1, <3>2
  <2>3. CASE s = "dropped"
    BY <1>1, <2>1, <2>3
  <2>. QED
    BY <2>2, <2>3
<1>7. HedgeTypes'
  BY <1>1, <1>2, <1>6 DEF HedgeInv, HedgeTypes, H!Steps
<1>8. (H!Launched)' = H!Launched /\ Taken' = Taken
  BY <1>2, <1>3 DEF H!Launched, Taken
<1>9. CopyInv'
  BY <1>2, <1>3, <1>8 DEF HedgeInv, CopyInv, Ended
<1>10. ResultInv'
  <2>1. Distinct(hedgeReaped') /\ Cardinality(Taken') = Len(hedgeReaped')
    BY <1>2, <1>8 DEF HedgeInv, ResultInv
  <2>. QED
    BY <1>2, <1>3, <1>5, <1>6, <2>1 DEF HedgeInv, ResultInv
<1>11. AnsweredTrue'
  BY <1>2, <1>8 DEF HedgeInv, AnsweredTrue
<1>12. ASSUME hedgeAnswer = "waiting" PROVE Waiting'
  <2>1. Reached' = Reached
    BY <1>2, <1>8 DEF Reached
  <2>2. s = "dropped" => hedgeDead
    BY <1>1, <1>12 DEF H!HedgeDead, H!Answers
  <2>. QED
    BY <1>2, <1>3, <1>8, <1>12, <2>1, <2>2 DEF HedgeInv, PhaseInv, Waiting
<1>13. hedgeAnswer # "inline" /\ hedgeAnswer # "idle"
  BY <1>2 DEF HedgeInv, PhaseInv, H!Launched
<1>14. PhaseInv'
  BY <1>2, <1>12, <1>13 DEF PhaseInv
<1>. QED
  BY <1>4, <1>7, <1>9, <1>10, <1>11, <1>14 DEF HedgeInv

LEMMA HedgeCancelStep ==
  ASSUME HedgeConfigured, HedgeInv, H!SeeCancelled \/ H!Cancel \/ UNCHANGED H!vars PROVE HedgeInv'
<1>. USE DEF H!SeeCancelled, H!Cancel, H!vars
<1>1. UNCHANGED <<hedgeGiven, hedgeNext, hedgeAttempt, hedgePending, hedgeTimer, hedgeFailed,
                  hedgeCopy, hedgeOutcome, hedgeCh, hedgeReaped>>
  OBVIOUS
<1>2. HedgeNumbers' /\ HedgeTypes'
  BY <1>1 DEF HedgeInv, HedgeNumbers, HedgeTypes
<1>3. HedgeFlags'
  BY DEF HedgeInv, HedgeFlags, H!Answers
<1>4. (H!Launched)' = H!Launched /\ Taken' = Taken /\ Reached' = Reached
  BY <1>1 DEF H!Launched, Taken, Reached
<1>5. CopyInv' /\ ResultInv'
  BY <1>1, <1>4, HedgeSameResults DEF HedgeInv, CopyInv, Ended
<1>6. hedgeAnswer' = hedgeAnswer \/ hedgeAnswer' = "cancelled"
  OBVIOUS
<1>7. hedgeDead => hedgeDead'
  OBVIOUS
<1>8. AnsweredTrue'
  BY <1>1, <1>4, <1>6 DEF HedgeInv, AnsweredTrue
<1>9. Waiting => Waiting'
  BY <1>1, <1>4, <1>7 DEF Waiting
<1>10. PhaseInv'
  BY <1>1, <1>4, <1>6, <1>9 DEF HedgeInv, PhaseInv
<1>. QED
  BY <1>2, <1>3, <1>5, <1>8, <1>10 DEF HedgeInv

LEMMA HedgeNextStep == ASSUME HedgeConfigured, HedgeInv, [H!Next]_(H!vars) PROVE HedgeInv'
  BY HedgeStartStep, HedgeEndInline, HedgeTimerStep, HedgeSuccessStep, HedgeFailureStep,
     HedgeRelaunchStep, HedgeGiveUpStep, HedgeReturnStep, HedgeSendStep, HedgeCancelStep
  DEF H!Next, H!Rest

LEMMA HedgeInvariant ==
  ASSUME HedgeConfigured PROVE Spec => [](package = "hedge" => HedgeInv)
<1>1. Init => (package = "hedge" => HedgeInv)
  BY StartOfPackage, HedgeInit
<1>2. (package = "hedge" => HedgeInv) /\ [Next]_vars => (package = "hedge" => HedgeInv)'
  BY StepOfPackage, HedgeNextStep
<1>. QED
  BY <1>1, <1>2, PTL DEF Spec

LEMMA HedgeAnswersTrue == ASSUME HedgeInv PROVE H!TypeOK /\ H!OwesAnswer /\ H!AnswersTrue
<1>1. H!TypeOK
  BY DEF HedgeInv, HedgeNumbers, HedgeFlags, HedgeTypes, H!TypeOK
<1>2. H!OwesAnswer
  BY HedgeCards DEF HedgeInv, PhaseInv, Waiting, H!OwesAnswer
<1>3. DOMAIN hedgeReaped = 1 .. Len(hedgeReaped)
  BY SMTT(60) DEF HedgeInv, HedgeTypes
<1>4. H!AnswersTrue
  BY <1>3, HedgeCards DEF HedgeInv, AnsweredTrue, H!AnswersTrue
<1>. QED
  BY <1>1, <1>2, <1>4

HIDE DEF hedgeGiven, hedgeDead, hedgeAnswer, hedgeNext, hedgeAttempt, hedgePending, hedgeTimer,
         hedgeFailed, hedgeCopy, hedgeOutcome, hedgeCh, hedgeReaped

-----------------------------------------------------------------------------
(* warmupx.Warmer: the runs of a ramp do not complete, close or outlive    *)
(* each other, and nobody waits on the channel of an earlier run.          *)

warmGen        == x1
warmWarming    == x2
warmComplete   == x3
warmClosed     == x4
warmStop       == x5
warmDone       == x6
warmStops      == x7
warmDones      == x8
warmPanicked   == x9
warmLoop       == x10
warmReports    == x11
warmPc         == x12
warmHeld       == x13
USE DEF warmGen, warmWarming, warmComplete, warmClosed, warmStop, warmDone, warmStops, warmDones,
        warmPanicked, warmLoop, warmReports, warmPc, warmHeld

\* The model's bound on the calls of StartAt.
WarmConfigured == WarmRuns \in Nat

\* W!TypeOK in parts.
WarmNumbers ==
  /\ warmGen \in W!Runs /\ warmStop \in W!Runs /\ warmDone \in W!Runs
  /\ warmReports \in [W!Runs -> Nat] /\ warmHeld \in [Others -> W!Runs]
WarmFlags ==
  /\ warmWarming \in BOOLEAN /\ warmComplete \in BOOLEAN /\ warmClosed \in BOOLEAN
  /\ warmPanicked = FALSE
WarmSteps ==
  /\ warmLoop \in [W!Runs -> {"none", "running", "gone"}]
  /\ warmPc \in [Others -> {"idle", "select", "nil", "closed", "cancelled"}]

\* The channels that are kept are of the last run, and those closed of runs that were.
KeptInv ==
  /\ warmDone = warmGen
  /\ warmStop # 0 => warmStop = warmGen /\ warmStop \notin warmStops
  /\ \A r \in warmStops : r \in W!Runs /\ 0 < r /\ r <= warmGen
  /\ \A r \in warmDones : r \in W!Runs /\ r <= warmGen

\* The last run's completion channel is closed when it completed, and by Close.
LastRunInv ==
  /\ warmWarming => ~warmComplete /\ ~warmClosed
  /\ warmComplete \/ warmClosed <=> warmGen \in warmDones
  /\ warmReports[warmGen] = IF warmComplete THEN 1 ELSE 0
  /\ \A r \in W!Runs : warmReports[r] <= 1 /\ (r > warmGen => warmReports[r] = 0)

\* A goroutine that runs has the channel that is kept, or one that was closed.
LoopInv ==
  \A r \in W!Runs : warmLoop[r] = "running" => (r # 0 /\ r = warmStop) \/ r \in warmStops

WarmInv ==
  WarmNumbers /\ WarmFlags /\ WarmSteps /\ KeptInv /\ LastRunInv /\ LoopInv /\ W!NobodyLeftBehind

-----------------------------------------------------------------------------
LEMMA WarmInit == ASSUME WarmConfigured, W!Init PROVE WarmInv
<1>1. 0 \in W!Runs
  BY DEF W!Runs, WarmConfigured
<1>2. WarmNumbers
  BY <1>1 DEF W!Init, WarmNumbers
<1>3. WarmFlags
  BY DEF W!Init, WarmFlags
<1>4. WarmSteps /\ LoopInv /\ W!NobodyLeftBehind
  BY DEF W!Init, WarmSteps, LoopInv, W!NobodyLeftBehind
<1>5. KeptInv
  BY <1>1 DEF W!Init, KeptInv
<1>6. LastRunInv
  BY <1>1 DEF W!Init, LastRunInv
<1>. QED
  BY <1>2, <1>3, <1>4, <1>5, <1>6 DEF WarmInv

\* A new run takes the place of the last, whose channels it closes.
LEMMA WarmStartStep ==
  ASSUME WarmConfigured, WarmInv, NEW top \in BOOLEAN, W!Start(top) PROVE WarmInv'
<1>. DEFINE n == warmGen + 1
<1>1. /\ warmGen \in Nat /\ n \in W!Runs /\ n # 0 /\ n > warmGen /\ n # warmGen
      /\ \A r \in W!Runs : r \in Nat
      /\ \A r \in W!Runs : r <= warmGen => r <= n /\ r # n
      /\ \A r \in W!Runs : r > n => r > warmGen
  BY DEF W!Start, WarmInv, WarmNumbers, W!Runs, WarmConfigured
<1>2. /\ ~warmClosed /\ warmClosed' = warmClosed
      /\ warmGen' = n /\ warmDone' = n /\ warmWarming' = ~top /\ warmComplete' = top
      /\ warmStop' = (IF top THEN 0 ELSE n)
      /\ warmStops' = warmStops \cup W!Stopping
      /\ warmDones' = warmDones \cup (W!Superseded \cup IF top THEN {n} ELSE {})
      /\ warmPc' = warmPc /\ warmHeld' = warmHeld
  BY DEF W!Start, W!Closes, W!waiting
<1>3. /\ warmPanicked' = (\/ warmPanicked \/ W!Stopping \cap warmStops # {}
                          \/ (W!Superseded \cup IF top THEN {n} ELSE {}) \cap warmDones # {})
      /\ warmLoop' = (IF top THEN warmLoop ELSE [warmLoop EXCEPT ![n] = "running"])
      /\ warmReports' = (IF top THEN [warmReports EXCEPT ![n] = @ + 1] ELSE warmReports)
  BY DEF W!Start, W!Closes
<1>4. n \notin warmDones /\ n \notin warmStops
  BY <1>1 DEF WarmInv, KeptInv
<1>. HIDE DEF n
<1>5. \A r : r \in W!Stopping <=> r = warmStop /\ r # 0
  BY DEF W!Stopping
<1>6. \A r : r \in W!Superseded <=> r = warmGen /\ ~warmComplete
  BY DEF W!Superseded, WarmInv, KeptInv
<1>7. W!Stopping \cap warmStops = {}
  BY <1>5 DEF WarmInv, KeptInv
<1>8. W!Superseded \cap warmDones = {}
  BY <1>2, <1>6 DEF WarmInv, LastRunInv
<1>9. warmPanicked' = FALSE
  BY <1>3, <1>4, <1>7, <1>8 DEF WarmInv, WarmFlags
<1>10. WarmFlags'
  BY <1>2, <1>9 DEF WarmInv, WarmFlags
<1>11. WarmNumbers'
  <2>1. 0 \in W!Runs
    BY DEF W!Runs, WarmConfigured
  <2>2. warmReports' \in [W!Runs -> Nat]
    BY <1>1, <1>3 DEF WarmInv, WarmNumbers
  <2>. QED
    BY <1>1, <1>2, <2>1, <2>2 DEF WarmInv, WarmNumbers
<1>12. WarmSteps'
  BY <1>1, <1>2, <1>3 DEF WarmInv, WarmSteps
<1>13. KeptInv'
  <2>1. \A r \in warmStops' : r \in W!Runs /\ 0 < r /\ r <= warmGen
    <3>1. warmStop # 0 => warmStop \in W!Runs /\ 0 < warmStop /\ warmStop <= warmGen
      BY <1>1 DEF WarmInv, KeptInv, WarmNumbers
    <3>. QED
      BY <1>2, <1>5, <3>1 DEF WarmInv, KeptInv
  <2>2. \A r \in warmDones' : r \in W!Runs /\ r <= n
    <3>1. warmGen \in W!Runs /\ n <= n
      BY <1>1 DEF WarmInv, WarmNumbers
    <3>2. \A r \in warmDones : r \in W!Runs /\ r <= n
      BY <1>1 DEF WarmInv, KeptInv
    <3>. QED
      BY <1>1, <1>2, <1>6, <3>1, <3>2
  <2>3. n \notin warmStops'
    BY <1>1, <2>1
  <2>. QED
    BY <1>1, <1>2, <2>1, <2>2, <2>3 DEF KeptInv
<1>14. LastRunInv'
  <2>1. warmReports[n] = 0 /\ \A r \in W!Runs : warmReports[r] <= 1 /\ (r > n => warmReports[r] = 0)
    BY <1>1 DEF WarmInv, LastRunInv
  <2>2. \A r \in W!Runs : warmReports'[r] = IF top /\ r = n THEN 1 ELSE warmReports[r]
    BY <1>1, <1>3, <2>1 DEF WarmInv, WarmNumbers
  <2>3. n \in warmDones' <=> top
    BY <1>1, <1>2, <1>4, <1>6
  <2>4. warmReports'[n] = (IF top THEN 1 ELSE 0)
    BY <1>1, <2>1, <2>2
  <2>5. \A r \in W!Runs : warmReports'[r] <= 1 /\ (r > n => warmReports'[r] = 0)
    BY <1>1, <2>1, <2>2
  <2>. QED
    BY <1>2, <2>3, <2>4, <2>5 DEF LastRunInv
<1>15. LoopInv'
  <2>1. \A r \in W!Runs : warmLoop'[r] = IF ~top /\ r = n THEN "running" ELSE warmLoop[r]
    BY <1>1, <1>3 DEF WarmInv, WarmSteps
  <2>. QED
    BY <1>1, <1>2, <1>5, <2>1 DEF WarmInv, LoopInv
<1>16. W!NobodyLeftBehind'
  BY <1>2, <1>6 DEF WarmInv, W!NobodyLeftBehind, KeptInv
<1>. QED
  BY <1>9, <1>10, <1>11, <1>12, <1>13, <1>14, <1>15, <1>16 DEF WarmInv

\* Stop and Close end the run that is on; Close lets those who wait for it go.
LEMMA WarmEndStep ==
  ASSUME WarmConfigured, WarmInv, W!Stop \/ W!Close PROVE WarmInv'
<1>1. /\ ~warmWarming' /\ warmWarming' \in BOOLEAN /\ warmStop' = 0
      /\ warmStops' = warmStops \cup W!Stopping
      /\ UNCHANGED <<warmGen, warmComplete, warmDone, warmLoop, warmReports, warmPc, warmHeld>>
  BY DEF W!Stop, W!Close, W!Closes, W!waiting
<1>2. \/ /\ warmClosed' = warmClosed /\ warmDones' = warmDones
         /\ warmPanicked' = (warmPanicked \/ W!Stopping \cap warmStops # {})
      \/ /\ ~warmClosed /\ warmClosed' = TRUE /\ warmDones' = warmDones \cup W!Superseded
         /\ warmPanicked' = (\/ warmPanicked \/ W!Stopping \cap warmStops # {}
                             \/ W!Superseded \cap warmDones # {})
  BY DEF W!Stop, W!Close, W!Closes
<1>3. \A r : r \in W!Stopping <=> r = warmStop /\ r # 0
  BY DEF W!Stopping
<1>4. \A r : r \in W!Superseded <=> r = warmGen /\ ~warmComplete
  BY DEF W!Superseded, WarmInv, KeptInv
<1>5. W!Stopping \cap warmStops = {}
  BY <1>3 DEF WarmInv, KeptInv
<1>6. ~warmClosed => W!Superseded \cap warmDones = {}
  BY <1>4 DEF WarmInv, LastRunInv
<1>7. WarmFlags'
  BY <1>1, <1>2, <1>5, <1>6 DEF WarmInv, WarmFlags
<1>8. WarmNumbers' /\ WarmSteps'
  BY <1>1 DEF WarmInv, WarmNumbers, WarmSteps, W!Runs, WarmConfigured
<1>9. KeptInv'
  <2>1. \A r \in warmStops' : r \in W!Runs /\ 0 < r /\ r <= warmGen
    BY <1>1, <1>3 DEF WarmInv, KeptInv, WarmNumbers, W!Runs
  <2>2. \A r \in warmDones' : r \in W!Runs /\ r <= warmGen
    <3>1. \A r \in warmDones' : r \in warmDones \/ r = warmGen
      BY <1>2, <1>4
    <3>2. warmGen \in W!Runs /\ warmGen <= warmGen
      BY DEF WarmInv, WarmNumbers, W!Runs
    <3>. QED
      BY <3>1, <3>2 DEF WarmInv, KeptInv
  <2>. QED
    BY <1>1, <2>1, <2>2 DEF WarmInv, KeptInv
<1>10. LastRunInv'
  <2>1. CASE warmClosed' = warmClosed /\ warmDones' = warmDones
    BY <1>1, <2>1 DEF WarmInv, LastRunInv
  <2>2. CASE ~warmClosed /\ warmClosed' = TRUE /\ warmDones' = warmDones \cup W!Superseded
    <3>1. warmGen \in warmDones'
      BY <1>4, <2>2 DEF WarmInv, LastRunInv
    <3>. QED
      BY <1>1, <2>2, <3>1 DEF WarmInv, LastRunInv
  <2>. QED
    BY <1>2, <2>1, <2>2
<1>11. LoopInv'
  BY <1>1, <1>3 DEF WarmInv, LoopInv
<1>12. W!NobodyLeftBehind'
  BY <1>1, <1>2, <1>4 DEF WarmInv, W!NobodyLeftBehind, KeptInv
<1>. QED
  BY <1>7, <1>8, <1>9, <1>10, <1>11, <1>12 DEF WarmInv

\* A goroutine leaves, or completes its run.
LEMMA WarmLeaveStep ==
  ASSUME WarmConfigured, WarmInv, NEW r \in W!Runs, W!LoopStops(r) \/ W!TickStale(r)
  PROVE  WarmInv'
<1>1. /\ warmLoop' = [warmLoop EXCEPT ![r] = "gone"]
      /\ UNCHANGED <<warmGen, warmWarming, warmComplete, warmClosed, warmStop, warmDone,
                     warmStops, warmDones, warmPanicked, warmReports, warmPc, warmHeld>>
  BY DEF W!LoopStops, W!TickStale, W!channels, W!waiting
<1>2. WarmSteps' /\ LoopInv'
  BY <1>1 DEF WarmInv, WarmSteps, LoopInv
<1>. QED
  BY <1>1, <1>2 DEF WarmInv, WarmNumbers, WarmFlags, KeptInv, LastRunInv, W!NobodyLeftBehind

LEMMA WarmCompleteStep ==
  ASSUME WarmConfigured, WarmInv, NEW r \in W!Runs, W!TickComplete(r) PROVE WarmInv'
<1>1. /\ r = warmGen /\ warmWarming /\ ~warmComplete
      /\ warmWarming' = FALSE /\ warmComplete' = TRUE
      /\ warmStops' = warmStops /\ warmDones' = warmDones \cup {warmDone}
      /\ warmPanicked' = (warmPanicked \/ {warmDone} \cap warmDones # {})
      /\ UNCHANGED <<warmGen, warmClosed, warmStop, warmDone, warmPc, warmHeld>>
  BY DEF W!TickComplete, W!Current, W!Closes, W!waiting
<1>2. /\ warmLoop' = [warmLoop EXCEPT ![r] = "gone"]
      /\ warmReports' = [warmReports EXCEPT ![r] = @ + 1]
  BY DEF W!TickComplete
<1>3. warmDone = r /\ r \notin warmDones /\ ~warmClosed
  BY <1>1 DEF WarmInv, KeptInv, LastRunInv
<1>4. WarmFlags'
  BY <1>1, <1>3 DEF WarmInv, WarmFlags
<1>5. WarmNumbers' /\ WarmSteps' /\ LoopInv'
  BY <1>1, <1>2 DEF WarmInv, WarmNumbers, WarmSteps, LoopInv
<1>6. KeptInv'
  BY <1>1, <1>3 DEF WarmInv, KeptInv, WarmNumbers, W!Runs
<1>7. LastRunInv'
  <2>1. warmReports[r] = 0
    BY <1>1 DEF WarmInv, LastRunInv
  <2>2. \A d \in W!Runs : warmReports'[d] = IF d = r THEN 1 ELSE warmReports[d]
    BY <1>2, <2>1 DEF WarmInv, WarmNumbers
  <2>3. ~(r > r)
    BY DEF W!Runs
  <2>. QED
    BY <1>1, <1>3, <2>2, <2>3 DEF WarmInv, LastRunInv
<1>8. W!NobodyLeftBehind'
  BY <1>1 DEF WarmInv, W!NobodyLeftBehind
<1>. QED
  BY <1>4, <1>5, <1>6, <1>7, <1>8 DEF WarmInv

\* WaitForCompletion looks, and waits on the channel of the run that it saw.
LEMMA WarmWaitStep ==
  ASSUME WarmConfigured, WarmInv, NEW w \in Others, W!Wait(w) \/ W!Cancel(w) PROVE WarmInv'
<1>1. UNCHANGED <<warmGen, warmWarming, warmComplete, warmClosed, warmStop, warmDone, warmStops,
                  warmDones, warmPanicked, warmLoop, warmReports>>
  BY DEF W!Wait, W!Cancel, W!channels
<1>2. \/ \E a \in {"closed", "nil", "cancelled"} :
           warmPc' = [warmPc EXCEPT ![w] = a] /\ warmHeld' = warmHeld
      \/ /\ warmPc' = [warmPc EXCEPT ![w] = "select"]
         /\ warmHeld' = [warmHeld EXCEPT ![w] = warmDone] /\ ~warmClosed /\ ~warmComplete
  BY DEF W!Wait, W!Cancel, W!Look, W!Returns
<1>3. WarmSteps'
  BY <1>1, <1>2 DEF WarmInv, WarmSteps
<1>4. WarmNumbers'
  BY <1>1, <1>2 DEF WarmInv, WarmNumbers
<1>5. W!NobodyLeftBehind'
  BY <1>1, <1>2 DEF WarmInv, W!NobodyLeftBehind, WarmSteps, WarmNumbers
<1>. QED
  BY <1>1, <1>3, <1>4, <1>5 DEF WarmInv, WarmFlags, KeptInv, LastRunInv, LoopInv

LEMMA WarmNext == ASSUME WarmConfigured, WarmInv, [W!Next]_(W!vars) PROVE WarmInv'
<1>1. ASSUME UNCHANGED W!vars PROVE WarmInv'
  BY <1>1 DEF W!vars, W!channels, W!waiting, WarmInv, WarmNumbers, WarmFlags, WarmSteps, KeptInv,
              LastRunInv, LoopInv, W!NobodyLeftBehind
<1>. QED
  BY <1>1, WarmStartStep, WarmEndStep, WarmLeaveStep, WarmCompleteStep, WarmWaitStep
  DEF W!Next, W!StartAt, W!StartAtClosed

LEMMA WarmInvariant == ASSUME WarmConfigured PROVE Spec => [](package = "warm" => WarmInv)
<1>1. Init => (package = "warm" => WarmInv)
  BY StartOfPackage, WarmInit
<1>2. (package = "warm" => WarmInv) /\ [Next]_vars => (package = "warm" => WarmInv)'
  BY StepOfPackage, WarmNext
<1>. QED
  BY <1>1, <1>2, PTL DEF Spec

LEMMA WarmTold == ASSUME WarmInv PROVE W!TypeOK /\ W!RunsDoNotMix /\ W!NobodyLeftBehind
<1>1. W!TypeOK
  <2>1. warmStops \subseteq W!Runs /\ warmDones \subseteq W!Runs
    BY DEF WarmInv, KeptInv
  <2>. QED
    BY <2>1 DEF WarmInv, WarmNumbers, WarmFlags, WarmSteps, W!TypeOK
<1>2. W!RunsDoNotMix
  BY DEF WarmInv, WarmFlags, LastRunInv, LoopInv, W!RunsDoNotMix
<1>. QED
  BY <1>1, <1>2 DEF WarmInv

HIDE DEF warmGen, warmWarming, warmComplete, warmClosed, warmStop, warmDone, warmStops, warmDones,
         warmPanicked, warmLoop, warmReports, warmPc, warmHeld
=============================================================================
