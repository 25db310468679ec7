---------------------------- MODULE QuotaProofs ----------------------------
(***************************************************************************)
(* Proofs about the quota for any finite sets of calls and keys, any       *)
(* shards and cap, any number of sweeps, Removes, Resets and Closes: pins  *)
(* are exact, so a key in use has one limiter, and the key count, which no *)
(* lock covers, is right as long as every Reset has the table for itself.  *)
(***************************************************************************)
EXTENDS QuotaHistory, FiniteSetTheorems, TLAPS

InUse(c) == pc[c] \in Once \cup Twice

\* What a call that has got so far knows.
PlaceInv ==
  \A c \in Callers :
    /\ pc[c] \in Labels
    /\ pc[c] \notin {"idle", "done"} => key[c] \in Keys
    /\ InUse(c) \/ pc[c] = "touch" => bucket[c] \in Callers

SweepInv == \A s \in Sweepers : pc[s] \in {"lock", "evict"} => pos[s] < NumShards

\* Reset counts the keys it has left in the shards behind it.
Behind(a) == {k \in Tracked : ShardOf[k] < pos[a]}

ResetInv ==
  \A a \in Admins :
    /\ pc[a] = "idle" => pos[a] = 0 /\ remaining[a] = 0
    /\ clean /\ Resetting(a) => remaining[a] = Cardinality(Behind(a))

CountInv ==
  clean => /\ Cardinality(Tracked) <= keyCount /\ keyCount <= MaxKeys
           /\ KeysCounted

UseInv == TypeOK /\ PlaceInv /\ SweepInv /\ PinsExact /\ OneLimiterPerKey
IInv   == UseInv /\ ResetInv /\ CountInv

-----------------------------------------------------------------------------
(* Pins and the calls that hold them. *)

LEMMA LabelSets ==
  /\ Once = {"touchPinned", "again", "take", "run", "unpin"}
  /\ Twice = {"try", "sleep", "fail", "admitted"}
  /\ Labels = {"touchPinned", "again", "take", "run", "unpin", "try", "sleep", "fail",
               "admitted", "idle", "lookup", "touch", "create", "pin", "done"}
  /\ AdminLabels = {"idle", "reset", "scan", "lock", "evict", "stop", "channel", "await", "done"}
  /\ Apis = {"Allow", "TryExecute", "Wait", "Execute"}
  BY DEF Once, Twice, Labels, AdminLabels, Apis

UsesOK == \A b \in Callers : IsFiniteSet(Uses(b)) /\ Cardinality(Uses(b)) \in Nat

LEMMA UsesAreFinite == UsesOK
<1>1. IsFiniteSet(Callers \X {1, 2})
  <2>1. IsFiniteSet({1, 2})
    <3>1. IsFiniteSet({1} \cup {2})
      BY FS_Singleton, FS_AddElement
    <3>2. {1} \cup {2} = {1, 2}
      OBVIOUS
    <3>. QED
      BY <3>1, <3>2
  <2>. QED
    BY <2>1, ActorsAssumption, FS_Product
<1>2. \A b \in Callers : Uses(b) \subseteq Callers \X {1, 2}
  BY DEF Uses
<1>. QED
  BY <1>1, <1>2, FS_Subset, FS_CardinalityType DEF UsesOK

LEMMA UsesAreFiniteNext == UsesOK'
  BY UsesAreFinite, PTL

\* One call moves and the others stay; what that does to the uses of a bucket.
LEMMA UsesKept ==
  ASSUME NEW c \in Callers, NEW b \in Callers,
         \A d \in Callers \ {c} : pc'[d] = pc[d] /\ bucket'[d] = bucket[d],
         pc[c] \in Once <=> pc'[c] \in Once, pc[c] \in Twice <=> pc'[c] \in Twice,
         InUse(c) => bucket'[c] = bucket[c]
  PROVE  Uses(b)' = Uses(b)
BY DEF Uses, InUse

LEMMA UsesGain ==
  ASSUME NEW c \in Callers, NEW b \in Callers, NEW i \in {1, 2},
         \A d \in Callers \ {c} : pc'[d] = pc[d] /\ bucket'[d] = bucket[d],
         IF i = 1 THEN ~InUse(c) /\ pc'[c] \in Once
                  ELSE pc[c] \in Once /\ pc'[c] \in Twice /\ bucket'[c] = bucket[c]
  PROVE  Cardinality(Uses(b)') = Cardinality(Uses(b)) + (IF b = bucket'[c] THEN 1 ELSE 0)
<1>. USE LabelSets
<1>1. CASE b = bucket'[c]
  <2>1. <<c, i>> \notin Uses(b)
    BY <1>1 DEF Uses, InUse
  <2>2. \A u \in Callers \X {1, 2} : u \in Uses(b)' <=> u \in Uses(b) \/ u = <<c, i>>
    BY <1>1 DEF Uses, InUse
  <2>3. Uses(b)' = Uses(b) \cup {<<c, i>>}
    BY <2>2 DEF Uses
  <2>. HIDE DEF Uses
  <2>4. Cardinality(Uses(b) \cup {<<c, i>>}) = Cardinality(Uses(b)) + 1
    BY <2>1, UsesAreFinite, FS_AddElement DEF UsesOK
  <2>. QED
    BY <1>1, <2>3, <2>4
<1>2. CASE b # bucket'[c]
  <2>1. Uses(b)' = Uses(b)
    BY <1>2 DEF Uses, InUse
  <2>. QED
    BY <1>2, <2>1, UsesAreFinite DEF UsesOK
<1>. QED
  BY <1>1, <1>2

LEMMA UsesLose ==
  ASSUME NEW c \in Callers, NEW b \in Callers, NEW i \in {1, 2},
         \A d \in Callers \ {c} : pc'[d] = pc[d] /\ bucket'[d] = bucket[d],
         IF i = 1 THEN pc[c] \in Once /\ ~InUse(c)'
                  ELSE pc[c] \in Twice /\ pc'[c] \in Once /\ bucket'[c] = bucket[c]
  PROVE  /\ Cardinality(Uses(b)') = Cardinality(Uses(b)) - (IF b = bucket[c] THEN 1 ELSE 0)
         /\ b = bucket[c] => Cardinality(Uses(b)) >= 1
<1>. USE LabelSets
<1>1. CASE b = bucket[c]
  <2>1. Uses(b)' = Uses(b) \ {<<c, i>>} /\ <<c, i>> \in Uses(b)
    BY <1>1 DEF Uses, InUse
  <2>. HIDE DEF Uses
  <2>2. Cardinality(Uses(b) \ {<<c, i>>}) = Cardinality(Uses(b)) - 1
    BY <2>1, UsesAreFinite, FS_RemoveElement DEF UsesOK
  <2>3. Cardinality(Uses(b) \ {<<c, i>>}) \in Nat
    BY <2>1, UsesAreFiniteNext DEF UsesOK
  <2>. QED
    BY <1>1, <2>1, <2>2, <2>3, UsesAreFinite DEF UsesOK
<1>2. CASE b # bucket[c]
  <2>1. Uses(b)' = Uses(b)
    BY <1>2 DEF Uses, InUse
  <2>. QED
    BY <1>2, <2>1, UsesAreFinite DEF UsesOK
<1>. QED
  BY <1>1, <1>2

LEMMA UserPins ==
  ASSUME UseInv, NEW c \in Callers, InUse(c)
  PROVE  bucket[c] \in Callers /\ pins[bucket[c]] \in Nat \ {0}
<1>1. bucket[c] \in Callers /\ pins[bucket[c]] \in Nat
  BY DEF UseInv, TypeOK, PlaceInv
<1>2. Uses(bucket[c]) # {}
  <2>1. <<c, 1>> \in Uses(bucket[c])
    BY DEF Uses, InUse
  <2>. QED
    BY <2>1
<1>3. Cardinality(Uses(bucket[c])) # 0
  BY <1>1, <1>2, UsesAreFinite, FS_EmptySet DEF UsesOK
<1>. QED
  BY <1>1, <1>3 DEF UseInv, PinsExact

-----------------------------------------------------------------------------
(* What every step of a call leaves alone. *)

CallFrame(c) ==
  /\ TypeOK'
  /\ pc'[c] \in Labels
  /\ \A d \in Callers \ {c} : pc'[d] = pc[d] /\ key'[d] = key[d] /\ bucket'[d] = bucket[d]
  /\ \A g \in Admins \cup Sweepers : pc'[g] = pc[g]
  /\ UNCHANGED <<mu, pos, remaining, stale>>

\* The table is as before, or c has put its bucket under its key.
Inserts(c) ==
  /\ key[c] \in Keys /\ table[key[c]] = None
  /\ table' = [table EXCEPT ![key[c]] = c]
  /\ keyCount < MaxKeys /\ keyCount' = keyCount + 1

TableStep(c) == Inserts(c) \/ UNCHANGED <<table, keyCount>>

LEMMA Moved ==
  ASSUME TypeOK, NEW g \in Goroutines, NEW b \in Labels \cup AdminLabels, Goto(g, b)
  PROVE  /\ pc' \in [Goroutines -> Labels \cup AdminLabels]
         /\ pc'[g] = b /\ \A h \in Goroutines \ {g} : pc'[h] = pc[h]
BY DEF TypeOK, Goto

LEMMA TouchType ==
  ASSUME TypeOK, NEW b \in Callers, Touched(b)
  PROVE  fresh' \in [Sweepers -> SUBSET Callers]
BY DEF TypeOK, Touched

\* Steps that keep the locals.
LEMMA FrameOfMove ==
  ASSUME TypeOK, NEW c \in Callers, NEW b \in Labels, Goto(c, b),
         UNCHANGED <<table, keyCount, flags, locals, admin>>,
         pins' \in [Callers -> Nat], fresh' \in [Sweepers -> SUBSET Callers]
  PROVE  CallFrame(c) /\ TableStep(c) /\ pc'[c] = b
<1>1. /\ c \in Goroutines /\ Callers \subseteq Goroutines
      /\ Admins \cup Sweepers \subseteq Goroutines /\ c \notin Admins \cup Sweepers
  BY ActorsAssumption DEF Goroutines
<1>2. pc' \in [Goroutines -> Labels \cup AdminLabels]
      /\ pc'[c] = b /\ \A h \in Goroutines \ {c} : pc'[h] = pc[h]
  BY <1>1, Moved
<1>3. UNCHANGED <<api, key, bucket, closed, stopCh, closedCh, mu, pos, remaining, stale>>
  BY DEF locals, flags, admin
<1>4. TypeOK'
  BY <1>2, <1>3 DEF TypeOK
<1>. QED
  BY <1>1, <1>2, <1>3, <1>4 DEF CallFrame, TableStep

\* Steps that return.
LEMMA FrameOfReturn ==
  ASSUME TypeOK, NEW c \in Callers, Return(c),
         UNCHANGED <<flags, admin>>, TableStep(c),
         pins' \in [Callers -> Nat], fresh' \in [Sweepers -> SUBSET Callers]
  PROVE  CallFrame(c) /\ pc'[c] = "done"
<1>1. /\ c \in Goroutines /\ Callers \subseteq Goroutines
      /\ Admins \cup Sweepers \subseteq Goroutines /\ c \notin Admins \cup Sweepers
  BY ActorsAssumption DEF Goroutines
<1>2. pc' \in [Goroutines -> Labels \cup AdminLabels]
      /\ pc'[c] = "done" /\ \A h \in Goroutines \ {c} : pc'[h] = pc[h]
  BY <1>1, LabelSets, Moved DEF Return
<1>3. UNCHANGED <<closed, stopCh, closedCh, mu, pos, remaining, stale>>
  BY DEF flags, admin
<1>4. /\ api' \in [Callers -> Apis \cup {None}] /\ key' \in [Callers -> Keys \cup {None}]
      /\ bucket' \in [Callers -> Callers \cup {None}]
      /\ \A d \in Callers \ {c} : key'[d] = key[d] /\ bucket'[d] = bucket[d]
  BY DEF Return, TypeOK
<1>5. table' \in [Keys -> Callers \cup {None}] /\ keyCount' \in Int
  BY DEF TypeOK, TableStep, Inserts
<1>6. TypeOK'
  BY <1>2, <1>3, <1>4, <1>5 DEF TypeOK
<1>. QED
  BY <1>1, <1>2, <1>3, <1>4, <1>6, LabelSets DEF CallFrame

\* Steps that find or make the bucket, or choose the key.
LEMMA FrameOfFind ==
  ASSUME TypeOK, NEW c \in Callers, NEW b \in Labels, Goto(c, b),
         NEW k \in Keys, NEW v \in Callers \cup {None}, NEW a \in Apis \cup {None},
         key' = [key EXCEPT ![c] = k], bucket' = [bucket EXCEPT ![c] = v],
         api' = [api EXCEPT ![c] = a],
         UNCHANGED <<flags, admin>>, TableStep(c),
         pins' \in [Callers -> Nat], fresh' \in [Sweepers -> SUBSET Callers]
  PROVE  CallFrame(c) /\ pc'[c] = b /\ key'[c] = k /\ bucket'[c] = v
<1>1. /\ c \in Goroutines /\ Callers \subseteq Goroutines
      /\ Admins \cup Sweepers \subseteq Goroutines /\ c \notin Admins \cup Sweepers
  BY ActorsAssumption DEF Goroutines
<1>2. pc' \in [Goroutines -> Labels \cup AdminLabels]
      /\ pc'[c] = b /\ \A h \in Goroutines \ {c} : pc'[h] = pc[h]
  BY <1>1, Moved
<1>3. UNCHANGED <<closed, stopCh, closedCh, mu, pos, remaining, stale>>
  BY DEF flags, admin
<1>4. /\ api' \in [Callers -> Apis \cup {None}] /\ key' \in [Callers -> Keys \cup {None}]
      /\ bucket' \in [Callers -> Callers \cup {None}]
      /\ \A d \in Callers \ {c} : key'[d] = key[d] /\ bucket'[d] = bucket[d]
      /\ key'[c] = k /\ bucket'[c] = v
  BY DEF TypeOK
<1>5. table' \in [Keys -> Callers \cup {None}] /\ keyCount' \in Int
  BY DEF TypeOK, TableStep, Inserts
<1>6. TypeOK'
  BY <1>2, <1>3, <1>4, <1>5 DEF TypeOK
<1>. QED
  BY <1>1, <1>2, <1>3, <1>4, <1>6 DEF CallFrame

-----------------------------------------------------------------------------
(* A call's steps keep pins exact and used buckets in the table. *)

LEMMA UseStep ==
  ASSUME UseInv, NEW c \in Callers, CallFrame(c), TableStep(c),
         pc'[c] \notin {"idle", "done"} => key'[c] \in Keys,
         InUse(c)' \/ pc'[c] = "touch" => bucket'[c] \in Callers,
         InUse(c)' => table'[key'[c]] = bucket'[c],
         \A b \in Callers : pins'[b] = Cardinality(Uses(b)')
  PROVE  UseInv'
<1>1. PlaceInv' /\ SweepInv'
  BY DEF UseInv, PlaceInv, SweepInv, CallFrame, InUse
<1>2. OneLimiterPerKey'
  <2>1. ASSUME NEW d \in Callers \ {c}, InUse(d)' PROVE table'[key'[d]] = bucket'[d]
    <3>1. InUse(d) /\ key'[d] = key[d] /\ bucket'[d] = bucket[d]
      BY <2>1 DEF InUse, CallFrame
    <3>2. table[key[d]] = bucket[d] /\ bucket[d] \in Callers /\ key[d] \in Keys
      BY <3>1, LabelSets DEF UseInv, OneLimiterPerKey, PlaceInv, InUse
    <3>3. table'[key[d]] = table[key[d]]
      BY <3>2, ActorsAssumption DEF TableStep, Inserts, UseInv, TypeOK
    <3>. QED
      BY <3>1, <3>2, <3>3
  <2>. QED
    BY <2>1 DEF OneLimiterPerKey, InUse
<1>. QED
  BY <1>1, <1>2 DEF UseInv, PinsExact, CallFrame

\* Steps that neither pin nor unpin.
LEMMA PinsStay ==
  ASSUME UseInv, NEW c \in Callers, CallFrame(c), pins' = pins,
         pc[c] \in Once <=> pc'[c] \in Once, pc[c] \in Twice <=> pc'[c] \in Twice,
         InUse(c) => bucket'[c] = bucket[c]
  PROVE  \A b \in Callers : pins'[b] = Cardinality(Uses(b)')
BY UsesKept DEF UseInv, PinsExact, CallFrame

LEMMA PlainCall ==
  ASSUME UseInv, NEW c \in Callers,
         Touch(c) \/ Try(c) \/ Sleep(c) \/ WakeByClose(c) \/ TakeNow(c) \/ Run(c)
  PROVE  UseInv' /\ CallFrame(c) /\ TableStep(c)
<1>. USE DEF At
<1>1. TypeOK /\ PlaceInv /\ pc[c] \in Labels
  BY DEF UseInv, PlaceInv
<1>2. UNCHANGED <<table, keyCount, pins, flags, admin>>
  BY DEF Touch, Try, Sleep, WakeByClose, TakeNow, Run
<1>3. InUse(c) \/ pc[c] = "touch"
  BY LabelSets DEF Touch, Try, Sleep, WakeByClose, TakeNow, Run, InUse
<1>4. bucket[c] \in Callers /\ key[c] \in Keys
  BY <1>1, <1>3, LabelSets DEF PlaceInv, InUse
<1>5. fresh' \in [Sweepers -> SUBSET Callers] /\ pins' \in [Callers -> Nat]
  <2>1. Touched(bucket[c]) \/ fresh' = fresh
    BY DEF Touch, Try, Sleep, WakeByClose, TakeNow, Run
  <2>. QED
    BY <1>1, <1>2, <1>4, <2>1, TouchType DEF TypeOK
<1>6. TableStep(c)
  BY <1>2 DEF TableStep
<1>7. CASE pc[c] = "touch"
  <2>1. Return(c)
    BY <1>7 DEF Touch, Try, Sleep, WakeByClose, TakeNow, Run
  <2>2. CallFrame(c) /\ pc'[c] = "done"
    BY <1>1, <1>2, <1>5, <1>6, <2>1, FrameOfReturn
  <2>3. \A b \in Callers : pins'[b] = Cardinality(Uses(b)')
    BY <1>2, <1>7, <2>2, LabelSets, PinsStay DEF InUse
  <2>. QED
    BY <1>6, <2>2, <2>3, LabelSets, UseStep DEF InUse
<1>8. CASE pc[c] # "touch"
  <2>1. PICK b \in Labels : /\ Goto(c, b) /\ b \notin {"idle", "touch", "done"}
                            /\ pc[c] \in Once <=> b \in Once
                            /\ pc[c] \in Twice <=> b \in Twice
    BY <1>8, LabelSets DEF Touch, Try, Sleep, WakeByClose, TakeNow, Run, Pinned
  <2>2. UNCHANGED locals
    BY <1>8 DEF Touch, Try, Sleep, WakeByClose, TakeNow, Run
  <2>3. CallFrame(c) /\ pc'[c] = b
    BY <1>1, <1>2, <1>5, <2>1, <2>2, FrameOfMove
  <2>4. bucket' = bucket /\ key' = key /\ table' = table
    BY <1>2, <2>2 DEF locals
  <2>5. \A x \in Callers : pins'[x] = Cardinality(Uses(x)')
    BY <1>2, <2>1, <2>3, <2>4, PinsStay
  <2>6. InUse(c)' => table'[key'[c]] = bucket'[c]
    BY <2>1, <2>3, <2>4 DEF InUse, UseInv, OneLimiterPerKey
  <2>. QED
    BY <1>4, <1>6, <2>3, <2>4, <2>5, <2>6, UseStep
<1>. QED
  BY <1>7, <1>8

LEMMA EnterStep ==
  ASSUME UseInv, NEW c \in Callers, Enter(c)
  PROVE  UseInv' /\ CallFrame(c) /\ TableStep(c)
<1>. USE DEF Enter, At
<1>1. TypeOK /\ TableStep(c) /\ pins' \in [Callers -> Nat]
      /\ fresh' \in [Sweepers -> SUBSET Callers]
  BY DEF UseInv, TypeOK, TableStep
<1>2. CASE Return(c)
  <2>1. CallFrame(c) /\ pc'[c] = "done"
    BY <1>1, <1>2, FrameOfReturn
  <2>2. \A b \in Callers : pins'[b] = Cardinality(Uses(b)')
    BY <2>1, LabelSets, PinsStay DEF InUse
  <2>. QED
    BY <1>1, <2>1, <2>2, LabelSets, UseStep DEF InUse
<1>3. CASE ~Return(c)
  <2>1. PICK k \in Keys, a \in Apis : /\ key' = [key EXCEPT ![c] = k]
                                      /\ api' = [api EXCEPT ![c] = a]
                                      /\ Goto(c, IF a = "Allow" THEN "lookup" ELSE "pin")
                                      /\ bucket' = bucket
    BY <1>3
  <2>2. PICK b \in {"lookup", "pin"} : Goto(c, b)
    BY <2>1
  <2>3. bucket' = [bucket EXCEPT ![c] = bucket[c]] /\ bucket[c] \in Callers \cup {None}
    <3>1. bucket \in [Callers -> Callers \cup {None}]
      BY <1>1 DEF TypeOK
    <3>2. [bucket EXCEPT ![c] = bucket[c]] = bucket
      BY <3>1
    <3>. QED
      BY <2>1, <3>1, <3>2
  <2>4. CallFrame(c) /\ pc'[c] = b /\ key'[c] = k
    <3>1. b \in Labels /\ a \in Apis \cup {None}
      BY LabelSets
    <3>2. UNCHANGED <<flags, admin>>
      BY <1>3
    <3>. HIDE DEF Enter, At
    <3>. QED
      BY <1>1, <2>1, <2>2, <2>3, <3>1, <3>2, FrameOfFind
  <2>5. \A x \in Callers : pins'[x] = Cardinality(Uses(x)')
    BY <2>1, <2>2, <2>4, LabelSets, PinsStay DEF InUse
  <2>. QED
    BY <1>1, <2>2, <2>4, <2>5, LabelSets, UseStep DEF InUse
<1>. QED
  BY <1>2, <1>3

LEMMA LookupStep ==
  ASSUME UseInv, NEW c \in Callers, Lookup(c)
  PROVE  UseInv' /\ CallFrame(c) /\ TableStep(c)
<1>. USE DEF Lookup, At
<1>1. TypeOK /\ TableStep(c) /\ pins' \in [Callers -> Nat]
      /\ fresh' \in [Sweepers -> SUBSET Callers] /\ key[c] \in Keys
  BY DEF UseInv, TypeOK, TableStep, PlaceInv
<1>2. PICK b \in {"create", "touch"} : Goto(c, b) /\ (b = "touch" => table[key[c]] # None)
  OBVIOUS
<1>3. /\ table[key[c]] \in Callers \cup {None}
      /\ key' = [key EXCEPT ![c] = key[c]] /\ api' = [api EXCEPT ![c] = api[c]]
      /\ api[c] \in Apis \cup {None}
  BY <1>1 DEF TypeOK
<1>. DEFINE v == table[key[c]]
<1>4. CallFrame(c) /\ pc'[c] = b /\ key'[c] = key[c] /\ bucket'[c] = v
  <2>1. b \in Labels
    BY LabelSets
  <2>2. v \in Callers \cup {None} /\ bucket' = [bucket EXCEPT ![c] = v]
    BY <1>3
  <2>3. UNCHANGED <<flags, admin>>
    OBVIOUS
  <2>. HIDE DEF v, Lookup
  <2>. QED
    BY <1>1, <1>2, <1>3, <2>1, <2>2, <2>3, FrameOfFind
<1>5. \A x \in Callers : pins'[x] = Cardinality(Uses(x)')
  BY <1>2, <1>4, LabelSets, PinsStay DEF InUse
<1>. QED
  BY <1>1, <1>2, <1>3, <1>4, <1>5, LabelSets, UseStep DEF InUse

LEMMA CreateStep ==
  ASSUME UseInv, NEW c \in Callers, Create(c)
  PROVE  UseInv' /\ CallFrame(c) /\ TableStep(c)
<1>. USE DEF Create, At
<1>1. /\ TypeOK /\ pins' \in [Callers -> Nat] /\ key[c] \in Keys
      /\ fresh' \in [Sweepers -> SUBSET Callers]
  <2>1. TypeOK /\ pins' \in [Callers -> Nat] /\ key[c] \in Keys
    BY DEF UseInv, TypeOK, PlaceInv
  <2>2. Touched(c) \/ fresh' = fresh
    BY DEF Insert
  <2>. QED
    BY <2>1, <2>2, TouchType DEF TypeOK
<1>2. TableStep(c)
  BY <1>1 DEF TableStep, Inserts, Insert, MayReserve
<1>3. CASE Return(c)
  <2>1. CallFrame(c) /\ pc'[c] = "done"
    BY <1>1, <1>2, <1>3, FrameOfReturn
  <2>2. \A b \in Callers : pins'[b] = Cardinality(Uses(b)')
    BY <2>1, LabelSets, PinsStay DEF InUse
  <2>. QED
    BY <1>2, <2>1, <2>2, LabelSets, UseStep DEF InUse
<1>4. CASE ~Return(c)
  <2>1. /\ Goto(c, "touch") /\ bucket' = [bucket EXCEPT ![c] = table[key[c]]]
        /\ table[key[c]] \in Callers
        /\ key' = [key EXCEPT ![c] = key[c]] /\ api' = [api EXCEPT ![c] = api[c]]
        /\ api[c] \in Apis \cup {None}
    BY <1>1, <1>4 DEF TypeOK
  <2>2. CallFrame(c) /\ pc'[c] = "touch" /\ key'[c] = key[c] /\ bucket'[c] = table[key[c]]
    <3>1. "touch" \in Labels /\ key[c] \in Keys /\ table[key[c]] \in Callers \cup {None}
      BY <1>1, <2>1, LabelSets
    <3>2. UNCHANGED <<flags, admin>>
      BY <1>1, <1>4
    <3>. QED
      BY <1>1, <1>2, <2>1, <3>1, <3>2, FrameOfFind
  <2>3. \A x \in Callers : pins'[x] = Cardinality(Uses(x)')
    BY <2>2, LabelSets, PinsStay DEF InUse
  <2>. QED
    BY <1>1, <1>2, <2>1, <2>2, <2>3, LabelSets, UseStep DEF InUse
<1>. QED
  BY <1>3, <1>4

LEMMA BucketForWaitStep ==
  ASSUME UseInv, NEW c \in Callers, BucketForWait(c)
  PROVE  UseInv' /\ CallFrame(c) /\ TableStep(c)
<1>1. /\ TypeOK /\ key[c] \in Keys /\ pc[c] = "pin" /\ ~InUse(c)
      /\ UNCHANGED <<flags, admin>>
  BY LabelSets DEF UseInv, PlaceInv, BucketForWait, At, InUse
<1>2. fresh' \in [Sweepers -> SUBSET Callers]
  <2>1. Touched(c) \/ fresh' = fresh
    BY DEF BucketForWait, Insert
  <2>. QED
    BY <1>1, <2>1, TouchType DEF TypeOK
<1>3. TableStep(c)
  BY <1>1 DEF BucketForWait, TableStep, Inserts, Insert, MayReserve
<1>4. CASE Return(c) /\ pins' = pins
  <2>1. CallFrame(c) /\ pc'[c] = "done"
    BY <1>1, <1>2, <1>3, <1>4, FrameOfReturn DEF TypeOK
  <2>2. \A b \in Callers : pins'[b] = Cardinality(Uses(b)')
    BY <1>1, <1>4, <2>1, LabelSets, PinsStay DEF InUse
  <2>. QED
    BY <1>3, <2>1, <2>2, LabelSets, UseStep DEF InUse
<1>5. CASE ~(Return(c) /\ pins' = pins)
  <2>1. PICK v \in Callers, b \in {"touchPinned", "take", "again"} :
          /\ Goto(c, b) /\ bucket' = [bucket EXCEPT ![c] = v] /\ Pin(v)
          /\ UNCHANGED <<api, key>>
          /\ table'[key[c]] = v
    <3>1. CASE table[key[c]] # None
      <4>1. table[key[c]] \in Callers
        BY <1>1, <3>1 DEF TypeOK
      <4>2. /\ Goto(c, "touchPinned") /\ bucket' = [bucket EXCEPT ![c] = table[key[c]]]
            /\ Pin(table[key[c]]) /\ UNCHANGED <<api, key>> /\ table' = table
        BY <3>1 DEF BucketForWait
      <4>. QED
        BY <4>1, <4>2
    <3>2. CASE table[key[c]] = None
      <4>1. /\ Goto(c, Pinned(c)) /\ bucket' = [bucket EXCEPT ![c] = c]
            /\ Pin(c) /\ UNCHANGED <<api, key>> /\ table' = [table EXCEPT ![key[c]] = c]
        BY <1>5, <3>2 DEF BucketForWait, Insert
      <4>2. Pinned(c) \in {"take", "again"}
        BY DEF Pinned
      <4>3. table'[key[c]] = c
        BY <1>1, <4>1 DEF TypeOK
      <4>. QED
        BY <4>1, <4>2, <4>3
    <3>. QED
      BY <3>1, <3>2
  <2>2. /\ pins' \in [Callers -> Nat] /\ pins'[v] = pins[v] + 1
        /\ \A x \in Callers \ {v} : pins'[x] = pins[x]
    BY <1>1, <2>1 DEF Pin, TypeOK
  <2>3. /\ key' = [key EXCEPT ![c] = key[c]] /\ api' = [api EXCEPT ![c] = api[c]]
        /\ api[c] \in Apis \cup {None}
    BY <1>1, <2>1 DEF TypeOK
  <2>4. b \in Labels /\ b \in Once /\ b \notin {"idle", "touch", "done"}
    BY LabelSets
  <2>5. CallFrame(c) /\ pc'[c] = b /\ key'[c] = key[c] /\ bucket'[c] = v
    <3>1. v \in Callers \cup {None} /\ b \in Labels
      BY <2>4
    <3>2. TypeOK /\ key[c] \in Keys /\ UNCHANGED <<flags, admin>>
      BY <1>1
    <3>3. Goto(c, b) /\ bucket' = [bucket EXCEPT ![c] = v]
      BY <2>1
    <3>4. pins' \in [Callers -> Nat]
      BY <2>2
    <3>. QED
      BY <1>2, <1>3, <2>3, <3>1, <3>2, <3>3, <3>4, FrameOfFind
  <2>6. ASSUME NEW x \in Callers PROVE pins'[x] = Cardinality(Uses(x)')
    <3>1. Cardinality(Uses(x)') = Cardinality(Uses(x)) + (IF x = v THEN 1 ELSE 0)
      BY <1>1, <2>4, <2>5, UsesGain DEF CallFrame
    <3>. QED
      BY <2>2, <3>1, UsesAreFinite DEF UseInv, PinsExact, UsesOK
  <2>. QED
    BY <1>1, <1>3, <2>1, <2>4, <2>5, <2>6, UseStep
<1>. QED
  BY <1>4, <1>5

LEMMA PinAgainStep ==
  ASSUME UseInv, NEW c \in Callers, PinAgain(c)
  PROVE  UseInv' /\ CallFrame(c) /\ TableStep(c)
<1>1. /\ TypeOK /\ key[c] \in Keys /\ pc[c] = "again" /\ InUse(c) /\ bucket[c] \in Callers
      /\ Goto(c, "try") /\ UNCHANGED <<table, keyCount, fresh, flags, locals, admin>>
  BY LabelSets DEF UseInv, PlaceInv, PinAgain, At, InUse
<1>2. /\ pins' \in [Callers -> Nat] /\ pins'[bucket[c]] = pins[bucket[c]] + 1
      /\ \A x \in Callers \ {bucket[c]} : pins'[x] = pins[x]
  BY <1>1 DEF PinAgain, Pin, TypeOK
<1>3. CallFrame(c) /\ TableStep(c) /\ pc'[c] = "try"
  BY <1>1, <1>2, LabelSets, FrameOfMove DEF TypeOK
<1>4. bucket' = bucket /\ key' = key /\ table' = table
  BY <1>1 DEF locals
<1>5. ASSUME NEW x \in Callers PROVE pins'[x] = Cardinality(Uses(x)')
  <2>1. Cardinality(Uses(x)') = Cardinality(Uses(x)) + (IF x = bucket[c] THEN 1 ELSE 0)
    BY <1>1, <1>3, <1>4, LabelSets, UsesGain DEF CallFrame
  <2>. QED
    BY <1>2, <2>1, UsesAreFinite DEF UseInv, PinsExact, UsesOK
<1>6. InUse(c)' => table'[key'[c]] = bucket'[c]
  BY <1>1, <1>4 DEF InUse, UseInv, OneLimiterPerKey
<1>. QED
  BY <1>1, <1>3, <1>4, <1>5, <1>6, UseStep

LEMMA UnpinInnerStep ==
  ASSUME UseInv, NEW c \in Callers, UnpinInner(c)
  PROVE  UseInv' /\ CallFrame(c) /\ TableStep(c)
<1>1. /\ TypeOK /\ key[c] \in Keys /\ pc[c] \in Twice /\ InUse(c) /\ bucket[c] \in Callers
      /\ UNCHANGED <<table, keyCount, flags, locals, admin>> /\ Unpin(bucket[c])
  BY LabelSets DEF UseInv, PlaceInv, UnpinInner, InUse
<1>2. PICK b \in {"run", "unpin"} : Goto(c, b)
  BY DEF UnpinInner
<1>3. fresh' \in [Sweepers -> SUBSET Callers]
  <2>1. Touched(bucket[c]) \/ fresh' = fresh
    BY DEF UnpinInner
  <2>. QED
    BY <1>1, <2>1, TouchType DEF TypeOK
<1>4. /\ pins' \in [Callers -> Nat] /\ pins'[bucket[c]] = pins[bucket[c]] - 1
      /\ \A x \in Callers \ {bucket[c]} : pins'[x] = pins[x]
  BY <1>1, UserPins DEF Unpin, TypeOK
<1>5. b \in Labels /\ b \in Once /\ b \notin {"idle", "touch", "done"}
  BY LabelSets
<1>6. CallFrame(c) /\ TableStep(c) /\ pc'[c] = b
  BY <1>1, <1>2, <1>3, <1>4, <1>5, FrameOfMove
<1>7. bucket' = bucket /\ key' = key /\ table' = table
  BY <1>1 DEF locals
<1>8. ASSUME NEW x \in Callers PROVE pins'[x] = Cardinality(Uses(x)')
  <2>1. Cardinality(Uses(x)') = Cardinality(Uses(x)) - (IF x = bucket[c] THEN 1 ELSE 0)
    BY <1>1, <1>5, <1>6, <1>7, LabelSets, UsesLose DEF CallFrame
  <2>. QED
    BY <1>4, <2>1, UsesAreFinite DEF UseInv, PinsExact, UsesOK
<1>9. InUse(c)' => table'[key'[c]] = bucket'[c]
  BY <1>1, <1>7 DEF InUse, UseInv, OneLimiterPerKey
<1>. QED
  BY <1>1, <1>5, <1>6, <1>7, <1>8, <1>9, UseStep

LEMMA UnpinOuterStep ==
  ASSUME UseInv, NEW c \in Callers, UnpinOuter(c)
  PROVE  UseInv' /\ CallFrame(c) /\ TableStep(c)
<1>1. /\ TypeOK /\ pc[c] \in Once /\ InUse(c) /\ bucket[c] \in Callers /\ Return(c)
      /\ UNCHANGED <<table, keyCount, fresh, flags, admin>> /\ Unpin(bucket[c])
  BY LabelSets DEF UseInv, PlaceInv, UnpinOuter, At, InUse
<1>2. /\ pins' \in [Callers -> Nat] /\ pins'[bucket[c]] = pins[bucket[c]] - 1
      /\ \A x \in Callers \ {bucket[c]} : pins'[x] = pins[x]
  BY <1>1, UserPins DEF Unpin, TypeOK
<1>3. TableStep(c) /\ fresh' \in [Sweepers -> SUBSET Callers]
  BY <1>1 DEF TableStep, TypeOK
<1>4. CallFrame(c) /\ pc'[c] = "done"
  BY <1>1, <1>2, <1>3, FrameOfReturn
<1>5. ASSUME NEW x \in Callers PROVE pins'[x] = Cardinality(Uses(x)')
  <2>1. Cardinality(Uses(x)') = Cardinality(Uses(x)) - (IF x = bucket[c] THEN 1 ELSE 0)
    BY <1>1, <1>4, LabelSets, UsesLose DEF CallFrame, InUse
  <2>. QED
    BY <1>2, <2>1, UsesAreFinite DEF UseInv, PinsExact, UsesOK
<1>. QED
  BY <1>3, <1>4, <1>5, LabelSets, UseStep DEF InUse

LEMMA CallStep ==
  ASSUME UseInv, NEW c \in Callers, Call(c)
  PROVE  UseInv' /\ CallFrame(c) /\ TableStep(c)
BY PlainCall, EnterStep, LookupStep, CreateStep, BucketForWaitStep, PinAgainStep,
   UnpinInnerStep, UnpinOuterStep DEF Call

-----------------------------------------------------------------------------
(* Buckets leave the table only while nobody pins them. *)

LEMMA DropStep ==
  ASSUME UseInv, TypeOK', SweepInv', NEW K \in SUBSET Keys, \A k \in K : Idle(k), Drop(K),
         UNCHANGED <<pins, locals>>, \A c \in Callers : pc'[c] = pc[c]
  PROVE  UseInv'
<1>1. bucket' = bucket /\ key' = key /\ pins' = pins
  BY DEF locals
<1>2. PlaceInv'
  BY <1>1 DEF UseInv, PlaceInv, InUse
<1>3. PinsExact'
  <2>1. \A b \in Callers : Uses(b)' = Uses(b)
    BY <1>1 DEF Uses
  <2>. QED
    BY <1>1, <2>1 DEF UseInv, PinsExact
<1>4. OneLimiterPerKey'
  <2>. SUFFICES ASSUME NEW c \in Callers, InUse(c) PROVE table'[key[c]] = bucket[c]
    BY <1>1 DEF OneLimiterPerKey, InUse
  <2>1. key[c] \in Keys /\ table[key[c]] = bucket[c] /\ pins[bucket[c]] # 0
    BY LabelSets, UserPins DEF UseInv, OneLimiterPerKey, PlaceInv, InUse
  <2>2. key[c] \notin K
    BY <2>1 DEF Idle
  <2>. QED
    BY <2>1, <2>2 DEF Drop
<1>. QED
  BY <1>2, <1>3, <1>4 DEF UseInv

\* One key goes and is counted.
OneGone == \E k \in Keys : Idle(k) /\ Drop({k}) /\ keyCount' = keyCount - 1

\* What Remove, Close and the sweeps leave alone.
OtherFrame ==
  /\ TypeOK' /\ SweepInv' /\ UNCHANGED <<pins, locals>>
  /\ \A c \in Callers : pc'[c] = pc[c]
  /\ \A a \in Admins : /\ pos'[a] = pos[a] /\ remaining'[a] = remaining[a]
                       /\ pc'[a] = "idle" => pc[a] = "idle"
                       /\ pc'[a] = "reset" <=> pc[a] = "reset"

LEMMA AdminMoves ==
  ASSUME TypeOK, NEW g \in Admins, NEW b \in AdminLabels \ {"idle", "reset"},
         Goto(g, b), pc[g] # "reset"
  PROVE  /\ pc' \in [Goroutines -> Labels \cup AdminLabels]
         /\ \A c \in Callers : pc'[c] = pc[c]
         /\ \A s \in Sweepers : pc'[s] = pc[s]
         /\ \A a \in Admins : /\ pc'[a] = "idle" => pc[a] = "idle"
                              /\ pc'[a] = "reset" <=> pc[a] = "reset"
<1>1. /\ g \in Goroutines /\ g \notin Callers \cup Sweepers
      /\ Callers \cup Sweepers \cup Admins \subseteq Goroutines
  BY ActorsAssumption DEF Goroutines
<1>. QED
  BY <1>1, Moved

LEMMA RemoveStep ==
  ASSUME UseInv, NEW a \in Admins, RemoveKey(a)
  PROVE  OtherFrame /\ (OneGone \/ UNCHANGED <<table, keyCount>>)
<1>. USE DEF RemoveKey, At
<1>1. OneGone \/ UNCHANGED <<table, keyCount>>
  BY DEF OneGone
<1>2. /\ pc' \in [Goroutines -> Labels \cup AdminLabels]
      /\ \A c \in Callers \cup Sweepers : pc'[c] = pc[c]
      /\ \A d \in Admins : /\ pc'[d] = "idle" => pc[d] = "idle"
                           /\ pc'[d] = "reset" <=> pc[d] = "reset"
  BY LabelSets, AdminMoves DEF UseInv
<1>3. table' \in [Keys -> Callers \cup {None}] /\ keyCount' \in Int
  BY <1>1 DEF OneGone, Drop, UseInv, TypeOK
<1>4. UNCHANGED <<pins, fresh, api, key, bucket, closed, stopCh, closedCh, mu, pos, remaining, stale>>
  BY DEF flags, locals, admin
<1>5. TypeOK'
  BY <1>2, <1>3, <1>4 DEF UseInv, TypeOK
<1>. QED
  BY <1>1, <1>2, <1>4, <1>5 DEF OtherFrame, locals, SweepInv, UseInv

LEMMA CloseStep ==
  ASSUME UseInv, NEW a \in Admins, Close(a)
  PROVE  OtherFrame /\ UNCHANGED <<table, keyCount>>
<1>. USE DEF Close, CloseFlag, CloseStop, CloseChannel, AwaitSweeper, At
<1>1. PICK b \in {"stop", "channel", "await", "done"} : Goto(a, b)
  OBVIOUS
<1>2. pc[a] # "reset" /\ b \in AdminLabels \ {"idle", "reset"}
  BY LabelSets
<1>3. /\ pc' \in [Goroutines -> Labels \cup AdminLabels]
      /\ \A c \in Callers \cup Sweepers : pc'[c] = pc[c]
      /\ \A d \in Admins : /\ pc'[d] = "idle" => pc[d] = "idle"
                           /\ pc'[d] = "reset" <=> pc[d] = "reset"
  BY <1>1, <1>2, AdminMoves DEF UseInv
<1>4. UNCHANGED <<table, keyCount, pins, fresh, api, key, bucket, mu, pos, remaining, stale>>
  BY DEF flags, locals, admin
<1>5. closed' \in BOOLEAN /\ stopCh' \in BOOLEAN /\ closedCh' \in BOOLEAN
  BY DEF UseInv, TypeOK, flags
<1>6. TypeOK'
  BY <1>3, <1>4, <1>5 DEF UseInv, TypeOK
<1>. QED
  BY <1>3, <1>4, <1>6 DEF OtherFrame, locals, SweepInv, UseInv

\* The background sweeper goes back to its first step, so its labels are not
\* among those of AdminMoves.
LEMMA SweepStep ==
  ASSUME UseInv, NEW s \in Sweepers, Sweep(s)
  PROVE  OtherFrame /\ (OneGone \/ UNCHANGED <<table, keyCount>>)
<1>. USE DEF Sweep, At
<1>1. OneGone \/ UNCHANGED <<table, keyCount>>
  <2>1. CASE Evict(s)
    <3>1. stale[s] \subseteq Keys
      BY DEF UseInv, TypeOK
    <3>. QED
      BY <2>1, <3>1 DEF Evict, StillStale, OneGone
  <2>2. CASE ~Evict(s)
    BY <2>2 DEF BeginSweep, Scan, LockShard, UnlockShard, EndSweep
  <2>. QED
    BY <2>1, <2>2
<1>2. table' \in [Keys -> Callers \cup {None}] /\ keyCount' \in Int
  BY <1>1 DEF OneGone, Drop, UseInv, TypeOK
<1>3. UNCHANGED <<pins, api, key, bucket, closed, stopCh, closedCh, remaining>>
  BY DEF BeginSweep, Scan, LockShard, Evict, UnlockShard, EndSweep, flags, locals, admin
<1>4. s \in Goroutines /\ s \notin Callers /\ s \notin Admins
      /\ Callers \subseteq Goroutines /\ Admins \subseteq Goroutines
  BY ActorsAssumption DEF Goroutines
<1>5. /\ pc' \in [Goroutines -> Labels \cup AdminLabels]
      /\ \A g \in Goroutines \ {s} : pc'[g] = pc[g]
  <2>1. pc' = pc \/ \E b \in AdminLabels : Goto(s, b)
    BY LabelSets DEF BeginSweep, Scan, LockShard, Evict, UnlockShard, EndSweep
  <2>. QED
    BY <1>4, <2>1, Moved DEF UseInv, TypeOK
<1>6. /\ pos' \in [Admins \cup Sweepers -> 0 .. NumShards]
      /\ \A g \in (Admins \cup Sweepers) \ {s} : pos'[g] = pos[g]
      /\ pc'[s] \in {"lock", "evict"} => pos'[s] < NumShards
  <2>1. pos[s] \in 0 .. NumShards /\ (pc[s] \in {"lock", "evict"} => pos[s] < NumShards)
        /\ pos \in [Admins \cup Sweepers -> 0 .. NumShards] /\ pc \in [Goroutines -> Labels \cup AdminLabels]
    BY DEF UseInv, TypeOK, SweepInv
  <2>2. CASE UnlockShard(s)
    BY <1>4, <2>1, <2>2, ShardsAssumption DEF UnlockShard, Goto
  <2>3. CASE Scan(s)
    BY <1>4, <2>1, <2>3, ShardsAssumption DEF Scan, Goto
  <2>4. CASE BeginSweep(s)
    BY <1>4, <2>1, <2>4, ShardsAssumption DEF BeginSweep, Goto
  <2>5. CASE LockShard(s) \/ Evict(s) \/ EndSweep(s)
    BY <1>4, <2>1, <2>5 DEF LockShard, Evict, EndSweep, admin, Goto
  <2>. QED
    BY <2>2, <2>3, <2>4, <2>5
<1>7. SweepInv'
  BY <1>4, <1>5, <1>6 DEF SweepInv, UseInv, Goroutines
<1>8. fresh' \in [Sweepers -> SUBSET Callers] /\ mu' \in [Shards -> Sweepers \cup {None}]
  <2>1. fresh' = fresh \/ fresh' = [fresh EXCEPT ![s] = {}]
    BY DEF BeginSweep, Scan, LockShard, Evict, UnlockShard, EndSweep
  <2>2. mu' = mu \/ \E v \in Sweepers \cup {None} : mu' = [mu EXCEPT ![pos[s]] = v]
    BY DEF BeginSweep, Scan, LockShard, Evict, UnlockShard, EndSweep, admin
  <2>. QED
    BY <2>1, <2>2 DEF UseInv, TypeOK
<1>9. stale' \in [Sweepers -> SUBSET Keys]
  <2>1. stale' = stale \/ \E S \in SUBSET Keys : stale' = [stale EXCEPT ![s] = S]
    <3>1. CASE Scan(s)
      BY <3>1 DEF Scan, InShard, Tracked
    <3>2. CASE Evict(s)
      <4>1. PICK k \in stale[s] : stale' = [stale EXCEPT ![s] = stale[s] \ {k}]
        BY <3>2 DEF Evict
      <4>2. stale[s] \ {k} \in SUBSET Keys
        BY DEF UseInv, TypeOK
      <4>. QED
        BY <4>1, <4>2
    <3>3. CASE BeginSweep(s) \/ LockShard(s) \/ UnlockShard(s) \/ EndSweep(s)
      BY <3>3 DEF BeginSweep, LockShard, UnlockShard, EndSweep, admin
    <3>. QED
      BY <3>1, <3>2, <3>3
  <2>. QED
    BY <2>1 DEF UseInv, TypeOK
<1>10. TypeOK'
  BY <1>2, <1>3, <1>5, <1>6, <1>8, <1>9 DEF UseInv, TypeOK
<1>11. /\ \A c \in Callers : pc'[c] = pc[c]
       /\ \A a \in Admins : pc'[a] = pc[a] /\ pos'[a] = pos[a]
  BY <1>4, <1>5, <1>6
<1>. QED
  BY <1>1, <1>3, <1>7, <1>10, <1>11 DEF OtherFrame, locals

LEMMA StopStep ==
  ASSUME UseInv, StopLoop
  PROVE  OtherFrame /\ UNCHANGED <<table, keyCount>>
<1>. USE DEF StopLoop, At
<1>1. /\ EvictLoop \in Goroutines /\ EvictLoop \notin Callers \cup Admins
      /\ Callers \subseteq Goroutines /\ Admins \subseteq Goroutines /\ Sweepers \subseteq Goroutines
  BY ActorsAssumption DEF Goroutines, Sweepers
<1>2. /\ pc' \in [Goroutines -> Labels \cup AdminLabels] /\ pc'[EvictLoop] = "done"
      /\ \A g \in Goroutines \ {EvictLoop} : pc'[g] = pc[g]
  BY <1>1, LabelSets, Moved DEF UseInv
<1>3. UNCHANGED <<table, keyCount, pins, fresh, api, key, bucket, closed, stopCh, closedCh, mu,
                  pos, remaining, stale>>
  BY DEF flags, locals, admin
<1>4. TypeOK' /\ SweepInv'
  BY <1>1, <1>2, <1>3 DEF UseInv, TypeOK, SweepInv
<1>. QED
  BY <1>1, <1>2, <1>3, <1>4 DEF OtherFrame, locals

LEMMA OtherKeepsUse ==
  ASSUME UseInv, OtherFrame, OneGone \/ UNCHANGED <<table, keyCount>>
  PROVE  UseInv'
<1>1. PICK K \in SUBSET Keys : (\A k \in K : Idle(k)) /\ Drop(K)
  <2>1. CASE OneGone
    <3>1. PICK k \in Keys : Idle(k) /\ Drop({k})
      BY <2>1 DEF OneGone
    <3>. QED
      BY <3>1
  <2>2. CASE UNCHANGED <<table, keyCount>>
    <3>1. Drop({})
      BY <2>2 DEF Drop, UseInv, TypeOK
    <3>. QED
      BY <3>1
  <2>. QED
    BY <2>1, <2>2
<1>. QED
  BY <1>1, DropStep DEF OtherFrame

-----------------------------------------------------------------------------
(* The key count. *)

LEMMA TrackedIsFinite ==
  ASSUME NEW S \in SUBSET Keys
  PROVE  IsFiniteSet(S) /\ Cardinality(S) \in Nat
BY ActorsAssumption, FS_Subset, FS_CardinalityType

\* A step of anybody but Reset: if it changes the table while a Reset is under
\* way, clean is lost; if not, the count follows the table.
LEMMA CountStep ==
  ASSUME IInv, TypeOK', Remember,
         \A a \in Admins : /\ pos'[a] = pos[a] /\ remaining'[a] = remaining[a]
                           /\ pc'[a] = "idle" => pc[a] = "idle"
                           /\ pc'[a] = "reset" <=> pc[a] = "reset",
         (\E c \in Callers : Inserts(c)) \/ OneGone \/ UNCHANGED <<table, keyCount>>
  PROVE  ResetInv' /\ CountInv'
<1>1. clean' => clean
  BY DEF Remember
<1>2. \A a \in Admins : Resetting(a)' <=> Resetting(a)
  BY DEF Resetting
<1>3. CASE UNCHANGED <<table, keyCount>>
  <2>1. Tracked' = Tracked
    BY <1>3 DEF Tracked
  <2>2. \A a \in Admins : Behind(a)' = Behind(a)
    BY <2>1 DEF Behind
  <2>. QED
    BY <1>1, <1>2, <1>3, <2>1, <2>2 DEF IInv, ResetInv, CountInv, KeysCounted
<1>4. CASE table' # table
  <2>1. clean' => \A a \in Admins : ~Resetting(a)
    BY <1>4 DEF Remember, Disturbs
  <2>2. ResetInv'
    BY <1>2, <2>1 DEF IInv, ResetInv
  <2>3. clean' => Cardinality(Tracked) = keyCount /\ keyCount <= MaxKeys
    BY <1>1, <2>1 DEF IInv, CountInv, KeysCounted
  <2>4. keyCount \in Int /\ MaxKeys \in Nat /\ Cardinality(Tracked) \in Nat
    BY TrackedIsFinite, ShardsAssumption DEF Tracked, IInv, UseInv, TypeOK
  <2>5. CASE \E c \in Callers : Inserts(c)
    <3>1. PICK c \in Callers : Inserts(c)
      BY <2>5
    <3>2. Tracked' = Tracked \cup {key[c]} /\ key[c] \notin Tracked
      BY <3>1, ActorsAssumption DEF Tracked, Inserts, IInv, UseInv, TypeOK
    <3>3. IsFiniteSet(Tracked)
      BY TrackedIsFinite DEF Tracked
    <3>4. Cardinality(Tracked') = Cardinality(Tracked) + 1
      BY <3>2, <3>3, FS_AddElement
    <3>. QED
      BY <2>2, <2>3, <2>4, <3>1, <3>4 DEF Inserts, CountInv, KeysCounted
  <2>6. CASE OneGone
    <3>1. PICK k \in Keys : Idle(k) /\ Drop({k}) /\ keyCount' = keyCount - 1
      BY <2>6 DEF OneGone
    <3>2. Tracked' = Tracked \ {k} /\ k \in Tracked
      BY <3>1 DEF Tracked, Idle, Drop
    <3>3. IsFiniteSet(Tracked)
      BY TrackedIsFinite DEF Tracked
    <3>4. Cardinality(Tracked') = Cardinality(Tracked) - 1
      BY <3>2, <3>3, FS_RemoveElement
    <3>. QED
      BY <2>2, <2>3, <2>4, <3>1, <3>4 DEF CountInv, KeysCounted
  <2>. QED
    BY <1>4, <2>5, <2>6
<1>5. table' = table => UNCHANGED <<table, keyCount>>
  <2>1. ASSUME NEW c \in Callers, Inserts(c) PROVE table' # table
    BY <2>1, ActorsAssumption DEF Inserts, IInv, UseInv, TypeOK
  <2>2. OneGone => table' # table
    BY DEF OneGone, Idle, Drop
  <2>. QED
    BY <2>1, <2>2
<1>. QED
  BY <1>3, <1>4, <1>5

\* Reset at one shard: what it leaves there joins what it has left before.
LEMMA ResetShardStep ==
  ASSUME IInv, Remember, NEW a \in Admins, ResetShard(a)
  PROVE  IInv'
<1>. USE DEF ResetShard
<1>. DEFINE i == pos[a]
            drops == ResetDrops(i)
            left == InShard(i) \ drops
<1>1. TypeOK /\ i \in 0 .. NumShards /\ i < NumShards /\ remaining[a] \in Nat /\ NumShards \in Nat
  BY ShardsAssumption DEF IInv, UseInv, TypeOK
<1>2. /\ a \in Goroutines /\ a \notin Callers \cup Sweepers
      /\ Callers \cup Sweepers \cup Admins \subseteq Goroutines
  BY ActorsAssumption DEF Goroutines
<1>3. /\ pc' \in [Goroutines -> Labels \cup AdminLabels] /\ pc'[a] = "reset"
      /\ \A g \in Goroutines \ {a} : pc'[g] = pc[g]
  BY <1>1, <1>2, LabelSets, Moved
<1>4. drops \in SUBSET Keys /\ left \in SUBSET Keys /\ (\A k \in drops : Idle(k)) /\ Drop(drops)
  BY DEF ResetDrops, InShard, Tracked
<1>5. IsFiniteSet(left) /\ Cardinality(left) \in Nat
  BY <1>4, TrackedIsFinite
<1>6. /\ remaining' = [remaining EXCEPT ![a] = remaining[a] + Cardinality(left)]
      /\ pos' = [pos EXCEPT ![a] = i + 1]
      /\ UNCHANGED <<keyCount, pins, fresh, locals, closed, stopCh, closedCh, stale, mu>>
  BY DEF flags
<1>7. /\ pos' \in [Admins \cup Sweepers -> 0 .. NumShards] /\ pos'[a] = i + 1
      /\ \A g \in (Admins \cup Sweepers) \ {a} : pos'[g] = pos[g]
      /\ remaining' \in [Admins -> Nat] /\ remaining'[a] = remaining[a] + Cardinality(left)
      /\ \A g \in Admins \ {a} : remaining'[g] = remaining[g]
  <2>. HIDE DEF left
  <2>. QED
    BY <1>1, <1>5, <1>6 DEF TypeOK
<1>8. table' \in [Keys -> Callers \cup {None}]
  BY <1>1, <1>4 DEF Drop, TypeOK
<1>9. TypeOK'
  BY <1>1, <1>3, <1>6, <1>7, <1>8 DEF TypeOK, locals
<1>10. SweepInv'
  BY <1>2, <1>3, <1>7 DEF IInv, UseInv, SweepInv
<1>11. UseInv'
  <2>. HIDE DEF drops, ResetShard
  <2>. QED
    BY <1>2, <1>3, <1>4, <1>6, <1>9, <1>10, DropStep DEF IInv
<1>12. Tracked' = Tracked \ drops
  BY <1>4 DEF Tracked, Drop
<1>13. clean' => clean /\ \A b \in Admins \ {a} : Resetting(b) => table' = table
  BY <1>7 DEF Remember, Disturbs
<1>14. clean /\ pc[a] = "reset" => remaining[a] = Cardinality(Behind(a))
  BY DEF IInv, ResetInv, Resetting
<1>15. clean => remaining'[a] = Cardinality(Behind(a)')
  <2>1. Behind(a)' = Behind(a) \cup left /\ Behind(a) \cap left = {}
    <3>1. \A k \in Keys : ShardOf[k] \in Nat /\ (ShardOf[k] < i + 1 <=> ShardOf[k] < i \/ ShardOf[k] = i)
      BY <1>1, ShardsAssumption DEF Shards
    <3>2. drops \cap Behind(a) = {}
      BY <1>1, <3>1 DEF ResetDrops, InShard, Behind, Tracked
    <3>. QED
      BY <1>7, <1>12, <3>1, <3>2 DEF Behind, InShard, Tracked
  <2>2. IsFiniteSet(Behind(a)) /\ Cardinality(Behind(a)) \in Nat
    BY TrackedIsFinite DEF Behind, Tracked
  <2>3. Cardinality(Behind(a) \cup left) = Cardinality(Behind(a)) + Cardinality(left)
    <3>1. Cardinality(Behind(a) \cup left)
            = Cardinality(Behind(a)) + Cardinality(left) - Cardinality(Behind(a) \cap left)
      BY <1>5, <2>2, FS_Union
    <3>2. Cardinality(Behind(a) \cap left) = 0
      BY <2>1, FS_EmptySet
    <3>. QED
      BY <1>5, <2>2, <3>1, <3>2
  <2>4. pc[a] = "idle" => remaining[a] = 0 /\ Behind(a) = {}
    <3>1. \A k \in Keys : ShardOf[k] \in Nat
      BY ShardsAssumption DEF Shards
    <3>2. pc[a] = "idle" => pos[a] = 0 /\ remaining[a] = 0
      BY DEF IInv, ResetInv
    <3>3. pos[a] = 0 => Behind(a) = {}
      BY <3>1 DEF Behind, Tracked
    <3>. QED
      BY <3>2, <3>3
  <2>5. pc[a] = "idle" => Cardinality(Behind(a)) = 0
    BY <2>4, FS_EmptySet
  <2>. QED
    BY <1>5, <1>7, <1>14, <2>1, <2>2, <2>3, <2>4, <2>5
<1>16. ResetInv'
  <2>1. ASSUME NEW b \in Admins \ {a}, clean', Resetting(b)'
        PROVE  remaining'[b] = Cardinality(Behind(b)')
    <3>1. Resetting(b) /\ clean /\ table' = table
      BY <1>2, <1>3, <1>13, <2>1 DEF Resetting
    <3>2. Behind(b)' = Behind(b)
      BY <1>7, <3>1 DEF Behind, Tracked
    <3>. QED
      BY <1>7, <3>1, <3>2 DEF IInv, ResetInv
  <2>. QED
    BY <1>2, <1>3, <1>7, <1>13, <1>15, <2>1 DEF IInv, ResetInv
<1>17. CountInv'
  <2>1. Resetting(a)'
    BY <1>3 DEF Resetting
  <2>2. Cardinality(Tracked') <= Cardinality(Tracked)
    <3>1. IsFiniteSet(Tracked) /\ Tracked' \subseteq Tracked
      BY <1>12, TrackedIsFinite DEF Tracked
    <3>. QED
      BY <3>1, FS_Subset
  <2>3. Cardinality(Tracked) \in Nat /\ Cardinality(Tracked') \in Nat /\ keyCount \in Int
    <3>1. Tracked \in SUBSET Keys /\ Tracked' \in SUBSET Keys
      BY <1>12 DEF Tracked
    <3>. QED
      BY <1>1, <3>1, TrackedIsFinite DEF TypeOK
  <2>. QED
    BY <1>6, <1>13, <2>1, <2>2, <2>3 DEF IInv, CountInv, KeysCounted
<1>. QED
  BY <1>11, <1>16, <1>17 DEF IInv

\* The store at the end of a Reset that had the table for itself.
LEMMA StoreCountStep ==
  ASSUME IInv, Remember, NEW a \in Admins, StoreCount(a)
  PROVE  IInv'
<1>. USE DEF StoreCount, At
<1>1. /\ a \in Goroutines /\ a \notin Callers \cup Sweepers
      /\ Callers \cup Sweepers \cup Admins \subseteq Goroutines
  BY ActorsAssumption DEF Goroutines
<1>2. /\ pc' \in [Goroutines -> Labels \cup AdminLabels] /\ pc'[a] = "done"
      /\ \A g \in Goroutines \ {a} : pc'[g] = pc[g]
  BY <1>1, LabelSets, Moved DEF IInv, UseInv
<1>3. TypeOK /\ remaining[a] \in Nat
  BY DEF IInv, UseInv, TypeOK
<1>4. UNCHANGED <<table, pins, fresh, locals, api, key, bucket, closed, stopCh, closedCh, mu, pos, stale>>
  BY DEF flags, locals
<1>5. /\ keyCount' = remaining[a] /\ remaining' \in [Admins -> Nat]
      /\ \A b \in Admins \ {a} : remaining'[b] = remaining[b]
  BY <1>3 DEF TypeOK
<1>6. TypeOK'
  BY <1>2, <1>3, <1>4, <1>5 DEF TypeOK
<1>7. SweepInv'
  BY <1>1, <1>2, <1>4 DEF IInv, UseInv, SweepInv
<1>8. UseInv'
  <2>1. Drop({})
    BY <1>3, <1>4 DEF Drop, TypeOK
  <2>. HIDE DEF StoreCount
  <2>. QED
    BY <1>1, <1>2, <1>4, <1>6, <1>7, <2>1, DropStep DEF IInv
<1>9. clean' => clean
  BY DEF Remember
<1>10. ResetInv'
  <2>1. \A b \in Admins : Behind(b)' = Behind(b)
    BY <1>4 DEF Behind, Tracked
  <2>. QED
    BY <1>1, <1>2, <1>4, <1>5, <1>9, <2>1 DEF IInv, ResetInv, Resetting
<1>11. CountInv'
  <2>1. Tracked' = Tracked
    BY <1>4 DEF Tracked
  <2>2. Behind(a) = Tracked
    <3>1. \A k \in Keys : ShardOf[k] < NumShards
      BY ShardsAssumption DEF Shards
    <3>. QED
      BY <3>1 DEF Behind, Tracked
  <2>3. clean => keyCount' = Cardinality(Tracked)
    BY <1>5, <2>2 DEF IInv, ResetInv, Resetting
  <2>4. Cardinality(Tracked) \in Nat /\ keyCount \in Int /\ MaxKeys \in Nat
    BY <1>3, TrackedIsFinite, ShardsAssumption DEF Tracked, TypeOK
  <2>. QED
    BY <1>9, <2>1, <2>3, <2>4 DEF IInv, CountInv, KeysCounted
<1>. QED
  BY <1>8, <1>10, <1>11 DEF IInv

-----------------------------------------------------------------------------
(* The invariant. *)

LEMMA InitInv == HInit => IInv
<1>. SUFFICES ASSUME HInit PROVE IInv
  OBVIOUS
<1>. USE DEF HInit, Init
<1>1. \A g \in Goroutines : pc[g] = "idle"
  OBVIOUS
<1>2. Callers \cup Sweepers \cup Admins \subseteq Goroutines
  BY DEF Goroutines
<1>3. TypeOK
  <2>1. pc \in [Goroutines -> Labels \cup AdminLabels]
    BY LabelSets
  <2>2. 0 \in 0 .. NumShards
    BY ShardsAssumption
  <2>3. closed \in BOOLEAN /\ stopCh \in BOOLEAN /\ closedCh \in BOOLEAN
    OBVIOUS
  <2>. QED
    BY <2>1, <2>2, <2>3 DEF TypeOK
<1>4. PlaceInv /\ SweepInv /\ OneLimiterPerKey
  BY <1>1, <1>2, LabelSets DEF PlaceInv, SweepInv, OneLimiterPerKey, InUse
<1>5. PinsExact
  <2>1. \A b \in Callers : Uses(b) = {}
    BY <1>1, <1>2, LabelSets DEF Uses
  <2>. QED
    BY <2>1, FS_EmptySet DEF PinsExact
<1>6. ResetInv
  BY <1>1, <1>2 DEF ResetInv, Resetting
<1>7. CountInv
  <2>1. Tracked = {}
    BY DEF Tracked
  <2>. QED
    BY <2>1, FS_EmptySet, ShardsAssumption DEF CountInv, KeysCounted
<1>. QED
  BY <1>3, <1>4, <1>5, <1>6, <1>7 DEF IInv, UseInv

LEMMA StutterStep == IInv /\ UNCHANGED vars /\ (clean' => clean) => IInv'
<1>. SUFFICES ASSUME IInv, UNCHANGED vars, clean' => clean PROVE IInv'
  OBVIOUS
<1>1. UNCHANGED <<table, keyCount, pins, fresh, closed, stopCh, closedCh, pc, api, key, bucket,
                  pos, remaining, stale, mu, locals>>
  BY DEF vars, flags, locals, admin
<1>2. TypeOK' /\ SweepInv'
  BY <1>1 DEF IInv, UseInv, TypeOK, SweepInv
<1>3. UseInv'
  <2>1. Drop({})
    BY <1>1 DEF Drop, IInv, UseInv, TypeOK
  <2>. QED
    BY <1>1, <1>2, <2>1, DropStep DEF IInv
<1>4. Tracked' = Tracked /\ \A a \in Admins : Behind(a)' = Behind(a)
  BY <1>1 DEF Tracked, Behind
<1>5. ResetInv' /\ CountInv'
  BY <1>1, <1>4 DEF IInv, ResetInv, CountInv, KeysCounted, Resetting
<1>. QED
  BY <1>3, <1>5 DEF IInv

LEMMA NextInv == IInv /\ [HNext]_hvars => IInv'
<1>. SUFFICES ASSUME IInv, [HNext]_hvars PROVE IInv'
  OBVIOUS
<1>1. CASE HNext
  <2>1. Next /\ Remember /\ (clean' => clean) /\ UseInv
    BY <1>1 DEF HNext, Remember, IInv
  <2>2. ASSUME NEW c \in Callers, Call(c) PROVE IInv'
    <3>1. UseInv' /\ CallFrame(c) /\ TableStep(c)
      BY <2>1, <2>2, CallStep
    <3>2. ResetInv' /\ CountInv'
      BY <2>1, <3>1, CountStep DEF CallFrame, TableStep, UseInv
    <3>. QED
      BY <3>1, <3>2 DEF IInv
  <2>3. ASSUME OtherFrame, OneGone \/ UNCHANGED <<table, keyCount>> PROVE IInv'
    <3>1. UseInv'
      BY <2>1, <2>3, OtherKeepsUse
    <3>2. ResetInv' /\ CountInv'
      BY <2>1, <2>3, <3>1, CountStep DEF OtherFrame, UseInv
    <3>. QED
      BY <3>1, <3>2 DEF IInv
  <2>4. ASSUME NEW a \in Admins, RemoveKey(a) \/ Close(a) PROVE IInv'
    BY <2>1, <2>3, <2>4, RemoveStep, CloseStep
  <2>5. ASSUME NEW a \in Admins, ResetShard(a) \/ StoreCount(a) PROVE IInv'
    BY <2>1, <2>5, ResetShardStep, StoreCountStep
  <2>6. ASSUME NEW s \in Sweepers, Sweep(s) PROVE IInv'
    BY <2>1, <2>3, <2>6, SweepStep
  <2>7. CASE StopLoop
    BY <2>1, <2>3, <2>7, StopStep
  <2>8. CASE Quiet
    BY <2>1, <2>8, StutterStep DEF Quiet
  <2>. QED
    BY <2>1, <2>2, <2>4, <2>5, <2>6, <2>7, <2>8 DEF Next
<1>2. CASE UNCHANGED hvars
  BY <1>2, StutterStep DEF hvars
<1>. QED
  BY <1>1, <1>2

LEMMA Invariant == HSpec => []IInv
BY InitInv, NextInv, PTL DEF HSpec

\* Every variable keeps its type.
THEOREM TypeCorrect == HSpec => []TypeOK
<1>1. IInv => TypeOK
  BY DEF IInv, UseInv
<1>. QED
  BY <1>1, Invariant, PTL

\* A bucket holds as many pins as the calls that use it have taken, on every
\* way through waitForOnBucket, Execute and TryExecute.
THEOREM PinsAreExact == HSpec => []PinsExact
<1>1. IInv => PinsExact
  BY DEF IInv, UseInv
<1>. QED
  BY <1>1, Invariant, PTL

\* No Remove, Reset or sweep takes a bucket from the table while a blocking call
\* uses it, so the key cannot get a second limiter.
THEOREM UsedBucketStays == HSpec => []OneLimiterPerKey
<1>1. IInv => OneLimiterPerKey
  BY DEF IInv, UseInv
<1>. QED
  BY <1>1, Invariant, PTL

\* The key count is the number of keys whenever no Reset is under way, if none
\* was disturbed.
THEOREM CountIsRight == HSpec => []KeysCounted
<1>1. IInv => KeysCounted
  BY DEF IInv, CountInv, KeysCounted
<1>. QED
  BY <1>1, Invariant, PTL

\* The table stays within WithMaxKeys, if no Reset was disturbed.
THEOREM CapHolds == HSpec => []CapKept
<1>1. IInv => CapKept
  <2>. SUFFICES ASSUME IInv, clean PROVE Cardinality(Tracked) <= MaxKeys
    BY DEF CapKept, IInv, UseInv
  <2>1. Cardinality(Tracked) \in Nat /\ keyCount \in Int /\ MaxKeys \in Nat
    BY TrackedIsFinite, ShardsAssumption DEF Tracked, IInv, UseInv, TypeOK
  <2>. QED
    BY <2>1 DEF IInv, CountInv
<1>. QED
  BY <1>1, Invariant, PTL

\* A sweep evicts no bucket that was touched since it began or is in use.
THEOREM EvictionIsSafe == HSpec => EvictionSparesUsed
<1>. DEFINE Spares(s, k) == /\ table[k] \notin fresh[s]
                            /\ \A c \in Callers : InUse(c) => bucket[c] # table[k]
            Safe == \A s \in Sweepers, k \in Keys : Evicts(s, k) => Spares(s, k)
<1>1. IInv /\ [HNext]_hvars => [Safe]_vars
  <2>. SUFFICES ASSUME IInv, Next, NEW s \in Sweepers, NEW k \in Keys, Evicts(s, k)
                PROVE  Spares(s, k)
    BY DEF HNext, hvars
  <2>. USE DEF Evicts, At
  <2>1. Idle(k) /\ table[k] \notin fresh[s]
    <3>1. Evict(s)
      <4>1. ASSUME NEW c \in Callers, Call(c) PROVE stale' = stale
        BY <4>1 DEF Call, Enter, Lookup, Create, BucketForWait, Touch, PinAgain, Try, Sleep,
                    WakeByClose, UnpinInner, TakeNow, Run, UnpinOuter, admin
      <4>2. ASSUME NEW a \in Admins, RemoveKey(a) \/ ResetShard(a) \/ StoreCount(a) \/ Close(a)
            PROVE  stale' = stale
        BY <4>2 DEF RemoveKey, ResetShard, StoreCount, Close, CloseFlag, CloseStop,
                    CloseChannel, AwaitSweeper, admin
      <4>3. StopLoop \/ Quiet => stale' = stale
        BY DEF StopLoop, Quiet, vars, admin
      <4>4. PICK t \in Sweepers : Sweep(t) /\ stale'[s] # stale[s]
        BY <4>1, <4>2, <4>3 DEF Next
      <4>5. table' # table
        BY ActorsAssumption
      <4>6. Evict(t)
        BY <4>4, <4>5 DEF Sweep, BeginSweep, Scan, LockShard, UnlockShard, EndSweep
      <4>7. t = s
        BY <4>4, <4>6 DEF Evict, IInv, UseInv, TypeOK
      <4>. QED
        BY <4>6, <4>7
    <3>2. PICK j \in stale[s] : IF StillStale(s, j) THEN Drop({j}) ELSE table' = table
      BY <3>1 DEF Evict
    <3>3. j = k /\ StillStale(s, j)
      BY <3>2, ActorsAssumption DEF Drop
    <3>. QED
      BY <3>3 DEF StillStale
  <2>2. ASSUME NEW c \in Callers, InUse(c) PROVE bucket[c] # table[k]
    <3>1. pins[bucket[c]] # 0
      BY <2>2, UserPins DEF IInv
    <3>. QED
      BY <2>1, <3>1 DEF Idle
  <2>. QED
    BY <2>1, <2>2
<1>2. HSpec => [][Safe]_vars
  BY <1>1, Invariant, PTL DEF HSpec
<1>3. [][Safe]_vars => EvictionSparesUsed
  BY DEF EvictionSparesUsed, InUse
<1>. QED
  BY <1>2, <1>3
=============================================================================
