----------------------------- MODULE FallCache -----------------------------
(***************************************************************************)
(* fallx.Fallback under StrategyCached: values in shards, each under its   *)
(* own mutex and ordered by last access, and one counter of all entries    *)
(* beside them, by which entries are evicted under evictMu.                *)
(*                                                                         *)
(* An entry is named by the call that inserted it.  Time is left open: any *)
(* entry may turn out to be expired, in the middle of a sweep too.         *)
(***************************************************************************)
EXTENDS Integers, FiniteSets

CONSTANTS
  Callers,      \* goroutines that make one call each, and their entries
  Keys, Shards, \* shards are visited in the order of their numbers
  ShardOf,      \* getShard
  MaxSize,      \* maxCacheSize
  Sweeper,      \* the goroutine of cleanupLoop
  None

Goroutines == Callers \cup {Sweeper}

VARIABLES
  entries,     \* the entry of each key, or None
  expired,     \* entries whose expiresAt has passed
  older,       \* <<d, e>>: the lastAccess of d is before that of e
  size,        \* cacheSize
  evictMu, closed, stop,
  pc, key,
  shard,       \* the next shard of a walk
  cold,        \* coldestEntry's candidate, and whether it was accessed since
  sum,         \* syncCacheSize's sum
  drifted      \* history: a sum that was stored was not the number of entries

walks == <<shard, cold, sum>>
vars  == <<entries, expired, older, size, evictMu, closed, stop, pc, key, walks, drifted>>

Labels == {"idle", "store", "look", "lock", "check", "sweep", "loop", "pick", "evict", "sum",
           "write", "get", "lockClear", "clear", "stopping", "waiting", "done"}

TypeOK ==
  /\ entries \in [Keys -> Callers \cup {None}]
  /\ expired \subseteq Callers
  /\ older \subseteq Callers \X Callers
  /\ size \in Int
  /\ evictMu \in Callers \cup {None}
  /\ closed \in BOOLEAN /\ stop \in BOOLEAN
  /\ pc \in [Goroutines -> Labels] /\ key \in [Callers -> Keys \cup {None}]
  /\ shard \in [Goroutines -> 1 .. Shards + 1]
  /\ cold \in [Callers -> [entry : Callers \cup {None}, touched : BOOLEAN]]
  /\ sum \in [Callers -> Nat]
  /\ drifted \in BOOLEAN

Nobody == [entry |-> None, touched |-> FALSE]

Init ==
  /\ entries = [k \in Keys |-> None]
  /\ expired = {}
  /\ older = {}
  /\ size = 0 /\ evictMu = None /\ closed = FALSE /\ stop = FALSE
  /\ pc = [g \in Goroutines |-> "idle"] /\ key = [c \in Callers |-> None]
  /\ shard = [g \in Goroutines |-> 1]
  /\ cold = [c \in Callers |-> Nobody] /\ sum = [c \in Callers |-> 0]
  /\ drifted = FALSE

-----------------------------------------------------------------------------
At(g, label)   == pc[g] = label
Goto(g, label) == pc' = [pc EXCEPT ![g] = label]

Used      == {k \in Keys : entries[k] # None}
KeysIn(s) == {k \in Used : ShardOf[k] = s}
Stale(s)  == {k \in KeysIn(s) : entries[k] \in expired}

\* An entry that is gone counts no more, unless somebody has it for a candidate.
Forgets(gone) ==
  /\ expired' = expired \ gone
  /\ LET left == gone \ {cold[c].entry : c \in Callers}
     IN  older' = {p \in older : left \cap {p[1], p[2]} = {}}

\* Keys leave their shard and the count under one lock.
Without(K)  == [k \in Keys |-> IF k \in K THEN None ELSE entries[k]]
Uncounted(K) == size - Cardinality(K)
Removes(K) ==
  /\ entries' = Without(K)
  /\ size' = Uncounted(K)
  /\ Forgets({entries[k] : k \in K})

\* lastAccess of e is now.
Known == ({entries[k] : k \in Used} \cup {cold[c].entry : c \in Callers}) \ {None}
Touches(e) ==
  /\ older' = {p \in older : e \notin {p[1], p[2]}} \cup ((Known \ {e}) \X {e})
  /\ cold' = [c \in Callers |-> [cold[c] EXCEPT !.touched = @ \/ cold[c].entry = e]]

\* evictIfNeeded's and ClearCache's deferred unlock
Unlocks(c) == evictMu' = None /\ Goto(c, "done")

-----------------------------------------------------------------------------
(* Calls. *)

\* A primary that succeeds, Seed, a primary that fails, ClearCache.  The closed
\* flag is looked at first.
Enter(c) ==
  /\ At(c, "idle")
  /\ \/ closed /\ Goto(c, "done") /\ UNCHANGED key
     \/ /\ ~closed
        /\ \E k \in Keys : key' = [key EXCEPT ![c] = k]
        /\ \E op \in {"store", "get"} : Goto(c, op)
     \/ ~closed /\ Goto(c, "lockClear") /\ UNCHANGED key
  /\ UNCHANGED <<entries, expired, older, size, evictMu, closed, stop, walks, drifted>>

\* cacheResult, under the shard's lock
Refresh(c) ==
  /\ At(c, "store") /\ key[c] \in Used
  /\ Touches(entries[key[c]])
  /\ expired' = expired \ {entries[key[c]]}
  /\ Goto(c, "done")
  /\ UNCHANGED <<entries, size, evictMu, closed, stop, key, shard, sum, drifted>>

Insert(c) ==
  /\ At(c, "store") /\ key[c] \notin Used
  /\ entries' = [entries EXCEPT ![key[c]] = c]
  /\ size' = size + 1
  /\ Touches(c)
  /\ Goto(c, "look")
  /\ UNCHANGED <<expired, evictMu, closed, stop, key, shard, sum, drifted>>

Over == size > MaxSize
Look(c) ==
  /\ At(c, "look")
  /\ Goto(c, IF Over THEN "lock" ELSE "done")
  /\ UNCHANGED <<entries, expired, older, size, evictMu, closed, stop, key, walks, drifted>>

\* getCachedResult
Get(c) ==
  /\ At(c, "get")
  /\ LET K == {key[c]} \cap Used
         E == {k \in K : entries[k] \in expired}
     IN  \/ K = {} /\ UNCHANGED <<entries, expired, size, older, cold>>
         \/ E # {} /\ Removes(E) /\ UNCHANGED cold
         \/ K # E /\ Touches(entries[key[c]]) /\ UNCHANGED <<entries, expired, size>>
  /\ Goto(c, "done")
  /\ UNCHANGED <<evictMu, closed, stop, key, shard, sum, drifted>>

-----------------------------------------------------------------------------
(* evictIfNeeded. *)

Lock(c) ==
  /\ evictMu = None
  /\ \/ At(c, "lock") /\ Goto(c, "check")
     \/ At(c, "lockClear") /\ Goto(c, "clear")
  /\ evictMu' = c
  /\ UNCHANGED <<entries, expired, older, size, closed, stop, key, walks, drifted>>

Check(c) ==
  /\ At(c, "check")
  /\ IF Over THEN Goto(c, "sweep") /\ UNCHANGED evictMu ELSE Unlocks(c)
  /\ UNCHANGED <<entries, expired, older, size, closed, stop, key, walks, drifted>>

\* One shard of a walk; the next label follows the last one.
Walks(g, label) ==
  IF shard[g] < Shards THEN shard' = [shard EXCEPT ![g] = @ + 1] /\ UNCHANGED pc
  ELSE shard' = [shard EXCEPT ![g] = 1] /\ Goto(g, label)

\* evictExpired
Sweep(g) ==
  /\ At(g, "sweep")
  /\ Removes(Stale(shard[g]))
  /\ Walks(g, IF g = Sweeper THEN "idle" ELSE "loop")
  /\ UNCHANGED <<evictMu, closed, stop, key, cold, sum, drifted>>

Loop(c) ==
  /\ At(c, "loop")
  /\ IF Over THEN Goto(c, "pick") /\ UNCHANGED evictMu ELSE Unlocks(c)
  /\ UNCHANGED <<entries, expired, older, size, closed, stop, key, walks, drifted>>

\* coldestEntry looks at the root of each shard's heap, and compares it with the
\* candidate of another shard, whose lock it does not hold any more: if that entry
\* was touched meanwhile, the two accesses race.
Older(d, e) == <<d, e>> \in older
Roots(s)    == {k \in KeysIn(s) : ~\E j \in KeysIn(s) : Older(entries[j], entries[k])}
Colder(e, c) ==
  IF cold[c].entry = None THEN {TRUE}
  ELSE IF cold[c].touched THEN BOOLEAN
  ELSE {Older(e, cold[c].entry)}
Pick(c) ==
  /\ At(c, "pick")
  /\ IF KeysIn(shard[c]) = {} THEN UNCHANGED cold
     ELSE \E k \in Roots(shard[c]) : \E colder \in Colder(entries[k], c) :
            cold' = IF colder THEN [cold EXCEPT ![c] = [entry |-> entries[k], touched |-> FALSE]]
                    ELSE cold
  /\ Walks(c, IF cold'[c].entry = None THEN "sum" ELSE "evict")
  /\ UNCHANGED <<entries, expired, older, size, evictMu, closed, stop, key, sum, drifted>>

\* The candidate is evicted if it is still there.
EvictsGone(c) == {key[cold[c].entry]}                        \* mutant
Victim(c) == {k \in Used : entries[k] = cold[c].entry}
Evict(c) ==
  /\ At(c, "evict")
  /\ Removes(Victim(c))
  /\ Goto(c, IF Victim(c) # {} THEN "loop" ELSE "sum")
  /\ cold' = [cold EXCEPT ![c] = Nobody]
  /\ UNCHANGED <<evictMu, closed, stop, key, shard, sum, drifted>>

\* syncCacheSize counts shard by shard, and stores the sum afterwards.
Sum(c) ==
  /\ At(c, "sum")
  /\ sum' = [sum EXCEPT ![c] = @ + Cardinality(KeysIn(shard[c]))]
  /\ Walks(c, "write")
  /\ UNCHANGED <<entries, expired, older, size, evictMu, closed, stop, key, cold, drifted>>

Write(c) ==
  /\ At(c, "write")
  /\ size' = sum[c]
  /\ drifted' = (drifted \/ sum[c] # Cardinality(Used))
  /\ Unlocks(c)
  /\ UNCHANGED <<entries, expired, older, closed, stop, key, walks>>

\* ClearCache: the entries of a shard go, and the count follows at the end.
Clear(c) ==
  /\ At(c, "clear")
  /\ entries' = Without(KeysIn(shard[c]))
  /\ Forgets({entries[k] : k \in KeysIn(shard[c])})
  /\ Walks(c, "sum")
  /\ UNCHANGED <<size, evictMu, closed, stop, key, cold, sum, drifted>>

-----------------------------------------------------------------------------
(* cleanupLoop and Close. *)

\* Both cases of the select may be ready.
Tick ==
  /\ At(Sweeper, "idle")
  /\ Goto(Sweeper, "sweep")
  /\ UNCHANGED <<entries, expired, older, size, evictMu, closed, stop, key, walks, drifted>>

StopSweeper ==
  /\ At(Sweeper, "idle") /\ stop
  /\ Goto(Sweeper, "done")
  /\ UNCHANGED <<entries, expired, older, size, evictMu, closed, stop, key, walks, drifted>>

Close(c) ==
  \/ /\ At(c, "idle")
     /\ closed' = TRUE
     /\ Goto(c, IF closed THEN "done" ELSE "stopping")
     /\ UNCHANGED stop
     /\ UNCHANGED <<entries, expired, older, size, evictMu, key, walks, drifted>>
  \/ /\ At(c, "stopping")
     /\ stop' = TRUE
     /\ Goto(c, "waiting")
     /\ UNCHANGED <<entries, expired, older, size, evictMu, closed, key, walks, drifted>>
  \/ /\ At(c, "waiting") /\ At(Sweeper, "done")
     /\ Goto(c, "done")
     /\ UNCHANGED <<entries, expired, older, size, evictMu, closed, stop, key, walks, drifted>>

\* Time passes.
Expire ==
  /\ \E k \in Used : expired' = expired \cup {entries[k]} /\ entries[k] \notin expired
  /\ UNCHANGED <<entries, older, size, evictMu, closed, stop, pc, key, walks, drifted>>

Quiet == \A c \in Callers : At(c, "done")
Rest  == Quiet /\ UNCHANGED vars

Next ==
  \/ \E c \in Callers :
       \/ Enter(c) \/ Refresh(c) \/ Insert(c) \/ Look(c) \/ Get(c) \/ Lock(c) \/ Check(c)
       \/ Loop(c) \/ Pick(c) \/ Evict(c) \/ Sum(c) \/ Write(c) \/ Clear(c) \/ Close(c)
  \/ \E g \in Goroutines : Sweep(g)
  \/ Tick \/ StopSweeper \/ Expire \/ Rest

Spec == Init /\ [][Next]_vars

-----------------------------------------------------------------------------
(* Properties. *)

\* The count is the number of entries, except while ClearCache is under way, as
\* long as no recount has missed a change made in between (syncCacheSize).
Clearing == evictMu # None /\ pc[evictMu] \in {"clear", "sum", "write"}
SizeExact == ~drifted /\ ~Clearing => size = Cardinality(Used)

\* Once all calls have returned the cache is within its capacity, although an
\* eviction gives up when its victim is gone (evictIfNeeded).
SettlesWithinBound == Quiet /\ ~drifted => Cardinality(Used) <= MaxSize

\* The package's README ("Capacity bound") says: the live cache size never exceeds
\* maxSize after eviction settles (evictIfNeeded, syncCacheSize).
BoundAfterSettling == Quiet => Cardinality(Used) <= MaxSize
=============================================================================
