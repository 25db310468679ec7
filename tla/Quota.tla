------------------------------- MODULE Quota -------------------------------
(***************************************************************************)
(* quotax.Quota: one token bucket per key, created on first use, dropped   *)
(* by Remove, Reset and a sweeper, and counted in an atomic that no lock   *)
(* covers.  Blocking calls pin their bucket so that a key never has two.   *)
(*                                                                         *)
(* A bucket is named by the call that made it.  Whether it has tokens is   *)
(* left open.  A section under a shard's lock that touches the key count   *)
(* at most once is one action; only the deletions of a sweep are not.      *)
(***************************************************************************)
EXTENDS Integers, FiniteSets

CONSTANTS
  Callers,      \* goroutines that make one call each, and the buckets they make
  Keys,
  NumShards,
  ShardOf,      \* shardFor, as a function from Keys to 0 .. NumShards - 1
  MaxKeys,      \* WithMaxKeys
  Admins,       \* goroutines that call Remove, Reset or Close once
  EvictLoop,    \* the sweeper that New starts
  Evictors,     \* goroutines that call ForceEviction
  None          \* no bucket, no key, or a free lock

Sweepers   == Evictors \cup {EvictLoop}
Goroutines == Callers \cup Admins \cup Sweepers
Shards     == 0 .. NumShards - 1

ASSUME ActorsAssumption ==
  /\ IsFiniteSet(Callers) /\ IsFiniteSet(Keys)
  /\ Callers \cap (Admins \cup Sweepers) = {} /\ Admins \cap Sweepers = {}
  /\ None \notin Callers \cup Keys \cup Sweepers
ASSUME ShardsAssumption ==
  /\ NumShards \in Nat \ {0} /\ ShardOf \in [Keys -> Shards] /\ MaxKeys \in Nat

VARIABLES
  table,      \* shard.buckets of all shards: the bucket of each key, or None
  keyCount,   \* Quota.keyCount
  pins,       \* bucket.pins
  fresh,      \* buckets whose lastAccess is past the cutoff of each sweep
  mu,         \* the sweep that holds each shard's lock, or None
  closed,     \* Quota.closed
  stopCh,     \* Quota.stopEviction is closed
  closedCh,   \* Quota.closedCh is closed
  pc,         \* next step of each goroutine
  api,        \* which entry point a caller uses
  key,        \* local: the key of a call
  bucket,     \* local: the bucket a call has got
  pos,        \* local: the shard that Reset or evict is at
  remaining,  \* local: Reset's count of the buckets it left
  stale       \* local: evict's list

locals == <<api, key, bucket>>
admin  == <<pos, remaining, stale, mu>>
flags  == <<closed, stopCh, closedCh>>
vars   == <<table, keyCount, pins, fresh, flags, pc, locals, admin>>

Apis == {"Allow", "TryExecute", "Wait", "Execute"}

\* Where a call holds one pin, and where the waiting loop holds a second one.
Once   == {"touchPinned", "again", "take", "run", "unpin"}
Twice  == {"try", "sleep", "fail", "admitted"}
Labels == Once \cup Twice \cup {"idle", "lookup", "touch", "create", "pin", "done"}
AdminLabels == {"idle", "reset", "scan", "lock", "evict", "stop", "channel", "await", "done"}

TypeOK ==
  /\ table \in [Keys -> Callers \cup {None}]
  /\ keyCount \in Int
  /\ pins \in [Callers -> Nat]
  /\ fresh \in [Sweepers -> SUBSET Callers]
  /\ mu \in [Shards -> Sweepers \cup {None}]
  /\ closed \in BOOLEAN /\ stopCh \in BOOLEAN /\ closedCh \in BOOLEAN
  /\ pc \in [Goroutines -> Labels \cup AdminLabels]
  /\ api \in [Callers -> Apis \cup {None}]
  /\ key \in [Callers -> Keys \cup {None}]
  /\ bucket \in [Callers -> Callers \cup {None}]
  /\ pos \in [Admins \cup Sweepers -> 0 .. NumShards]
  /\ remaining \in [Admins -> Nat]
  /\ stale \in [Sweepers -> SUBSET Keys]

Init ==
  /\ table = [k \in Keys |-> None]
  /\ keyCount = 0
  /\ pins = [b \in Callers |-> 0]
  /\ fresh = [s \in Sweepers |-> {}]
  /\ mu = [i \in Shards |-> None]
  /\ closed = FALSE /\ stopCh = FALSE /\ closedCh = FALSE
  /\ pc = [g \in Goroutines |-> "idle"]
  /\ api = [c \in Callers |-> None]
  /\ key = [c \in Callers |-> None]
  /\ bucket = [c \in Callers |-> None]
  /\ pos = [g \in Admins \cup Sweepers |-> 0]
  /\ remaining = [a \in Admins |-> 0]
  /\ stale = [s \in Sweepers |-> {}]

At(g, label)   == pc[g] = label
Goto(g, label) == pc' = [pc EXCEPT ![g] = label]

\* A call returns and its locals are gone.
Return(c) ==
  /\ Goto(c, "done")
  /\ api' = [api EXCEPT ![c] = None]
  /\ key' = [key EXCEPT ![c] = None]
  /\ bucket' = [bucket EXCEPT ![c] = None]

Free(k)        == mu[ShardOf[k]] = None

Tracked     == {k \in Keys : table[k] # None}
Sweeping(s) == pc[s] \in {"scan", "lock", "evict"}

\* bucket.touch
Touched(b) == fresh' = [s \in Sweepers |-> IF Sweeping(s) THEN fresh[s] \cup {b} ELSE {}]
Pin(b)     == pins' = [pins EXCEPT ![b] = @ + 1]
Unpin(b)   == pins' = [pins EXCEPT ![b] = @ - 1]

-----------------------------------------------------------------------------
(* Allow, AllowN and AllowOrError; Wait, WaitN, Execute and TryExecute. *)

Enter(c) ==
  /\ At(c, "idle")
  /\ \/ /\ ~closed
        /\ \E k \in Keys, a \in Apis :
             /\ key' = [key EXCEPT ![c] = k]
             /\ api' = [api EXCEPT ![c] = a]
             /\ Goto(c, IF a = "Allow" THEN "lookup" ELSE "pin")
        /\ UNCHANGED bucket
     \/ Return(c)                                    \* ErrClosed, or ctx is dead
  /\ UNCHANGED <<table, keyCount, pins, fresh, flags, admin>>

Lookup(c) ==
  /\ At(c, "lookup")
  /\ Free(key[c])
  /\ bucket' = [bucket EXCEPT ![c] = table[key[c]]]
  /\ Goto(c, IF table[key[c]] = None THEN "create" ELSE "touch")
  /\ UNCHANGED <<table, keyCount, pins, fresh, flags, api, key, admin>>

\* reserveKey, in its last round.
ReserveOneTooMany == keyCount <= MaxKeys                 \* mutant
MayReserve == keyCount < MaxKeys

\* c puts a new bucket into the table.
Insert(c) ==
  /\ keyCount' = keyCount + 1
  /\ table' = [table EXCEPT ![key[c]] = c]
  /\ Touched(c)

\* getOrCreate
Create(c) ==
  /\ At(c, "create")
  /\ Free(key[c])
  /\ \/ /\ table[key[c]] # None
        /\ bucket' = [bucket EXCEPT ![c] = table[key[c]]]
        /\ Goto(c, "touch")
        /\ UNCHANGED <<table, keyCount, fresh, api, key>>
     \/ /\ table[key[c]] = None /\ MayReserve
        /\ Insert(c)
        /\ Return(c)
     \/ /\ table[key[c]] = None /\ ~MayReserve       \* ErrMaxKeys
        /\ Return(c)
        /\ UNCHANGED <<table, keyCount, fresh>>
  /\ UNCHANGED <<pins, flags, admin>>

\* Where a call goes on with its pinned bucket.
Pinned(c) == IF api[c] = "TryExecute" THEN "take" ELSE "again"

\* bucketForWait
BucketForWait(c) ==
  /\ At(c, "pin")
  /\ Free(key[c])
  /\ \/ /\ table[key[c]] # None
        /\ bucket' = [bucket EXCEPT ![c] = table[key[c]]]
        /\ Pin(table[key[c]])
        /\ Goto(c, "touchPinned")
        /\ UNCHANGED <<table, keyCount, fresh, api, key>>
     \/ /\ table[key[c]] = None /\ MayReserve
        /\ Insert(c)
        /\ Pin(c)
        /\ bucket' = [bucket EXCEPT ![c] = c]
        /\ Goto(c, Pinned(c))
        /\ UNCHANGED <<api, key>>
     \/ /\ table[key[c]] = None /\ ~MayReserve       \* ErrMaxKeys
        /\ Return(c)
        /\ UNCHANGED <<table, keyCount, pins, fresh>>
  /\ UNCHANGED <<flags, admin>>

\* The access time is stored after the lock is released; a call that only
\* looked its bucket up is then done with the table.
Touch(c) ==
  /\ \/ At(c, "touch") /\ Return(c)
     \/ At(c, "touchPinned") /\ Goto(c, Pinned(c)) /\ UNCHANGED locals
  /\ Touched(bucket[c])
  /\ UNCHANGED <<table, keyCount, pins, flags, admin>>

-----------------------------------------------------------------------------
(* waitForOnBucket *)

PinAgain(c) ==
  /\ At(c, "again")
  /\ Pin(bucket[c])
  /\ Goto(c, "try")
  /\ UNCHANGED <<table, keyCount, fresh, flags, locals, admin>>

\* One round: a token, a token that is refunded because ctx died, or none.
Try(c) ==
  /\ At(c, "try")
  /\ \/ /\ ~closed
        /\ Touched(bucket[c])
        /\ \E next \in {"admitted", "fail", "sleep"} : Goto(c, next)
     \/ /\ Goto(c, "fail")                           \* ErrClosed, or ctx is dead
        /\ UNCHANGED fresh
  /\ UNCHANGED <<table, keyCount, pins, flags, locals, admin>>

Sleep(c) ==
  /\ At(c, "sleep")
  /\ \/ Goto(c, "try")                             \* the timer
     \/ Goto(c, "fail")                              \* ctx is dead
  /\ UNCHANGED <<table, keyCount, pins, fresh, flags, locals, admin>>

WakeByClose(c) ==
  /\ At(c, "sleep")
  /\ closedCh
  /\ Goto(c, "fail")
  /\ UNCHANGED <<table, keyCount, pins, fresh, flags, locals, admin>>

\* The loop's own pin goes; Execute stores the access time once more.
LeaksThePin(c) ==                                        \* mutant
  /\ pc[c] \in {"fail", "admitted"}
  /\ IF At(c, "admitted") /\ api[c] = "Execute"
       THEN Goto(c, "run") /\ Touched(bucket[c]) /\ Unpin(bucket[c])
       ELSE Goto(c, "unpin") /\ UNCHANGED <<fresh, pins>>
  /\ UNCHANGED <<table, keyCount, flags, locals, admin>>
UnpinInner(c) ==
  /\ pc[c] \in {"fail", "admitted"}
  /\ Unpin(bucket[c])
  /\ IF At(c, "admitted") /\ api[c] = "Execute"
       THEN Goto(c, "run") /\ Touched(bucket[c])
       ELSE Goto(c, "unpin") /\ UNCHANGED fresh
  /\ UNCHANGED <<table, keyCount, flags, locals, admin>>

\* TryExecute: no token, or one that is refunded because ctx died.
TakeNow(c) ==
  /\ At(c, "take")
  /\ \/ Goto(c, "unpin") /\ UNCHANGED fresh
     \/ Goto(c, "run") /\ Touched(bucket[c])
  /\ UNCHANGED <<table, keyCount, pins, flags, locals, admin>>

\* The callback returns.
Run(c) ==
  /\ At(c, "run")
  /\ Goto(c, "unpin")
  /\ UNCHANGED <<table, keyCount, pins, fresh, flags, locals, admin>>

UnpinOuter(c) ==
  /\ At(c, "unpin")
  /\ Unpin(bucket[c])
  /\ Return(c)
  /\ UNCHANGED <<table, keyCount, fresh, flags, admin>>

-----------------------------------------------------------------------------
(* Remove, Reset and the sweep. *)

Idle(k) == table[k] # None /\ pins[table[k]] = 0

Drop(K) == table' = [k \in Keys |-> IF k \in K THEN None ELSE table[k]]

RemoveKey(a) ==
  /\ At(a, "idle")
  /\ \E k \in Keys :
       /\ Free(k)
       /\ IF Idle(k) THEN Drop({k}) /\ keyCount' = keyCount - 1
                     ELSE UNCHANGED <<table, keyCount>>
  /\ Goto(a, "done")
  /\ UNCHANGED <<pins, fresh, flags, locals, admin>>

InShard(i) == {k \in Tracked : ShardOf[k] = i}

\* What Reset deletes of a shard.
ResetDropsAll(i) == InShard(i)                           \* mutant
ResetDrops(i) == {k \in InShard(i) : Idle(k)}

ResetShard(a) ==
  /\ pc[a] \in {"idle", "reset"} /\ pos[a] < NumShards
  /\ mu[pos[a]] = None
  /\ LET drops == ResetDrops(pos[a])
     IN  /\ Drop(drops)
         /\ remaining' = [remaining EXCEPT ![a] = @ + Cardinality(InShard(pos[a]) \ drops)]
  /\ pos' = [pos EXCEPT ![a] = @ + 1]
  /\ Goto(a, "reset")
  /\ UNCHANGED <<keyCount, pins, fresh, flags, locals, stale, mu>>

StoreCount(a) ==
  /\ At(a, "reset") /\ pos[a] = NumShards
  /\ keyCount' = remaining[a]
  /\ remaining' = [remaining EXCEPT ![a] = 0]
  /\ Goto(a, "done")
  /\ UNCHANGED <<table, pins, fresh, flags, locals, pos, stale, mu>>

BeginSweep(s) ==
  /\ At(s, "idle")
  /\ pos' = [pos EXCEPT ![s] = 0]
  /\ Goto(s, "scan")
  /\ UNCHANGED <<table, keyCount, pins, fresh, flags, locals, remaining, stale, mu>>

\* The read-locked phase lists keys that are unpinned and old; a bucket that was
\* not touched since the sweep began may be either.
Scan(s) ==
  /\ At(s, "scan") /\ pos[s] < NumShards
  /\ mu[pos[s]] = None
  /\ \E old \in SUBSET {k \in InShard(pos[s]) : Idle(k) /\ table[k] \notin fresh[s]} :
       /\ stale' = [stale EXCEPT ![s] = old]
       /\ pos' = [pos EXCEPT ![s] = IF old = {} THEN @ + 1 ELSE @]
       /\ Goto(s, IF old = {} THEN "scan" ELSE "lock")
  /\ UNCHANGED <<table, keyCount, pins, fresh, flags, locals, remaining, mu>>

LockShard(s) ==
  /\ At(s, "lock")
  /\ mu[pos[s]] = None
  /\ mu' = [mu EXCEPT ![pos[s]] = s]
  /\ Goto(s, "evict")
  /\ UNCHANGED <<table, keyCount, pins, fresh, flags, locals, pos, remaining, stale>>

\* The second look at a listed key.
TrustsTheList(s, k) == table[k] # None                   \* mutant
CountsTheList(s, k) == table[k] = None \/ (Idle(k) /\ table[k] \notin fresh[s])  \* mutant
StillStale(s, k) == Idle(k) /\ table[k] \notin fresh[s]

Evict(s) ==
  /\ At(s, "evict")
  /\ \E k \in stale[s] :
       /\ stale' = [stale EXCEPT ![s] = @ \ {k}]
       /\ IF StillStale(s, k) THEN Drop({k}) /\ keyCount' = keyCount - 1
                              ELSE UNCHANGED <<table, keyCount>>
  /\ UNCHANGED <<pins, fresh, flags, pc, locals, pos, remaining, mu>>

UnlockShard(s) ==
  /\ At(s, "evict") /\ stale[s] = {}
  /\ mu' = [mu EXCEPT ![pos[s]] = None]
  /\ pos' = [pos EXCEPT ![s] = @ + 1]
  /\ Goto(s, "scan")
  /\ UNCHANGED <<table, keyCount, pins, fresh, flags, locals, remaining, stale>>

EndSweep(s) ==
  /\ At(s, "scan") /\ pos[s] = NumShards
  /\ fresh' = [fresh EXCEPT ![s] = {}]
  /\ Goto(s, IF s = EvictLoop THEN "idle" ELSE "done")
  /\ UNCHANGED <<table, keyCount, pins, flags, locals, admin>>

StopLoop ==
  /\ At(EvictLoop, "idle")
  /\ stopCh
  /\ Goto(EvictLoop, "done")
  /\ UNCHANGED <<table, keyCount, pins, fresh, flags, locals, admin>>

-----------------------------------------------------------------------------
(* Close *)

CloseFlag(a) ==
  /\ At(a, "idle")
  /\ closed' = TRUE
  /\ Goto(a, IF closed THEN "done" ELSE "stop")
  /\ UNCHANGED <<table, keyCount, pins, fresh, stopCh, closedCh, locals, admin>>

CloseStop(a) ==
  /\ At(a, "stop")
  /\ stopCh' = TRUE
  /\ Goto(a, "channel")
  /\ UNCHANGED <<table, keyCount, pins, fresh, closed, closedCh, locals, admin>>

CloseChannel(a) ==
  /\ At(a, "channel")
  /\ closedCh' = TRUE
  /\ Goto(a, "await")
  /\ UNCHANGED <<table, keyCount, pins, fresh, closed, stopCh, locals, admin>>

AwaitSweeper(a) ==
  /\ At(a, "await")
  /\ At(EvictLoop, "done")
  /\ Goto(a, "done")
  /\ UNCHANGED <<table, keyCount, pins, fresh, flags, locals, admin>>

-----------------------------------------------------------------------------
Call(c)  == Enter(c) \/ Lookup(c) \/ Create(c) \/ BucketForWait(c) \/ Touch(c)
              \/ PinAgain(c) \/ Try(c) \/ Sleep(c) \/ WakeByClose(c)
              \/ UnpinInner(c) \/ TakeNow(c) \/ Run(c) \/ UnpinOuter(c)
Sweep(s) == BeginSweep(s) \/ Scan(s) \/ LockShard(s) \/ Evict(s) \/ UnlockShard(s) \/ EndSweep(s)
Close(a) == CloseFlag(a) \/ CloseStop(a) \/ CloseChannel(a) \/ AwaitSweeper(a)

Quiet ==
  /\ \A g \in Goroutines : pc[g] \in {"idle", "done"}
  /\ UNCHANGED vars

Next ==
  \/ \E c \in Callers : Call(c)
  \/ \E a \in Admins : RemoveKey(a) \/ ResetShard(a) \/ StoreCount(a) \/ Close(a)
  \/ \E s \in Sweepers : Sweep(s)
  \/ StopLoop
  \/ Quiet

Spec == Init /\ [][Next]_vars

-----------------------------------------------------------------------------
(* Properties. *)

\* While a blocking call uses a bucket, its callback included, that bucket is
\* the one in the table: nobody can get a second limiter for the same key
\* (Remove's comment; bucketForWait, Remove, Reset, evict).
OneLimiterPerKey ==
  \A c \in Callers : pc[c] \in Once \cup Twice => table[key[c]] = bucket[c]

\* The pins of a bucket are those of the calls that are using it, on every way
\* out of them, so that no bucket stays pinned for ever (waitForOnBucket,
\* Execute, TryExecute).
Uses(b) == {u \in Callers \X {1, 2} :
              /\ bucket[u[1]] = b
              /\ pc[u[1]] \in Twice \/ (pc[u[1]] \in Once /\ u[2] = 1)}
PinsExact == \A b \in Callers : pins[b] = Cardinality(Uses(b))

\* A sweep takes no bucket that was touched since it began or that a blocking
\* call is using, at whatever moment of its two phases (evict's comment).
Evicts(s, k) == At(s, "evict") /\ stale'[s] # stale[s] /\ table[k] # None /\ table'[k] = None
EvictionSparesUsed ==
  [][\A s \in Sweepers, k \in Keys : Evicts(s, k) =>
       /\ table[k] \notin fresh[s]
       /\ \A c \in Callers : pc[c] \in Once \cup Twice => bucket[c] # table[k]]_vars
=============================================================================
