------------------------------ MODULE Sharded ------------------------------
(***************************************************************************)
(* lrux.ShardedCache: calls that go over the shards, one after the other   *)
(* or, from ParallelFrom keys on, in a goroutine per shard.  At a shard a  *)
(* call looks at closed without the lock and then works under it (Cache);  *)
(* GetMulti does so for every key.  Keys do not expire.                    *)
(***************************************************************************)
EXTENDS Integers, Sequences, FiniteSets, SequencesExt

CONSTANTS
  Calls,
  Batches,       \* sets of keys a call is made with
  ShardOf,       \* the shard a key hashes to
  Capacity,      \* of every shard
  ParallelFrom   \* parallelBatchThreshold

Keys   == DOMAIN ShardOf
Shards == {ShardOf[k] : k \in Keys}

VARIABLES
  recency,       \* keys of every shard, the most recent first
  shut,          \* Cache.closed of every shard
  closed,        \* ShardedCache.closed
  op, batch,     \* of every call: what it does, and with which keys
  todo,          \* shards and keys it has yet to do
  inside,        \* those of them where it found the shard open
  count,         \* what DeleteMulti has counted
  seen,          \* what GetMulti or Keys has found
  stored, gone,  \* history: entries made, entries evicted or cleared
  fresh,         \* history: keys stored since a call began
  lasting,       \* history: keys there all the time since a call began
  before,        \* history: keys there when it began
  closer         \* history: the call that closes, if any

vars == <<recency, shut, closed, op, batch, todo, inside, count, seen, stored, gone, fresh,
          lasting, before, closer>>

Ops     == {"set", "get", "delete", "keys", "clear", "close"}
In(s)   == ToSet(recency[s])
Present == UNION {In(s) : s \in Shards}

TypeOK ==
  /\ \A s \in Shards : In(s) \subseteq Keys
  /\ \A c \in Calls : /\ op[c] \in Ops \cup {"none"} /\ batch[c] \subseteq Keys
                      /\ inside[c] \subseteq todo[c]
                      /\ todo[c] \subseteq Shards \X SUBSET Keys

Init ==
  /\ \/ recency = [s \in Shards |-> <<>>] /\ stored = 0
     \/ \E full \in [Shards -> Keys] :
          /\ \A s \in Shards : ShardOf[full[s]] = s
          /\ recency = [s \in Shards |-> <<full[s]>>] /\ stored = Cardinality(Shards)
  /\ shut = [s \in Shards |-> FALSE] /\ closed = FALSE
  /\ op = [c \in Calls |-> "none"] /\ batch = [c \in Calls |-> {}]
  /\ todo = [c \in Calls |-> {}] /\ inside = todo
  /\ count = [c \in Calls |-> 0] /\ seen = batch
  /\ gone = 0 /\ fresh = batch /\ lasting = batch /\ before = batch
  /\ closer = {}

-----------------------------------------------------------------------------
\* The keys of a batch by shard (groupKeys); a shard without keys is passed over.
Groups(keys) == {<<s, {k \in keys : ShardOf[k] = s}>> : s \in {ShardOf[k] : k \in keys}}
OneByOne(keys) == {<<ShardOf[k], {k}>> : k \in keys}

Parallel(c) == op[c] \in {"set", "get", "delete"} /\ Cardinality(batch[c]) >= ParallelFrom

Running(c) == todo[c] # {}

\* A call; a second Close returns at once.
Begin(c, o, keys) ==
  /\ op[c] = "none"
  /\ op' = [op EXCEPT ![c] = o] /\ batch' = [batch EXCEPT ![c] = keys]
  /\ todo' = [todo EXCEPT ![c] = CASE o \in {"set", "delete"} -> Groups(keys)
                                   [] o = "get"               -> OneByOne(keys)
                                   [] o = "close" /\ closed   -> {}
                                   [] OTHER                   -> Groups(Keys)]
  /\ closed' = (closed \/ o = "close")
  /\ closer' = IF o = "close" /\ ~closed THEN {c} ELSE closer
  /\ lasting' = [lasting EXCEPT ![c] = Present] /\ before' = [before EXCEPT ![c] = Present]
  /\ UNCHANGED <<recency, shut, inside, count, seen, stored, gone, fresh>>

\* Where a call goes on: in the order of the shards, or everywhere.
Ready(c, part) ==
  Parallel(c) \/ (inside[c] = {} /\ \A other \in todo[c] : part[1] =< other[1])

Enter(c, part) ==
  /\ part \in todo[c] \ inside[c] /\ Ready(c, part)
  /\ IF shut[part[1]]
     THEN todo' = [todo EXCEPT ![c] = @ \ {part}] /\ UNCHANGED <<shut, inside>>
     ELSE /\ inside' = [inside EXCEPT ![c] = @ \cup {part}]
          /\ shut' = [shut EXCEPT ![part[1]] = op[c] = "close"]
          /\ UNCHANGED todo
  /\ UNCHANGED <<recency, closed, op, batch, count, seen, stored, gone, fresh, lasting, before,
                 closer>>

\* Under the lock: the shard becomes now, of which made keys are new and lost were evicted
\* or cleared.
Leaves(c, part, now, made, lost) ==
  /\ recency' = [recency EXCEPT ![part[1]] = now]
  /\ stored' = stored + made /\ gone' = gone + lost
  /\ lasting' = [d \in Calls |->
                   IF Running(d) THEN lasting[d] \ (In(part[1]) \ ToSet(now)) ELSE lasting[d]]
  /\ todo' = [todo EXCEPT ![c] = @ \ {part}] /\ inside' = [inside EXCEPT ![c] = @ \ {part}]
  /\ UNCHANGED <<shut, closed, op, batch, before, closer>>

Without(s, keys) == SelectSeq(recency[s], LAMBDA k : k \notin keys)

\* Set, SetMulti: map order is arbitrary, the last key written is the most recent.
Set(c, part) ==
  /\ op[c] = "set" /\ part \in inside[c]
  /\ LET s == part[1]
         made == part[2] \ In(s)
     IN \E order \in SetToSeqs(part[2]) :
          LET all == order \o Without(s, part[2])
          IN /\ Leaves(c, part, SubSeq(all, 1, IF Len(all) > Capacity THEN Capacity ELSE Len(all)),
                       Cardinality(made), IF Len(all) > Capacity THEN Len(all) - Capacity ELSE 0)
             /\ fresh' = [d \in Calls |-> IF op[d] = "none" THEN {} ELSE fresh[d] \cup part[2]]
  /\ UNCHANGED <<count, seen>>

LastGroup(total, n) == n                                                   \* mutant

\* The sum over the shards.
Total(total, n) == total + n

Delete(c, part) ==
  /\ op[c] = "delete" /\ part \in inside[c]
  /\ Leaves(c, part, Without(part[1], part[2]), 0, 0)
  /\ count' = [count EXCEPT ![c] = Total(@, Cardinality(part[2] \cap In(part[1])))]
  /\ UNCHANGED <<seen, fresh>>

\* GetMulti one key at a time, with its promotion; Keys the whole shard.
Get(c, part) ==
  /\ op[c] \in {"get", "keys"} /\ part \in inside[c]
  /\ LET s == part[1]
         found == part[2] \cap In(s)
     IN /\ Leaves(c, part, IF op[c] = "get" THEN SetToSeq(found) \o Without(s, found) ELSE recency[s],
                  0, 0)
        /\ seen' = [seen EXCEPT ![c] = @ \cup found]
  /\ UNCHANGED <<count, fresh>>

\* Clear, and Close after the swap of closed.
Drain(c, part) ==
  /\ op[c] \in {"clear", "close"} /\ part \in inside[c]
  /\ Leaves(c, part, <<>>, 0, Len(recency[part[1]]))
  /\ UNCHANGED <<count, seen, fresh>>

Next ==
  \/ \E c \in Calls : \/ \E o \in {"set", "get", "delete"}, keys \in Batches : Begin(c, o, keys)
                      \/ \E o \in {"keys", "clear", "close"} : Begin(c, o, {})
                      \/ \E part \in todo[c] : \/ Enter(c, part) \/ Set(c, part) \/ Delete(c, part)
                                               \/ Get(c, part) \/ Drain(c, part)
  \/ (\A c \in Calls : op[c] # "none" /\ ~Running(c)) /\ UNCHANGED vars

-----------------------------------------------------------------------------
Done(c) == op[c] # "none" /\ ~Running(c)

\* Over the shards, every entry made is there, was evicted or cleared, or is in the count
\* of exactly one DeleteMulti; a key is only in its shard, and that within its capacity;
\* what the Close that closes leaves, or a Clear if nothing closes, was stored after it
\* began; and a look at many keys finds none that never were and, if nothing closes, all
\* that stay (SetMulti, DeleteMulti, GetMulti, Keys, Clear, Close).
ShardsAgree ==
  /\ stored = Cardinality(Present) + gone + FoldLeft(LAMBDA n, c : n + count[c], 0, SetToSeq(Calls))
  /\ \A s \in Shards : /\ Len(recency[s]) =< Capacity
                       /\ \A k \in In(s) : ShardOf[k] = s
  /\ \A c \in Calls : Done(c) =>
       /\ op[c] = "clear" /\ ~closed => Present \subseteq fresh[c]
       /\ c \in closer => Present \subseteq fresh[c] /\ \A s \in Shards : shut[s]
       /\ LET asked == IF op[c] = "get" THEN batch[c] ELSE Keys
          IN op[c] \in {"get", "keys"} =>
               /\ ~closed => lasting[c] \cap asked \subseteq seen[c]
               /\ seen[c] \subseteq before[c] \cup fresh[c]
=============================================================================
