-------------------------------- MODULE Lru --------------------------------
(***************************************************************************)
(* lrux.Cache: a map whose nodes are linked into a list, both under one    *)
(* mutex, with eviction callbacks that run after the mutex is released,    *)
(* values computed outside it, and a closed flag that is mostly read       *)
(* before it is taken.                                                     *)
(*                                                                         *)
(* A value is named by the call that made it, a node by its key.  What a   *)
(* call does under the mutex is one action.  Time is left open: any entry  *)
(* may turn out to be expired.                                             *)
(***************************************************************************)
EXTENDS Integers, Sequences, FiniteSets, SequencesExt

CONSTANTS
  Callers,      \* goroutines that make one call each, and the values they make
  Keys,
  FlightOf,     \* the string that keyString makes of a key
  Capacities,   \* WithCapacity and the arguments of Resize
  None

VARIABLES
  cache,       \* items, the links of their nodes, head, tail and size
  capacity,
  closed,
  hits, misses,
  flight,      \* external: the call that leads the flight of each name, or None
  pc, key,     \* next step of each caller, and the key of its call
  got,         \* the value a caller is to return
  source,      \* where a finished lookup has its value from
  events,      \* the callbacks that a caller still has to make
  leader,      \* the caller whose flight a caller waits for
  fpc, result, \* next step of the flight that a caller leads, and its value
  stored,      \* history: what was ever put into the cache
  reported     \* history: what eviction callbacks were told

stats   == <<hits, misses>>
single  == <<flight, leader, fpc, result>>
locals  == <<key, got, source>>
history == <<stored, reported>>
vars    == <<cache, capacity, closed, stats, single, pc, locals, events, history>>

\* keyString
FlightName(k) == FlightOf[k]
Flights == {FlightName(k) : k \in Keys}

Labels == {"idle", "set", "setMulti", "get", "getFast", "touch", "delete", "drain", "resize",
           "sweep", "peek", "hit", "miss", "direct", "check", "compute", "store", "convert",
           "single", "await", "fire", "done"}
FlightLabels == {"none", "peek", "miss", "compute", "closed", "store", "deliver", "done"}
Sources == {"none", "cache", "own", "flight", "nothing", "failed"}

Entries == [value : Callers, expired : BOOLEAN]
Links   == Keys \cup {None}

TypeOK ==
  /\ cache \in [items : [Keys -> Entries \cup {None}], next : [Keys -> Links],
                prev : [Keys -> Links], head : Links, tail : Links,
                size : 0 .. Cardinality(Keys)]
  /\ capacity \in Capacities /\ closed \in BOOLEAN
  /\ hits \in Nat /\ misses \in Nat
  /\ flight \in [Flights -> Callers \cup {None}]
  /\ pc \in [Callers -> Labels] /\ fpc \in [Callers -> FlightLabels]
  /\ key \in [Callers -> Links]
  /\ got \in [Callers -> Callers \cup {None}] /\ result \in [Callers -> Callers \cup {None}]
  /\ leader \in [Callers -> Callers \cup {None}]
  /\ source \in [Callers -> Sources]
  /\ events \in [Callers -> SUBSET (Keys \X Callers)]
  /\ stored \subseteq Keys \X Callers /\ reported \subseteq Keys \X Callers

Empty == [items |-> [k \in Keys |-> None], next |-> [k \in Keys |-> None],
          prev |-> [k \in Keys |-> None], head |-> None, tail |-> None, size |-> 0]

Init ==
  /\ cache = Empty
  /\ capacity \in Capacities
  /\ closed = FALSE
  /\ hits = 0 /\ misses = 0
  /\ flight = [f \in Flights |-> None]
  /\ pc = [c \in Callers |-> "idle"] /\ fpc = [c \in Callers |-> "none"]
  /\ key = [c \in Callers |-> None]
  /\ got = [c \in Callers |-> None] /\ result = [c \in Callers |-> None]
  /\ leader = [c \in Callers |-> None]
  /\ source = [c \in Callers |-> "none"]
  /\ events = [c \in Callers |-> {}]
  /\ stored = {} /\ reported = {}

-----------------------------------------------------------------------------
(* The list, as functions from a cache to a cache. *)

Present(C) == {k \in Keys : C.items[k] # None}
Fresh(C)   == {k \in Present(C) : ~C.items[k].expired}
Expired(C) == Present(C) \ Fresh(C)

\* listPushFront
PushFront(C, k) ==
  [C EXCEPT !.next[k] = C.head,
            !.prev = [j \in Keys |-> IF j = C.head THEN k ELSE IF j = k THEN None ELSE @[j]],
            !.head = k,
            !.tail = IF @ = None THEN k ELSE @,
            !.size = @ + 1]

\* listRemove
UnlinkForgetsTail(C, k) ==                               \* mutant
  [C EXCEPT !.next = [j \in Keys |-> IF j = k THEN None
                                     ELSE IF j = C.prev[k] THEN C.next[k] ELSE @[j]],
            !.prev = [j \in Keys |-> IF j = k THEN None
                                     ELSE IF j = C.next[k] THEN C.prev[k] ELSE @[j]],
            !.head = IF C.prev[k] = None THEN C.next[k] ELSE @,
            !.size = @ - 1]
Unlink(C, k) ==
  [C EXCEPT !.next = [j \in Keys |-> IF j = k THEN None
                                     ELSE IF j = C.prev[k] THEN C.next[k] ELSE @[j]],
            !.prev = [j \in Keys |-> IF j = k THEN None
                                     ELSE IF j = C.next[k] THEN C.prev[k] ELSE @[j]],
            !.head = IF C.prev[k] = None THEN C.next[k] ELSE @,
            !.tail = IF C.next[k] = None THEN C.prev[k] ELSE @,
            !.size = @ - 1]

\* listMoveToFront
MoveToFront(C, k) == IF C.head = k THEN C ELSE PushFront(Unlink(C, k), k)

\* removeNodeLocked
RemoveNode(C, k) == [Unlink(C, k) EXCEPT !.items[k] = None]
RemoveAll(C, K)  ==
  LET ks == SetToSeq(K)
      left[i \in 0 .. Cardinality(K)] ==
        IF i = 0 THEN C ELSE RemoveNode(left[i - 1], ks[i])
  IN  left[Cardinality(K)]

\* removeTailLocked, as often as the capacity asks for it.
Excess(C, n) == IF n > 0 /\ C.size > n THEN C.size - n ELSE 0
EvictsHead(C, n) ==                                      \* mutant
  LET left[i \in 0 .. Excess(C, n)] ==
        IF i = 0 THEN C ELSE LET D == left[i - 1] IN RemoveNode(D, D.head)
  IN  left[Excess(C, n)]
EvictTail(C, n) ==
  LET left[i \in 0 .. Excess(C, n)] ==
        IF i = 0 THEN C ELSE LET D == left[i - 1] IN RemoveNode(D, D.tail)
  IN  left[Excess(C, n)]

\* A value goes into its node, new or old.
Put(C, k, v) ==
  LET D == IF k \in Present(C) THEN MoveToFront(C, k) ELSE PushFront(C, k)
  IN  [D EXCEPT !.items[k] = [value |-> v, expired |-> FALSE]]

\* The values of a map, written in the order of ks.
PutAll(C, ks, v) ==
  LET after[i \in 0 .. Len(ks)] == IF i = 0 THEN C ELSE Put(after[i - 1], ks[i], v)
  IN  after[Len(ks)]

\* The keys that the links lead through from the head, and which of two of them
\* comes first.
Order(C) ==
  LET nth[i \in 1 .. C.size] ==
        IF i = 1 THEN C.head
        ELSE LET k == nth[i - 1] IN IF k = None THEN None ELSE C.next[k]
  IN  nth
Newer(C) ==
  LET ks == Order(C)
  IN  UNION {{<<ks[i], ks[j]>> : j \in i + 1 .. Len(ks)} : i \in DOMAIN ks}

-----------------------------------------------------------------------------
At(c, label)   == pc[c] = label
Goto(c, label) == pc' = [pc EXCEPT ![c] = label]

Pairs(C) == {<<k, C.items[k].value>> : k \in Present(C)}

\* The critical section ends with cache D; what was in the cache, or came in and
\* left again, is to be told to OnEvict once the mutex is free (removeNodeLocked,
\* EvictionReplaced).
ReplacesSilently(c, D, new) ==                           \* mutant
  /\ cache' = D
  /\ events' = [events EXCEPT ![c] = @ \cup {p \in Pairs(cache) \cup new : p[1] \notin Present(D)}]
Turns(c, D, new) ==
  /\ cache' = D
  /\ events' = [events EXCEPT ![c] = @ \cup ((Pairs(cache) \cup new) \ Pairs(D))]
Becomes(c, D) == Turns(c, D, {})
Stores(c, D, K) ==
  /\ Turns(c, D, K \X {c})
  /\ stored' = stored \cup (K \X {c})
  /\ UNCHANGED reported

\* fireCallbacks
Fire(c) ==
  /\ events' = [events EXCEPT ![c] = {}]
  /\ reported' = reported \cup events[c]
  /\ UNCHANGED stored

Found(c, v) == got' = [got EXCEPT ![c] = v]
From(c, s)  == source' = [source EXCEPT ![c] = s]

-----------------------------------------------------------------------------
(* Calls without a computation. *)

\* Every call reads closed first (and GetOrCompute its ctx); Close swaps it.
Enter(c) ==
  /\ At(c, "idle")
  /\ \/ Goto(c, "done") /\ UNCHANGED <<key, closed>>
     \/ ~closed /\ UNCHANGED closed
        /\ \E k \in Keys : key' = [key EXCEPT ![c] = k]
        /\ \E op \in {"set", "get", "getFast", "touch", "peek"} : Goto(c, op)
     \/ ~closed /\ UNCHANGED <<key, closed>>
        /\ \E op \in {"setMulti", "delete", "drain", "resize", "sweep"} : Goto(c, op)
     \/ ~closed /\ closed' = TRUE /\ Goto(c, "drain") /\ UNCHANGED key
  /\ UNCHANGED <<cache, capacity, stats, single, got, source, events, history>>

\* SetWithTTL
Set(c) ==
  /\ At(c, "set")
  /\ Stores(c, EvictTail(Put(cache, key[c], c), capacity), {key[c]})
  /\ Goto(c, "fire")
  /\ UNCHANGED <<capacity, closed, stats, single, locals>>

\* The map's order is any.
SetMulti(c) ==
  /\ At(c, "setMulti")
  /\ \E K \in (SUBSET Keys) \ {{}} : \E ks \in SetToSeqs(K) :
       Stores(c, EvictTail(PutAll(cache, ks, c), capacity), K)
  /\ Goto(c, "fire")
  /\ UNCHANGED <<capacity, closed, stats, single, locals>>

\* What Get and peekPromote do under the mutex.
Lookup(c, k) ==
  IF k \in Fresh(cache) THEN Becomes(c, MoveToFront(cache, k))
  ELSE Becomes(c, RemoveAll(cache, {k} \cap Expired(cache)))

Get(c) ==
  /\ At(c, "get")
  /\ Lookup(c, key[c])
  /\ IF key[c] \in Fresh(cache)
       THEN Found(c, cache.items[key[c]].value) /\ Goto(c, "hit")
       ELSE UNCHANGED got /\ Goto(c, "miss")
  /\ UNCHANGED <<capacity, closed, stats, single, key, source, history>>

GetFast(c) ==
  /\ At(c, "getFast")
  /\ IF key[c] \in Fresh(cache)
       THEN Found(c, cache.items[key[c]].value) /\ Goto(c, "hit")
       ELSE UNCHANGED got /\ Goto(c, "miss")
  /\ UNCHANGED <<cache, capacity, closed, stats, single, key, source, events, history>>

Touch(c) ==
  /\ At(c, "touch")
  /\ Lookup(c, key[c])
  /\ Goto(c, "fire")
  /\ UNCHANGED <<capacity, closed, stats, single, locals, history>>

\* Delete and DeleteMulti
Delete(c) ==
  /\ At(c, "delete")
  /\ \E K \in (SUBSET Keys) \ {{}} : Becomes(c, RemoveAll(cache, K \cap Present(cache)))
  /\ Goto(c, "fire")
  /\ UNCHANGED <<capacity, closed, stats, single, locals, history>>

\* Clear, and Close once it has set the flag
Drain(c) ==
  /\ At(c, "drain")
  /\ Becomes(c, Empty)
  /\ Goto(c, "fire")
  /\ UNCHANGED <<capacity, closed, stats, single, locals, history>>

Resize(c) ==
  /\ At(c, "resize")
  /\ \E n \in Capacities : capacity' = n /\ Becomes(c, EvictTail(cache, n))
  /\ Goto(c, "fire")
  /\ UNCHANGED <<closed, stats, single, locals, history>>

\* ExpireOld and the sweeper, Keys, Values and Snapshot go through the whole
\* list, Range as far as its callback lets it.
Ahead(ks, i) == {ks[j] : j \in 1 .. i - 1} \cap Expired(cache)
Sweep(c) ==
  /\ At(c, "sweep")
  /\ \/ Becomes(c, RemoveAll(cache, Expired(cache)))
     \/ LET ks == Order(cache)
        IN  \E i \in DOMAIN ks : ks[i] \in Fresh(cache) /\ Becomes(c, RemoveAll(cache, Ahead(ks, i)))
  /\ Goto(c, "fire")
  /\ UNCHANGED <<capacity, closed, stats, single, locals, history>>

FireLast(c) ==
  /\ At(c, "fire")
  /\ Fire(c)
  /\ Goto(c, "done")
  /\ UNCHANGED <<cache, capacity, closed, stats, single, locals>>

CountHit(c) ==
  /\ At(c, "hit")
  /\ hits' = hits + 1
  /\ From(c, "cache")
  /\ Goto(c, "done")
  /\ UNCHANGED <<cache, capacity, closed, misses, single, key, got, events, history>>

CountMiss(c) ==
  /\ At(c, "miss")
  /\ Fire(c)
  /\ misses' = misses + 1
  /\ From(c, "nothing")
  /\ Goto(c, "done")
  /\ UNCHANGED <<cache, capacity, closed, hits, single, key, got>>

-----------------------------------------------------------------------------
(* GetOrCompute without singleflight. *)

PeekPromote(c) ==
  /\ At(c, "peek")
  /\ Lookup(c, key[c])
  /\ IF key[c] \in Fresh(cache)
       THEN Found(c, cache.items[key[c]].value) /\ Goto(c, "hit")
       ELSE UNCHANGED got /\ \E next \in {"direct", "single"} : Goto(c, next)
  /\ UNCHANGED <<capacity, closed, stats, single, key, source, history>>

StartDirect(c) ==
  /\ At(c, "direct")
  /\ Fire(c)
  /\ misses' = misses + 1
  /\ Goto(c, "check")
  /\ UNCHANGED <<cache, capacity, closed, hits, single, locals>>

\* The first look under the mutex, like peekPromote's.
Check(c) ==
  /\ At(c, "check")
  /\ Lookup(c, key[c])
  /\ IF key[c] \in Fresh(cache)
       THEN Found(c, cache.items[key[c]].value) /\ Goto(c, "convert")
       ELSE UNCHANGED got /\ Goto(c, "compute")
  /\ UNCHANGED <<capacity, closed, stats, single, key, source, history>>

\* A value, or an error, a panic or a dead ctx.
Compute(c) ==
  /\ At(c, "compute")
  /\ Fire(c)
  /\ \/ Goto(c, "store") /\ UNCHANGED source
     \/ Goto(c, "done") /\ From(c, "failed")
  /\ UNCHANGED <<cache, capacity, closed, stats, single, key, got>>

\* The second look, and insertLocked.  A closed cache takes nothing in; an
\* expired node that was in the way is then gone without a callback.
Store(c) ==
  /\ At(c, "store")
  /\ \/ /\ key[c] \in Fresh(cache)
        /\ Found(c, cache.items[key[c]].value)
        /\ Goto(c, "convert")
        /\ UNCHANGED <<cache, source, events, history>>
     \/ /\ key[c] \notin Fresh(cache) /\ ~closed
        /\ LET D == RemoveAll(cache, {key[c]} \cap Expired(cache))
           IN  Stores(c, EvictTail(Put(D, key[c], c), capacity), {key[c]})
        /\ Found(c, c)
        /\ From(c, "own")
        /\ Goto(c, "fire")
     \/ /\ key[c] \notin Fresh(cache) /\ closed
        /\ cache' = RemoveAll(cache, {key[c]} \cap Expired(cache))
        /\ From(c, "failed")
        /\ Goto(c, "done")
        /\ UNCHANGED <<got, events, history>>
  /\ UNCHANGED <<capacity, closed, stats, single, key>>

KeepsTheMiss(c) ==                                       \* mutant
  /\ At(c, "convert")
  /\ hits' = hits + 1 /\ misses' = misses
  /\ From(c, "cache")
  /\ Goto(c, "done")
  /\ UNCHANGED <<cache, capacity, closed, single, key, got, events, history>>
ConvertMissToHit(c) ==
  /\ At(c, "convert")
  /\ hits' = hits + 1 /\ misses' = misses - 1
  /\ From(c, "cache")
  /\ Goto(c, "done")
  /\ UNCHANGED <<cache, capacity, closed, single, key, got, events, history>>

-----------------------------------------------------------------------------
(* GetOrCompute with singleflight.  The flight of a caller runs on a goroutine *)
(* of its own.                                                                 *)

FlightGoto(c, label) == fpc' = [fpc EXCEPT ![c] = label]

\* external: DoChan joins the flight of that name, or starts one.
Join(c) ==
  /\ At(c, "single")
  /\ Fire(c)
  /\ LET f == FlightName(key[c])
     IN  IF flight[f] = None
           THEN /\ flight' = [flight EXCEPT ![f] = c]
                /\ leader' = [leader EXCEPT ![c] = c]
                /\ FlightGoto(c, "peek")
           ELSE leader' = [leader EXCEPT ![c] = flight[f]] /\ UNCHANGED <<flight, fpc>>
  /\ Goto(c, "await")
  /\ UNCHANGED <<cache, capacity, closed, stats, result, locals>>

FlightPeek(c) ==
  /\ fpc[c] = "peek"
  /\ Lookup(c, key[c])
  /\ IF key[c] \in Fresh(cache)
       THEN result' = [result EXCEPT ![c] = cache.items[key[c]].value] /\ FlightGoto(c, "deliver")
       ELSE UNCHANGED result /\ FlightGoto(c, "miss")
  /\ UNCHANGED <<capacity, closed, stats, flight, leader, pc, locals, history>>

FlightMiss(c) ==
  /\ fpc[c] = "miss"
  /\ Fire(c)
  /\ misses' = misses + 1
  /\ FlightGoto(c, "compute")
  /\ UNCHANGED <<cache, capacity, closed, hits, flight, leader, result, pc, locals>>

FlightCompute(c) ==
  /\ fpc[c] = "compute"
  /\ \/ result' = [result EXCEPT ![c] = c] /\ FlightGoto(c, "closed")
     \/ UNCHANGED result /\ FlightGoto(c, "deliver")
  /\ UNCHANGED <<cache, capacity, closed, stats, flight, leader, pc, locals, events, history>>

\* SetWithTTL reads closed before it takes the mutex.
FlightClosed(c) ==
  /\ fpc[c] = "closed"
  /\ FlightGoto(c, IF closed THEN "deliver" ELSE "store")
  /\ UNCHANGED <<cache, capacity, closed, stats, flight, leader, result, pc, locals, events, history>>

FlightStore(c) ==
  /\ fpc[c] = "store"
  /\ Stores(c, EvictTail(Put(cache, key[c], c), capacity), {key[c]})
  /\ FlightGoto(c, "deliver")
  /\ UNCHANGED <<capacity, closed, stats, flight, leader, result, pc, locals>>

\* external: the name is free again and everybody who joined has the result.
Deliver(c) ==
  /\ fpc[c] = "deliver"
  /\ Fire(c)
  /\ flight' = [f \in Flights |-> IF flight[f] = c THEN None ELSE flight[f]]
  /\ FlightGoto(c, "done")
  /\ UNCHANGED <<cache, capacity, closed, stats, leader, result, pc, locals>>

Await(c) ==
  /\ At(c, "await")
  /\ \/ /\ fpc[leader[c]] = "done" /\ result[leader[c]] # None /\ ~closed
        /\ Found(c, result[leader[c]])
        /\ From(c, "flight")
     \/ From(c, "failed") /\ UNCHANGED got            \* ctx is dead
     \/ /\ fpc[leader[c]] = "done" /\ (result[leader[c]] = None \/ closed)
        /\ From(c, "failed") /\ UNCHANGED got
  /\ Goto(c, "done")
  /\ UNCHANGED <<cache, capacity, closed, stats, single, key, events, history>>

-----------------------------------------------------------------------------
\* Time passes.
Expire ==
  /\ \E k \in Fresh(cache) : cache' = [cache EXCEPT !.items[k].expired = TRUE]
  /\ UNCHANGED <<capacity, closed, stats, single, pc, locals, events, history>>

Plain(c)  == Enter(c) \/ Set(c) \/ SetMulti(c) \/ Get(c) \/ GetFast(c) \/ Touch(c) \/ Delete(c)
               \/ Drain(c) \/ Resize(c) \/ Sweep(c) \/ FireLast(c) \/ CountHit(c) \/ CountMiss(c)
Direct(c) == PeekPromote(c) \/ StartDirect(c) \/ Check(c) \/ Compute(c) \/ Store(c)
               \/ ConvertMissToHit(c)
Flight(c) == Join(c) \/ FlightPeek(c) \/ FlightMiss(c) \/ FlightCompute(c) \/ FlightClosed(c)
               \/ FlightStore(c) \/ Deliver(c) \/ Await(c)

Quiet == \A c \in Callers : At(c, "done") /\ fpc[c] \in {"none", "done"}
Rest  == Quiet /\ UNCHANGED vars

Next == (\E c \in Callers : Plain(c) \/ Direct(c) \/ Flight(c)) \/ Expire \/ Rest

Spec == Init /\ [][Next]_vars

-----------------------------------------------------------------------------
(* Properties. *)

\* Everything has its type, and the list runs through the keys of the map, each
\* once, the same way in both directions, as far as size says and no further
\* (listPushFront, listRemove).
ListMatchesMap ==
  LET ks == Order(cache)
      n  == cache.size
  IN  /\ TypeOK
      /\ Range(ks) = Present(cache) /\ Cardinality(Present(cache)) = n
      /\ \A i \in 1 .. n : /\ cache.next[ks[i]] = IF i = n THEN None ELSE ks[i + 1]
                          /\ cache.prev[ks[i]] = IF i = 1 THEN None ELSE ks[i - 1]
      /\ cache.head = IF n = 0 THEN None ELSE ks[1]
      /\ cache.tail = IF n = 0 THEN None ELSE ks[n]

\* Whatever calls, flights and expiry do, keys come and go as in an LRU cache.
Promise == INSTANCE LruOrder WITH keys <- Present(cache), newer <- Newer(cache)
IsLru   == Promise!Spec

\* A value that was stored is in the cache, or was or will be reported to
\* OnEvict by exactly one goroutine; only a cache that is being closed may lose
\* one (removeNodeLocked, fireCallbacks, computeDirect).
Places(p) == (IF p \in Pairs(cache) THEN 1 ELSE 0) + (IF p \in reported THEN 1 ELSE 0)
               + Cardinality({c \in Callers : p \in events[c]})
EachValueReportedOnce ==
  \A p \in stored : Places(p) = 1 \/ (closed /\ Places(p) = 0)

\* A lookup returns a value that was made for its key (computeSingle).
ValueOfItsKey ==
  \A c \in Callers : got[c] # None => key[got[c]] \in {key[c], None}

\* When all is quiet, every lookup that was served by the cache counts one hit,
\* every other one a miss, and a flight that computed one miss for all who
\* waited for it (convertMissToHit, computeSingle).
LookupsCounted ==
  Quiet => /\ hits = Cardinality({c \in Callers : source[c] = "cache"})
           /\ misses = Cardinality({c \in Callers : source[c] \in {"own", "nothing"}
                                      \/ (source[c] = "failed" /\ leader[c] = None)})
                         + Cardinality({c \in Callers : fpc[c] = "done" /\ result[c] \in {c, None}})
=============================================================================
