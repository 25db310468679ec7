------------------------------ MODULE Fallback ------------------------------
(***************************************************************************)
(* fallx: calls of ExecuteWithKey beside Seed, ClearCache and Close.  A    *)
(* call runs its primary; if that fails it takes the fallback path of the  *)
(* strategy.  The cache is its contents here, and any entry may be gone    *)
(* (expired or evicted) when it is looked at; module FallCache has the     *)
(* shards, the count and the eviction.                                     *)
(***************************************************************************)
EXTENDS Integers, FiniteSets

CONSTANTS
  Calls,       \* of ExecuteWithKey; a call that succeeds has its own value
  Keys,
  Seeded,      \* the value Seed is given
  None

Values == Calls \cup {Seeded}

VARIABLES
  strategy, excuses, hasFunc,   \* the configuration: WithFallbackIf, a function for StrategyFunc
  cache, closed,
  key, pc, answer,              \* of every call
  calls, primarySuccess, fallbackUsed, fallbackSuccess, fallbackFailed, hits, misses,
  stored                        \* history: the values stored under each key

config   == <<strategy, excuses, hasFunc>>
counters == <<calls, primarySuccess, fallbackUsed, fallbackSuccess, fallbackFailed, hits, misses>>
vars     == <<config, cache, closed, key, pc, answer, counters, stored>>

TypeOK ==
  /\ cache \in [Keys -> Values \cup {None}] /\ closed \in BOOLEAN
  /\ key \in [Calls -> Keys]
  /\ pc \in [Calls -> {"idle", "primary", "cache", "filter", "fallback", "dispatch", "func",
                       "hit", "replayed", "miss", "missed", "done"}]
  /\ stored \in [Keys -> SUBSET Values]

Init ==
  /\ strategy \in {"static", "func", "cached"} /\ excuses \in BOOLEAN /\ hasFunc \in BOOLEAN
  /\ cache = [k \in Keys |-> None] /\ closed = FALSE
  /\ key \in [Calls -> Keys] /\ pc = [c \in Calls |-> "idle"] /\ answer = [c \in Calls |-> None]
  /\ calls = 0 /\ primarySuccess = 0 /\ fallbackUsed = 0 /\ fallbackSuccess = 0
  /\ fallbackFailed = 0 /\ hits = 0 /\ misses = 0
  /\ stored = [k \in Keys |-> {}]

-----------------------------------------------------------------------------
Goto(c, from, to) == pc[c] = from /\ pc' = [pc EXCEPT ![c] = to]
Answers(c, from, a) == Goto(c, from, "done") /\ answer' = [answer EXCEPT ![c] = a]

Stores(k, v) ==
  /\ cache' = [cache EXCEPT ![k] = v]
  /\ stored' = [stored EXCEPT ![k] = @ \cup {v}]

Enter(c) ==
  /\ \/ closed /\ Answers(c, "idle", "closed") /\ UNCHANGED calls
     \/ ~closed /\ Goto(c, "idle", "primary") /\ calls' = calls + 1 /\ UNCHANGED answer
  /\ UNCHANGED <<config, cache, closed, key, primarySuccess, fallbackUsed, fallbackSuccess,
                 fallbackFailed, hits, misses, stored>>

\* The primary returns, or panics, which is an error too.
Primary(c) ==
  /\ \/ /\ Goto(c, "primary", IF strategy = "cached" THEN "cache" ELSE "done")
        /\ answer' = [answer EXCEPT ![c] = c]
        /\ primarySuccess' = primarySuccess + 1
     \/ Goto(c, "primary", "filter") /\ UNCHANGED <<answer, primarySuccess>>
  /\ UNCHANGED <<config, cache, closed, key, calls, fallbackUsed, fallbackSuccess,
                 fallbackFailed, hits, misses, stored>>

\* The value of a call under way is cached although the fallback was closed meanwhile.
CacheResult(c) ==
  /\ Goto(c, "cache", "done")
  /\ Stores(key[c], c)
  /\ UNCHANGED <<config, closed, key, answer, counters>>

\* WithFallbackIf.
Filter(c) ==
  /\ \/ excuses /\ Answers(c, "filter", "primaryError")
     \/ Goto(c, "filter", "fallback") /\ UNCHANGED answer
  /\ UNCHANGED <<config, cache, closed, key, counters, stored>>

\* fallback, and its hook, whose panic is recovered.
BeginFallback(c) ==
  /\ Goto(c, "fallback", "dispatch")
  /\ fallbackUsed' = fallbackUsed + 1
  /\ UNCHANGED <<config, cache, closed, key, answer, calls, primarySuccess, fallbackSuccess,
                 fallbackFailed, hits, misses, stored>>

Succeeds(c, from, a) ==
  Answers(c, from, a) /\ fallbackSuccess' = fallbackSuccess + 1 /\ UNCHANGED fallbackFailed
Fails(c, from, a) ==
  Answers(c, from, a) /\ fallbackFailed' = fallbackFailed + 1 /\ UNCHANGED fallbackSuccess

Dispatch(c) ==
  /\ \/ strategy = "static" /\ Succeeds(c, "dispatch", "static")
     \/ strategy = "func" /\ ~hasFunc /\ Fails(c, "dispatch", "noFunction")
     \/ /\ strategy = "func" /\ hasFunc
        /\ Goto(c, "dispatch", "func")
        /\ UNCHANGED <<answer, fallbackSuccess, fallbackFailed>>
  /\ UNCHANGED <<config, cache, closed, key, calls, primarySuccess, fallbackUsed, hits, misses,
                 stored>>

RunFunc(c) ==
  /\ Succeeds(c, "func", "func") \/ Fails(c, "func", "fallbackFailed")
  /\ UNCHANGED <<config, cache, closed, key, calls, primarySuccess, fallbackUsed, hits, misses,
                 stored>>

AnyKey(c) == CHOOSE k \in Keys : TRUE                                      \* mutant
KeyOf(c)  == key[c]

\* getCachedResult, which drops what is expired.
LookUp(c) ==
  /\ strategy = "cached"
  /\ LET v == cache[KeyOf(c)]
     IN \/ /\ v # None /\ Goto(c, "dispatch", "hit")
           /\ answer' = [answer EXCEPT ![c] = v] /\ UNCHANGED cache
        \/ /\ Goto(c, "dispatch", "miss") /\ UNCHANGED answer
           /\ cache' = [cache EXCEPT ![KeyOf(c)] = None]
  /\ UNCHANGED <<config, closed, key, counters, stored>>

\* The first counter of a call that looked, and the second.
CountLookUp(c) ==
  /\ \/ Goto(c, "hit", "replayed") /\ hits' = hits + 1 /\ UNCHANGED misses
     \/ Goto(c, "miss", "missed") /\ misses' = misses + 1 /\ UNCHANGED hits
  /\ UNCHANGED <<config, cache, closed, key, answer, calls, primarySuccess, fallbackUsed,
                 fallbackSuccess, fallbackFailed, stored>>

Replay(c) ==
  /\ Succeeds(c, "replayed", answer[c]) \/ Fails(c, "missed", "notCached")
  /\ UNCHANGED <<config, cache, closed, key, calls, primarySuccess, fallbackUsed, hits, misses,
                 stored>>

-----------------------------------------------------------------------------
Seed(k) ==
  /\ ~closed /\ strategy = "cached"
  /\ Stores(k, Seeded)
  /\ UNCHANGED <<config, closed, key, pc, answer, counters>>

ClearCache ==
  /\ ~closed /\ strategy = "cached"
  /\ cache' = [k \in Keys |-> None]
  /\ UNCHANGED <<config, closed, key, pc, answer, counters, stored>>

Close ==
  /\ ~closed /\ closed' = TRUE
  /\ UNCHANGED <<config, cache, key, pc, answer, counters, stored>>

Next ==
  \/ \E c \in Calls : \/ Enter(c) \/ Primary(c) \/ CacheResult(c) \/ Filter(c)
                      \/ BeginFallback(c) \/ Dispatch(c) \/ RunFunc(c)
                      \/ LookUp(c) \/ CountLookUp(c) \/ Replay(c)
  \/ \E k \in Keys : Seed(k)
  \/ ClearCache \/ Close
  \/ closed /\ UNCHANGED vars

Spec == Init /\ [][Next]_vars

-----------------------------------------------------------------------------
In(steps) == Cardinality({c \in Calls : pc[c] \in steps})
With(answers) == Cardinality({c \in Calls : pc[c] = "done" /\ answer[c] \in answers})

\* At any time every counted call is in exactly one of the counters, or has yet to come
\* to it: successes of the primary, errors the filter lets through, and fallbacks that
\* succeeded or failed; a cache hit or miss that is counted is one of these, but for the
\* calls between the two counters (ExecuteWithKey, fallback).
CallsAddUp ==
  /\ calls = primarySuccess + fallbackUsed
                + In({"primary", "filter", "fallback"}) + With({"primaryError"})
  /\ fallbackUsed = fallbackSuccess + fallbackFailed
                       + In({"dispatch", "func", "hit", "replayed", "miss", "missed"})
  /\ strategy = "cached" => /\ hits = fallbackSuccess + In({"replayed"})
                            /\ misses = fallbackFailed + In({"missed"})

\* A call whose primary succeeded answers with its value; any other answers with a value
\* only if its strategy found one, which was stored under its own key (getCachedResult,
\* cacheResult).
ReplaysItsKey ==
  /\ \A c \in Calls : pc[c] = "done" /\ answer[c] \in Values
       => answer[c] = c \/ (strategy = "cached" /\ answer[c] \in stored[key[c]])
  /\ \A k \in Keys : cache[k] # None => cache[k] \in stored[k]
=============================================================================
