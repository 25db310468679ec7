------------------------------ MODULE Options ------------------------------
(***************************************************************************)
(* The functional options of the packages, and what newConfig makes of     *)
(* them: any options in any order, again and again, and at the end the     *)
(* clamps.  A package's table gives, for every field, its default and what *)
(* its option stores for each value it takes; it ignores other values.     *)
(*                                                                         *)
(* Counts, durations and ratios are small integers, with Unit for 1.0; of  *)
(* a name or a callback 0 is "" or nil.                                    *)
(***************************************************************************)
EXTENDS Integers

CONSTANTS
  Raw,           \* what an option may be given
  Unit,
  MaxShardCount, \* lrux
  ShardDivisor,  \* fallx: shardCapDivisor
  IntervalDivisor, MinInterval, MaxInterval,   \* warmupx
  MaxOptions

VARIABLES
  package,       \* of which this is the configuration
  cfg,           \* the fields of the package's config
  used           \* options so far

vars == <<package, cfg, used>>

Packages == {"adaptx", "bulkx", "circuitx", "fallx", "hedgex", "lrux", "sharded", "poolx",
             "quotax", "ratex", "retryx", "shedx", "toutx", "warmupx"}

-----------------------------------------------------------------------------
(* What an option stores for the values it takes. *)

Taking(S)  == [v \in S |-> v]
Every      == Taking(Raw)
Positive   == Taking({v \in Raw : v > 0})
Natural    == Taking({v \in Raw : v >= 0})
Share      == Taking({v \in Raw : v > 0 /\ v <= Unit})
Portion    == Taking({v \in Raw : v >= 0 /\ v <= Unit})
Fraction   == Taking({v \in Raw : v > 0 /\ v < Unit})
Floored    == [v \in Raw |-> IF v < 0 THEN 0 ELSE v]
UpTo(most) == [v \in DOMAIN Positive |-> IF v > most THEN most ELSE v]
Handle     == Taking({0, 1})     \* a callback that nil clears
Given      == Taking({1})        \* a name or a callback; "" or nil is ignored

AdaptxOptions ==
  [algorithm |-> <<0, Every>>, initialLimit |-> <<2, Positive>>, minLimit |-> <<1, Positive>>,
   maxLimit |-> <<5, Positive>>, smoothing |-> <<1, Share>>, increaseRate |-> <<1, Positive>>,
   decreaseRatio |-> <<2, Fraction>>, utilization |-> <<3, Share>>,
   targetLatency |-> <<1, Positive>>, tolerance |-> <<1, Share>>,
   sampleWindow |-> <<2, Positive>>, warmupSamples |-> <<2, Natural>>,
   minLatDecay |-> <<1, Portion>>, jitter |-> <<1, Portion>>, op |-> <<0, Given>>,
   onLimitChange |-> <<0, Handle>>, clock |-> <<0, Given>>]

BulkxOptions ==
  [maxConcurrent |-> <<2, Positive>>, timeout |-> <<2, Positive>>, op |-> <<0, Given>>,
   maxWaiters |-> <<0, Positive>>]

CircuitxOptions ==
  [maxFailures |-> <<5, Positive>>, resetTimeout |-> <<2, Positive>>,
   halfOpenMax |-> <<1, Positive>>, successThreshold |-> <<1, Positive>>,
   onStateChange |-> <<0, Given>>, failureIf |-> <<0, Given>>, countCanceled |-> <<0, Given>>,
   op |-> <<0, Given>>]

\* strategy: 0 static, 1 func, 2 cached (Static, Func and Cached below)
FallxOptions ==
  [strategy |-> <<0, Taking({})>>, fallbackFn |-> <<0, Taking({})>>, cacheTTL |-> <<1, Taking({})>>,
   maxCacheSize |-> <<5, Taking({})>>, shardCount |-> <<2, Positive>>, keyFn |-> <<0, Given>>,
   onFallback |-> <<0, Given>>, fallbackIf |-> <<0, Given>>, clone |-> <<0, Given>>,
   cleanupInterval |-> <<0, Positive>>, op |-> <<0, Given>>]

HedgexOptions ==
  [maxParallel |-> <<3, Positive>>, delay |-> <<1, Positive>>, maxDelay |-> <<3, Positive>>,
   onHedge |-> <<0, Handle>>, hedgeProb |-> <<Unit, UpTo(Unit)>>, randFn |-> <<0, Given>>,
   op |-> <<0, Given>>]

LruxOptions ==
  [capacity |-> <<0, Floored>>, ttl |-> <<0, Floored>>, onEvict |-> <<0, Handle>>,
   cleanupInterval |-> <<0, Positive>>, computeTTL |-> <<0, Floored>>,
   singleflight |-> <<0, Given>>]

ShardedOptions ==
  [shardCount |-> <<2, UpTo(MaxShardCount)>>, capacity |-> <<0, Floored>>, ttl |-> <<0, Floored>>,
   onEvict |-> <<0, Handle>>, cleanupInterval |-> <<0, Positive>>]

PoolxOptions ==
  [workers |-> <<2, Positive>>, queueSize |-> <<4, Positive>>, batchSize |-> <<5, Positive>>,
   flushInterval |-> <<1, Positive>>, onError |-> <<0, Handle>>, workerOp |-> <<0, Given>>,
   batchOp |-> <<0, Given>>, reset |-> <<0, Handle>>]

QuotaxOptions ==
  [rate |-> <<2, Positive>>, burst |-> <<4, Every>>, shards |-> <<4, Positive>>,
   maxKeys |-> <<0, Natural>>, evictionTTL |-> <<3, Positive>>,
   evictionInterval |-> <<1, Positive>>, onMaxKeys |-> <<0, Handle>>]

RatexOptions ==
  [rate |-> <<2, Positive>>, burst |-> <<4, Every>>, now |-> <<1, Given>>]

\* jitterMode: 0 multiplicative, 1 off, 2 equal
RetryxOptions ==
  [maxAttempts |-> <<3, Every>>, backoff |-> <<1, Positive>>, maxBackoff |-> <<4, Positive>>,
   jitterMode |-> <<0, Taking({0, 1, 2})>>, maxElapsed |-> <<0, Positive>>,
   delayFunc |-> <<0, Given>>, retryIf |-> <<0, Handle>>, onRetry |-> <<0, Handle>>,
   nowFn |-> <<0, Given>>, op |-> <<0, Given>>]

ShedxOptions ==
  [capacity |-> <<5, Positive>>, threshold |-> <<3, Share>>, hysteresis |-> <<0, Positive>>,
   cutoffLow |-> <<1, Taking({})>>, cutoffNormal |-> <<2, Taking({})>>,
   cutoffHigh |-> <<3, Taking({})>>, op |-> <<0, Given>>]

ToutxOptions == [timeout |-> <<3, Positive>>, op |-> <<0, Given>>]

WarmupxOptions ==
  [strategy |-> <<0, Every>>, minCap |-> <<1, Portion>>, maxCap |-> <<Unit, Share>>,
   duration |-> <<5, Positive>>, interval |-> <<0, Positive>>, stepCount |-> <<5, Positive>>,
   expFactor |-> <<3, Positive>>, onCapChange |-> <<0, Handle>>, onComplete |-> <<0, Handle>>,
   op |-> <<0, Given>>, now |-> <<0, Given>>]

Table ==
  CASE package = "adaptx"   -> AdaptxOptions   [] package = "bulkx"   -> BulkxOptions
    [] package = "circuitx" -> CircuitxOptions [] package = "fallx"   -> FallxOptions
    [] package = "hedgex"   -> HedgexOptions   [] package = "lrux"    -> LruxOptions
    [] package = "sharded"  -> ShardedOptions  [] package = "poolx"   -> PoolxOptions
    [] package = "quotax"   -> QuotaxOptions   [] package = "ratex"   -> RatexOptions
    [] package = "retryx"   -> RetryxOptions   [] package = "shedx"   -> ShedxOptions
    [] package = "toutx"    -> ToutxOptions    [] package = "warmupx" -> WarmupxOptions

Defaults == [f \in DOMAIN Table |-> Table[f][1]]

TypeOK == package \in Packages /\ DOMAIN cfg = DOMAIN Table /\ used \in 0 .. MaxOptions

Init == package \in Packages /\ cfg = Defaults /\ used = 0

-----------------------------------------------------------------------------
(* Options. *)

\* One that sets a field.
With(f, v) ==
  /\ v \in DOMAIN Table[f][2]
  /\ cfg' = [cfg EXCEPT ![f] = Table[f][2][v]]

\* fallx: the last of WithStatic, WithFunc and WithCached wins; the fields of the
\* others stay.
Static == cfg' = [cfg EXCEPT !.strategy = 0]
Func   == cfg' = [cfg EXCEPT !.strategy = 1, !.fallbackFn = 1]
Cached(ttl, max) ==
  cfg' = [cfg EXCEPT !.strategy = 2, !.cacheTTL = IF ttl > 0 THEN ttl ELSE @,
                     !.maxCacheSize = IF max > 0 THEN max ELSE @]

\* shedx: whatever they are, until newConfig looks at all three.
WithCutoffs(low, normal, high) ==
  cfg' = [cfg EXCEPT !.cutoffLow = low, !.cutoffNormal = normal, !.cutoffHigh = high]

\* toutx: the options before are lost.
WithTimer(timeout, op) == cfg' = [timeout |-> timeout, op |-> op]

Next ==
  \/ /\ used < MaxOptions /\ used' = used + 1 /\ UNCHANGED package
     /\ \/ \E f \in DOMAIN Table : \E v \in DOMAIN Table[f][2] : With(f, v)
        \/ /\ package = "fallx"
           /\ Static \/ Func \/ \E ttl, max \in Raw : Cached(ttl, max)
        \/ package = "shedx" /\ \E l, n, h \in Raw : WithCutoffs(l, n, h)
        \/ package = "toutx" /\ \E d \in DOMAIN Positive, op \in {0, 1} : WithTimer(d, op)
  \/ used = MaxOptions /\ UNCHANGED vars

Spec == Init /\ [][Next]_vars

-----------------------------------------------------------------------------
(* newConfig's clamps, in their order. *)

AtLeast(c, f, low) == IF c[f] < low THEN [c EXCEPT ![f] = low] ELSE c
AtMost(c, f, high) == IF c[f] > high THEN [c EXCEPT ![f] = high] ELSE c

InitialFirst(c) ==                                                         \* mutant
  LET i == AtMost(AtLeast(AtLeast(c, "minLimit", 1), "initialLimit", c.minLimit), "initialLimit", c.maxLimit)
  IN AtLeast(i, "maxLimit", i.minLimit)
AdaptxConfig(c) ==
  LET floor == AtLeast(c, "minLimit", 1)
      top   == AtLeast(floor, "maxLimit", floor.minLimit)
  IN AtMost(AtLeast(top, "initialLimit", top.minLimit), "initialLimit", top.maxLimit)

BulkxConfig(c) == AtLeast(c, "maxConcurrent", 1)

CircuitxConfig(c) ==
  LET t == IF c.resetTimeout <= 0 THEN [c EXCEPT !.resetTimeout = Defaults.resetTimeout] ELSE c
  IN AtLeast(AtLeast(AtLeast(t, "maxFailures", 1), "halfOpenMax", 1), "successThreshold", 1)

FallxConfig(c) ==
  LET few == c.maxCacheSize \div ShardDivisor
      s   == AtLeast(c, "shardCount", 1)
  IN IF s.maxCacheSize > 0 /\ s.shardCount > s.maxCacheSize
     THEN [s EXCEPT !.shardCount = IF few < 1 THEN 1 ELSE few] ELSE s

HedgexConfig(c) == AtLeast(AtLeast(c, "maxParallel", 1), "maxDelay", c.delay)

\* NewSharded: nextPow2 of the count.
NextPow2(n) == CHOOSE p \in {2 ^ i : i \in 0 .. n} : p >= n /\ (p = 1 \/ p \div 2 < n)
ShardedConfig(c) == [c EXCEPT !.shardCount = NextPow2(@)]

RateConfig(c) ==
  AtLeast(IF c.rate <= 0 THEN [c EXCEPT !.rate = Defaults.rate] ELSE c, "burst", 1)

RetryxConfig(c) == AtLeast(c, "maxAttempts", 1)

\* normalizeCutoffs
ValidCutoff(v) == v > 0 /\ v <= Unit
Ordered(c) == /\ ValidCutoff(c.cutoffLow) /\ ValidCutoff(c.cutoffNormal) /\ ValidCutoff(c.cutoffHigh)
              /\ c.cutoffLow <= c.cutoffNormal /\ c.cutoffNormal <= c.cutoffHigh
ShedxConfig(c) ==
  LET cap == AtLeast(c, "capacity", 1)
      t   == IF cap.threshold > 0 /\ cap.threshold <= Unit THEN cap
             ELSE [cap EXCEPT !.threshold = Defaults.threshold]
      h   == IF t.hysteresis > 0 /\ t.hysteresis < t.threshold THEN t ELSE [t EXCEPT !.hysteresis = 0]
  IN IF Ordered(h) THEN h
     ELSE [h EXCEPT !.cutoffLow = Defaults.cutoffLow, !.cutoffNormal = Defaults.cutoffNormal,
                    !.cutoffHigh = Defaults.cutoffHigh]

WarmupxConfig(c) ==
  LET m == AtLeast(c, "maxCap", c.minCap)
      i == IF m.interval <= 0 THEN [m EXCEPT !.interval = m.duration \div IntervalDivisor] ELSE m
  IN AtMost(AtLeast(i, "interval", MinInterval), "interval", MaxInterval)

\* newConfig
Config(c) ==
  CASE package = "adaptx"   -> AdaptxConfig(c)   [] package = "bulkx"   -> BulkxConfig(c)
    [] package = "circuitx" -> CircuitxConfig(c) [] package = "fallx"   -> FallxConfig(c)
    [] package = "hedgex"   -> HedgexConfig(c)   [] package = "sharded" -> ShardedConfig(c)
    [] package \in {"quotax", "ratex"} -> RateConfig(c)
    [] package = "retryx"   -> RetryxConfig(c)   [] package = "shedx"   -> ShedxConfig(c)
    [] package = "warmupx"  -> WarmupxConfig(c)
    [] package \in {"lrux", "poolx", "toutx"} -> c

-----------------------------------------------------------------------------
\* What the package works with, and the other modules assume.
Usable(c) ==
  CASE package = "adaptx"   -> /\ 1 <= c.minLimit /\ c.minLimit <= c.initialLimit
                               /\ c.initialLimit <= c.maxLimit
    [] package = "bulkx"    -> c.maxConcurrent >= 1 /\ c.maxWaiters >= 0 /\ c.timeout > 0
    [] package = "circuitx" -> /\ c.maxFailures >= 1 /\ c.halfOpenMax >= 1
                               /\ c.successThreshold >= 1 /\ c.resetTimeout > 0
    [] package = "fallx"    -> /\ 1 <= c.shardCount /\ c.shardCount <= c.maxCacheSize
                               /\ c.strategy = 1 => c.fallbackFn = 1
    [] package = "hedgex"   -> /\ c.maxParallel >= 1 /\ 0 < c.delay /\ c.delay <= c.maxDelay
                               /\ 0 < c.hedgeProb /\ c.hedgeProb <= Unit
    [] package = "lrux"     -> c.capacity >= 0 /\ c.ttl >= 0 /\ c.computeTTL >= 0
    [] package = "sharded"  -> /\ c.capacity >= 0 /\ c.ttl >= 0
                               /\ \E i \in 0 .. c.shardCount : c.shardCount = 2 ^ i
    [] package = "poolx"    -> c.workers >= 1 /\ c.queueSize >= 1 /\ c.batchSize >= 1
    [] package \in {"quotax", "ratex"} -> c.rate > 0 /\ c.burst >= 1
    [] package = "retryx"   -> c.maxAttempts >= 1 /\ c.backoff > 0
    [] package = "shedx"    -> /\ c.capacity >= 1 /\ Ordered(c)
                               /\ 0 < c.threshold /\ c.threshold <= Unit
                               /\ 0 <= c.hysteresis /\ c.hysteresis < c.threshold
    [] package = "toutx"    -> c.timeout > 0
    [] package = "warmupx"  -> /\ 0 <= c.minCap /\ c.minCap <= c.maxCap /\ 0 < c.maxCap
                               /\ c.maxCap <= Unit /\ c.stepCount >= 1 /\ c.duration > 0
                               /\ MinInterval <= c.interval /\ c.interval <= MaxInterval

\* Whatever options are given, repeated, and in whatever order, what newConfig returns
\* is usable, and options that agree with each other are taken as they are
\* (newConfig of every package, normalizeCutoffs, nextPow2).
ConfigSound == Usable(Config(cfg)) /\ (Usable(cfg) => Config(cfg) = cfg)
=============================================================================
