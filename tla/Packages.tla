----------------------------- MODULE Packages -----------------------------
(***************************************************************************)
(* The small packages that run goroutines, admit, limit or count calls, or *)
(* take options: a behaviour chooses one of them and takes its steps.  The *)
(* variables x1, x2, ... are those of the package that was chosen, in the  *)
(* order of its INSTANCE.                                                  *)
(***************************************************************************)
EXTENDS Integers, TLC

CONSTANTS
  Callers,     \* of a shedder, a fallback, a rate limiter or a lazy value, tasks of a
               \* group, and those that add to a batch
  Others,      \* those that close a batch, wait for a warmer or register a shutdown hook
  ShutdownWaits, BoundedWaits,                    \* those that wait for a shutdown
  Flusher, Ticker, Nothing,
  BatchSize,                                      \* of a batch
  Slots, Threshold, Hysteresis, Cutoff,           \* of a shedder
  MaxAttempts, MaxElapsed, Delays, MaxTime,       \* of a retry, the last for the model
  LazyResets,                                     \* of a lazy value, for the model
  MaxLimit,                                       \* of a group
  Burst, RateTime, RateResets,                    \* of a rate limiter, two for the model
  FallbackKeys, CacheKeys, CacheShards, CacheShardOf, CacheSize,   \* of a fallback, of its cache
  WarmRuns,                                       \* of a warmer, for the model
  HedgeEntries,                                   \* of a hedged call
  HealthChecks, NamesOfChecks,                    \* of a health checker
  RampMin, RampMax, RampUnit, RampTime, RampSteps, RampCalls,      \* of the capacity of a ramp
  LawMin, LawMax, LawInitial, Latencies, Target, WarmupSamples,    \* of the control laws,
  Ratio, Utilization, Rate, Tolerance, Smoothing, Decay,           \* the last for the model
  BackoffBand, FastStep, LawSamples,
  Raw, Unit, MaxShardCount, ShardDivisor,         \* of the options, the last for the model
  IntervalDivisor, MinInterval, MaxInterval, MaxOptions

VARIABLES
  package,
  x1, x2, x3, x4, x5, x6, x7, x8, x9, x10, x11, x12, x13, x14, x15, x16   \* its variables

B == INSTANCE Batch WITH Adders <- Callers, Flushers <- {Flusher}, Closers <- Others,
       buf <- x1, closed <- x2, done <- x3, once <- x4, pc <- x5, batch <- x6, delivered <- x7,
       late <- x8
S == INSTANCE Shedder WITH Capacity <- Slots, inflight <- x1, closed <- x2, shedding <- x3,
       pc <- x4, priority <- x5, claims <- x6, seen <- x7
W == INSTANCE Warmer WITH Waiters <- Others, MaxRuns <- WarmRuns, gen <- x1, warming <- x2,
       complete <- x3, closed <- x4, stopCh <- x5, completeCh <- x6, stopClosed <- x7,
       completeClosed <- x8, panicked <- x9, loop <- x10, reports <- x11, wpc <- x12, held <- x13
H == INSTANCE Hedge WITH Entries <- HedgeEntries, given <- x1, ctxDead <- x2, answer <- x3,
       next <- x4, attempt <- x5, pending <- x6, timer <- x7, failed <- x8,
       copy <- x9, outcome <- x10, ch <- x11, reaped <- x12
F == INSTANCE FallCache WITH Sweeper <- Ticker, Keys <- CacheKeys, Shards <- CacheShards,
       ShardOf <- CacheShardOf, MaxSize <- CacheSize, None <- Nothing, drifted <- x1,
       entries <- x2, expired <- x3, older <- x4, size <- x5, evictMu <- x6, closed <- x7,
       stop <- x8, pc <- x9, key <- x10, shard <- x11, cold <- x12, sum <- x13
R == INSTANCE RateLimiter WITH MaxTime <- RateTime, MaxResets <- RateResets, tokens <- x1,
       lastUpdate <- x2, allowed <- x3, now <- x4, dead <- x5, pc <- x6, asked <- x7,
       resets <- x8, statResets <- x9
G == INSTANCE Group WITH Tasks <- Callers, Owner <- Ticker, None <- Nothing,
       limit <- x1, sem <- x2, wg <- x3, once <- x4, err <- x5, cancelled <- x6, wants <- x7,
       state <- x8, failed <- x9, owner <- x10
C == INSTANCE Health WITH Registered <- HealthChecks, Name <- NamesOfChecks, down <- x1,
       expired <- x2, overdue <- x3, dropped <- x4, step <- x5, result <- x6, results <- x7,
       components <- x8, pc <- x9, report <- x10, onTime <- x11
T == INSTANCE Timeout WITH parent <- x1, tctx <- x2, fn <- x3, ret <- x4, pc <- x5, answer <- x6,
       early <- x7
A == INSTANCE Retry WITH now <- x1, dead <- x2, attempt <- x3, aborted <- x4, failed <- x5,
       delay <- x6, wake <- x7, clamped <- x8, over <- x9, pc <- x10, answer <- x11
D == INSTANCE Shutdown WITH Registrars <- Others, Waiters <- ShutdownWaits,
       Bounded <- BoundedWaits, globalHooks <- x1, ch <- x2, ctxDone <- x3, watcher <- x4, pc <- x5,
       all <- x6, next <- x7, ended <- x8, timedOut <- x9, due <- x10, trapped <- x11
L == INSTANCE Lazy WITH MaxResets <- LazyResets, None <- Nothing, mu <- x1, done <- x2, val <- x3,
       pc <- x4, got <- x5, resets <- x6, asked <- x7, began <- x8
Y == INSTANCE Ramp WITH MinCap <- RampMin, MaxCap <- RampMax, Unit <- RampUnit,
       Duration <- RampTime, StepCount <- RampSteps, Calls <- RampCalls, strategy <- x1,
       started <- x2, elapsed <- x3, capacity <- x4, progress <- x5, warming <- x6,
       complete <- x7, closed <- x8, allowed <- x9, rejected <- x10, pc <- x11, told <- x12,
       peak <- x13, shown <- x14
E == INSTANCE Fallback WITH Calls <- Others, Keys <- FallbackKeys, Seeded <- Ticker,
       None <- Nothing, strategy <- x1, excuses <- x2, hasFunc <- x3, cache <- x4,
       closed <- x5, key <- x6, pc <- x7, answer <- x8, calls <- x9, primarySuccess <- x10,
       fallbackUsed <- x11, fallbackSuccess <- x12, fallbackFailed <- x13, hits <- x14,
       misses <- x15, stored <- x16
O == INSTANCE Options WITH package <- x1, cfg <- x2, used <- x3
N == INSTANCE ControlLaw WITH MinLimit <- LawMin, MaxLimit <- LawMax, InitialLimit <- LawInitial,
       Warmup <- WarmupSamples, MaxSamples <- LawSamples, algorithm <- x1, limit <- x2,
       credit <- x3, window <- x4, over <- x5,
       seen <- x6, avgLat <- x7, minLat <- x8, taken <- x9, prev <- x10, lately <- x11,
       judged <- x12, fastest <- x13, eligible <- x14

vars == <<package, x1, x2, x3, x4, x5, x6, x7, x8, x9, x10, x11, x12, x13, x14, x15, x16>>

\* A package of n variables leaves the others alone.
Blank(n) ==
  /\ n < 4 => x4 = Nothing
  /\ n < 5 => x5 = Nothing
  /\ n < 6 => x6 = Nothing
  /\ n < 7 => x7 = Nothing
  /\ n < 8 => x8 = Nothing
  /\ n < 9 => x9 = Nothing
  /\ n < 10 => x10 = Nothing
  /\ n < 11 => x11 = Nothing
  /\ n < 12 => x12 = Nothing
  /\ n < 13 => x13 = Nothing
  /\ n < 14 => x14 = Nothing
  /\ n < 15 => x15 = Nothing
  /\ n < 16 => x16 = Nothing
Rest(n) ==
  /\ UNCHANGED package
  /\ n < 4 => UNCHANGED x4
  /\ n < 5 => UNCHANGED x5
  /\ n < 6 => UNCHANGED x6
  /\ n < 7 => UNCHANGED x7
  /\ n < 8 => UNCHANGED x8
  /\ n < 9 => UNCHANGED x9
  /\ n < 10 => UNCHANGED x10
  /\ n < 11 => UNCHANGED x11
  /\ n < 12 => UNCHANGED x12
  /\ n < 13 => UNCHANGED x13
  /\ n < 14 => UNCHANGED x14
  /\ n < 15 => UNCHANGED x15
  /\ n < 16 => UNCHANGED x16

Init ==
  \/ package = "batch" /\ B!Init /\ Blank(8)
  \/ package = "shed" /\ S!Init /\ Blank(7)
  \/ package = "warm" /\ W!Init /\ Blank(13)
  \/ package = "hedge" /\ H!Init /\ Blank(12)
  \/ package = "fall" /\ F!Init /\ Blank(13)
  \/ package = "rate" /\ R!Init /\ Blank(9)
  \/ package = "group" /\ G!Init /\ Blank(10)
  \/ package = "health" /\ C!Init /\ Blank(11)
  \/ package = "timeout" /\ T!Init /\ Blank(7)
  \/ package = "retry" /\ A!Init /\ Blank(11)
  \/ package = "shutdown" /\ D!Init /\ Blank(11)
  \/ package = "lazy" /\ L!Init /\ Blank(8)
  \/ package = "ramp" /\ Y!Init /\ Blank(14)
  \/ package = "fallback" /\ E!Init /\ Blank(16)
  \/ package = "options" /\ O!Init /\ Blank(3)
  \/ package = "law" /\ N!Init /\ Blank(14)

\* fallx: nothing is said of a cache whose recount went wrong, and its run ends there.
Drifted  == x1
FallNext == IF Drifted THEN UNCHANGED vars ELSE F!Next

Next ==
  \/ package = "batch" /\ B!Next /\ Rest(8)
  \/ package = "shed" /\ S!Next /\ Rest(7)
  \/ package = "warm" /\ W!Next /\ Rest(13)
  \/ package = "hedge" /\ H!Next /\ Rest(12)
  \/ package = "fall" /\ FallNext /\ Rest(13)
  \/ package = "rate" /\ R!Next /\ Rest(9)
  \/ package = "group" /\ G!Next /\ Rest(10)
  \/ package = "health" /\ C!Next /\ Rest(11)
  \/ package = "timeout" /\ T!Next /\ Rest(7)
  \/ package = "retry" /\ A!Next /\ Rest(11)
  \/ package = "shutdown" /\ D!Next /\ Rest(11)
  \/ package = "lazy" /\ L!Next /\ Rest(8)
  \/ package = "ramp" /\ Y!Next /\ Rest(14)
  \/ package = "fallback" /\ E!Next /\ Rest(16)
  \/ package = "options" /\ O!Next /\ Rest(3)
  \/ package = "law" /\ N!Next /\ Rest(14)

Spec == Init /\ [][Next]_vars

-----------------------------------------------------------------------------
\* Each property is about the chosen package.

\* poolx: an accepted item is in one place, and only items of flushes that failed
\* late stay behind a Close (Batch).
BatchKeepsItems ==
  package = "batch" => B!TypeOK /\ B!OneCopy /\ B!OnlyFailuresAreLeft

\* shedx: the count is the number of claims (tryReserve, commitReservation); ratex: no
\* token is made, and allowed counts the calls that keep theirs (take, refund, Reset); fallx:
\* every call is in one of the counters (ExecuteWithKey, fallback), and the count of the
\* cache is that of its entries, which settle within its capacity, unless a recount went
\* wrong (evictIfNeeded).
AccountsBalance ==
  /\ package = "shed" => S!TypeOK /\ S!CountIsExact
  /\ package = "rate" => R!TypeOK /\ R!NoTokenMade /\ R!AllowedExact
  /\ package = "fallback" => E!TypeOK /\ E!CallsAddUp
  /\ package = "fall" => F!TypeOK /\ F!SizeExact /\ F!SettlesWithinBound

\* shedx: nothing is claimed beyond the bound of its priority (tryReserve); retryx: no
\* attempt follows a delay that the budget cut short (delayAfter).
StepsWithinBounds ==
  [][/\ package = "shed" => S!ClaimWithinBound
     /\ package = "retry" => A!ClampedIsLast]_vars

\* warmupx: runs do not complete, close or outlive each other, and no waiter stays
\* on the channel of an earlier one (StartAt, tick, WaitForCompletion); no run falls back
\* behind what it reached or was started at, and what a call is told of capacity and
\* progress goes together (invert, freezeProgressLocked, tryAdmit); adaptx: the limit moves
\* once a window and only as its samples say (recordLocked, adjust).
LimitsMoveAsTold ==
  /\ package = "warm" => W!TypeOK /\ W!RunsDoNotMix /\ W!NobodyLeftBehind
  /\ package = "law"  => N!TypeOK /\ N!LimitFollowsWindow
  /\ package = "ramp" => Y!TypeOK /\ Y!NeverFallsBack /\ Y!ToldTogether

\* syncx: Wait covers all tasks and reports a failure, and whoever gets the slot of a
\* task that failed finds the context cancelled (launch, Wait); Gets share one value,
\* and none is older than the last Reset before them (Get).
SyncxAnswersTrue ==
  /\ package = "group" => G!TypeOK /\ G!WaitCoversAll /\ G!SlotsAfterCancel
  /\ package = "lazy" => L!TypeOK /\ L!OneFreshValue

\* toutx, retryx and signalx: a result sent before the context ended is returned, and an
\* error says what happened (awaitResult, normalizeResult; Do); no signal is lost, and
\* hooks run in order or a timeout is reported (Trap, WaitWith). hedgex: a call that waits
\* is owed an answer, which says what happened to the copies (dispatch, consumeResult).
\* healthx: no result that was there in time is reported as a timeout, and the report is
\* up only if all of it is (runChecks, drainCheckResults). fallx: a value is replayed only to
\* calls with its key (cacheResult, getCachedResult).
CallAnswersTrue ==
  /\ package = "timeout" => T!TypeOK /\ T!EarlyResultKept
  /\ package = "retry" => A!TypeOK /\ A!ReasonTrue
  /\ package = "shutdown" => D!TypeOK /\ D!HooksRunOrReported /\ D!SignalNotLost
  /\ package = "hedge" => H!TypeOK /\ H!OwesAnswer /\ H!AnswersTrue
  /\ package = "health" => C!TypeOK /\ C!ResultsNotLost
  /\ package = "fallback" => E!ReplaysItsKey

\* Whatever options are given, in whatever order, newConfig returns a configuration the
\* package can work with, and leaves one alone whose parts agree.
ConfigSound ==
  package = "options" => O!TypeOK /\ O!ConfigSound

=============================================================================
