# urx: a TLA+ verification of the resilience packages

urx is a Go library of twenty small packages: primitives a service puts around its calls
(circuit breaker, bulkhead, limiters, shedder, hedging, retries, timeouts, fallbacks,
warm-up), containers and pools (LRU cache, worker pool, batcher, group), and plumbing
(configuration, environment, command line, signals, health). The packages hardly call
each other; what makes them hard is inside each one: goroutines that share a few
atomics, a mutex that covers only part of the state, buffered channels used as
semaphores, and Close, Reset and timeouts that may come at any moment. That is what is
modelled here. Every package with a protocol has its own module or modules; there is no
global one, because there is no global state.

Conventions used throughout:

- One action is one atomic access, one channel operation, or one block under a
  mutex that nobody can observe half done. A goroutine has a program counter
  `pc[g]` that names the step it takes next; the names follow the code.
- A goroutine makes one call and stops. Several calls are several goroutines,
  which is as general for safety and keeps state small. A disjunct of `Next`
  that stutters once all goroutines are done keeps deadlock checking on: any
  other state without a successor is an error.
- Contexts, timers and clocks are free: a check of `ctx.Err()` may find the
  context alive or dead, a timer may fire whenever somebody selects on it, a
  timeout passes whenever the model says so. Every path of the code is thus
  taken, at the price of paths no clock would produce; no property below
  depends on a clock behaving well. `RateLimiter` and `Retry` are about amounts
  of time and have a clock of their own, which moves between any two steps.
- A callback ends with success, error or panic; `panix.Safe` makes the last two
  the same for everyone except where a package tells them apart.
- Cumulative statistics (`Stats`, `ResetStats`) that nothing reads back are left
  out, with error texts and JSON, unless a property is about them.
- clix, cfgx and envx are sequential. What is hard in them is the order of layers
  and of calls, so texts are members of small sets and a step is a token, a
  field or a value that is visited.
- An operator marked `mutant` is not part of the specification. It is the
  definition next to it with a plausible bug, and is there to show that a
  property would notice.
- A module named `...History` extends its component with variables the code does
  not have, only to state properties about the past. They never restrict a step.
- A run named as a violation checks a sentence of the documentation that the
  code does not keep; see "Where code and documentation disagree".

## Inventory

For each package: the state it keeps, what changes it, what is hard, and what
would make it correct. "Modelled" packages have a section of their own below.

| package | shared state | operations that change it | hard because | correct when |
|---|---|---|---|---|
| circuitx | state, failures, lastOpen, probe counters, generation, mutex | Execute, TryExecute, State (promotes), Reset, Close, Trip from a callback | promotion, admission and release run outside the mutex that settlement takes; late probes; hook after unlock | state machine with four edges; bounded probes; stale calls settle nothing; one report per edge |
| bulkx | channel semaphore, active, waiters, closed flag and channel | Execute, TryExecute, Acquire/Release, Close | two counters beside the channel; waiters against the fast path; timeouts while a slot changes hands | bound; no slot lost or invented; waiters capped, not overtaken, released by Close |
| adaptx | permit channel, live limit, shrink debt, in-flight count, window statistics, drain latch | Acquire/release, Execute, TryExecute, adjust (inside release), ResetStats, CloseWithTimeout | permits move without the mutex that the limit is changed under; ResetStats rebuilds the pool from a count that is not in step with it | permits + held = limit + debt; in-flight within the maximum; nothing admitted above the live limit |
| quotax | sharded map of buckets, key count, pins, last access; sweeper | Allow, Wait, Execute, TryExecute, Remove, Reset, evict, Close | the key count is outside the shard locks; two-phase eviction; Reset visits shards one by one | count = keys; cap kept; pinned buckets stay; touched buckets survive the sweep |
| poolx worker pool | task queue, done channel, closed flag, wait group | Submit, TrySubmit, SubmitWait, worker loop, Close | a submitter may enqueue after the workers have left | every accepted task runs once; Close returns after them; nobody waits for ever |
| poolx batch | buffer, closed flag, done channel | Add, Flush, ticker, Close | a failed flush puts items back while others add, flush and close | every accepted item is in one place; none is stranded |
| poolx object pool | `sync.Pool`, counters | Get, Put | nothing of its own | - |
| shedx | in-flight count, hysteresis latch, closed flag | Acquire/Release, Execute, TryExecute, Close | compare-and-swap loop beside a latch; recheck after Close | count = holders; rollback once; critical never shed |
| warmupx | run generation, stop and completion channels, capacity, progress | Start/StartAt, Stop, Close, Reset, tick, WaitForCompletion | ticks of old runs, channels closed by several parties, waiters that span runs | no channel closed twice; old ticks do nothing; waiters wake |
| hedgex | per call: pending copies, next copy, timer, result channel | dispatch loop, copies, withdrawal, cancellation | results, timer and cancellation in any order; late copies | first success wins; every call ends; copies never block |
| toutx | per call: deadline context, result channel | Execute | result and deadline together; late callback | a result that is there is not thrown away; no goroutine blocked |
| retryx | per call: attempt number, last error, elapsed time | Do | cancellation, abort, elapsed budget and exhaustion at the same attempt | bounded attempts; the right one of four errors |
| ratex | tokens, last update, counters under a mutex | AllowN, WaitN, Release, Execute, Reset | context dies between taking and returning | never more than burst + accrued admitted; refunds once |
| fallx | sharded cache with heaps, global size counter, closed flag | Execute, Seed, ClearCache, eviction, cleanup loop, Close | counter and shards change apart; victim chosen before it is locked | counter = entries when quiet; capacity kept |
| lrux | map and list under a mutex, closed flag, singleflight; a sharded cache of such caches | Set, Get, GetOrCompute, Delete, Resize, Close, ...; SetMulti, GetMulti, DeleteMulti, Keys, Clear, Close over the shards | closed checked before the lock; values computed outside it; shards visited one by one or in parallel | nothing stored after Close; one compute per key; size within capacity; counts over the shards agree |
| syncx | group: semaphore, wait group, once; lazy: mutex, value | Go, TryGo, Wait; Get, Reset | first error against Wait; limits | limit kept; first error returned; context cancelled; one lazy value until a Reset |
| signalx | global hook list | OnShutdown, Wait, ResetHooks, Trap | shutdown budget against hooks | every hook in order or a timeout reported; no signal lost |
| healthx | list of checks, down flag | Register, Readiness, Liveness, MarkDown/Up | results against the collection deadline; equal names | a report names every check; late successes are not lost |
| panix | none | Safe, SafeGo | - | counted in every model as an outcome of a callback |
| clix | the tree of commands, its flags and their targets, markers of flags that are set | Parse, Reset | groups of short flags, values that look like flags or commands, inherited flags; a tree that is parsed again | flags and operands are what the tokens say, whatever was parsed before |
| cfgx, envx | the fields of the program's configuration, the file | Load, Save, Validate, Bind, Env.Validate | the layers overwrite each other in an order the caller makes; a file that is written in place; a walk over values that share addresses | the highest layer wins; what is used is valid; every Validator is called |
| options of all packages | the package's config | With..., newConfig | any order, contradictions, clamps one after the other | the configuration is one the package works with |
| internal/testx | - | test helpers | - | not part of the library |

How they interact: quotax holds one ratex limiter per key; every package that
runs a callback runs it under panix; lrux uses golang.org/x/sync/singleflight.
Everything else is composed by the user of the library.

## Plan

The order is by how much can go wrong where a test would hardly see it.

1. **circuitx** (`Circuit`, `Breaker`, `BreakerHistory`, `BreakerProofs`): done.
2. **bulkx** (`Limiter`, `Bulkhead`, `BulkheadHistory`, `BulkheadProofs`): done.
3. **poolx worker pool** (`WorkerPool`, `WorkerPoolHistory`, `WorkerPoolProofs`): done.
4. **adaptx** (`AdaptiveLimiter`, `AdaptiveLimiterHistory`, `AdaptiveLimiterProofs`): done.
5. **quotax** (`Quota`, `QuotaHistory`, `QuotaProofs`): done.
6. **lrux** (`Lru`, `LruOrder`, `LruProofs`): done.
7. **poolx batch**, **shedx**, **warmupx** (`Batch`, `Shedder`, `Warmer`): done.
8. **hedgex**, **fallx** (`Hedge`, `FallCache`): done.
9. **ratex**, **syncx** group, **healthx**, **toutx**, **retryx** (`RateLimiter`,
   `Group`, `Health`, `Timeout`, `Retry`): done.
10. **signalx**, **syncx** Lazy (`Shutdown`, `Lazy`): done.
11. The sharded cache of **lrux**, the control laws of **adaptx**, the curve of
    **warmupx**, the strategies of **fallx** (`Sharded`, `ControlLaw`, `Ramp`,
    `Fallback`): done.
12. **clix**, the layers of **cfgx**, **envx** and **clix**, the walk of **cfgx**, the
    options of all packages (`Cli`, `Settings`, `Validation`, `Options`): done.

Packages 7 to 12 are checked in one run (`Packages`, `MCPackages`) and proved in two
modules, `SharedProofs` and `CallProofs`. Left: theorems about the parser, the layers, the walk and
the sharded cache, see "What stays with TLC".

`Limiter` is the abstract specification of everything that bounds concurrency.
Instances: 2-4 goroutines, limits of 1-3, counters capped by the number of
goroutines; larger ones add nothing because every conflict found needs at most
three goroutines and one administrator (Reset, Close, sweep).

## circuitx: `Circuit`, `Breaker`, `BreakerHistory`, `BreakerProofs`

`Circuit` is what a user of a breaker sees: a state and a count of failures,
changed by six atomic actions. `Breaker` is the code. Its variables are the
fields of the struct (`cooled` stands for `time.Since(lastOpen) >=
resetTimeout`) and the locals of each goroutine (`seen`, `admitGen`, `forced`).

| code | actions |
|---|---|
| `Execute`/`TryExecute` up to `State()` | `Enter` |
| `State` | `CheckState`, `PromoteCAS`, `PromoteBump`, `PromoteClear` |
| `tryAdmit`, `tryAdmitProbe` | `LoadGeneration`, `ReserveProbe` (the compare-and-swap loop is its successful round) |
| `executeRun` after the callback | `Return`: which of the three settlements follows |
| `recordSuccess` | `SuccessFast`, `SuccessLock`, `SuccessBody` |
| `recordFailure` | `FailureLock`, `FailureBody`, `Stamp` (lastOpen and unlock) |
| `openFrom` | `TripLock`, `TripBody`, `Stamp` |
| `fireStateChange` | `Fire` |
| `releaseProbe` | `ReleaseCheck`, `ReleaseDec` |
| `Reset`, `Close`, the passing of the timeout | `ResetSwap`, `ResetBump`; `Close`; `Elapse` |

`BreakerHistory` remembers the edges nobody has reported yet and which calls
were admitted before the last Reset.

Runs:

- `breaker`: three calls and one Reset, threshold 2, one probe. Checks types, the
  probe counter's bounds, that a closed circuit is below its threshold, that the hook
  hears of each edge once with its true ends, that Reset fences off the calls
  before it, that only Reset leaves Open for Closed, and that `Breaker`
  implements `Circuit`. Three calls are one to trip, one to promote and one in
  between. A goroutine that only calls `State()` (`Watchers`) is in the module
  and in the proofs; in the run the calls' own `State()` stands for it.
- `breaker_leak`: a violation, see below.

Proved in `BreakerProofs`, for any set of goroutines and any configuration
(from `ActorsAssumption` and `ConfigAssumption`, which `newConfig` establishes):

- `TypeCorrect`: the type invariant is inductive by itself.
- `ProbeBound` and `BelowThreshold`: each inductive together with the types.
- `MutexIsExact`: inductive by itself; each action moves one goroutine in or out.
- `Refinement`: every step of `Breaker` is a step of `Circuit` or leaves state and
  count alone. Five actions change them; the rest stutter. The trip needs
  the invariant that the failure count of a closed circuit is below the threshold.
- `ResetIsAFence`: the property speaks of one moment, so its invariant has three
  parts. `MutexExact`. `Behind`: no admission carries a generation later than the current
  one. `Fenced`: a fenced call is either outside the bodies with a generation
  that is already past, or Reset still holds the mutex and will bump the
  generation before it lets go. The check of the generation under the mutex
  does the rest.
- `TripsOutlastSuccesses`: a step from Open to Closed is one of Reset; every other
  assignment of Closed is guarded by a state that was read under the mutex.
- `HookReportsEachEdgeOnce`: a goroutine carries an edge only between its change of
  the state and its call of the hook (`EdgeInv`), and no step changes the state while
  it carries one. A step then either makes one edge, or reports one, or leaves the edges
  alone, which is what the history module counts.

## bulkx: `Limiter`, `Bulkhead`, `BulkheadHistory`, `BulkheadProofs`

`Limiter` lets users in while fewer than the limit are inside, and out. `Bulkhead`
is the code: the channel semaphore as its length `sem`, the in-flight count
`active`, the waiter count, and the two halves of Close.

| code | actions |
|---|---|
| `Execute`, `TryExecute`, `Acquire` up to the reservation | `Enter` |
| `reserve`, fast path | `Peek`, `FastSend`, `Recheck`, `GiveBack` |
| `reserveSlow` | `CountWaiter`, `SelectSend`, `Block`, `GiveUp`, `SeeClosed`, `Leave` |
| `finishReserve`, `commitSlot`, `releaseUncommittedSlot` | `FinishReserve`, `Refund` |
| `run` | `Start`, `Finish` |
| `Token.Release`, `releaseSlot` | `Release` (may be called again and again), `ReleaseSlot` |
| `Close` | `CloseFlag`, `CloseChannel` |

Taking from a full channel hands the place to a blocked sender (`Receive`), as
the Go runtime does; it may be any of them.

Run `bulkhead`: three calls of any kind on one slot with one waiter allowed.
One slot and three callers let a holder, a waiter and a caller on the fast path
meet, which is where competition is sharpest; a fourth caller or a second slot
adds no new kind of step. Checked: the types and the bound on `active`, no slot lost
once everybody left, no overtaking of those who were
waiting, and that `Bulkhead` implements `Limiter`; then two liveness properties
under `Progress` (goroutines in the package run on, a Close that began ends).
`CloseReleasesWaiters` needs no more, callbacks may run for ever;
`WaitersServed` has as its premise `SlotsComeBack` (callbacks return, tokens are
released) and says that a waiter then needs no timer.

Proved in `BulkheadProofs`, for any finite set of callers and any limits: the type
invariant, the bound, the absence of leaks, the implementation of `Limiter`, and that
the fast path overtakes nobody. The bound on `active` is not inductive: that active is
below the bound when a caller starts follows from its place in `sem`. The invariant
therefore counts: `SlotInv` (`sem` is the number of callers that hold a place),
`ActiveInv` (`active` is the number inside the callback or about to be counted out),
`WaitInv` (`waiters` is the number counted) and `PlaceInv` (who is blocked is counted, a
full channel while somebody is blocked). Those inside hold a place, so the bound on
`sem` bounds `active`. The proof rests on three lemmas about the cardinality of a set
that gains or loses one caller.

`FastPathNeverBarges` is an action property. Only `Recheck` takes a caller from its
second look to a commit (lemma `OnlyRecheckCommits`: a blocked sender that is handed a
place is never one that is looking), and it finds no one counted; by `WaitInv` everyone
who waits is counted.

## poolx worker pool: `WorkerPool`, `WorkerPoolHistory`

A task is named by its submitter. `validateSubmit` is `Validate`; the select of
`Submit`, `TrySubmit` and `SubmitWait` is `Enqueue`, `Refuse` and `Cancel`, and the second
select of `SubmitWait` is `Receive` and `Cancel`. A worker takes (`WorkerTake`), runs
(`Finish`), sees done (`SeeDone`) and leaves (`Leave`) when the queue is empty.
`Close` is `CloseFlag`, `CloseDone`, `AwaitWorkers`, `OrphanTake`, `Return`; a later
caller of Close waits in `sync.Once` (`CloseAgain`). `running` and `ran` say where a
task is; `ran` is what `resultCh` holds. Blocking on a full queue is not a step
of its own: a blocked submitter is one whose `Enqueue` is not enabled.

- `worker_pool`: three submitters (their kinds in order, as they are
  interchangeable), two workers, a queue of one and two calls of
  Close: no task runs twice, nothing runs once Close has returned, and all that
  was queued before Close's signal has run by then. Under `Progress` (goroutines
  in the package run on and tasks return; nobody has to submit, to close, or to
  cancel) tasks queued before the signal run and Close returns. A queue of one
  fills up with the second of three submitters, and two workers let one leave
  while the other is in a task.
- `worker_pool_stranded`: the violation below.

Proved in `WorkerPoolProofs` for any submitters, workers and closers and any queue
size:

- `TasksRunAtMostOnce`: `RunAtMostOnce` says that a task is in the queue once, or
  with one runner, or has run. It lacks where a task is that was not sent yet:
  `FreshInv` says that such a task is nowhere, and `PcInv` which steps a goroutine
  has. With both it is inductive.
- `CloseRunsEveryEarlyTask`: `CloserInv` says that one caller is inside `closeOnce`, and
  what it has established at each step (done is closed once it waits, the workers are
  gone once it drains); `BusyInv` that who is in a task is a worker that has not left or
  that closer. `EarlyInv` then follows the early tasks: in the queue, with a runner, or
  run; and run once the Once is over. A worker leaves only when it finds the queue empty,
  and so does the drain.

That tasks complete and that Close returns is liveness and only model-checked.

## adaptx: `AdaptiveLimiter`, `AdaptiveLimiterHistory`, `AdaptiveLimiterProofs`

The permits are the length `sem` of a buffered channel. `limit` and `debt` change
under `mu`; only ResetStats holds it over several steps (it drains the channel and
fills it from a second reading of the in-flight count), so `mu` names the
ResetStats that holds it. A permit that is sent goes to a goroutine blocked on
the channel if there is one (`Send`).

| code | actions |
|---|---|
| `Acquire`, `TryAcquire` | `Enter`, `Take`, `Block`, `SeeClosed`, `GiveUp`, `Recheck`, `GiveBack` |
| `admit` | `Admit`; its release function is `Adjust` or `Record`, `Uncount`, `ReleasePermit`, `SignalDrain` |
| `adjust`, `shrink` | `Adjust`, with `Grow` and `Shrink` |
| `ResetStats`, `reconcilePermitsLocked` | `ResetLimit`, `Refill` |
| `CloseWithTimeout`, `waitForDrain`, `drainSemaphore` | `CloseFlag` ... `CloseReturn` |

What AIMD, Vegas and Gradient decide is reduced to its outcome: any limit
between the minimum and the maximum, at any release. `ControlLaw`, with the small
packages below, has the decisions. `clean` in the history
module says that no ResetStats has yet met a caller that holds a permit without
being counted in flight; those are the calls between taking a permit and
`inFlight.Add`, and between counting down and giving the permit back. `within` says
that the limit has stayed within its maximum, which it does until a ResetStats finds
more calls in flight than the maximum.

- `adaptive`: four calls, one ResetStats, one CloseWithTimeout, limits from 1 to 2. Two
  callers hold permits while the limit is halved and doubled, a third waits, and the
  fourth arrives in between. Whatever ResetStats meets, whoever waits for the drain will
  be signalled. With `within`: whoever waits has a permit to wait for. With `clean`:
  permits are neither lost nor made, and nobody is handed one at or above the live
  limit. The two waiting properties are stated as invariants, because checking them as
  liveness costs more than all other runs together. They are what progress needs of the
  state; that the goroutine they point to runs on is not stated.
- `adaptive_reset`: the violation below, with five calls and two ResetStats.

Proved in `AdaptiveLimiterProofs` for any finite set of callers, any number of
ResetStats and Close calls and any limits (from `ActorsAssumption` and
`LimitsAssumption`): types, `Conservation`, `NeverAboveLiveLimit`, `InFlightBounded`.
None is inductive. The invariant `IInv` says where everybody may be (`PlaceInv`),
that `inFlight` counts those between admission and release (`CountInv`), and, while
`clean`, `PoolInv`: limit and debt together never exceed the maximum, which is why
a send never finds the channel full; outside ResetStats the pool is `Settled`
(the balance holds, less what Close threw away, and there is no idle permit
while there is debt unless closed); inside it is `Emptied`, so that holders can
only leave and the refill meets exactly the holders it counted.

The two waiting properties are proved apart.

- `DrainIsSignalled` is inductive together with `IInv`: a closer begins to wait when it
  reads a count above zero after it has set `closed`, and who counts down last sees
  `closed` and has the duty to signal until it has done so.
- `WaitersAreServed`: `ReceiverInv` (nobody is blocked beside an idle permit: a send
  serves the blocked first), `LateInv` (the debt is forgotten inside ResetStats; Close
  empties the pool only after it has released the waiters) and `EnoughInv`: while
  `within`, limit and debt together stay within the maximum, and outside ResetStats and
  before Close there are at least as many permits as they say. There may be more, after a
  ResetStats that was not `clean`. As the limit is at least one, somebody holds a permit
  that debt will not swallow. The first attempt at this theorem was without `within` and
  failed at the release that finds the channel full; `adaptive_reset` is the
  behaviour behind that goal.

## quotax: `Quota`, `QuotaHistory`, `QuotaProofs`

A bucket is named by the call that made it, so two buckets of one key are two
values. `table` is the maps of all shards, `pins` and `fresh` belong to the
buckets: `fresh[s]` are those touched since sweep `s` began, which its cutoff
cannot reach; any other bucket may be old or not. `mu` is the write lock of a
shard, which only the deletions of a sweep hold over several steps: every other
section under a lock moves the key count at most once and is one action.

| code | actions |
|---|---|
| `AllowN`, `AllowOrError`, `lookup`, `getOrCreate` | `Enter`, `Lookup`, `Touch`, `Create` |
| `waitFor`, `Execute`, `TryExecute`, `bucketForWait` | `Enter`, `BucketForWait`, `Touch`, `TakeNow`, `Run`, `UnpinOuter` |
| `waitForOnBucket` | `PinAgain`, `Try`, `Sleep`, `WakeByClose`, `UnpinInner` |
| `Remove` | `RemoveKey` |
| `Reset` | `ResetShard` for every shard, `StoreCount` |
| `evict`, `evictLoop`, `ForceEviction` | `BeginSweep`, `Scan`, `LockShard`, `Evict`, `UnlockShard`, `EndSweep`, `StopLoop` |
| `Close` | `CloseFlag`, `CloseStop`, `CloseChannel`, `AwaitSweeper` |

Whether a bucket has a token is left open, so every outcome of the limiter is
covered. The cap is a number; the uncapped quota differs in `reserveKey` only.
`clean` in the history module says that nobody has changed the table between the
first shard and the final store of a Reset.

- `quota`: three calls on two keys that lie in two shards, so that a Reset and a
  sweep have a place in between; a cap of one, so that every second key meets
  it; the sweeper, and a goroutine that calls Remove, Reset or Close. A bucket
  in use stays the bucket of its key, pins are exact, a sweep spares what was
  touched or pinned since its first phase, the count is right and the cap holds.
  `ForceEviction` runs the sweeper's own actions; `Evictors` is empty in the run
  and arbitrary in the proofs.

Proved in `QuotaProofs` for any finite sets of calls and keys, any number of
shards, admins and sweeps (from `ActorsAssumption` and `ShardsAssumption`): all six
properties of the run. The invariant has two halves. `UseInv` is about pins and
knows nothing of Reset or the count: `PinsExact` is an equation between a counter
and a set of (call, pin) pairs, so a step of a call adds or removes one pair
(`UsesGain`, `UsesLose`), a user has a pin (`UserPins`), and whatever deletes
looks at the pins under the lock (`DropStep`). `ResetInv` and `CountInv` are the
count: while `clean`, a Reset has counted exactly the keys behind it, the table is
never larger than the count, and the two are equal outside Reset.

## lrux: `Lru`, `LruOrder`

A value is named by the call that made it and a node by its key, because a key has
one node at a time. `cache` holds the map, the links, head, tail and size, so the
list functions are functions from a cache to a cache, written link by link as in
the code. What a call does under the mutex is one action; its callbacks
(`events`) run in a later one. Any entry may expire at any time (`Expire`).

| code | actions |
|---|---|
| `SetWithTTL`, `SetMulti` | `Set`, `SetMulti`, `FireLast` |
| `Get`, `GetFast`, `GetMulti` | `Get`, `GetFast`, `CountHit`, `CountMiss` |
| `Touch`, `Delete`, `DeleteMulti`, `Resize` | `Touch`, `Delete`, `Resize`, `FireLast` |
| `Clear`, `Close` | `Enter` (the swap of `closed`), `Drain`, `FireLast` |
| `Keys`, `Values`, `Snapshot`, `Range`, `ExpireOld`, sweeper | `Sweep`, `FireLast` |
| `GetOrCompute` | `PeekPromote`, then `computeDirect`: `StartDirect`, `Check`, `Compute`, `Store`, `ConvertMissToHit` |
| or `computeSingle` | `Join`, `FlightPeek`, `FlightMiss`, `FlightCompute`, `FlightClosed`, `FlightStore`, `Deliver`, `Await` |

`flight` and `Deliver` are `golang.org/x/sync/singleflight` as far as
`computeSingle` needs it: calls with the name of a flight under way join it, and
the name is free again when the result is handed out. `FlightOf` is what
`keyString` makes of a key.

- `lru`: three calls of any kind on three keys, with no bound or room for one and
  `Resize` between the two. The list runs through the keys of the map in both
  directions, fits the capacity whenever the mutex is free, and its order changes
  only as `LruOrder` allows (`IsLru`, a refinement): used keys go to the front, the
  back gives way. Every stored value is in the cache or was reported exactly once,
  and lookups are counted once. Three calls are
  enough for a flight with a follower and a writer in between.
- `lru_collision`: see the disagreements below.

ResetStats, the eviction counter and the read-only calls are left out. `ShardedCache`
is in `Sharded`, with the small packages below.

Proved in `LruProofs`, for any finite sets of callers and keys, any capacities and any
names of flights (`Configured`: `None` stands for nil and is neither a key nor a value;
capacities are not negative, as WithCapacity and Resize see to): all four properties of
the run.

- `ListAlwaysMatchesMap`. The property goes along the links, which an invariant cannot.
  What is inductive is that there is a *rank* for every key, 1 for the head, one more for
  each next, 0 for what is not in the list, that links, ends and size are as the ranks
  have them, and that the map holds the keys with a rank (`Ranked`, `Listed`). Each list
  function takes ranks to ranks (`PushFrontRanks`, `UnlinkRanks`, `MoveToFrontRanks`), and
  the loops that evict, remove or put many keys are covered by an induction over their
  rounds. The library's induction theorems take an operator; `Induction` does without: it
  is about a set of numbers and follows from the theorem that a non-empty set of
  naturals has a least element.
- `ValuesReportedOnce`: `Placed` says of every value that was stored where it is: in the
  cache, with one goroutine that will report it, or reported, and in one of them only.
  What an operation does to the pairs of the cache (`RemovedPairs`, `EvictedPairs`,
  `PutPairs`, ...) takes it from one to the other; and a value that was stored is of a call
  past its store (`OwnersFinished`), so no value comes twice.
- `LookupsAlwaysCounted`: `Counted`, hits and misses as cardinalities of the calls that
  looked and of those still to count, moved by one call at a time.
- `CacheIsLru`, the refinement: recency is read off the ranks (`RecentRanks`), and each
  action is a step of `LruOrder` or none. That an eviction drops only as many as must go
  needs that the size is within the capacity before (`Bounded`), which each step keeps.

## The small packages: one module each, `Packages`, `MCPackages`, `SharedProofs`, `CallProofs`

`Batch`, `Shedder`, `Warmer`, `Ramp`, `Hedge`, `Fallback`, `FallCache`, `RateLimiter`,
`Group`, `Health`, `Timeout`, `Retry`, `Shutdown`, `Lazy`, `Sharded`, `ControlLaw`,
`Options`, `Cli`, `Settings` and `Validation` have one module each. `MCPackages` checks
them in one run: a behaviour chooses a package and takes its steps; the instances share
the variables `x1`, `x2`, ..., of which a package uses the first few. Nothing is
composed, because in the code nothing is, but for `Settings`, which is what a program
makes of cfgx, envx and clix together and extends `Cli`. The packages that have a theorem
are in `Packages`, with their bounds as constants, so that the proofs below hold for any
values and not only for those of the cfg. `MCPackages` extends it by the four that only
TLC checks (the prover carries every instance through every obligation), and gives the
constants their values. Its behaviours that chose a package of `Packages` are those of
`Spec` there, so the theorems, which are about `Spec`, are about what the run checks.

A property of the run puts together what is said of related packages; its
conjuncts are named below and stated in the modules:

| property | conjuncts | theorem |
|---|---|---|
| `BatchKeepsItems` | batch: `OneCopy`, `OnlyFailuresAreLeft` | `BatchAlwaysKeepsItems` |
| `AccountsBalance` | shed: `CountIsExact`; rate: `NoTokenMade`, `AllowedExact`; fallback: `CallsAddUp`; its cache: `SizeExact`, `SettlesWithinBound` | `AccountsAlwaysBalance` |
| `StepsWithinBounds` | shed: `ClaimWithinBound`; retry: `ClampedIsLast` | `StepsStayWithinBounds` |
| `LimitsMoveAsTold` | warmer: `RunsDoNotMix`, `NobodyLeftBehind`; ramp: `NeverFallsBack`, `ToldTogether`; control laws: `LimitFollowsWindow` | `LimitsAlwaysMoveAsTold` |
| `SyncxAnswersTrue` | group: `WaitCoversAll`, `SlotsAfterCancel`; lazy: `OneFreshValue` | `SyncxAlwaysAnswersTrue` |
| `CallAnswersTrue` | timeout: `EarlyResultKept`; retry: `ReasonTrue`; shutdown: `HooksRunOrReported`, `SignalNotLost`; hedge: `OwesAnswer`, `AnswersTrue`; health: `ResultsNotLost`; fallback: `ReplaysItsKey` | `AnswersAreTrue` |
| `ConfigSound` | the definition of that name in `Options` | `NewConfigIsSound` |
| `ParsedAsSaid`, `SettingsLayered`, `WalkComplete`, `ShardsAgree` | the definitions of those names in `Cli`, `Settings`, `Validation`, `Sharded` | only checked |

and each invariant has the `TypeOK` of its modules. Only the callers of a package
(`Callers`) are interchangeable, so only they are permuted (`Symmetry`).

How the proofs are laid out. `StartOfPackage` and `StepOfPackage` (in `SharedProofs`)
say that a behaviour which chose a package begins in its `Init` and takes its steps.
Each package has an invariant `...Inv`, shown to hold at first and to be kept by every
action (`...Next`), and a lemma that it implies what is said of the package. Only then
come the temporal theorems, which combine packages. The variables have the names of
their package there (`batchBuf` for `x1`). What a package assumes of its constants is
its `...Configured`; each is what the code or the model sees to:

| hypothesis | says | because |
|---|---|---|
| `ShedConfigured`, `RateConfigured` | finitely many callers, integers, no negative hysteresis, a burst of at least 1 | newConfig (`NewConfigIsSound`) |
| `BatchConfigured`, `GroupConfigured`, `LazyConfigured`, `ShutdownConfigured` | a goroutine makes one kind of call; `none` is nobody | goroutines are named by their calls |
| `HealthConfigured`, `HedgeConfigured`, `WarmConfigured` | there are finitely many checks, entries, starts | a slice has a length; the model's bound |
| `RetryConfigured` | at least one attempt; delays and budget are any integers | newConfig |
| `FbConfigured`, `FallConfigured` | finitely many callers and keys, at least one shard, every key in one of them; values are not the model's names of errors | `WithShardCount`; a key's hash names its shard |
| `RampConfigured` | minimum at most maximum; positive time and steps; units so fine that each capacity has a time on the line and each step a capacity and a time | newConfig; the code's floats |
| `LawConfigured` | limits in order, shares between 0 and 1, nothing negative, latencies above 0 and bounded | newConfig |
| `SourceConstants` | 1.0 is above the default cutoffs, the source divides by constants that are not zero, the interval has room | the constants of the source |

**poolx.Batch** (`Batch`). An item is named by the call of Add that brings it.

| code | actions |
|---|---|
| `Add` | `Add` |
| `Flush`, and `ticker`'s calls of it | `Begin`, `Flush`, `TakeBuffer`, `StopTicker` |
| `flushBatch`, `requeue` | `Deliver`, `Fail`, `Requeue` |
| `Close` | `Close` (the block under the mutex), `CloseSignal`, `CloseAgain` |

`OneCopy`: an accepted item is in the buffer, in one flush's hands or
delivered, exactly one of these, however many flushes overlap and fail.
`OnlyFailuresAreLeft`: what is in the buffer when Close has returned and all
flushes have ended was put back by a failed flush. Three items with batches of two,
one Flush, the ticker and two Closes: enough for two flushes that fail in either
order with an Add between them.

Proved in `SharedProofs` for any sets of calls, as long as a goroutine makes one kind of
call, and any batch size. A count of copies is not inductive; the invariant says where
an item may be. `BatchPlaceInv`: no sequence has an item twice and no two share one.
`BatchDeliveredInv`: an accepted item that is nowhere was delivered once, one that is
somewhere or was not accepted never. `BatchHandInv`: a goroutine has a batch only
between taking it and handing it over, so nothing is overwritten when a buffer is taken.
Three lemmas say what `Append` and concatenation do to the items of a sequence
(`CountedOnce`, `AppendedDistinct`, `JoinedDistinct`). What is left after Close needs
that the Once is over only when `closed` was set (`BatchCloserInv`) and that after that
only `Requeue` fills the buffer (`BatchLateInv`).

**shedx** (`Shedder`). Loads are compared as percentages of the capacity, without
rounding.

| code | actions |
|---|---|
| `Execute`, `TryExecute`, `Acquire`, `Allow` up to the count | `Enter`, `LoadCount` |
| `admits` | `Judge` (reads the latch), `Latch`, `Unlatch` |
| compare-and-swap in `tryReserve`, `commitReservation` | `Swap`, `Commit`, `RollBack` |
| end of `runAfterAdmit`, `SkipSlot`, `Release` | `Release`, `ReleaseAgain` |
| `Close` | `Close` |

`CountIsExact`: the count is the number of slots claimed and not given back.
`ClaimWithinBound`: a claim is made at a count at which its priority is
admitted, whatever the latch does meanwhile. Three calls of any priority on a
capacity of three, a threshold of 50 % and the default cutoffs: the second call
is above the threshold, and each cutoff decides differently.

Proved in `SharedProofs` for any finite set of callers, any capacity and any threshold,
hysteresis and cutoffs that are integers: the count, which is inductive with the types
over the cardinality of the claimers, and the bound. The latter is about a decision that
is old when it is used: `ShedAdmittedInv` keeps, for a caller at its compare-and-swap,
that its priority is admitted at the count it has *read*, plus one. The swap succeeds
only at that count, so neither the latch nor other callers matter.

**warmupx** (`Warmer`). Every operation is one block under the mutex; runs are
named by their generation and channels by the run that made them.

| code | actions |
|---|---|
| `StartAt`, `Start`, `Reset` | `StartAt`, `StartAtClosed` |
| `Stop`, `Close` | `Stop`, `Close` |
| `loop` and `tick` | `LoopStops`, `TickStale`, `TickComplete`; a tick that only moves the capacity changes nothing here |
| `WaitForCompletion` | `Wait`, `Cancel` |

`RunsDoNotMix`: no channel is closed twice, a run completes once and by
itself, and a goroutine that outlives its run has been told to leave.
`NobodyLeftBehind`: a waiter's channel is closed or belongs to the run that is
current and can still end. Three runs (`MaxRuns`, a bound of the model) let a tick
be stale by one run and by two.

Proved in `SharedProofs` for any number of runs and waiters. `KeptInv`: the channels
that are kept are those of the last run, and the one that stops it is not closed while
it is kept. `LoopInv`: a goroutine that runs has the channel that is kept or one that
was closed. `LastRunInv`: the last run's completion channel is closed when it completed
or by Close, and a run reports once.

**warmupx**, the capacity (`Ramp`). The runs' goroutines are left to `Warmer`; here a
tick is one of the current run, capacities and times are integers and the curve
is the Linear or the Step one.

| code | actions |
|---|---|
| `StartAt`, with `invert` | `StartAt` |
| `tick`, `calculate` | `Tick`; `Pass` is the clock |
| `Stop`, `Close`, `freezeProgressLocked` | `Stop`, `Close` |
| `tryAdmit`, `AllowOrError`, `executeRun` | `Turned`, `TryAdmit`, `ExecuteRun` |

`NeverFallsBack`: within a run neither capacity nor progress falls, however StartAt,
ticks, Stop, Close and time interleave. With Step it may fall by half a step, at the
first tick: see the disagreements. `ToldTogether`: the capacity a call is told is not
ahead of the curve at the progress it is told, and the counters are of the calls
with that answer. Seven capacities and six units of time, so that a Step of two has
capacities between its steps and Linear rounds; one call. Exponential and Logarithmic
need real numbers and are left out.

Proved in `CallProofs` for any range, duration and number of steps, and any finite set
of calls. The capacity and the progress that were reached move apart and together again:
`RampRun` keeps the highest capacity of the run near the current one *and* near the
curve at the current progress, which StartAt, a tick and a freeze each establish from
the other. Underneath is arithmetic: the curves do not fall, and `invert` finds a time
at which the curve is the capacity (Linear) or within half a step of it (Step);
quotients are described by `Quotient`, `QuotientIs`, `QuotientGrows`. For a call, what
it was told stays near the curve at the progress it was told, because both are read
under one lock.

**adaptx**, the control laws (`ControlLaw`). A sample of a released call is `Record`
(`record`, `recordLocked`, and at the end of a window `adjust`, `aimd`, `vegas` or
`gradient`, `updateEstimators` and `resetWindow`); `Pass` is the end of the sample
window by the clock; `ResetStats` is its part under the mutex. Floats are
fractions, averages rounded down; jitter is any part of a growth but all of it.
`LimitFollowsWindow`: the limit moves when a window is judged and as that window's
samples say, cut once and by the ratio at most, only for a failure (AIMD, Gradient)
or for a latency above the lowest ever seen (Vegas, Gradient), whatever the averages
and the decayed minimum have become; no failure makes it grow; and the fractional
rate of AIMD adds up over the windows with enough in flight since the last
failure. Four samples (`MaxSamples`) of three latencies, two of them warm-up, limits from 1
to 5: three judgements, of which the second and third meet an average and a carried
credit.

Proved in `CallProofs` for any limits, ratios, latencies and number of samples. The law
judges sums, the property speaks of samples. `LawSums` ties them: the sum of the window
is at least its size times the lowest latency, and at most its size times any bound of
the latencies since the last judgement; failures and peak are those of the samples;
averages and the decayed minimum are never below the lowest latency. So Vegas and
Gradient, which cut for a mean above an estimate, cut only when a sample was above the
lowest (`LawVegas`, `LawGradient`), and never below the ratio (`LawWants`). `LawCredit`:
the credit is the rest of rate times the windows with enough in flight, so that the
whole units it gives add up (`RestsAddUp`); that a share is reached when it is reached
rounded up is `RoundedUp`.

**hedgex** (`Hedge`). One call; its copies are named by their entry in `fns`.

| code | actions |
|---|---|
| `Execute`, `ExecuteMulti` before the loop | `Refuse`, `RunInline`, `Dispatch` |
| `runSync` | `EndInline` |
| the select of `dispatch` | `SeeCancelled`, `TimerFires`, and for a result `ConsumeSuccess`, `ConsumeFailure` (others are in flight), `Relaunch`, `GiveUp` |
| `launchNext`, `armTimer` | `Launch`, a part of these |
| `run` | `Return` (how the callback ended, `HedgeController.Cancel` included), `Send`, `Drop` |
| the caller's context | `Cancel` |

`OwesAnswer`: while the call waits, a copy is pending, the count of pending copies
is right and none of their results was dropped, so the select always has
something to come. `AnswersTrue`: ErrAllFailed is returned only when every entry
was started and none succeeded, and a value is the first success taken. Three
entries of which any may be nil: a nil one before, between and after others, and
a relaunch after a relaunch. The timer may fire at any time it is armed; the
schedule of `delays` is left out.

Proved in `SharedProofs` for any number of entries. `ResultInv`: a result that was sent
is in the channel or was taken, once. `Waiting`: while the call waits, the entries
before `next` are launched, the pending copies are those launched whose result was not
taken, there is one, none of the taken results is a success, and none was dropped unless
the context ended.

**fallx** (`FallCache`): the cache of StrategyCached. An entry is named by the
call that inserted it. Any entry may expire at any moment, and `older` says of any two
entries which was used before the other, which is all the code compares; `Roots` are those
that the heap of a shard may have at its top.

| code | actions |
|---|---|
| `ExecuteWithKey`, `Seed`, `ClearCache` up to the cache | `Enter` |
| `cacheResult` | `Refresh`, `Insert`, `Look` |
| `getCachedResult` | `Get` |
| `evictIfNeeded` | `Lock`, `Check`, `Sweep`, `Loop`, `Pick` (`coldestEntry`, a shard a step), `Evict` |
| `syncCacheSize` | `Sum` (a shard a step), `Write` |
| `ClearCache`'s loop | `Lock`, `Clear` |
| `cleanupLoop`, `Close` | `Tick`, `Sweep`, `StopSweeper`, `Close` |

`coldestEntry` compares its candidate's `lastAccess` without the lock of the
candidate's shard. If that entry was touched after it was chosen the comparison
races with the write, and `Colder` admits both outcomes.
`SizeExact`: the count is the number of entries, unless ClearCache is under way or
a recount missed a change (`drifted`). `SettlesWithinBound`: then, with all calls
returned, the cache is within `maxSize`, although an eviction gives up when its
victim is gone. Three calls, three keys in two shards and room for one entry: two
insertions over the bound with a third call refreshing, reading or clearing.
Three goroutines make one call each.

With `drifted` nothing is said of the cache any more, so `FallNext` in `Packages`
ends such a behaviour there; `fall_drift` is the run about it.

Proved in `CallProofs` for any callers, keys, shards and size. That the cache settles is
a debt: `FallBound` says that the entries are at most the size plus the callers that
still owe an eviction, and fewer while the holder of `evictMu` has a candidate that is
gone, which is the case in which an eviction gives up. `FallCount`: the counter is the
number of entries, and at least that number while a ClearCache is under way. `FallMutex`
and `FallWalks` say who holds `evictMu` and how far a walk over the shards has come.

**fallx**, the calls (`Fallback`). Here the cache is its contents, any of which may be
gone when it is looked at.

| code | actions |
|---|---|
| `ExecuteWithKey`, `runPrimary` | `Enter`, `Primary`, `CacheResult`, `Filter` (WithFallbackIf) |
| `fallback` and its strategies | `BeginFallback`, `Dispatch`, `RunFunc`; under the cached strategy `LookUp` (getCachedResult), `CountLookUp` (cacheHits, cacheMisses) and `Replay` |
| `Seed`, `ClearCache`, `Close` | `Seed`, `ClearCache`, `Close` |

`CallsAddUp`: at any moment every counted call is in exactly one counter or on its way
to one; a cache hit is also a success of the fallback and a miss a failure, but for the
calls between the two counters. `ReplaysItsKey`: a call that did not succeed by itself
gets a value only from its strategy, and a cached one was stored under the call's own
key. Two calls, two keys, all three strategies, with and without a filter and a
function.

Proved in `CallProofs` for any calls and keys: `FbSums` has the two sums, over calls at
their first and at their second counter, each moved by one call at a time (`OneMoves`).

**ratex** (`RateLimiter`). A token accrues per unit of time; every block under the
mutex is a step and the context is looked at between them.

| code | actions |
|---|---|
| `AllowN`, `WaitN`, `Execute`, `TryExecute` | `Enter`, `Take` (`refill`, `take`, the count), `Recheck` |
| `waitFor`'s loop | `Check`, `Take`, `Delay`, `Wake` |
| `run`, `SkipToken`, `Release`, `refund` | `Finish`, `Refund` |
| `Tokens`, `Stats`, `Reset`, `ResetStats` | `Tokens`, `Reset`, `ResetStats` |

`NoTokenMade`: the bucket and what calls have taken is at most the burst, what has
accrued and what Resets filled in. `AllowedExact`: until the counters are reset,
`allowed` is the number of calls that keep their tokens. Three calls for one or two
tokens, a bucket of two, one unit of time and one Reset: the bucket runs dry, refills,
and a refund meets a full bucket. How long `delay` makes a call sleep is left open.

Proved in `SharedProofs` for any callers, burst, clock and number of Resets: tokens at
hand and tokens taken are at most the burst, the time of the last refill and a burst for
every Reset (`RateSums`), so a refund that meets a full bucket loses a token but never
makes one.

**syncx.Group** (`Group`): `Go` is `Go` and `GetSlot`, `TryGo` is `TryGo`; the goroutine
of `launch` is `Return`, `FirstFailure` and `CancelSiblings` (the function under
`once.Do`), `LaterFailure`, `FreeSlot` and `Done` (the deferred calls); `Wait` is `Wait` and
`WaitReturns`. Any task may fail, and a task may start others, with `Go` only if there
is no limit, as the comment on `Go` demands. `WaitCoversAll`: Wait returns after every
task, those started by tasks included, with the error of one that failed if any did.
`SlotsAfterCancel`: the limit holds, and who gets the slot of a failed task finds the
context cancelled. Three tasks under limits of 0, 1 and 2: two may fail together
while the third waits for a slot.

Proved in `SharedProofs` for any tasks and limits: the wait group counts the tasks
between their start and their deferred Done, the semaphore those between slot and
FreeSlot (`GroupCounts`), and a task that failed gives its slot back only after the
context is cancelled, by itself or by the one that was first in the Once
(`GroupFailures`).

**healthx** (`Health`): one `Readiness`. `Begin` is its start, `Collect`, `SeeDeadline`,
`Drain`, `EndDrain` and `Fill` are `runChecks` with its two helpers, `Judge` is the overall
status; a check is `EndCheck` (`runOne`) and `Send`. `ResultsNotLost`: every name has an
entry, from a result of one of its checks or, if none had sent one when the deadline was
seen, a timeout; and the report is up only if all entries are. Three checks, two of them
with one name. Proved in `SharedProofs` for any number of checks under any names:
`ChannelInv` says that a result that was sent waits in the channel or its name has an
entry, `EntriesInv` that a name with a result at the deadline has an entry or a result
still to be drained.

**toutx** (`Timeout`): one `Execute`, its function's goroutine (`Return`, `Send`), the
select and second look of `awaitResult` (`Receive`, `SeeExpiry`, `NothingThere`,
`ByCause`), and `normalizeResult` with each look at a context as a step. The caller's
context may be cancelled or reach a deadline of its own at any moment, and the timeout
context hears of it later. `EarlyResultKept`: a value or an error of the function's own
that was sent before the timeout context ended is returned, and an error names something
that happened; a Canceled or DeadlineExceeded of the function's own is returned as it is
unless a context has ended by the time it is looked at (see the disagreements). Proved
in `SharedProofs`: `LookInv` says what each look at a context has found when the next is
taken, `GivenInv` what an answer rests on.

**retryx** (`Retry`): one `Do`; its actions are the statements of the loop. Delays are any
number from -1 to 3 against a budget of 2, attempts and hooks take any time, the
context may end at any moment. `ReasonTrue`: the sentinel says why the loop ended, and a
context that had ended when the last attempt returned is not reported as ErrExhausted.
`ClampedIsLast`: no attempt follows a delay that the budget cut short; such a
delay is slept to its end only to return ErrMaxElapsed. Proved in `CallProofs` for any
attempts, delays and budget: `ClampInv` follows a delay that was cut short from its
arithmetic through the sleep to the look at the budget, `AttemptInv` says what the
last attempt has left at each step, and `OverInv` that a context which had ended by then is
seen.

**signalx** (`Shutdown`). The watcher's goroutine is `Watch`, `Receive`,
`WatcherCancels`, `SeeDone` and `Stop` (the deferred signal.Stop); `Signal` is the
runtime's send into the channel of one, `Cancel` the CancelFunc or the end of the
parent. `OnShutdown` and `ResetHooks` are blocks under the mutex. `WaitWith` is
`Collect`, `Loop`, `RunHook` and `After` (the second look at the deadline), with
`Deadline` at any moment once there is one. `HooksRunOrReported`: a Wait that leaves
hooks out says that its time was up, and one that says so means it; no hook that was
there when the context ended is missed, unless it was reset. `SignalNotLost`: a signal
that comes while Trap is watching ends the context. Two hooks registered at any moment,
and two Waits of which one has a deadline. The errors of hooks that panic are left out,
as is what the process does with signals once the watcher has gone. Proved in
`SharedProofs` for any hooks and Waits: every Wait that has begun has the hooks that
were due in its list, with its own at the end (`HooksInv`), and one that ends has run
them all or has seen its deadline (`WaitsInv`); the watcher does not leave before the
context is done (`WatcherInv`).

**syncx.Lazy** (`Lazy`): `Get` is `Get`, `Cached`, `BeginInit`, `InitSucceeds` and
`InitFails`; the mutex is held from `BeginInit` to one of the last two, so `Reset` waits for
it. `OneFreshValue`: between two Resets all Gets return one value, and a Get that is called
after a Reset returns one that was begun after it. Three Gets and two Resets (`MaxResets`,
a bound of the model). `Done` only reads and is left out. Proved in `SharedProofs` for any
callers and Resets: who is in the init function has the mutex, and nobody resets meanwhile
(`LazyMutexInv`, `LazyInitInv`); two values that were made began before different Resets
(`LazyOneInv`).

**lrux.ShardedCache** (`Sharded`). A call over many keys is a set of parts, a shard and
its keys each (`groupKeys`); below `ParallelFrom` keys it goes from shard to shard, from
there on in any order. A part looks at `closed` without the lock (`Enter`) and works
under it: `Set` (`Set`, `SetMulti`), `Delete` (`DeleteMulti`), `Get` (`GetMulti`, a key
at a time, and `Keys`), `Drain` (`Clear`, `Close`). `ShardsAgree`: every entry ever made
is there, was evicted or cleared, or is in the count of exactly one DeleteMulti; a Clear
or the Close that closes leaves only what was stored after it began; a look at many keys
finds none that never were and, without a Close, all that stay. Two calls of any kind on
two shards of one entry, one with two keys; batches of two keys (one by one) and of
three (in parallel).

**Options** (`Options`). A table gives for each of fourteen configurations the fields,
their defaults and what each option stores; `Next` is any option, `Config` is newConfig.
Durations and shares are small integers. `ConfigSound`: whatever options come in
whatever order, the result is one the package works with (what the other modules assume
of their constants), and a configuration that is usable already is not touched. The
timeout that toutx.Execute takes by position is one more WithTimeout at the end. Two
options of a package (`MaxOptions`), -1 to 5 each: a contradiction takes two, and the
cutoffs of shedx come in one. Options of healthx, signalx and syncx have no clamps;
adaptx's algorithm and warmupx's strategy fall to a default arm when unknown, where they
are used.

Proved in `CallProofs`, from `SourceConstants`, for any values and any number of options
and every package: `NewConfigIsSound`. Its invariant `FieldsInv` says what the options
themselves keep out (`Fits`: a field that no clamp of newConfig looks at is positive,
not negative, or a share) and that a fallx whose strategy is the function has one; one
lemma per package then runs its newConfig. That nextPow2 of the sharded cache finds a
power of two is an induction over the range of exponents, by the least one that reaches
the number.

**clix** (`Cli`). The arguments are chosen as the parser comes to them.

| code | actions |
|---|---|
| `parseArgs`, a flag, a group of short flags, `takeNextFlagValue` | `TakeFlags` |
| `--no-flag` | `Negate` |
| a word that is a subcommand, or is not | `Descend`, `Operand` |
| `--help`, `--version`, unknown flags | `Special` |
| `--` | `Terminate` |
| the end, with `checkRequired` | `Finish` |
| `Reset` | `Reset` |

`ParsedAsSaid` compares with a reading of the token list that knows no parser: a flag
has the text of the last token that names it or its default, is set iff named, every
operand is a command taken or an argument in its place, and the parse succeeds iff
nothing required is missing. It holds after a Reset too, whatever earlier parses did.
Four tokens (`MaxTokens`) on a tree of three commands in a row, one with an alias, with a
flag of each kind: a group whose last letter takes the next token, then a command that is
an operand or is not. The model assumes that names do not repeat along a path;
`assertNoShadowFlag` sees to it only for ancestors that have the flag when AddFlag runs.

**cfgx, envx and clix as layers** (`Settings`): `Load` with a file that is there or
garbled, `NotFound`, `Create` and its write in two steps, which may fail (`WriteSome`, `WriteRest`,
`WriteFails`),
`BindTo` for each field (prefix, fallback, default), `New` (Env.Validate, then AddFlag),
`Arguments` (a step of `Cli`), `Check` (cfgx.Validate), `Again` (Reset), and a `Crash`
at any moment. A Validator that is asked to fix may mend its field or not, and may report
it although it did, as the example in cfgx.go does (`Validated`); a program may go on after
the ErrValidationFailed of Load, for the other layers to repair (`GoesOn`).
`SettingsLayered`: a program that is ready has each field from the highest layer that gives
one, mended if the Validator refused it, also after a Reset; and a file that Load wrote to
its end has the values from before the environment and the arguments, mended. Of a file
the write did not finish it says nothing: what parses of it (`Torn`: fields are missing, and
the one where the write stopped may have another value of its type) is a layer of the next
start like any file (see the disagreements). The order of the steps is the one clix.go
gives. Two settings, two tokens, values that parse or do not and are valid or not.

**cfgx.Validate** (`Validation`). Three values, each on the heap, in a field (perhaps
the first, with the address of its struct) or in a map, with any pointers between them.
`Field`, `Pointer`, `Entry` are the edges a call of `walkValidate` follows, `Return` its
end with the Validator and the store into the map. `WalkComplete`: every Validator is
called, after those of what the value holds, and what is still wrong where it is stored
is reported, unless the walk took one address for two values (see the disagreements).

Run `packages` checks all of these and the types; it is one run because each package
alone is small (the largest, the cache of fallx, has 470 000 states). Run `fall_drift` is
one of the disagreements below.

## Where code and documentation disagree

Each of the runs named here is one that TLC refutes; `PROJECT.json` quotes the
sentence.

circuitx. `State()` publishes HalfOpen before it bumps the generation and clears
the probe counters, and takes no mutex. `breaker_leak`: a call that reads the old
generation during a promotion takes a probe slot of the new period and never
gives it back. With one probe allowed the breaker then rejects everything until
somebody calls Reset. The same steps are in the model with other consequences for
which no property is stated: probes admitted before the counter is cleared are
forgotten; between the two steps an older probe passes the generation check; a
trip stores Open before lastOpen, so `State()` may judge the cooldown by an
earlier trip; the hook runs after the mutex is released, so it can hear of edges
out of order; a release checks the generation and decrements later.

poolx. `worker_pool_stranded`: a submitter that passed the closed check may
enqueue after Close has returned; the task never runs and a `SubmitWait` with a
live context hangs, though its comment says a queued task always completes.

adaptx. `adaptive_reset`: a release leaves the in-flight count before it gives its
permit back. ResetStats in between fills the pool as if the permit were back
already, and then it comes back: one permit too many, and more calls than
WithMaxLimit can be in flight (adaptx.go:66 says never). The opposite case, an
admission that has its permit and is not yet counted, makes one too many in the same
way. A second ResetStats that counts those calls raises the limit above its
maximum; then the channel is full before all have released, permits are dropped, a
shrink records debt for permits that no longer exist, and the limiter ends without a
permit, idle or held, while callers wait: it makes no progress any more, though the
README says that it always does (adaptx/README.md:158). Until the limit is raised so,
waiters are served (`WaitersAreServed`). Also in the
model, with no property stated: Acquire looks at `closed` before it counts
itself, so a CloseWithTimeout may find nothing in flight and return nil, and a
callback runs afterwards; and a permit given back after that stays in the
channel.

quotax (in the model, no run of its own). Reset writes the key count after it has
released the last shard, so a key that is inserted or removed meanwhile is not in
it: the count is wrong until the next Reset, may go below zero, and more keys
than WithMaxKeys are let in, while the comment at quotax.go:652 says that the cap
is never exceeded under concurrency. `KeysCounted` and `CapKept` therefore ask for
`clean`; without it TLC finds both violated. The comment on the type
(quotax.go:89) says that Remove and Reset do not honour pins; they do, as their
own comments say.

lrux. `lru_collision`: `keyString` prints struct keys with fmt.Sprint, which prints
{"a b", "c"} and {"a", "b c"} alike; with WithSingleflight, calls for the two keys
share one computation and one of them is given the other's value. Also in the model:
`computeDirect`, when the cache was closed meanwhile, removes an expired node and
drops its callback (hence `closed` in `EachValueReportedOnce`), and a call that has
passed the closed check may put a value into a cache that Close has emptied. Not
in the model: ResetStats between a miss and `convertMissToHit` makes the misses
wrap below zero.

shedx (in the model, no run of its own). The latch clears when the load that *includes the
candidate* is below threshold - hysteresis. If one slot weighs that much or more,
it never clears: an idle shedder, whose `Load()` is 0, sheds every call that is
not critical, though the README says that it sheds until load falls below
threshold - delta (shedx/README.md:143). Capacity 2, threshold 0.8 and hysteresis
0.4 are such values. Also in the model: `Allow` says that it mutates no counter,
and so it does, but it sets and clears the latch.

poolx batch (in the model, no run of its own). A flush that is under way when
Close takes the buffer, and Close's own flush, put their items back when they
fail, and nobody flushes that buffer any more, while poolx/README.md:130 says
that batch shutdown is lossless. `OnlyFailuresAreLeft` states what does hold. An
Add that reaches the size when Close comes in between returns ErrClosed for an
item that Close then delivers.

fallx. `fall_drift`: `syncCacheSize` adds up the shards one after the other and
stores the sum afterwards. An insertion in a shard that was already counted is
lost from the count; the call that made it then sees a count within `maxSize`
and evicts nothing, and the cache stays over its capacity although every call
has returned. `SizeExact` and `SettlesWithinBound` ask for `~drifted`.

hedgex (in the model, no run of its own). When a copy has succeeded and its result
waits in the channel, a cancelled context may still be selected first, so
ErrCancelled does not mean that no copy had succeeded, as the comment on Execute
says.

healthx (in the model, no run of its own). The comment on Register says that a
later registration of a name overwrites an earlier one in the report
(healthx.go:78). The result that *arrives* last does, whichever registration it
belongs to, so one of two checks that fail may be hidden by the other. A probe
whose context has a deadline earlier than the check's own makes `runOne` report
ErrTimeout, as if the check had overrun.

toutx (in the model, no run of its own). If the caller's context ends by a
deadline of its own, the answer is ErrDeadlineExceeded or ErrCancelled, depending
on whether the function's DeadlineExceeded or the end of the context is seen first. The
comment on Execute (toutx.go:53) says that a Canceled or DeadlineExceeded which the function
returns while the timeout context is live is returned unchanged. `normalizeResult` looks
at the contexts later: one that ends between the return of the function and that look
renames the result.

retryx (in the model, no run of its own). The comment on Do (retryx.go:58) says of
ErrExhausted that the context is still live. Do looks at the context after the attempt
and before it asks the predicate of WithRetryIf; a context that ends while the predicate
runs gives ErrExhausted all the same. `ReasonTrue` says that the context was live when the
last attempt returned.

adaptx, warm-up (in the model, no run of its own). adaptx/README.md:148 says that the first
N samples are ignored and that windows still roll. `recordLocked` returns before
`resetWindow` while `seen` is below WithWarmupSamples, so no window ends during the
warm-up: the first one that is judged has all its samples in it.

warmupx (in the model, no run of its own). The comment on StartAt (warmupx.go:102) says that
the first tick continues along the curve from the capacity given. With the Step strategy a
capacity between two steps is on no point of the curve; the time of the nearest step is
taken, and the first tick may lower the capacity by up to half a step (`Within`).

cfgx, the file that Load creates (in the model, no run of its own). cfgx/README.md:221
says of WithCreateIfMissing that it writes the defaults and loads normally next time.
`writeFile` truncates the file and writes it in place (options.go:56). A crash or an error in
the middle leaves a part of it, which no later start replaces, because the file is there.
A part that does not parse is reported as ErrParseFailed at every start. A part that parses,
such as YAML that stops inside a number (`port: 8080` as `port: 80`), is taken for
settings without an error: in the model `WriteSome`, `Crash`, `Load`, `BindTo`, `New`,
`Arguments` and `Check` reach "ready" with a port that neither the program nor anybody
else gave. `SettingsLayered` takes such a file for one of the layers, and says what a file
holds only of one written to its end.

cfgx, the walk (in the model, no run of its own). The comment on Validate (validate.go:29) says that
it invokes every nested Validator. The walk remembers the pointers it followed by
address alone. A pointer to a struct and one to its first field are the same address,
and the copy of a map's entry, an allocation of its own, may be given the address of
an earlier copy that was collected: the second value is then passed over. `WalkComplete`
says nothing of such a walk (`aliased`).

## What stays with TLC, and what is left out

Every safety property of a passing run has a theorem, but for four.

- Liveness under fairness is checked by TLC only: the prover has no rule for it
  that the installed backends support; so `WaitersServed`, `CloseReleasesWaiters`,
  `EarlyTasksComplete`, `CloseReturns` have no theorem.
- `ParsedAsSaid`, `SettingsLayered` and `WalkComplete` compare a program with a reading
  of all of a token list, of the layers or of a graph of values, written as recursions
  over data; `ShardsAgree` folds over the order of use in every shard. An induction over
  such data takes theorems with an operator as parameter, which the installed provers
  cannot instantiate, or a detour like the ranks of lrux; they stay with TLC.
- The properties that TLC refutes are checked on small instances only.
- Fractions are those of the models: `ControlLaw` and `Ramp` round where the code has
  floats, and the theorems are about what is rounded.

Left out everywhere: cumulative statistics that nothing reads, error texts, clocks (see
the conventions), panics as such, and real time in liveness (a step happens
eventually, not soon).

Not modelled, with the reason: poolx's object pool, syncx.Map and panix are wrappers
without a protocol; internal/testx is not part of the library. Of modelled packages:
help texts, codecs, the parsing of texts into types and the reflection of
envx.Walk and BindField (conversions without state), what AddFlag and AddCommand
refuse while a tree is built (they panic at start-up), the Exponential and
Logarithmic curves of warmupx and the floats of adaptx (real numbers; the model
rounds).
