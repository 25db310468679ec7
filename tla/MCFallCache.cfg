\* Three calls on a cache for one entry, three keys in two shards, going on
\* after a recount that went wrong.
SPECIFICATION FallSpec
CONSTANTS
  Callers = {c1, c2, c3}
  Others = {}
  Flusher = f
  Ticker = t
  Nothing = none
  BatchSize = 2
  Slots = 3
  Threshold = 50
  Hysteresis = 10
  Cutoff <- Cutoffs
  MaxAttempts = 3
  MaxElapsed = 2
  Delays <- RetryDelays
  MaxTime = 4
  LazyResets = 2
  MaxLimit = 2
  Burst = 2
  RateTime = 1
  RateResets = 1
  FallbackKeys = {1, 2}
  CacheKeys = {1, 2, 3}
  CacheShards = 2
  CacheShardOf <- ShardsOfKeys
  CacheSize = 1
  ShutdownWaits = {f, t}
  BoundedWaits = {t}
  WarmRuns = 3
  HedgeEntries = 3
  HealthChecks = 3
  NamesOfChecks <- NamesInTurn
  RampMin = 1
  RampMax = 7
  RampUnit = 7
  RampTime = 6
  RampSteps = 2
  RampCalls = {t}
  LawMin = 1
  LawMax = 5
  LawInitial = 3
  Latencies = {4, 8, 16}
  Target = 8
  WarmupSamples = 2
  Ratio = 2
  Utilization = 3
  Rate = 6
  Tolerance = 1
  Smoothing = 2
  Decay = 2
  BackoffBand = 2
  FastStep = 2
  LawSamples = 4
  Raw <- OptionValues
  Unit = 4
  MaxShardCount = 4
  ShardDivisor = 2
  IntervalDivisor = 2
  MinInterval = 1
  MaxInterval = 3
  MaxOptions = 2
SYMMETRY Symmetry
INVARIANTS
  BoundAfterSettling
