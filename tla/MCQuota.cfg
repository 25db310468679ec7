\* Three calls of any kind on two keys in two shards, with a cap of one; the
\* sweeper, and a Remove, a Reset or a Close.
SPECIFICATION HSpec
CONSTANTS
  k1 = k1
  k2 = k2
  c1 = c1
  c2 = c2
  c3 = c3
  Callers = {c1, c2, c3}
  Keys = {k1, k2}
  NumShards = 2
  ShardOf <- OneEach
  MaxKeys = 1
  Admins = {a1}
  EvictLoop = EvictLoop
  Evictors = {}
  a1 = a1
  None = None
SYMMETRY Symmetry
INVARIANTS
  OneLimiterPerKey
  PinsExact
  KeysCounted
  CapKept
PROPERTIES
  EvictionSparesUsed
