\* Three callers, one slot, one waiter allowed; no symmetry, for liveness.
SPECIFICATION HFairSpec
CONSTANTS
  g1 = g1
  g2 = g2
  g3 = g3
  Callers = {g1, g2, g3}
  MaxConcurrent = 1
  MaxWaiters = 1
INVARIANTS
  ActiveBounded
  NothingLeaks
PROPERTIES
  NeverBarges
  ImplementsLimiter
  WaitersServed
  CloseReleasesWaiters
