\* One call trips, one promotes; the third reads the old generation.
SPECIFICATION HSpec
CONSTANTS
  c1 = c1
  c2 = c2
  c3 = c3
  Callers = {c1, c2, c3}
  Watchers = {}
  Resetters = {}
  Nobody = Nobody
  MaxFailures = 1
  HalfOpenMax = 1
  SuccessThreshold = 1
  CountCanceled = FALSE
SYMMETRY Symmetry
INVARIANT NoLeakedProbeSlot
