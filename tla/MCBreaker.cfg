\* Three calls race one Reset; two failures trip, one
\* success heals.
SPECIFICATION HSpec
CONSTANTS
  c1 = c1
  c2 = c2
  c3 = c3
  r1 = r1
  Callers = {c1, c2, c3}
  Watchers = {}
  Resetters = {r1}
  Nobody = Nobody
  MaxFailures = 2
  HalfOpenMax = 1
  SuccessThreshold = 1
  CountCanceled = FALSE
SYMMETRY Symmetry
INVARIANTS
  ProbeCounterBounded
  ClosedBelowThreshold
  HookOncePerEdge
  ResetFences
PROPERTIES
  SuccessNeverClobbersTrip
  ImplementsCircuit
