\* Three calls of any kind on three keys; the cache starts with no bound, or
\* with room for one.
SPECIFICATION Spec
CONSTANTS
  k1 = k1
  k2 = k2
  k3 = k3
  c1 = c1
  c2 = c2
  c3 = c3
  Callers = {c1, c2, c3}
  Keys = {k1, k2, k3}
  FlightOf <- Distinct
  Capacities = {0, 1}
  None = None
SYMMETRY Symmetry
INVARIANTS
  ListMatchesMap
  EachValueReportedOnce
  LookupsCounted
PROPERTIES
  IsLru
