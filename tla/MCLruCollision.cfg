\* Keys that keyString cannot tell apart share one flight.
SPECIFICATION Spec
CONSTANTS
  k1 = k1
  k2 = k2
  k3 = k3
  c1 = c1
  c2 = c2
  c3 = c3
  Callers = {c1, c2}
  Keys = {k1, k2}
  FlightOf <- Colliding
  Capacities = {0}
  None = None
INVARIANTS
  ValueOfItsKey
