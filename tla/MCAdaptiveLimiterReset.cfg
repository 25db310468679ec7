\* A limit of one: a first ResetStats makes a permit too many, a second one takes
\* its holder for a limit of two, two calls give back what only one place is left
\* for, the fourth shrinks the limit to one, and the fifth waits.
SPECIFICATION HSpec
CONSTANTS
  c1 = c1
  c2 = c2
  c3 = c3
  c4 = c4
  c5 = c5
  r1 = r1
  r2 = r2
  Callers = {c1, c2, c3, c4, c5}
  Resetters = {r1, r2}
  Closers = {}
  Nobody = Nobody
  MinLimit = 1
  MaxLimit = 1
  InitialLimit = 1
SYMMETRY Symmetry
INVARIANT ForwardProgress
