\* Four callers, a ResetStats and a Close on a limit that moves between one
\* and two.
SPECIFICATION HSpec
CONSTANTS
  c1 = c1
  c2 = c2
  c3 = c3
  c4 = c4
  r1 = r1
  k1 = k1
  Callers = {c1, c2, c3, c4}
  Resetters = {r1}
  Closers = {k1}
  Nobody = Nobody
  MinLimit = 1
  MaxLimit = 2
  InitialLimit = 2
SYMMETRY Symmetry
INVARIANTS
  NobodyWaitsInVain
  DrainWakesCloser
  Conservation
  NeverAboveLiveLimit
