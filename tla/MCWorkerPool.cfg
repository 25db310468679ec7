\* Three submitters, a queue of one, two workers and two calls of Close; no
\* symmetry, for liveness.
SPECIFICATION MCSpec
CONSTANTS
  s1 = s1
  s2 = s2
  s3 = s3
  w1 = w1
  w2 = w2
  c1 = c1
  c2 = c2
  Submitters = {s1, s2, s3}
  Workers = {w1, w2}
  Closers = {c1, c2}
  QueueSize = 1
  None = None
INVARIANTS
  RunAtMostOnce
  CloseRunsWhatWasQueued
PROPERTIES
  EarlyTasksComplete
  CloseReturns
