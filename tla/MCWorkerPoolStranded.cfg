\* One submitter against Close.
SPECIFICATION MCSpec
CONSTANTS
  s1 = s1
  s2 = s2
  w1 = w1
  c1 = c1
  Submitters = {s1, s2}
  Workers = {w1}
  Closers = {c1}
  QueueSize = 1
  None = None
PROPERTY QueuedTaskCompletes
