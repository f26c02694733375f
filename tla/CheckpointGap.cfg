SPECIFICATION Spec
CONSTANTS
  a = a
  b = b
  c = c
  w1 = w1
  w2 = w2
  Workers = {w1, w2}
  Obs = {a, b}
  StartOf <- MCEarlyStartOf
  EndOf <- MCEarlyEndOf
  WindowMinutes = 1
  GraceMinutes = 0
  OverlapMinutes = 1
  MaxRecords = 3
  ConditionalPut = TRUE
  Overlapping = TRUE
  MaxLag = 1
  MaxTime = 2
  MaxFaults = 0
PROPERTY
  CommitLeavesNoGap
