SPECIFICATION Spec
CONSTANTS
  a = a
  b = b
  c = c
  w1 = w1
  w2 = w2
  Workers = {w1, w2}
  Obs = {a, b}
  StartOf <- MCEarlyStartOf
  EndOf <- MCEarlyEndOf
  WindowMinutes = 2
  GraceMinutes = 0
  OverlapMinutes = 1
  MaxRecords = 1
  ConditionalPut = TRUE
  Overlapping = TRUE
  MaxLag = 1
  MaxTime = 3
  MaxFaults = 1
INVARIANT
  NothingSkipped
PROPERTIES
  SeenRetained
  CleanExitIsCommitted
SYMMETRY MCSymmetry
