SPECIFICATION FairSpec
CONSTANTS
  a = a
  b = b
  c = c
  w1 = w1
  w2 = w2
  Workers = {w1}
  Obs = {a, b}
  StartOf <- MCEarlyStartOf
  EndOf <- MCEarlyEndOf
  WindowMinutes = 2
  GraceMinutes = 0
  OverlapMinutes = 1
  MaxRecords = 3
  ConditionalPut = FALSE
  Overlapping = FALSE
  MaxLag = 1
  MaxTime = 3
  MaxFaults = 1
PROPERTY
  RetriedFromSamePoint
