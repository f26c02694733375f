SPECIFICATION Spec
CONSTANTS
  a = a
  b = b
  c = c
  w1 = w1
  w2 = w2
  Workers = {w1, w2}
  Obs = {a, b}
  StartOf <- MCEarlyStartOf
  EndOf <- MCEarlyEndOf
  WindowMinutes = 4
  GraceMinutes = 1
  OverlapMinutes = 1
  MaxRecords = 3
  ConditionalPut = TRUE
  Overlapping = TRUE
  MaxLag = 2
  MaxTime = 3
  MaxFaults = 0
PROPERTY
  WatermarkMonotone
