SPECIFICATION FairSpec
CONSTANTS
  a = a
  b = b
  c = c
  w1 = w1
  w2 = w2
  Workers = {w1}
  Obs = {a, b, c}
  StartOf <- MCStartOf
  EndOf <- MCEndOf
  WindowMinutes = 4
  GraceMinutes = 1
  OverlapMinutes = 1
  MaxRecords = 3
  ConditionalPut = FALSE
  Overlapping = FALSE
  MaxLag = 2
  MaxTime = 6
  MaxFaults = 2
INVARIANTS
  CountedOnce
  DeliveredOnceWhenFaultless
PROPERTIES
  EventuallyDelivered
  PromiseKept
