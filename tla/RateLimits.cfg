SPECIFICATION Spec
CONSTANTS
  k1 = k1
  r1 = r1
  r2 = r2
  Scopes = {"api_key", "user"}
  Requests = {r1, r2}
  IdOf <- MCIdOf
  Limit <- MCLimit
  WindowSeconds = 2
  TicksPerSecond = 3
  MaxTime = 6
  MaxFaults = 1
INVARIANTS
  BucketLimit
  RejectedOnlyWhenFull
  RetryAfterReachesBucketEnd
SYMMETRY MCSymmetry
