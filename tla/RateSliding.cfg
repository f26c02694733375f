SPECIFICATION Spec
CONSTANTS
  k1 = k1
  r1 = r1
  r2 = r2
  Scopes = {"api_key", "user"}
  Requests = {r1, r2}
  IdOf <- MCIdOf
  Limit <- MCLimit
  WindowSeconds = 3
  TicksPerSecond = 1
  MaxTime = 4
  MaxFaults = 0
INVARIANT
  SlidingWindowLimit
SYMMETRY MCSymmetry
