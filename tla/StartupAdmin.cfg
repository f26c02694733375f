SPECIFICATION Spec
CONSTANTS
  p1 = p1
  p2 = p2
  k1 = k1
  k2 = k2
  Procs = {p1, p2}
  Keys = {k1, k2}
  Builtin = k1
  Production = TRUE
  MaxStarts = 4
  MaxOutages = 1
INVARIANT
  DefaultKeyIsAdmin
