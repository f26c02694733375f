SPECIFICATION ReportsSpec
CONSTANTS
  Tenants = {t1}
  Users = {u1}
  Costs = {1, 3}
  Latencies = {1, 2}
  Day = 1
  MaxRows = 3
  MaxTime = 3
  MaxFaults = 0
INVARIANT
  HitRatioIsARatio
