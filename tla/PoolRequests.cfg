SPECIFICATION FairSpec
CONSTANTS
  r1 = r1
  r2 = r2
  r3 = r3
  Requests = {r1, r2, r3}
  Capacity = 3
  HoldThroughTasks = TRUE
INVARIANTS
  ExhaustedOnlyUnderLoad
PROPERTY
  EveryRequestEnds
\* Every request ends and none is left: the process is idle.
CHECK_DEADLOCK FALSE
