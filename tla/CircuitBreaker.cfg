SPECIFICATION FairSpec
CONSTANTS
  Calls = {c1, c2, c3}
  FailureThreshold = 2
  RecoveryTimeout = 2
  MaxRetries = 1
  MaxFailures = 5
  MaxCancels = 1
INVARIANTS
  OpenIffThresholdReached
  OpenShedsLoad
PROPERTIES
  FailedProbeReopens
  Recovers
