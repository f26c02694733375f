SPECIFICATION FairSystemSpec
CONSTANTS
  c1 = c1
  c2 = c2
  c3 = c3
  None = None
  Words <- MCWords
  Clients = {c1, c2}
  RequestOf <- MCKeyRequestOf
  AuthTtl = 1
  CacheTtl = 1
  MaxFaults = 1
  Scopes = {"user"}
  IdOf <- MCOneUser
  Limit <- MCLimit
  WindowSeconds = 1
  TicksPerSecond = 1
  MaxTime = 1
  FailureThreshold = 1
  RecoveryTimeout = 0
  MaxRetries = 1
  KeysOf <- MCMixedKeys
  MaxOutages = 2
INVARIANTS
  ProviderLoadBounded
  RefusedOnlyAfterFailures
PROPERTY
  EveryRequestAnswered
\* Every client sends one request: the process is idle in the end.
CHECK_DEADLOCK FALSE
