SPECIFICATION SystemSpec
CONSTANTS
  c1 = c1
  c2 = c2
  c3 = c3
  None = None
  Words <- MCWords
  Clients = {c1, c2, c3}
  RequestOf <- MCDemoRequestOf
  AuthTtl = 1
  CacheTtl = 1
  MaxFaults = 0
  Scopes = {"user"}
  IdOf <- MCTwoUsers
  Limit <- MCLimit
  WindowSeconds = 1
  TicksPerSecond = 1
  MaxTime = 1
  FailureThreshold = 2
  RecoveryTimeout = 1
  MaxRetries = 1
  KeysOf <- MCGoodKeys
  MaxOutages = 2
INVARIANTS
  BadGatewayAfterFallbacks
\* Every client sends one request: the process is idle in the end.
CHECK_DEADLOCK FALSE
