SPECIFICATION FairSpec
CONSTANTS
  c1 = c1
  c2 = c2
  c3 = c3
  None = None
  Words <- MCWords
  Clients = {c1, c2, c3}
  RequestOf <- MCRequestOf
  AuthTtl = 1
  CacheTtl = 1
  MaxFaults = 1
INVARIANTS
  ServedSameRequest
  SuccessesLoggedOnce
PROPERTY
  DeactivatedKeyRefused
