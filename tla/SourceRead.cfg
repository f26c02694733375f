SPECIFICATION Spec
CONSTANTS
  Listings <- MCListings
  LateIds = {11, 12}
  Modes = {"cursor", "total", "untotalled"}
  Glitches = {"malformed", "stuck", "empty", "switch"}
  MaxGlitches = 2
  PageLimit = 2
  MaxPages = 3
  MaxRetries = 2
INVARIANTS
  StableReadIsExact
  TrustedReadIsWhole
  RequestsBounded
