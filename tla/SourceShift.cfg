SPECIFICATION Spec
CONSTANTS
  Listings <- MCFullListing
  LateIds = {11}
  Modes = {"total"}
  Glitches = {}
  MaxGlitches = 0
  PageLimit = 2
  MaxPages = 4
  MaxRetries = 2
INVARIANT
  CompleteReadIsWhole
