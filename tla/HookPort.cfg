SPECIFICATION FairSpec
CONSTANTS
  c1 = c1
  c2 = c2
  c3 = c3
  c4 = c4
  Core <- MCCore
  Forcing <- MCForcing
  Mcp <- MCMcp
  NoCore = none
  LastPort = 3
  MaxStarts = 3
  MaxCrashes = 1
  MaxSlow = 1
INVARIANTS
  NeverDeaf
  StartsLeaveLivePointer
  PointerGoesWithItsCore
PROPERTIES
  LiveClaimStands
  CanonicalTakenBack
CHECK_DEADLOCK FALSE
