SPECIFICATION FairSpec
CONSTANTS
  Ratios <- MCRatios
  ByteLimits = {FALSE, TRUE}
  AdminRatios <- MCAdminRatios
  MaxWrites = 2
  MaxVfs = 160
INVARIANTS
  TypeOK
  RatioPositive
  RatioRestored
PROPERTIES
  RatioSettles
CHECK_DEADLOCK FALSE
