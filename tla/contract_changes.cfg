SPECIFICATION FairSpec
CONSTANTS
  MaxTime = 4
  Month = 2
  MaxRequests = 5
  MaxUpgrades = 1
  None = None
INVARIANT UpgradeIsPaid ActiveHasPhase
PROPERTY CancelIsDecided
CHECK_DEADLOCK FALSE
