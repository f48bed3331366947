SPECIFICATION FairSpec
CONSTANTS
  MaxTime = 3
  Month = 2
  MaxRequests = 2
  MaxUpgrades = 1
  None = None
PROPERTY RollsOver
CHECK_DEADLOCK FALSE
