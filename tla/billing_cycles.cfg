SPECIFICATION FairSpec
CONSTANTS
  MaxTime = 3
  Month = 2
  Windows <- OneWindow
  Handlers <- TwoHandlers
  Workers <- TwoWorkers
  MaxAttempts = 2
  MaxFaults = 1
  None = None
INVARIANT NoGap WindowInCycle  EarlyUsageIsBilled GaplessNumbers
PROPERTY  FinalizationEnds
CHECK_DEADLOCK FALSE
