CONSTANTS
    e1 = e1
    e2 = e2
    s1 = s1
    s2 = s2
    None = None
    Events <- TwoEvents
    Scanners <- TwoScanners
    Limit = 2
    MaxAttempts = 3
    MaxFaults = 3
SPECIFICATION FairSpec
INVARIANTS DeliveredBeforeDelete
PROPERTIES RetriedUntilDelivered
