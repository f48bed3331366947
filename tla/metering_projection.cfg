CONSTANTS
    p1 = p1
    p2 = p2
    r1 = r1
    NumWindows = 3
    Workers <- TwoWorkers
    Requests <- OneRequest
    PoolSize = 3
    JobAttempts = 1
    ScanLimit = 2
    MaxFailures = 1
SPECIFICATION FairProjection
INVARIANTS OneRowPerFailure
PROPERTIES SettledIsProjected
