SPECIFICATION RecoverySpec
CONSTANTS
    Jobs <- TwoJobs
INVARIANT SucceededIsSettled
INVARIANT OneLauncher
INVARIANT VoidedMeansStopped
PROPERTY ClaimedAttemptEnds
CHECK_DEADLOCK FALSE
