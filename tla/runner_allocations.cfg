SPECIFICATION FairRunners
CONSTANTS
    Allocations <- TwoAllocations
    ProviderJobs <- OneJob
    None = None
INVARIANT OneRunnerPerQueuedJob
INVARIANT DeliveredIsGone
 
PROPERTY AllocationIsCleaned
CHECK_DEADLOCK FALSE
