SPECIFICATION FairSpec
CONSTANTS
    Leases <- OneLease
    Calls <- ThreeCalls
    Keys <- OneKey
    Slots <- OneSlot
    NoLease = 0
    NoCall = 0
    MailboxCap = 2
    TTL = 1
    Extend = 2
    MaxRemaining = 2
    MaxFaults = 1
INVARIANTS ReadyIsServed  ReleaseIsFinal OneExecPerLease 
PROPERTIES LiveVMKeepsItsSlot LeaseEnds
CHECK_DEADLOCK FALSE
