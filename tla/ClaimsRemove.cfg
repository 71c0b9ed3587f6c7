CONSTANTS
    Identities <- TwoAdas
    Resources <- OneResource
    Threads <- TwoThreads
    GlobalThread = "global"
    Removable <- WebappOnly
    Leases <- ShortOrForever
    Waits = {}
    MaxSeq = 4
    MaxTime = 2
SPECIFICATION Spec
CHECK_DEADLOCK FALSE
INVARIANTS MutualExclusion RunningLeaseIsHeld NoOrphanMessages
PROPERTIES LeaseIsKept
