CONSTANTS
    Identities <- TwoAdas
    Resources <- OneResource
    Threads <- TwoThreads
    GlobalThread = "global"
    Removable <- Nothing
    Leases <- AllLeases
    Waits = {1}
    MaxSeq = 3
    MaxTime = 1
SPECIFICATION FairSpec
CHECK_DEADLOCK FALSE
 
PROPERTIES ImplementsLeaseService WaitsReturn
