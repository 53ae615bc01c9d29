SPECIFICATION FairSpec
CONSTANTS
    default = default
    other = other
    none = none
    c1 = c1
    c2 = c2
    Accounts = {default}
    Default = default
    None = none
    Clients <- MCClients
    ClientOps = {"CreateKey", "ScheduleKeyDeletion"}
    AdminOps = {"reset", "snapshot", "restore"}
    LoadedKinds <- MCLoadedKinds
    Faults = {"kill"}
INVARIANTS
    ServesReadable
PROPERTIES
    EveryoneGetsIn
