SPECIFICATION Spec
CONSTANTS
    default = default
    other = other
    none = none
    c1 = c1
    c2 = c2
    Accounts <- MCAccounts
    Default = default
    None = none
    Clients <- MCOneClient
    ClientOps = {"CreateHostedZone", "DeleteHostedZone", "DescribeImages"}
    AdminOps = {"identity", "reset", "load", "snapshot", "restore"}
    LoadedKinds <- MCLoadedKinds
    Faults = {"kill", "vacuum", "copy", "delete"}
PROPERTIES
    NoOtherVersionGoesLive
    ImplementsMockStore
