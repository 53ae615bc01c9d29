SPECIFICATION Spec
CONSTANTS
    default = default
    other = other
    none = none
    c1 = c1
    c2 = c2
    Accounts <- MCAccounts
    Default = default
    None = none
    Clients <- MCClients
    ClientOps = {"DescribeImages", "CreateHostedZone", "CreateVpc"}
    AdminOps = {"identity", "reset", "load", "snapshot", "restore"}
    LoadedKinds = {{"bare"}}
    Faults = {}
INVARIANTS
    TypeOK
    RequestKeepsItsAccount
    RowsUnderStoredAccount
    LoadedNeverMints
    ServedVPCsHaveDefaults
PROPERTIES
    SnapshotBetweenRequests
SYMMETRY MCSymmetry
