SPECIFICATION Spec
CONSTANTS
    s1 = s1
    v1 = v1
    v2 = v2
    g1 = g1
    g2 = g2
    g3 = g3
    Clients = {c1, c2}
    Subnets = {s1}
    Vpcs = {v1, v2}
    Groups = {g1, g2, g3}
    Instances = {i1, i2}
    Enis = {e1, e2}
    Eips = {p1, p2}
    Rules = {r1, r2, r3}
    Volumes = {w1}
    LoadedInstances = {i1, i2}
    LoadedEnis = {e1}
    MaxAsked = 2
    Singly = {"AuthorizeSecurityGroupRules", "RunInstances"}
    Hosts = 2
    Wanted = {1}
    Net = 3
    VpcOf <- MCVpcOf
    DefaultOf <- MCDefaultOf
    Perms <- MCPerms
    GroupLists <- MCGroupLists
    Sources <- MCSources
    Derive <- MCDerive
    Mixes <- MCMixes
    None = none
INVARIANTS
    InterfacesAreSound
    NothingDangles
    InStepTheyAgree
SYMMETRY MCSymmetry
CHECK_DEADLOCK FALSE
