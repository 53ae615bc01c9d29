SPECIFICATION Spec
CONSTANTS
    Clients = {c1, c2}
    Vpcs = {v1, v2}
    Subnets = {s1, s2}
    Gateways = {g1}
    Tables = {t1, t2, t3}
    Assocs = {a1, a2}
    Instances = {i1, i2}
    Taggable = {s1, s2}
    Cidrs <- MCCidrs
    Mixes <- MCMixes
    None = none
    Detached = detached
INVARIANTS
    NetworkIsSound
    SubnetsNeverOverlap
PROPERTIES
    DeletesSpareTheLiving
    QuietModifyIsExact
    TagsGoWithTheirResource
SYMMETRY MCSymmetry
CHECK_DEADLOCK FALSE
