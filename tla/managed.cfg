SPECIFICATION Spec
CONSTANTS
    c1 = c1
    c2 = c2
    none = none
    Clients = {c1, c2}
    VpcOf <- MCVpcOf
    Attrs = {"a", "b"}
    Mixes <- MCMixes
    None = none
INVARIANTS
    RowsAreSound
PROPERTIES
    WritesAreSound
    QuietProtectedStay
SYMMETRY MCSymmetry
