SPECIFICATION Spec
CONSTANTS
    c1 = c1
    c2 = c2
    n1 = n1
    k1 = k1
    none = none
    Clients <- MCClients
    Names <- MCName
    KeyIds <- MCKeyIds
    None = none
    Mixes <- MCMixes
INVARIANTS
    TypeOK
    NothingIsLeftBehind
PROPERTIES
    HeldEntitiesStay
    ImplementsIAMStore
SYMMETRY MCSymmetry
