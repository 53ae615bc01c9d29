SPECIFICATION Spec
CONSTANTS
    Clients = {c1, c2}
    Names = {n1}
    Versions = {v1, v2, v3}
    Tags = {"a"}
    Labels <- MCLabels
    Ops = {"CreateSecret", "PutSecretValue", "DeleteSecret", "RestoreSecret", "TagResource"}
    None = none
INVARIANTS
    TypeOK
PROPERTIES
    QuietPutMovesCurrent
    QuietDestroyedStays
SYMMETRY MCSymmetry
