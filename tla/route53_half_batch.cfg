SPECIFICATION Spec
CONSTANTS
    Clients = {c1, c2}
    Zones = {z1}
    ZoneNames <- MCDotted
    Batches <- MCPairs
    Ops = {"CreateHostedZone", "DeleteHostedZone", "ChangeResourceRecordSets"}
    None = none
PROPERTIES
    RefusedBatchAppliesNothing
