SPECIFICATION Spec
CONSTANTS
    Clients = {c1, c2}
    Zones = {z1}
    ZoneNames <- MCZoneNames
    Batches <- MCBatches
    Ops = {"CreateHostedZone", "DeleteHostedZone", "ChangeResourceRecordSets", "ChangeTagsForResource"}
    None = none
INVARIANTS
    ZonesAreSound
PROPERTIES
    QuietBatchApplies
    QuietDeleteSparesRecords
SYMMETRY MCSymmetry
