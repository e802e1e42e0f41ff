CONSTANTS
    N = 2
    Names <- MCNames
    Bytes <- MCBytes
    Partial <- MCPartial
    Owners <- MCOwners
    Payload <- MCPayload
    Initial <- MCUpgrade
    Worker = "root"
    NotSaved = NotSaved
    MaxTx = 1
    MaxFaults = 1
    MaxEdits = 1
SPECIFICATION Spec
PROPERTIES RefusesBeforeWriting ArchivesOnlyRestored
CHECK_DEADLOCK FALSE
