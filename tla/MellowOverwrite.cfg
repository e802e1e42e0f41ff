CONSTANTS
    N = 2
    Names <- MCNames
    Bytes <- MCBytes
    Partial <- MCPartial
    Owners <- MCOwners
    Payload <- MCPayload
    Initial <- MCUpgrade
    Worker = "root"
    NotSaved = NotSaved
    MaxTx = 1
    MaxFaults = 0
    MaxEdits = 1
SPECIFICATION Spec
PROPERTIES NeverOverwritesForeign
CHECK_DEADLOCK FALSE
