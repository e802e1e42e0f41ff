CONSTANTS
    N = 2
    Names <- MCNames
    Bytes <- MCBytes
    Partial <- MCPartial
    Owners <- MCOwners
    Payload <- MCPayload
    Initial <- MCInitial
    Worker = "root"
    NotSaved = NotSaved
    MaxTx = 2
    MaxFaults = 2
    MaxEdits = 0
SPECIFICATION FairSpec
INVARIANTS BackupsIntact RestoredIsDurable DebrisIsRecognised SettledIsDurable
PROPERTIES IsUndoLog RestoreCompletes
CHECK_DEADLOCK FALSE
