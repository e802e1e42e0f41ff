CONSTANTS
    PatchSets <- AllSets
    MaxRuns = 4
    MaxFaults = 4
SPECIFICATION FairSpec
PROPERTIES IsUndoLog RollbackCompletes
CHECK_DEADLOCK FALSE
