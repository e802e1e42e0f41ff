CONSTANTS
    PatchSets <- KdkSets
    MaxRuns = 4
    MaxFaults = 4
SPECIFICATION Spec
INVARIANTS SuccessMeansDone NothingLeftBehind BootFindsItsFiles
CHECK_DEADLOCK FALSE
