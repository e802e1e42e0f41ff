CONSTANTS
    PatchSets <- AllSets
    MaxRuns = 2
    MaxFaults = 1
SPECIFICATION Spec
INVARIANTS SuccessIsComplete
CHECK_DEADLOCK FALSE
