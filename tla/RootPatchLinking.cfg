CONSTANTS
    PatchSets <- AllSets
    MaxRuns = 2
    MaxFaults = 1
SPECIFICATION Spec
PROPERTIES VerifiedBeforeLinking
CHECK_DEADLOCK FALSE
