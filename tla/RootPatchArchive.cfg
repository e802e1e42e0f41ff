CONSTANTS
    PatchSets <- AllSets
    MaxRuns = 2
    MaxFaults = 1
SPECIFICATION Spec
PROPERTIES RebuiltBeforeArchive
CHECK_DEADLOCK FALSE
