CONSTANTS
    leader = leader
    p2 = p2
    p3 = p3
    PIDs <- MCPIDs
    Leader = leader
    Reusable <- OtherPIDs
    MaxBirths = 2
    MaxFaults = 1
SPECIFICATION Spec
SYMMETRY Symmetry
INVARIANTS CleanupNotSkipped
CHECK_DEADLOCK FALSE
