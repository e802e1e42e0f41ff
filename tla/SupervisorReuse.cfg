CONSTANTS
    leader = leader
    p2 = p2
    p3 = p3
    PIDs <- MCPIDs
    Leader = leader
    Reusable <- MCPIDs
    MaxBirths = 3
    MaxFaults = 0
SPECIFICATION Spec
SYMMETRY Symmetry
INVARIANTS NobodyElseSignalled
CHECK_DEADLOCK FALSE
