CONSTANTS
    leader = leader
    p2 = p2
    p3 = p3
    PIDs = {leader, p2}
    Leader = leader
    Reusable = {leader, p2}
    MaxBirths = 3
    MaxFaults = 1
SPECIFICATION FairSpec
INVARIANTS NoStrangerSignalled ExitStatusKept CompleteButForked NotGivenUpEarly
PROPERTIES Returns KillsAll
CHECK_DEADLOCK FALSE
