SPECIFICATION Spec
CONSTANTS
    Word = 16
    SectorSizes = {2, 4}
    Cells = {"host", "guest"}
    Owners = {"host"}
    Slots = {1}
    AllRights = {"read", "write", "dma", "dup"}
    FirstRights <- MCFirstRights
    DupRights <- MCDupRights
    Horizon = 1
    MaxGeneration = 3
    MaxDevice = 2
    GrantBytes = 2
    Spans <- MCSpans
    Selected <- MCSelected
    Inventories <- MCInventories
    Requests <- MCRequests
    Depth = 1
CHECK_DEADLOCK FALSE
INVARIANTS ReclaimedIsUnreachable NeverAmplified HandlesAreCurrent TransfersStayInside
