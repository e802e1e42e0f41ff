SPECIFICATION FairSpec
CONSTANTS
    Machines <- MCMachines
    HostsOf <- MCHostsOf
    OutagesOf <- MCOutagesOf
    MaxOutages = 2
INVARIANTS
    EverySetSurvives
    SupportBeforeWriting
PROPERTIES
    AcceptedIsFeasible
    Ends
