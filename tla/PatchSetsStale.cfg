SPECIFICATION Spec
CONSTANTS
    Machines <- MCMachines
    HostsOf <- MCHostsOf
    OutagesOf <- MCOutagesOf
    MaxOutages = 2
INVARIANTS
    KDKIsMerged
