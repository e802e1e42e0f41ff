SPECIFICATION Spec
CONSTANTS
    Machines <- MCMachines
    HostsOf <- MCHostsOf
    OutagesOf <- MCOutagesOf
    MaxOutages = 0
INVARIANTS
    PlansHoldOnlySets
