---------------------------- MODULE MCSupervisor ----------------------------
(***************************************************************************)
(* Process numbers for the runs of Supervisor.  All but the worker's are   *)
(* interchangeable.                                                        *)
(***************************************************************************)
EXTENDS Supervisor, TLC

CONSTANTS leader, p2, p3

MCPIDs == {leader, p2, p3}
OtherPIDs == MCPIDs \ {leader}
Symmetry == Permutations(OtherPIDs)
=============================================================================
