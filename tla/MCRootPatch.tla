----------------------------- MODULE MCRootPatch -----------------------------
(***************************************************************************)
(* Patch sets for the runs of RootPatch: Mellow, another patch set that    *)
(* needs a KDK, and one that only needs the auxiliary collection.          *)
(***************************************************************************)
EXTENDS RootPatchInvariant

Mellow    == [mellow |-> TRUE,  kdk |-> TRUE]
WithKdk   == [mellow |-> FALSE, kdk |-> TRUE]
WithAuxKC == [mellow |-> FALSE, kdk |-> FALSE]

KdkSets == {Mellow, WithKdk}
AllSets == {Mellow, WithKdk, WithAuxKC}
=============================================================================
