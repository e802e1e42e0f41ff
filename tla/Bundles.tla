------------------------------- MODULE Bundles -------------------------------
(***************************************************************************)
(* The file trees the Mellow journal works on.  A component (a .kext, a    *)
(* .bundle, a .framework) is a directory; _tree (transaction.py) reads it  *)
(* as a record per entry.  Here a tree is the owner of its root directory, *)
(* or Missing when the component does not exist, and the bytes of every    *)
(* file name, Missing when there is no such file.  Subdirectories are      *)
(* folded into the file names; mode, uid and gid are folded into "root".   *)
(***************************************************************************)
EXTENDS Naturals

CONSTANTS
    Names,      \* file names that can occur in a component
    Bytes,      \* complete or cut-off file contents
    Partial,    \* Partial[b]: what an interrupted copy of b can leave, b included
    Owners      \* owner and mode of a component

Missing == "missing"

ASSUME BundleAssumption ==
    /\ Missing \notin Bytes
    /\ Missing \notin Owners
    /\ Partial \in [Bytes -> SUBSET Bytes]
    /\ \A b \in Bytes : b \in Partial[b]
    /\ \A b \in Bytes : \A p \in Partial[b] : Partial[p] \subseteq Partial[b]

Content == Bytes \union {Missing}

Tree == [root : Owners \union {Missing}, file : [Names -> Content]]

NoTree == [root |-> Missing, file |-> [n \in Names |-> Missing]]

Exists(t) == t.root # Missing

Present(t) == {n \in Names : t.file[n] # Missing}

\* t with owner o and with the bytes b in file n.
Edit(t, n, b, o) == [root |-> o, file |-> [t.file EXCEPT ![n] = b]]

\* Equality of _signature(t): the entries and their bytes, not their owner.
SameBytes(t, u) == Exists(t) = Exists(u) /\ t.file = u.file

\* Mutant: a cut-off copy is somebody else's.
MatchesComplete(b, src) == src # Missing /\ b = src

\* _matches_partial: b is the bytes of a copy of src, complete or cut off.
MatchesPartial(b, src) == src # Missing /\ b \in Partial[src]

\* Some entry of t that is neither original nor payload bytes.
Unrecognised(t, n, original, payload) ==
    /\ t.file[n] # Missing
    /\ ~MatchesPartial(t.file[n], original.file[n])
    /\ ~MatchesPartial(t.file[n], payload.file[n])

\* _owned_current accepts the tree t.
Owned(t, original, payload) ==
    \A n \in Names : ~Unrecognised(t, n, original, payload)

\* What a power loss can leave of a component whose durable image is d and
\* whose cached image is t: a synced component is kept; otherwise every entry
\* is the durable one, gone, or a part of the cached one.
Survivors(d, t) ==
    {m \in Tree :
        /\ m.root \in {d.root, t.root}
        /\ \A n \in Names :
              \/ m.file[n] = d.file[n] /\ Exists(m)
              \/ m.file[n] = Missing
              \/ Exists(m) /\ t.file[n] # Missing /\ m.file[n] \in Partial[t.file[n]]}

AfterPowerLoss(d, t) == IF d = t THEN {t} ELSE Survivors(d, t)
=============================================================================
