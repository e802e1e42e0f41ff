------------------------------- MODULE UndoLog -------------------------------
(***************************************************************************)
(* What a journal of originals promises, whatever its files look like.     *)
(* Its owner may change the live data only while a copy of the originals   *)
(* is saved, the copy never changes while it is needed, and it is given up *)
(* only when the data are what they were.  Everybody else's changes are    *)
(* counted; data they changed ("stained") while the copy was saved, or     *)
(* while it was taken, are not the journal's to answer for.                *)
(***************************************************************************)
EXTENDS Naturals

CONSTANTS
    Items,      \* the data items
    Values,     \* what an item can be
    Nothing     \* "no copy is saved"

VARIABLES
    data,       \* the live data
    saved,      \* the saved originals, or Nothing
    stained,    \* items changed by others since the originals were taken
    changes     \* number of changes by others

uvars == <<data, saved, stained, changes>>

Init ==
    /\ data \in [Items -> Values]
    /\ saved = Nothing
    /\ stained = {}
    /\ changes = 0

Open ==
    /\ saved = Nothing
    /\ saved' \in [Items -> Values]
    /\ stained' \subseteq Items
    /\ \A i \in Items \ stained' : saved'[i] = data[i]
    /\ UNCHANGED <<data, changes>>

\* The owner writes, restores, or finds what a power loss left of its writes.
Work ==
    /\ saved # Nothing
    /\ data' \in [Items -> Values]
    /\ UNCHANGED <<saved, stained, changes>>

Close ==
    /\ saved # Nothing
    /\ data' \in [Items -> Values]
    /\ \A i \in Items \ stained : data[i] = saved[i] /\ data'[i] = saved[i]
    /\ saved' = Nothing
    /\ stained' = {}
    /\ UNCHANGED changes

\* Somebody else changes an item.
Stain(i) ==
    /\ \E v \in Values : data' = [data EXCEPT ![i] = v]
    /\ stained' = IF saved = Nothing THEN {} ELSE stained \union {i}
    /\ changes' = changes + 1
    /\ UNCHANGED saved

Next == Open \/ Work \/ Close \/ \E i \in Items : Stain(i)

Spec == Init /\ [][Next]_uvars
=============================================================================
