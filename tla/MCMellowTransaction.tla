------------------------- MODULE MCMellowTransaction -------------------------
(***************************************************************************)
(* A small instance of the Mellow transaction: component 1 replaces an     *)
(* earlier bundle and brings a second file, component 2 is new.            *)
(***************************************************************************)
EXTENDS MellowInvariant

MCNames == {"f", "g"}

\* Original, payload and foreign bytes; "cut" is a prefix of both the original
\* and the payload (an empty file).
MCBytes == {"old", "new", "cut", "foreign"}

MCPartial == [b \in MCBytes |-> {b, "cut"}]

MCOwners == {"user", "root"}

Bundle(owner, f, g) == [root |-> owner, file |-> [n \in Names |-> IF n = "f" THEN f ELSE g]]

MCPayload == [c \in Components |-> IF c = 1 THEN Bundle("root", "new", "new")
                                            ELSE Bundle("root", "new", Missing)]

\* Crash runs start with and without an earlier version of either component;
\* the third-party runs with an earlier version of component 1 only.
MCInitial == [c \in Components |-> {NoTree, Bundle("user", "old", Missing)}]

MCUpgrade == [c \in Components |-> {IF c = 1 THEN Bundle("user", "old", Missing) ELSE NoTree}]
=============================================================================
