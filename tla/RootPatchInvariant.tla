-------------------------- MODULE RootPatchInvariant --------------------------
(***************************************************************************)
(* The inductive invariants behind the safety properties of RootPatch:     *)
(* what each program point knows about the call, the journal, the files    *)
(* and the collections.                                                    *)
(***************************************************************************)
EXTENDS RootPatch

\* Who runs: a transaction belongs to a call of start_patch with Mellow.
CallInv ==
    /\ own => selected
    /\ selected => call = "patch" /\ ~skip
    /\ pc \in Patching \union {"finally"} => call = "patch"
    /\ pc = "mount" => ~own
    /\ pc = "prepare" => selected
    /\ pc \in Patching \ {"prepare"} => own = selected
    /\ pc \notin {"idle", "finally"} => ~succeeded

\* What a patch has reached.
PatchInv ==
    /\ pc \in {"preflight", "copy", "copying", "installed"} /\ own => journal = "prepared"
    /\ pc \in {"cache", "snapshot", "finish"} /\ own =>
          journal = "files_verified" /\ files = "payload"
    /\ pc \in {"snapshot", "finish"} /\ own => kc = "payload" /\ aux = "payload"
    /\ pc \in {"copy", "copying", "installed", "cache", "snapshot"} => volume # "sealed"
    /\ pc = "finish" => boot.volume # "sealed" /\ boot.kc = kc

\* What an unpatch has reached.
UnpatchInv ==
    /\ pc \in {"clean", "restore", "recache", "finalize"} => boot = Sealed
    /\ pc \in {"recache", "finalize"} => journal = "restored" /\ files = "original"

\* Mellow files are only there under a journal that can bring the originals back.
FilesInv ==
    /\ files # "original" => journal \in Saved \ {"restored"}
    /\ files = "payload" => journal \in {"prepared", "files_verified"}

StageInv == CallInv /\ PatchInv /\ UnpatchInv /\ FilesInv /\ SuccessMeansDone

\* Every patch set needs a KDK, so every rebuild includes the primary collections.
KdkOnly == \A s \in PatchSets : s.kdk

\* The collections, for such patch sets.
CacheInv ==
    /\ call = "patch" => ~skip
    /\ pc # "idle" /\ journal \in Saved => ~skip
    /\ pc = "snapshot" => kc = files
    /\ pc = "finalize" => kc = "original" /\ aux = "original"
    /\ own /\ pc \notin {"idle", "mount", "finish"} => boot.kc = "original"

LinkInv == CacheInv /\ NothingLeftBehind /\ BootFindsItsFiles
=============================================================================
