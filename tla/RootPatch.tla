------------------------------ MODULE RootPatch ------------------------------
(***************************************************************************)
(* Root patching and unpatching (PatchSysVolume in sys_patch.py) around    *)
(* the Mellow journal: the patch sets are copied to the live system volume *)
(* and to the data volume, the kernel collections are rebuilt, a snapshot  *)
(* of the system volume is blessed; a failure reverts to the sealed        *)
(* snapshot, restores the Mellow files, rebuilds the collections and only  *)
(* then archives the journal.                                              *)
(*                                                                         *)
(* The journal's own steps are those of MellowTransaction; here each call  *)
(* of it is one step with the outcomes that module allows.  The commands   *)
(* the code runs (mount, kmutil, bless, rm, cp, rsync) succeed or fail.    *)
(***************************************************************************)
EXTENDS Naturals

CONSTANTS
    PatchSets,      \* what the hardware and the settings select
    MaxRuns,        \* bound: calls of start_patch and start_unpatch
    MaxFaults       \* bound: failing commands, kills and crashes

\* A patch set with Mellow always needs a Kernel Debug Kit.
ASSUME PatchSetAssumption ==
    /\ PatchSets \subseteq [mellow : BOOLEAN, kdk : BOOLEAN]
    /\ \A s \in PatchSets : s.mellow => s.kdk
    /\ MaxRuns \in Nat /\ MaxFaults \in Nat

VARIABLES
    files,      \* the Mellow components on the data volume
    journal,    \* state of the Mellow receipt
    volume,     \* patches on the live system volume
    kc,         \* Mellow files linked into its boot and system kernel collections
    aux,        \* Mellow files linked into the auxiliary kernel collection
    boot,       \* the blessed snapshot: what the next start will load
    booted,     \* the snapshot that runs
    call,       \* start_patch or start_unpatch
    selected,   \* mellow_payload is not None
    own,        \* self._mellow_transaction is not None
    skip,       \* skip_root_kmutil_requirement
    succeeded,  \* constants.root_patcher_succeeded
    pc,         \* what the worker does next
    runs, faults

macVars  == <<volume, kc, aux, boot, booted>>
dataVars == <<files, journal>>
callVars == <<call, selected, own, skip>>
vars == <<macVars, dataVars, callVars, succeeded, pc, runs, faults>>

FileStates == {"original", "partial", "payload"}

\* "preparing" is also a journal without a receipt.
JournalStates == {"absent", "preparing", "prepared", "files_verified",
                  "rollback_pending", "restored"}
Saved == JournalStates \ {"absent", "preparing"}

Volumes == {"sealed", "partial", "patched"}
Snapshots == [volume : Volumes, kc : FileStates]
Sealed == [volume |-> "sealed", kc |-> "original"]

Patching == {"prepare", "preflight", "copy", "copying", "installed", "cache", "snapshot", "finish"}
Unpatching == {"revert", "clean", "restore", "recache", "finalize", "finally"}
PCs == {"idle", "mount"} \union Patching \union Unpatching

TypeOK ==
    /\ files \in FileStates /\ journal \in JournalStates
    /\ volume \in Volumes /\ kc \in FileStates /\ aux \in FileStates
    /\ boot \in Snapshots /\ booted \in Snapshots
    /\ call \in {"patch", "unpatch"}
    /\ selected \in BOOLEAN /\ own \in BOOLEAN /\ skip \in BOOLEAN /\ succeeded \in BOOLEAN
    /\ pc \in PCs
    /\ runs \in 0..MaxRuns /\ faults \in 0..MaxFaults

Init ==
    /\ files = "original" /\ journal = "absent"
    /\ volume = "sealed" /\ kc = "original" /\ aux = "original"
    /\ boot = Sealed /\ booted = Sealed
    /\ call = "unpatch" /\ selected = FALSE /\ own = FALSE /\ skip = FALSE
    /\ succeeded = FALSE
    /\ pc = "idle" /\ runs = 0 /\ faults = 0

Works == UNCHANGED faults
Fails == faults < MaxFaults /\ faults' = faults + 1

\* _unpatch_root_vol is over, by a return, an exception or sys.exit: the
\* handler of start_patch has its finally clause, start_unpatch is done.
LeaveUnpatch == pc' = IF call = "patch" THEN "finally" ELSE "idle"

-----------------------------------------------------------------------------
(* start_patch()                                                           *)

\* A new PatchSysVolume; detection refuses a system that runs patched.
StartPatch ==
    /\ pc = "idle" /\ runs < MaxRuns
    /\ booted = Sealed
    /\ \E s \in PatchSets : selected' = s.mellow /\ skip' = ~s.kdk
    /\ call' = "patch" /\ own' = FALSE /\ succeeded' = FALSE
    /\ pc' = "mount" /\ runs' = runs + 1
    /\ UNCHANGED <<macVars, dataVars, faults>>

\* Mount the system volume and check its build; start_unpatch mounts too,
\* after it looked for the KDK a journal needs.
Mount ==
    /\ pc = "mount"
    /\ \/ Works /\ pc' = IF call = "unpatch" THEN "revert"
                         ELSE IF selected THEN "prepare" ELSE "preflight"
       \/ Fails /\ pc' = "idle"
    /\ UNCHANGED <<macVars, dataVars, callVars, succeeded, runs>>

\* Mutant: a journal that cannot be prepared is logged and forgotten.
PrepareOrGoOn ==
    /\ pc = "prepare"
    /\ \/ /\ journal = "absent" /\ Works
          /\ journal' = "prepared" /\ own' = TRUE
       \/ /\ journal = "absent" /\ Fails
          /\ UNCHANGED <<journal, own>>
       \/ /\ journal # "absent" /\ Works
          /\ UNCHANGED <<journal, own>>
    /\ pc' = "preflight"
    /\ UNCHANGED <<macVars, files, call, selected, skip, succeeded, runs>>

\* "Journal preparation failure must not revert a previous installation."
PrepareJournal ==
    /\ pc = "prepare"
    /\ \/ /\ journal = "absent" /\ Works
          /\ journal' = "prepared" /\ own' = TRUE
          /\ pc' = "preflight"
       \/ /\ journal = "absent" /\ Fails
          /\ journal' \in {"absent", "preparing"}
          /\ pc' = "idle" /\ UNCHANGED own
       \/ /\ journal # "absent" /\ Works
          /\ pc' = "idle" /\ UNCHANGED <<journal, own>>
    /\ UNCHANGED <<macVars, files, call, selected, skip, succeeded, runs>>

\* Source files, leftovers, auxiliary collection, KDK merge.  Some failures are
\* exceptions, some call sys.exit, which no handler of start_patch catches.
Preflight ==
    /\ pc = "preflight"
    /\ \/ Works /\ volume' = "partial" /\ pc' = "copy"
       \/ Fails /\ volume' \in {volume, "partial"} /\ pc' \in {"revert", "idle"}
    /\ UNCHANGED <<kc, aux, boot, booted, dataVars, callVars, succeeded, runs>>

CopyFiles ==
    /\ pc = "copy"
    /\ files' = IF selected THEN "partial" ELSE files
    /\ pc' = "copying"
    /\ UNCHANGED <<macVars, journal, callVars, succeeded, runs, faults>>

\* A failing rm or cp raises; a failing rsync, a missing destination folder and
\* a failing post-install script are passed over.
FinishCopy ==
    /\ pc = "copying"
    /\ \/ /\ Works
          /\ files' = IF selected THEN "payload" ELSE files
          /\ volume' = "patched" /\ pc' = "installed"
       \/ /\ Fails
          /\ files' \in IF selected THEN {"partial", "payload"} ELSE {files}
          /\ pc' = "installed" /\ UNCHANGED volume
       \/ Fails /\ pc' = "revert" /\ UNCHANGED <<files, volume>>
    /\ UNCHANGED <<kc, aux, boot, booted, journal, callVars, succeeded, runs>>

\* transaction.installed(), for a transaction of this call only.
VerifyInstalled ==
    /\ pc = "installed"
    /\ \/ ~own /\ Works /\ pc' = "cache" /\ UNCHANGED journal
       \/ own /\ files = "payload" /\ Works /\ journal' = "files_verified" /\ pc' = "cache"
       \/ own /\ files # "payload" /\ Works /\ pc' = "revert" /\ UNCHANGED journal
       \/ own /\ Fails /\ pc' = "revert" /\ UNCHANGED journal
    /\ UNCHANGED <<macVars, files, callVars, succeeded, runs>>

\* Mutant: the result of the rebuild is not looked at.
RebuildCacheBlindly ==
    /\ pc \in {"cache", "recache"}
    /\ \/ /\ Works
          /\ kc' = IF skip THEN kc ELSE files
          /\ aux' \in IF skip \/ own \/ pc = "recache" THEN {files} ELSE {aux, files}
       \/ /\ Fails
          /\ kc' \in IF skip THEN {kc} ELSE {kc, files}
          /\ aux' \in {aux, files}
    /\ pc' = IF pc = "cache" THEN "snapshot" ELSE "finalize"
    /\ UNCHANGED <<volume, boot, booted, dataVars, callVars, succeeded, runs>>

\* _rebuild_kernel_cache, for a patch and after a restore.  A patch set without
\* KDK gets a new auxiliary collection only.  A failing kmutil may have
\* replaced a collection.
RebuildCache ==
    /\ pc \in {"cache", "recache"}
    /\ \/ /\ Works
          /\ kc' = IF skip THEN kc ELSE files
          /\ aux' \in IF skip \/ own \/ pc = "recache" THEN {files} ELSE {aux, files}
          /\ pc' = IF pc = "cache" THEN "snapshot" ELSE "finalize"
       \/ /\ Fails
          /\ kc' \in IF skip THEN {kc} ELSE {kc, files}
          /\ aux' \in {aux, files}
          /\ IF pc = "cache" THEN pc' = "revert" ELSE LeaveUnpatch
    /\ UNCHANGED <<volume, boot, booted, dataVars, callVars, succeeded, runs>>

CreateSnapshot ==
    /\ pc = "snapshot"
    /\ \/ Works /\ boot' = [volume |-> volume, kc |-> kc] /\ pc' = "finish"
       \/ Fails /\ pc' = "revert" /\ UNCHANGED boot
    /\ UNCHANGED <<volume, kc, aux, booted, dataVars, callVars, succeeded, runs>>

FinishPatch ==
    /\ pc = "finish"
    /\ succeeded' = TRUE
    /\ pc' = "idle"
    /\ UNCHANGED <<macVars, dataVars, callVars, runs, faults>>

-----------------------------------------------------------------------------
(* start_unpatch(), and the same steps in the handler of start_patch       *)

\* With a journal the primary collections have to be rebuilt.
StartUnpatch ==
    /\ pc = "idle" /\ runs < MaxRuns
    /\ call' = "unpatch" /\ selected' = FALSE /\ own' = FALSE /\ succeeded' = FALSE
    /\ skip' \in IF journal = "absent" THEN BOOLEAN ELSE {FALSE}
    /\ pc' = "mount" /\ runs' = runs + 1
    /\ UNCHANGED <<macVars, dataVars, faults>>

\* Mutant: a failing revert is logged only.
RevertOrGoOn ==
    /\ pc = "revert"
    /\ \/ Works /\ boot' = Sealed
       \/ Fails /\ UNCHANGED boot
    /\ pc' = "clean"
    /\ UNCHANGED <<volume, kc, aux, booted, dataVars, callVars, succeeded, runs>>

\* bless --last-sealed-snapshot; sys.exit when it fails.
Revert ==
    /\ pc = "revert"
    /\ \/ Works /\ boot' = Sealed /\ pc' = "clean"
       \/ Fails /\ LeaveUnpatch /\ UNCHANGED boot
    /\ UNCHANGED <<volume, kc, aux, booted, dataVars, callVars, succeeded, runs>>

\* clean_auxiliary_kc: kexts of other patch sets; Mellow.kext is not touched.
Clean ==
    /\ pc = "clean"
    /\ \/ Works /\ pc' = "restore"
       \/ Fails /\ LeaveUnpatch
    /\ UNCHANGED <<macVars, dataVars, callVars, succeeded, runs>>

\* A call of restore_installed(defer_finalize=True) that raises has changed
\* nothing, or left the components half rewritten; a restored journal is only
\* looked at.
RestoreRaises ==
    /\ Fails
    /\ \/ UNCHANGED <<files, journal>>
       \/ journal # "restored" /\ files' = "partial" /\ journal' = "rollback_pending"

\* Mutant: an interrupted restore is not taken up again.
RestoreFreshOnly ==
    /\ pc = "restore"
    /\ \/ /\ journal = "absent" /\ Works
          /\ succeeded' = TRUE
          /\ LeaveUnpatch /\ UNCHANGED dataVars
       \/ /\ journal \in {"preparing", "rollback_pending"} /\ Works
          /\ LeaveUnpatch /\ UNCHANGED <<dataVars, succeeded>>
       \/ /\ journal \in Saved \ {"rollback_pending"} /\ Works
          /\ files' = "original" /\ journal' = "restored"
          /\ pc' = "recache" /\ UNCHANGED succeeded
       \/ /\ journal \in Saved /\ RestoreRaises
          /\ LeaveUnpatch /\ UNCHANGED succeeded
    /\ UNCHANGED <<macVars, callVars, runs>>

RestoreFiles ==
    /\ pc = "restore"
    /\ \/ /\ journal = "absent" /\ Works
          /\ succeeded' = TRUE
          /\ LeaveUnpatch /\ UNCHANGED dataVars
       \/ /\ journal = "preparing" /\ Works
          /\ LeaveUnpatch /\ UNCHANGED <<dataVars, succeeded>>
       \/ /\ journal \in Saved /\ Works
          /\ files' = "original" /\ journal' = "restored"
          /\ pc' = "recache" /\ UNCHANGED succeeded
       \/ /\ journal \in Saved /\ RestoreRaises
          /\ LeaveUnpatch /\ UNCHANGED succeeded
    /\ UNCHANGED <<macVars, callVars, runs>>

\* Mutant: the receipt is marked instead of moved away, with a state STATES
\* does not have.
FinalizeInPlace ==
    /\ pc = "finalize"
    /\ \/ Works /\ journal' = "archived" /\ succeeded' = TRUE
       \/ Fails /\ UNCHANGED <<journal, succeeded>>
    /\ LeaveUnpatch
    /\ UNCHANGED <<macVars, files, callVars, runs>>

\* finalize_restore, after the collections were rebuilt.
Finalize ==
    /\ pc = "finalize"
    /\ \/ Works /\ journal' = "absent" /\ succeeded' = TRUE
       \/ Fails /\ UNCHANGED <<journal, succeeded>>
    /\ LeaveUnpatch
    /\ UNCHANGED <<macVars, files, callVars, runs>>

\* Mutant: the handler of a failed patch leaves the flag alone.
FinallyKeepsFlag ==
    /\ pc = "finally"
    /\ \/ ~(own /\ journal \in Saved) /\ Works /\ UNCHANGED dataVars
       \/ own /\ journal \in Saved /\ Works /\ files' = "original" /\ journal' = "restored"
       \/ own /\ journal \in Saved /\ RestoreRaises
    /\ pc' = "idle"
    /\ UNCHANGED <<macVars, callVars, succeeded, runs>>

\* "Even when APFS revert fails, restore the owned Mellow files."
Finally ==
    /\ pc = "finally"
    /\ \/ ~(own /\ journal \in Saved) /\ Works /\ UNCHANGED dataVars
       \/ own /\ journal \in Saved /\ Works /\ files' = "original" /\ journal' = "restored"
       \/ own /\ journal \in Saved /\ RestoreRaises
    /\ succeeded' = FALSE
    /\ pc' = "idle"
    /\ UNCHANGED <<macVars, callVars, runs>>

-----------------------------------------------------------------------------
(* The environment                                                         *)

\* The process is gone, and the flag it kept in memory.
Quit == pc' = "idle" /\ own' = FALSE /\ succeeded' = FALSE

Kill ==
    /\ pc # "idle" /\ Fails
    /\ Quit
    /\ UNCHANGED <<macVars, dataVars, call, selected, skip, runs>>

\* The machine starts the blessed snapshot.  macOS may have rolled the live
\* volume back to the sealed snapshot.
Reboot ==
    /\ IF pc = "idle" THEN Works ELSE Fails
    /\ Quit
    /\ booted' = boot
    /\ \/ UNCHANGED <<volume, kc>>
       \/ boot = Sealed /\ volume' = "sealed" /\ kc' = "original"
    /\ UNCHANGED <<aux, boot, dataVars, call, selected, skip, runs>>

Patch ==
    PrepareJournal \/ Preflight \/ CopyFiles \/ FinishCopy \/ VerifyInstalled
    \/ CreateSnapshot \/ FinishPatch
Unpatch == Revert \/ Clean \/ RestoreFiles \/ Finalize \/ Finally
WorkerStep == Mount \/ Patch \/ RebuildCache \/ Unpatch

Next == StartPatch \/ StartUnpatch \/ WorkerStep \/ Kill \/ Reboot

Spec == Init /\ [][Next]_vars

\* The process runs; nothing makes the user start one.
FairSpec == Spec /\ WF_vars(WorkerStep)

-----------------------------------------------------------------------------
(* Safety                                                                  *)

\* The success flag is only up when the work is done: a Mellow patch is copied,
\* verified, linked into the snapshot that will start and journaled; an unpatch
\* left the sealed snapshot and no journal.
SuccessMeansDone ==
    succeeded /\ pc = "idle" =>
        /\ call = "patch" => boot.volume # "sealed"
        /\ call = "patch" /\ selected =>
              /\ files = "payload" /\ journal = "files_verified"
              /\ boot.kc = "payload" /\ aux = "payload"
        /\ call = "unpatch" => boot = Sealed /\ journal = "absent"

\* Without a journal that can be restored nothing of Mellow is left: no file, no
\* collection that links one and no snapshot that would start such a collection.
NothingLeftBehind ==
    journal \notin Saved =>
        files = "original" /\ kc = "original" /\ aux = "original" /\ boot.kc = "original"

\* Whenever the machine restarts, kernel collections that were built with the
\* Mellow payload find it in place: a restore only starts to remove it when the
\* sealed snapshot is blessed.
BootFindsItsFiles ==
    boot.kc = "payload" => files = "payload" /\ journal \in {"prepared", "files_verified"}

\* docs/MELLOW_INTEGRATION.md: copy failures cannot set a patch success flag; a
\* patch with Mellow and other patch sets that succeeded copied all of them.
SuccessIsComplete == succeeded /\ pc = "idle" /\ selected => boot.volume = "patched"

\* docs/MELLOW_INTEGRATION.md: the backups are kept until the required cache work
\* is confirmed; unpatch rebuilds the kernel collection.
RebuiltBeforeArchive ==
    [][(journal \in Saved /\ journal' \notin Saved) => kc = "original" /\ aux = "original"]_vars

\* docs/MELLOW_INTEGRATION.md: installed bytes must match the validated payload
\* before the kernel cache is regenerated.
VerifiedBeforeLinking ==
    [][kc' # kc /\ kc' # "original" => journal = "files_verified"]_vars

-----------------------------------------------------------------------------
(* Refinement: root patching uses the journal as an undo log of the Mellow  *)
(* components, the abstraction MellowTransaction implements.                *)

NoCopy == [i \in {} |-> "original"]

Undo == INSTANCE UndoLog WITH
    Items <- {"mellow"},
    Values <- FileStates,
    Nothing <- NoCopy,
    data <- [i \in {"mellow"} |-> files],
    saved <- IF journal \in Saved THEN [i \in {"mellow"} |-> "original"] ELSE NoCopy,
    stained <- {},
    changes <- 0

\* Mellow files are only written under a journal of the originals, which is only
\* given up when they are back.
IsUndoLog == Undo!Spec

-----------------------------------------------------------------------------
(* Liveness                                                                *)

\* A rollback or unpatch that meets no further failure reverts, restores and
\* archives, whatever the failures before it left; the flag tells a completed
\* unpatch from a failed patch.
RollbackCompletes ==
    (pc = "revert" /\ journal # "preparing" /\ faults = MaxFaults)
        ~> (/\ pc = "idle"
            /\ succeeded = (call = "unpatch")
            /\ boot = Sealed /\ journal = "absent")
=============================================================================
