-------------------------- MODULE MellowTransaction --------------------------
(***************************************************************************)
(* The journaled transaction of src/x86/mellow/transaction.py, with the    *)
(* copy its caller performs between prepare() and installed() and with     *)
(* what can go wrong around it: an exception or a crash after any step, a  *)
(* power loss that drops whatever was not fsynced, and a third party that  *)
(* edits the live components at any moment.                                *)
(*                                                                         *)
(* One process works on the journal at a time (the root worker).  Its      *)
(* program point is "pc"; a step is one file-system operation, or one read *)
(* whose result a later step relies on.  A receipt write (temporary file,  *)
(* fsync, os.replace, directory fsync) and the archive rename with its     *)
(* fsyncs are single steps: cut short they leave the old or the new state. *)
(***************************************************************************)
EXTENDS Bundles

CONSTANTS
    N,              \* number of components, 1..3 in the code
    Payload,        \* Payload[c]: the validated tree of component c
    Initial,        \* Initial[c]: what c may be before the first transaction
    Worker,         \* owner of what the root worker creates
    MaxTx,          \* bound: transactions prepared
    MaxFaults,      \* bound: exceptions, crashes and power losses
    MaxEdits        \* bound: edits by third parties

Components == 1..N

ASSUME TransactionAssumption ==
    /\ N \in Nat \ {0}
    /\ Payload \in [Components -> Tree]
    /\ \A c \in Components : Exists(Payload[c])
    /\ Initial \in [Components -> SUBSET Tree]
    /\ \A c \in Components : \A t \in Initial[c] : Exists(t) \/ t = NoTree
    /\ Worker \in Owners
    /\ MaxTx \in Nat /\ MaxFaults \in Nat /\ MaxEdits \in Nat

VARIABLES
    target,     \* the live components, as any process reads them
    disk,       \* their durable image
    active,     \* journal/active exists
    linked,     \* ... and its directory entry is durable
    receipt,    \* state in receipt.json, "none" when there is no receipt
    original,   \* record["components"][c]["original"]
    backups,    \* journal/active/backups
    expected,   \* journal/active/expected
    synced,     \* backups and expected are durable
    pc,         \* what the worker does next
    cur,        \* component it works on
    todo,       \* file names left to remove or to copy
    defer,      \* defer_finalize of the running restore
    touched,    \* history: components a third party edited since prepare read them
    late,       \* history: entries a third party edited since the running restore last
                \* checked their component, or since it began
    txs, faults, edits      \* counts behind the bounds

liveVars    == <<target, disk>>
journalVars == <<active, linked, receipt, original, backups, expected, synced>>
workVars    == <<cur, todo, defer>>
envVars     == <<touched, late, faults, edits>>
vars == <<liveVars, journalVars, pc, workVars, envVars, txs>>

Receipts == {"none", "preparing", "prepared", "files_verified",
             "rollback_pending", "restored"}

\* States in which the originals are known to be backed up.
Saved == {"prepared", "files_verified", "rollback_pending", "restored"}

\* Program points between which the caller copies the payload ...
Installing == {"install", "listold", "rm", "mkbundle", "cp"}
\* ... and between which _restore rewrites the components.
Restoring == {"compare", "reown", "list", "rmtree", "mkdirs", "copytree", "readback", "flush"}

PCs == Installing \union Restoring \union
    {"idle", "mkdir", "preparing", "snapshot", "check", "sync", "recheck", "publish",
     "link", "installed", "verified", "owned", "pending", "restored", "assert", "archive"}

TypeOK ==
    /\ target \in [Components -> Tree]
    /\ disk \in [Components -> Tree]
    /\ active \in BOOLEAN /\ linked \in BOOLEAN /\ synced \in BOOLEAN
    /\ receipt \in Receipts
    /\ original \in [Components -> Tree]
    /\ backups \in [Components -> Tree]
    /\ expected \in [Components -> Tree]
    /\ pc \in PCs
    /\ cur \in Components
    /\ todo \subseteq Names
    /\ defer \in BOOLEAN
    /\ touched \subseteq Components
    /\ late \subseteq Components \X Names
    /\ txs \in 0..MaxTx /\ faults \in 0..MaxFaults /\ edits \in 0..MaxEdits

Init ==
    /\ target \in {t \in [Components -> Tree] : \A c \in Components : t[c] \in Initial[c]}
    /\ disk = target
    /\ active = FALSE /\ linked = FALSE /\ synced = FALSE
    /\ receipt = "none"
    /\ original = [c \in Components |-> NoTree]
    /\ backups = [c \in Components |-> NoTree]
    /\ expected = [c \in Components |-> NoTree]
    /\ pc = "idle" /\ cur = 1 /\ todo = {} /\ defer = FALSE
    /\ touched = {} /\ late = {}
    /\ txs = 0 /\ faults = 0 /\ edits = 0

\* _assert_snapshots would pass.
SnapshotsMatch ==
    \A c \in Components :
        /\ SameBytes(backups[c], original[c])
        /\ SameBytes(expected[c], Payload[c])

\* A check either lets the worker go on at "next" or raises TransactionError.
Proceed(ok, next) == pc' = IF ok THEN next ELSE "idle"

\* One change to the live component the worker is at; not yet durable.
Change(tree) ==
    /\ target' = [target EXCEPT ![cur] = tree]
    /\ UNCHANGED disk

-----------------------------------------------------------------------------
(* prepare()                                                               *)

\* No journal is pending: read the originals.
BeginPrepare ==
    /\ pc = "idle" /\ ~active /\ txs < MaxTx
    /\ txs' = txs + 1
    /\ original' = target
    /\ touched' = {}
    /\ pc' = "mkdir"
    /\ UNCHANGED <<liveVars, active, linked, receipt, backups, expected, synced, workVars,
                   late, faults, edits>>

\* active.mkdir: the directory is there, without a receipt and not yet durable.
CreateJournal ==
    /\ pc = "mkdir"
    /\ active' = TRUE /\ linked' = FALSE /\ synced' = FALSE
    /\ receipt' = "none"
    /\ backups' = [c \in Components |-> NoTree]
    /\ expected' = [c \in Components |-> NoTree]
    /\ pc' = "preparing"
    /\ UNCHANGED <<liveVars, original, workVars, envVars, txs>>

WritePreparing ==
    /\ pc = "preparing"
    /\ receipt' = "preparing"
    /\ pc' = "snapshot"
    /\ cur' = 1
    /\ UNCHANGED <<liveVars, active, linked, original, backups, expected, synced, todo, defer,
                   envVars, txs>>

\* Copy one component and its payload into the journal.  copytree raises when
\* the component it recorded has disappeared.
CopySnapshot ==
    /\ pc = "snapshot"
    /\ LET ok == Exists(original[cur]) => Exists(target[cur]) IN
       /\ backups' = IF ok /\ Exists(original[cur])
                     THEN [backups EXCEPT ![cur] = [target[cur] EXCEPT !.root = Worker]]
                     ELSE backups
       /\ expected' = IF ok THEN [expected EXCEPT ![cur] = Payload[cur]] ELSE expected
       /\ IF ok /\ cur < N
          THEN cur' = cur + 1 /\ pc' = pc
          ELSE Proceed(ok, "check") /\ UNCHANGED cur
    /\ UNCHANGED <<liveVars, active, linked, receipt, original, synced, todo, defer, envVars, txs>>

CheckSnapshots ==
    /\ pc = "check"
    /\ Proceed(SnapshotsMatch, "sync")
    /\ UNCHANGED <<liveVars, journalVars, workVars, envVars, txs>>

\* Mutant: the snapshots stay in the cache.
SkipSync ==
    /\ pc = "sync"
    /\ pc' = "recheck"
    /\ UNCHANGED <<liveVars, journalVars, workVars, envVars, txs>>

SyncSnapshots ==
    /\ pc = "sync"
    /\ synced' = TRUE
    /\ pc' = "recheck"
    /\ UNCHANGED <<liveVars, active, linked, receipt, original, backups, expected, workVars,
                   envVars, txs>>

\* "A concurrent change invalidates prepare."
RecheckOriginals ==
    /\ pc = "recheck"
    /\ Proceed(target = original, "publish")
    /\ UNCHANGED <<liveVars, journalVars, workVars, envVars, txs>>

WritePrepared ==
    /\ pc = "publish"
    /\ receipt' = "prepared"
    /\ pc' = "link"
    /\ UNCHANGED <<liveVars, active, linked, original, backups, expected, synced, workVars,
                   envVars, txs>>

\* Mutant: prepare() returns before the journal directory is durable.
SkipLink ==
    /\ pc = "link"
    /\ pc' = "install" /\ cur' = 1
    /\ UNCHANGED <<liveVars, journalVars, todo, defer, envVars, txs>>

\* Sync the journal directory and every new parent; prepare() returns and the
\* caller starts to copy.
LinkJournal ==
    /\ pc = "link"
    /\ linked' = TRUE
    /\ pc' = "install" /\ cur' = 1
    /\ UNCHANGED <<liveVars, active, receipt, original, backups, expected, synced, todo, defer,
                   envVars, txs>>

-----------------------------------------------------------------------------
(* Removing a component and copying one into its place.  The caller does it *)
(* with rm -R and cp -R (install_new_file), _restore with shutil.rmtree and *)
(* shutil.copytree.                                                         *)

\* install_new_file: an existing bundle is removed first.
InstallComponent ==
    /\ pc = "install"
    /\ pc' = IF Exists(target[cur]) THEN "listold" ELSE "mkbundle"
    /\ UNCHANGED <<liveVars, journalVars, workVars, envVars, txs>>

\* ... and a component whose destination folder does not exist is passed over:
\* installed() will find it missing.
SkipComponent ==
    /\ pc = "install" /\ ~Exists(target[cur])
    /\ IF cur < N
       THEN cur' = cur + 1 /\ pc' = pc
       ELSE pc' = "installed" /\ UNCHANGED cur
    /\ UNCHANGED <<liveVars, journalVars, todo, defer, envVars, txs>>

\* The removal reads the directory it is about to empty.
ListForRemoval ==
    /\ pc \in {"listold", "list"}
    /\ todo' = Present(target[cur])
    /\ pc' = IF pc = "listold" THEN "rm" ELSE "rmtree"
    /\ UNCHANGED <<liveVars, journalVars, cur, defer, envVars, txs>>

\* Unlink one listed entry; it fails when somebody else already did.
RemoveEntry ==
    /\ pc \in {"rm", "rmtree"}
    /\ \E n \in todo :
          IF target[cur].file[n] # Missing
          THEN /\ Change([target[cur] EXCEPT !.file[n] = Missing])
               /\ todo' = todo \ {n}
               /\ pc' = pc
          ELSE pc' = "idle" /\ UNCHANGED <<liveVars, todo>>
    /\ UNCHANGED <<journalVars, cur, defer, envVars, txs>>

\* Remove the emptied directory; it fails when an entry appeared meanwhile.
RemoveRoot ==
    /\ pc \in {"rm", "rmtree"} /\ todo = {}
    /\ IF Present(target[cur]) = {}
       THEN /\ Change(NoTree)
            /\ pc' = IF pc = "rm" THEN "mkbundle"
                     ELSE IF Exists(original[cur]) THEN "mkdirs" ELSE "readback"
       ELSE pc' = "idle" /\ UNCHANGED liveVars
    /\ UNCHANGED <<journalVars, workVars, envVars, txs>>

Source == IF pc \in {"mkbundle", "cp"} THEN Payload[cur] ELSE backups[cur]

\* cp -R merges into an existing directory, copytree refuses it.
CreateRoot ==
    /\ pc \in {"mkbundle", "mkdirs"}
    /\ IF pc = "mkbundle" \/ ~Exists(target[cur])
       THEN /\ IF Exists(target[cur])
               THEN UNCHANGED liveVars
               ELSE Change([target[cur] EXCEPT !.root = Worker])
            /\ todo' = Present(Source)
            /\ pc' = IF pc = "mkbundle" THEN "cp" ELSE "copytree"
       ELSE pc' = "idle" /\ UNCHANGED <<liveVars, todo>>
    /\ UNCHANGED <<journalVars, cur, defer, envVars, txs>>

\* A file is being written: a part of its bytes is there.
CopyPart ==
    /\ pc \in {"cp", "copytree"}
    /\ \E n \in todo, b \in Bytes :
          /\ MatchesPartial(b, Source.file[n])
          /\ Change([target[cur] EXCEPT !.file[n] = b])
    /\ UNCHANGED <<journalVars, pc, workVars, envVars, txs>>

CopyEntry ==
    /\ pc \in {"cp", "copytree"}
    /\ \E n \in todo :
          /\ Change([target[cur] EXCEPT !.file[n] = Source.file[n]])
          /\ todo' = todo \ {n}
    /\ UNCHANGED <<journalVars, pc, cur, defer, envVars, txs>>

\* fix_permissions after cp; the caller goes on to the next component.
FinishInstall ==
    /\ pc = "cp" /\ todo = {}
    /\ Change([target[cur] EXCEPT !.root = Worker])
    /\ IF cur < N
       THEN cur' = cur + 1 /\ pc' = "install"
       ELSE pc' = "installed" /\ UNCHANGED cur
    /\ UNCHANGED <<journalVars, todo, defer, envVars, txs>>

\* _restore_metadata after copytree.
RestoreMetadata ==
    /\ pc = "copytree" /\ todo = {}
    /\ Change([target[cur] EXCEPT !.root = original[cur].root])
    /\ pc' = "readback"
    /\ UNCHANGED <<journalVars, workVars, envVars, txs>>

-----------------------------------------------------------------------------
(* installed()                                                             *)

VerifyInstalled ==
    /\ pc = "installed"
    /\ Proceed(/\ receipt = "prepared"
               /\ SnapshotsMatch
               /\ \A c \in Components : SameBytes(target[c], Payload[c]), "verified")
    /\ UNCHANGED <<liveVars, journalVars, workVars, envVars, txs>>

WriteVerified ==
    /\ pc = "verified"
    /\ receipt' = "files_verified"
    /\ pc' = "idle"
    /\ UNCHANGED <<liveVars, active, linked, original, backups, expected, synced, workVars,
                   envVars, txs>>

-----------------------------------------------------------------------------
(* rollback(), restore_installed() and finalize_restore().  A journal that *)
(* never got past "preparing" is refused: nothing was written.             *)

\* Mutant: the check starts, like the writes, at the last component.
BeginAtLast ==
    /\ pc = "idle" /\ active
    /\ receipt \in {"prepared", "files_verified", "rollback_pending"}
    /\ SnapshotsMatch
    /\ pc' = "owned" /\ cur' = N
    /\ defer' \in BOOLEAN
    /\ late' = {}
    /\ UNCHANGED <<liveVars, journalVars, todo, touched, faults, edits, txs>>

BeginRestore ==
    /\ pc = "idle" /\ active
    /\ receipt \in {"prepared", "files_verified", "rollback_pending"}
    /\ SnapshotsMatch
    /\ pc' = "owned" /\ cur' = 1
    /\ defer' \in BOOLEAN
    /\ late' = {}
    /\ UNCHANGED <<liveVars, journalVars, todo, touched, faults, edits, txs>>

\* Mutant: a restored journal is archived without another look.
FinalizeBlindly ==
    /\ pc = "idle" /\ active /\ receipt = "restored"
    /\ SnapshotsMatch
    /\ pc' = "archive"
    /\ late' = {}
    /\ UNCHANGED <<liveVars, journalVars, workVars, touched, faults, edits, txs>>

\* finalize_restore(), or _restore called on a restored journal.  With
\* defer_finalize the latter only checks, which changes nothing.
BeginFinalize ==
    /\ pc = "idle" /\ active /\ receipt = "restored"
    /\ SnapshotsMatch
    /\ pc' = "assert"
    /\ late' = {}
    /\ UNCHANGED <<liveVars, journalVars, workVars, touched, faults, edits, txs>>

\* _owned_current for every component before anything is written.
CheckOwned ==
    /\ pc = "owned"
    /\ LET ok == Owned(target[cur], original[cur], Payload[cur]) IN
       /\ IF ok /\ cur < N
          THEN cur' = cur + 1 /\ pc' = pc
          ELSE Proceed(ok, "pending") /\ UNCHANGED cur
       /\ late' = IF ok THEN late \ ({cur} \X Names) ELSE late
    /\ UNCHANGED <<liveVars, journalVars, todo, defer, touched, faults, edits, txs>>

WritePending ==
    /\ pc = "pending"
    /\ receipt' = "rollback_pending"
    /\ pc' = "compare" /\ cur' = N
    /\ UNCHANGED <<liveVars, active, linked, original, backups, expected, synced, todo, defer,
                   envVars, txs>>

\* Mutant: a component that reads back as its original is taken for done.
CompareCachedOnly ==
    /\ pc = "compare"
    /\ IF target[cur] = original[cur]
       THEN IF cur > 1 THEN cur' = cur - 1 /\ pc' = pc ELSE pc' = "restored" /\ UNCHANGED cur
       ELSE pc' = (IF Exists(target[cur]) THEN "reown" ELSE "mkdirs") /\ UNCHANGED cur
    /\ UNCHANGED <<liveVars, journalVars, todo, defer, envVars, txs>>

\* Mutant: the backup is copied over what is there.
CompareWithoutRemoval ==
    /\ pc = "compare"
    /\ pc' = IF target[cur] = original[cur] THEN "flush" ELSE "mkdirs"
    /\ UNCHANGED <<liveVars, journalVars, workVars, envVars, txs>>

\* A component that already is its original only has to be flushed: an
\* earlier attempt may have left it in the cache.
Compare ==
    /\ pc = "compare"
    /\ pc' = IF target[cur] = original[cur] THEN "flush"
             ELSE IF Exists(target[cur]) THEN "reown" ELSE "mkdirs"
    /\ UNCHANGED <<liveVars, journalVars, workVars, envVars, txs>>

CheckOwnedAgain ==
    /\ pc = "reown"
    /\ LET ok == Owned(target[cur], original[cur], Payload[cur]) IN
       /\ Proceed(ok, "list")
       /\ late' = IF ok THEN late \ ({cur} \X Names) ELSE late
    /\ UNCHANGED <<liveVars, journalVars, workVars, touched, faults, edits, txs>>

Readback ==
    /\ pc = "readback"
    /\ Proceed(target[cur] = original[cur], "flush")
    /\ UNCHANGED <<liveVars, journalVars, workVars, envVars, txs>>

\* Mutant: the cursor runs past the first component.
FlushPastFirst ==
    /\ pc = "flush"
    /\ disk' = [disk EXCEPT ![cur] = target[cur]]
    /\ cur' = cur - 1
    /\ pc' = IF cur > 1 THEN "compare" ELSE "restored"
    /\ UNCHANGED <<target, journalVars, todo, defer, envVars, txs>>

\* Mutant: nothing is flushed.
FlushNothing ==
    /\ pc = "flush"
    /\ IF cur > 1
       THEN cur' = cur - 1 /\ pc' = "compare"
       ELSE pc' = "restored" /\ UNCHANGED cur
    /\ UNCHANGED <<liveVars, journalVars, todo, defer, envVars, txs>>

\* _sync_tree and the sync of the parent directory; on to the next component.
Flush ==
    /\ pc = "flush"
    /\ disk' = [disk EXCEPT ![cur] = target[cur]]
    /\ IF cur > 1
       THEN cur' = cur - 1 /\ pc' = "compare"
       ELSE pc' = "restored" /\ UNCHANGED cur
    /\ UNCHANGED <<target, journalVars, todo, defer, envVars, txs>>

WriteRestored ==
    /\ pc = "restored"
    /\ receipt' = "restored"
    /\ pc' = IF defer THEN "idle" ELSE "assert"
    /\ UNCHANGED <<liveVars, active, linked, original, backups, expected, synced, workVars,
                   envVars, txs>>

AssertRestored ==
    /\ pc = "assert"
    /\ Proceed(target = original, "archive")
    /\ late' = IF target = original THEN {} ELSE late
    /\ UNCHANGED <<liveVars, journalVars, workVars, touched, faults, edits, txs>>

\* os.replace of journal/active by journal/history/<transaction_id>.
Archive ==
    /\ pc = "archive"
    /\ active' = FALSE /\ linked' = FALSE /\ synced' = FALSE
    /\ receipt' = "none"
    /\ pc' = "idle"
    /\ UNCHANGED <<liveVars, original, backups, expected, workVars, envVars, txs>>

-----------------------------------------------------------------------------
(* The environment                                                         *)

\* The worker is gone, and its local variables with it.
Quit == pc' = "idle" /\ cur' = 1 /\ todo' = {} /\ defer' = FALSE

\* An exception out of any step (OSError, a failing helper, KeyboardInterrupt)
\* or a crash of the process: what was written stays, cached or not.
Interrupt ==
    /\ pc # "idle" /\ faults < MaxFaults
    /\ faults' = faults + 1
    /\ Quit
    /\ UNCHANGED <<liveVars, journalVars, touched, late, edits, txs>>

\* A snapshot that lost any entry is as good as gone, so it is lost as a whole.
Losses(trees) ==
    {[c \in Components |-> IF c \in kept THEN trees[c] ELSE NoTree] : kept \in SUBSET Components}

\* The machine loses power: what was not fsynced may be lost.
PowerLoss ==
    /\ faults < MaxFaults
    /\ faults' = faults + 1
    /\ Quit
    /\ LET outcome == [c \in Components |-> AfterPowerLoss(disk[c], target[c])] IN
       target' \in {t \in [Components -> UNION {outcome[c] : c \in Components}] :
                       \A c \in Components : t[c] \in outcome[c]}
    /\ disk' = target'
    /\ active' \in (IF active /\ ~linked THEN BOOLEAN ELSE {active})
    /\ linked' = active'
    /\ receipt' = IF active' THEN receipt ELSE "none"
    /\ backups' \in (IF active' /\ ~synced THEN Losses(backups) ELSE {backups})
    /\ expected' \in (IF active' /\ ~synced THEN Losses(expected) ELSE {expected})
    /\ synced' = active'
    /\ UNCHANGED <<original, touched, late, edits, txs>>

\* Somebody else writes, creates or deletes a file of a component, durably.
ThirdParty ==
    /\ edits < MaxEdits
    /\ edits' = edits + 1
    /\ \E c \in Components, n \in Names, b \in Content, o \in Owners :
          /\ b # target[c].file[n]
          /\ Exists(target[c]) => o = target[c].root
          /\ b = Missing => Exists(target[c])
          /\ target' = [target EXCEPT ![c] = Edit(@, n, b, o)]
          /\ disk' = [disk EXCEPT ![c] = Edit(@, n, b, o)]
          /\ touched' = touched \union {c}
          /\ late' = late \union {<<c, n>>}
    /\ UNCHANGED <<journalVars, pc, workVars, faults, txs>>

Prepare ==
    BeginPrepare \/ CreateJournal \/ WritePreparing \/ CopySnapshot \/ CheckSnapshots
    \/ SyncSnapshots \/ RecheckOriginals \/ WritePrepared \/ LinkJournal

Replace ==
    ListForRemoval \/ RemoveEntry \/ RemoveRoot \/ CreateRoot \/ CopyPart \/ CopyEntry

Install ==
    InstallComponent \/ SkipComponent \/ FinishInstall \/ VerifyInstalled \/ WriteVerified

Restore ==
    BeginRestore \/ BeginFinalize \/ CheckOwned \/ WritePending \/ Compare \/ CheckOwnedAgain
    \/ RestoreMetadata \/ Readback \/ Flush \/ WriteRestored \/ AssertRestored \/ Archive

WorkerStep == Prepare \/ Install \/ Replace \/ Restore

Next == WorkerStep \/ Interrupt \/ PowerLoss \/ ThirdParty

Spec == Init /\ [][Next]_vars

-----------------------------------------------------------------------------
(* Safety                                                                  *)

\* Once the receipt says the originals are saved, the snapshots in the journal
\* are the originals and the payload, and they survive a power loss: this is
\* what every later restore copies from.
BackupsIntact ==
    active /\ receipt \in Saved => synced /\ SnapshotsMatch

\* A receipt in state "restored" is only written over components that are back
\* to their originals, bytes and metadata, on the disk and not only in the
\* cache.  A component a third party edited since is left to AssertRestored.
RestoredIsDurable ==
    active /\ receipt = "restored" =>
        \A c \in Components \ touched :
            target[c] = original[c] /\ disk[c] = original[c]

\* Whatever exception, crash or power loss interrupts the copy or the restore,
\* the next restore will recognise what it finds, so an unpatch never gets
\* stuck on the debris of its own predecessors.
DebrisIsRecognised ==
    active /\ receipt \in Saved =>
        \A c \in Components \ touched :
            /\ Owned(target[c], original[c], Payload[c])
            /\ Owned(disk[c], original[c], Payload[c])

\* No journal, no debt: while no transaction is pending the live components
\* are durable, so a power loss cannot bring back what an unpatch removed.
SettledIsDurable == ~active => disk = target

\* A restore that refuses one component refuses before it rewrites any: no step
\* of _restore changes a live component while some component holds unrecognised
\* bytes that were there when its ownership was checked.
RefusesBeforeWriting ==
    [][(WorkerStep /\ pc \in Restoring /\ target' # target) =>
          \A c \in Components, n \in Names :
             Unrecognised(target[c], n, original[c], Payload[c]) => <<c, n>> \in late]_vars

\* The journal leaves "active" only when every component, whoever wrote it last,
\* was seen to be its original: a restored transaction that was tampered with
\* before its finalization keeps its receipt and its backups in place.
ArchivesOnlyRestored ==
    [][active /\ ~active' /\ pc = "archive" =>
          \A c \in Components, n \in Names :
             target[c].file[n] # original[c].file[n] => <<c, n>> \in late]_vars

\* The claim of the module docstring, without exception: concurrent third-party
\* writes are not overwritten by a restoration.
NeverOverwritesForeign ==
    [][(WorkerStep /\ pc \in Restoring) =>
          \A c \in Components, n \in Names :
             Unrecognised(target[c], n, original[c], Payload[c])
                => target'[c].file[n] = target[c].file[n]]_vars

-----------------------------------------------------------------------------
(* Refinement: the journal is an undo log.  The originals count as saved    *)
(* from the receipt "prepared" until the archive.                          *)

CONSTANT NotSaved
ASSUME NotSavedAssumption == NotSaved \notin [Components -> Tree]

InForce == active /\ receipt \in Saved

Undo == INSTANCE UndoLog WITH
    Items <- Components,
    Values <- Tree,
    Nothing <- NotSaved,
    data <- target,
    saved <- IF InForce THEN original ELSE NotSaved,
    stained <- IF InForce THEN touched ELSE {},
    changes <- edits

\* The worker changes the live components only under a journal of their
\* originals, and the journal goes away, archived or lost with the power, only
\* when every component nobody else edited is what it was: no exception, crash
\* or power loss can lose an original.
IsUndoLog == Undo!Spec

-----------------------------------------------------------------------------
(* Liveness: the scheduler keeps running a worker that has something to do; *)
(* nothing forces the caller to start an operation.                         *)

Progress ==
    Prepare \/ Install \/ Restore \/ ListForRemoval \/ RemoveEntry \/ RemoveRoot
    \/ CreateRoot \/ CopyEntry

Running == pc # "idle" /\ Progress

FairSpec == Spec /\ WF_vars(Running)

\* A restore of a journal nobody tampered with, once it runs without another
\* fault or edit, brings every component back and leaves the journal restored
\* or archived.  It holds from every debris the faults before it left.
RestoreCompletes ==
    (pc = "owned" /\ faults = MaxFaults /\ edits = MaxEdits /\ touched = {})
        ~> (pc = "idle" /\ target = original /\ (~active \/ receipt = "restored"))
=============================================================================
