----------------------------- MODULE MellowProofs -----------------------------
(***************************************************************************)
(* Proofs about the Mellow transaction, for any number of components, any  *)
(* file names, bytes and payload, and any number of transactions, faults   *)
(* and third-party edits: its types, the inductive invariant IInv of       *)
(* MellowInvariant and what follows from it, and that the transaction      *)
(* implements the undo log of UndoLog.                                     *)
(***************************************************************************)
EXTENDS MellowInvariant, TLAPS

-----------------------------------------------------------------------------
(* Trees                                                                   *)

\* Writing, truncating or unlinking one file of a tree gives a tree.
LEMMA EditFile ==
    ASSUME NEW t \in Tree, NEW n \in Names, NEW b \in Content
    PROVE  [t EXCEPT !.file[n] = b] \in Tree
BY DEF Tree

\* Changing the owner of a tree gives a tree.
LEMMA EditRoot ==
    ASSUME NEW t \in Tree, NEW o \in Owners \union {Missing}
    PROVE  [t EXCEPT !.root = o] \in Tree
BY DEF Tree

LEMMA NoTreeIsTree == NoTree \in Tree
BY DEF NoTree, Tree, Content

\* A power loss turns a tree into a tree.
LEMMA PowerLossTree ==
    ASSUME NEW d \in Tree, NEW t \in Tree, NEW m \in AfterPowerLoss(d, t)
    PROVE  m \in Tree
BY DEF AfterPowerLoss, Survivors

\* A power loss leaves a synced component as it is.
LEMMA PowerLossSynced ==
    ASSUME NEW t, NEW m \in AfterPowerLoss(t, t)
    PROVE  m = t
BY DEF AfterPowerLoss

\* What PowerLoss does to the live components.
LEMMA PowerLossTarget ==
    ASSUME TypeOK, PowerLoss
    PROVE  /\ target' \in [Components -> Tree]
           /\ \A c \in Components : target'[c] \in AfterPowerLoss(disk[c], target[c])
<1> DEFINE outcome == [c \in Components |-> AfterPowerLoss(disk[c], target[c])]
<1>1. /\ target' \in [Components -> UNION {outcome[c] : c \in Components}]
      /\ \A c \in Components : target'[c] \in outcome[c]
  BY DEF PowerLoss
<1>2. \A c \in Components : target'[c] \in AfterPowerLoss(disk[c], target[c])
  BY <1>1
<1>3. \A c \in Components : target'[c] \in Tree
  BY <1>2, PowerLossTree DEF TypeOK
<1>4. target' \in [Components -> Tree]
  <2>1. target' = [c \in Components |-> target'[c]]
    BY <1>1
  <2> QED BY <2>1, <1>3
<1> QED BY <1>2, <1>4

-----------------------------------------------------------------------------
(* Types                                                                   *)

LEMMA ComponentsType == Components \subseteq Nat /\ 1 \in Components /\ N \in Components
BY TransactionAssumption DEF Components

\* A change of the component at the cursor keeps the components typed.
LEMMA ChangeType ==
    ASSUME TypeOK, NEW t \in Tree, Change(t)
    PROVE  target' \in [Components -> Tree] /\ disk' \in [Components -> Tree]
BY DEF TypeOK, Change

\* Initially every variable has its type.
LEMMA InitType == Init => TypeOK
<1> SUFFICES ASSUME Init PROVE TypeOK
  OBVIOUS
<1> USE NoTreeIsTree, ComponentsType, TransactionAssumption
<1>1. target \in [Components -> Tree] /\ disk \in [Components -> Tree]
  BY DEF Init
<1>2. /\ original \in [Components -> Tree]
      /\ backups \in [Components -> Tree]
      /\ expected \in [Components -> Tree]
  BY DEF Init
<1>3. cur \in Components /\ touched \subseteq Components /\ late \subseteq Components \X Names
  BY DEF Init
<1>4. txs \in 0..MaxTx /\ faults \in 0..MaxFaults /\ edits \in 0..MaxEdits
  BY DEF Init
<1>5. pc \in PCs /\ receipt \in Receipts /\ todo \subseteq Names
  BY DEF Init, PCs, Receipts
<1> QED BY <1>1, <1>2, <1>3, <1>4, <1>5 DEF Init, TypeOK

\* The steps of prepare() keep the types.
LEMMA PrepareType == TypeOK /\ Prepare => TypeOK'
<1> SUFFICES ASSUME TypeOK, Prepare PROVE TypeOK'
  OBVIOUS
<1> USE NoTreeIsTree, ComponentsType, TransactionAssumption
    DEF TypeOK, liveVars, journalVars, workVars, envVars, PCs, Receipts, Proceed
<1>1. CASE BeginPrepare BY <1>1 DEF BeginPrepare
<1>2. CASE CreateJournal BY <1>2 DEF CreateJournal
<1>3. CASE WritePreparing BY <1>3 DEF WritePreparing
<1>4. CASE CopySnapshot
  <2>1. [target[cur] EXCEPT !.root = Worker] \in Tree
    BY EditRoot
  <2>2. backups' \in [Components -> Tree] /\ expected' \in [Components -> Tree]
    BY <1>4, <2>1 DEF CopySnapshot
  <2>3. cur' \in Components /\ pc' \in PCs
    BY <1>4 DEF CopySnapshot, Components
  <2> QED BY <1>4, <2>2, <2>3 DEF CopySnapshot
<1>5. CASE CheckSnapshots BY <1>5 DEF CheckSnapshots
<1>6. CASE SyncSnapshots BY <1>6 DEF SyncSnapshots
<1>7. CASE RecheckOriginals BY <1>7 DEF RecheckOriginals
<1>8. CASE WritePrepared BY <1>8 DEF WritePrepared
<1>9. CASE LinkJournal BY <1>9 DEF LinkJournal, Installing
<1> QED
  BY <1>1, <1>2, <1>3, <1>4, <1>5, <1>6, <1>7, <1>8, <1>9 DEF Prepare

\* Removing and copying components keeps the types.
LEMMA ReplaceType == TypeOK /\ Replace => TypeOK'
<1> SUFFICES ASSUME TypeOK, Replace PROVE TypeOK'
  OBVIOUS
<1> USE NoTreeIsTree, ComponentsType, TransactionAssumption
    DEF TypeOK, liveVars, journalVars, workVars, envVars
<1>1. CASE ListForRemoval
  BY <1>1 DEF ListForRemoval, Present, PCs, Installing, Restoring
<1>2. CASE RemoveEntry
  <2> PICK n \in todo :
        IF target[cur].file[n] # Missing
        THEN /\ Change([target[cur] EXCEPT !.file[n] = Missing])
             /\ todo' = todo \ {n}
             /\ pc' = pc
        ELSE pc' = "idle" /\ UNCHANGED <<liveVars, todo>>
    BY <1>2 DEF RemoveEntry
  <2>1. [target[cur] EXCEPT !.file[n] = Missing] \in Tree
    BY EditFile DEF Content
  <2>2. target' \in [Components -> Tree] /\ disk' \in [Components -> Tree]
    BY <2>1, ChangeType
  <2> QED BY <1>2, <2>2 DEF RemoveEntry, PCs
<1>3. CASE RemoveRoot
  <2>1. target' \in [Components -> Tree] /\ disk' \in [Components -> Tree]
    BY <1>3, ChangeType DEF RemoveRoot
  <2> QED BY <1>3, <2>1 DEF RemoveRoot, PCs, Installing, Restoring
<1>4. CASE CreateRoot
  <2>1. [target[cur] EXCEPT !.root = Worker] \in Tree
    BY EditRoot
  <2>2. target' \in [Components -> Tree] /\ disk' \in [Components -> Tree]
    BY <1>4, <2>1, ChangeType DEF CreateRoot
  <2> QED BY <1>4, <2>2 DEF CreateRoot, Present, PCs, Installing, Restoring
<1>5. CASE CopyPart
  <2> PICK n \in todo, b \in Bytes : Change([target[cur] EXCEPT !.file[n] = b])
    BY <1>5 DEF CopyPart
  <2>1. [target[cur] EXCEPT !.file[n] = b] \in Tree
    BY EditFile DEF Content
  <2>2. target' \in [Components -> Tree] /\ disk' \in [Components -> Tree]
    BY <2>1, ChangeType
  <2> QED BY <1>5, <2>2 DEF CopyPart
<1>6. CASE CopyEntry
  <2> PICK n \in todo : /\ Change([target[cur] EXCEPT !.file[n] = Source.file[n]])
                        /\ todo' = todo \ {n}
    BY <1>6 DEF CopyEntry
  <2>1. Source \in Tree
    BY DEF Source
  <2>2. Source.file[n] \in Content
    BY <2>1 DEF Tree
  <2>3. [target[cur] EXCEPT !.file[n] = Source.file[n]] \in Tree
    BY <2>2, EditFile
  <2>4. target' \in [Components -> Tree] /\ disk' \in [Components -> Tree]
    BY <2>3, ChangeType
  <2> QED BY <1>6, <2>4 DEF CopyEntry
<1> QED BY <1>1, <1>2, <1>3, <1>4, <1>5, <1>6 DEF Replace

\* The steps of the caller and of installed() keep the types.
LEMMA InstallType == TypeOK /\ Install => TypeOK'
<1> SUFFICES ASSUME TypeOK, Install PROVE TypeOK'
  OBVIOUS
<1> USE NoTreeIsTree, ComponentsType, TransactionAssumption
    DEF TypeOK, liveVars, journalVars, workVars, envVars
<1>1. CASE InstallComponent BY <1>1 DEF InstallComponent, PCs, Installing
<1>2. CASE FinishInstall
  <2>1. [target[cur] EXCEPT !.root = Worker] \in Tree
    BY EditRoot
  <2>2. target' \in [Components -> Tree] /\ disk' \in [Components -> Tree]
    BY <1>2, <2>1, ChangeType DEF FinishInstall
  <2>3. cur' \in Components
    BY <1>2 DEF FinishInstall, Components
  <2> QED BY <1>2, <2>2, <2>3 DEF FinishInstall, PCs, Installing
<1>3. CASE VerifyInstalled BY <1>3 DEF VerifyInstalled, Proceed, PCs
<1>4. CASE WriteVerified BY <1>4 DEF WriteVerified, Receipts, PCs
<1>5. CASE SkipComponent
  <2>1. cur' \in Components
    BY <1>5 DEF SkipComponent, Components
  <2> QED BY <1>5, <2>1 DEF SkipComponent, PCs, Installing
<1> QED BY <1>1, <1>2, <1>3, <1>4, <1>5 DEF Install

\* The steps of _restore, _archive and finalize_restore keep the types.
LEMMA RestoreType == TypeOK /\ Restore => TypeOK'
<1> SUFFICES ASSUME TypeOK, Restore PROVE TypeOK'
  OBVIOUS
<1> USE NoTreeIsTree, ComponentsType, TransactionAssumption
    DEF TypeOK, liveVars, journalVars, workVars, envVars, Proceed, PCs, Restoring
<1>1. CASE BeginRestore BY <1>1 DEF BeginRestore
<1>2. CASE BeginFinalize BY <1>2 DEF BeginFinalize
<1>3. CASE CheckOwned
  <2>1. cur' \in Components
    BY <1>3 DEF CheckOwned, Components
  <2> QED BY <1>3, <2>1 DEF CheckOwned
<1>4. CASE WritePending BY <1>4 DEF WritePending, Receipts
<1>5. CASE Compare BY <1>5 DEF Compare
<1>6. CASE CheckOwnedAgain BY <1>6 DEF CheckOwnedAgain
<1>7. CASE RestoreMetadata
  <2>1. original[cur].root \in Owners \union {Missing}
    BY DEF Tree
  <2>2. [target[cur] EXCEPT !.root = original[cur].root] \in Tree
    BY <2>1, EditRoot
  <2>3. target' \in [Components -> Tree] /\ disk' \in [Components -> Tree]
    BY <1>7, <2>2, ChangeType DEF RestoreMetadata
  <2> QED BY <1>7, <2>3 DEF RestoreMetadata
<1>8. CASE Readback BY <1>8 DEF Readback
<1>9. CASE Flush
  <2>1. cur' \in Components
    BY <1>9 DEF Flush, Components
  <2> QED BY <1>9, <2>1 DEF Flush
<1>10. CASE WriteRestored BY <1>10 DEF WriteRestored, Receipts
<1>11. CASE AssertRestored BY <1>11 DEF AssertRestored
<1>12. CASE Archive BY <1>12 DEF Archive, Receipts
<1> QED
  BY <1>1, <1>2, <1>3, <1>4, <1>5, <1>6, <1>7, <1>8, <1>9, <1>10, <1>11, <1>12 DEF Restore

\* The environment keeps the types.
LEMMA EnvironmentType == TypeOK /\ (Interrupt \/ PowerLoss \/ ThirdParty) => TypeOK'
<1> SUFFICES ASSUME TypeOK, Interrupt \/ PowerLoss \/ ThirdParty PROVE TypeOK'
  OBVIOUS
<1> USE NoTreeIsTree, ComponentsType, TransactionAssumption
    DEF TypeOK, liveVars, journalVars, workVars, envVars
<1>1. CASE Interrupt
  <2>1. pc' \in PCs /\ cur' \in Components /\ todo' \subseteq Names /\ defer' \in BOOLEAN
    BY <1>1 DEF Interrupt, Quit, PCs
  <2>2. faults' \in 0..MaxFaults
    BY <1>1 DEF Interrupt
  <2> QED BY <1>1, <2>1, <2>2 DEF Interrupt
<1>2. CASE PowerLoss
  <2>1. target' \in [Components -> Tree] /\ disk' \in [Components -> Tree]
    BY <1>2, PowerLossTarget DEF PowerLoss
  <2>2. backups' \in [Components -> Tree] /\ expected' \in [Components -> Tree]
    <3>1. ASSUME NEW t \in [Components -> Tree] PROVE Losses(t) \subseteq [Components -> Tree]
      BY DEF Losses
    <3>2. backups' \in {backups} \union Losses(backups)
      BY <1>2 DEF PowerLoss
    <3>3. expected' \in {expected} \union Losses(expected)
      BY <1>2 DEF PowerLoss
    <3> QED BY <3>1, <3>2, <3>3
  <2>3. active' \in BOOLEAN /\ linked' \in BOOLEAN /\ synced' \in BOOLEAN
    BY <1>2 DEF PowerLoss
  <2>4. pc' \in PCs /\ cur' \in Components /\ todo' \subseteq Names /\ defer' \in BOOLEAN
    BY <1>2 DEF PowerLoss, Quit, PCs
  <2>5. receipt' \in Receipts /\ faults' \in 0..MaxFaults
    BY <1>2 DEF PowerLoss, Receipts
  <2> QED BY <1>2, <2>1, <2>2, <2>3, <2>4, <2>5 DEF PowerLoss
<1>3. CASE ThirdParty
  <2> PICK c \in Components, n \in Names, b \in Content, o \in Owners :
        /\ target' = [target EXCEPT ![c] = Edit(@, n, b, o)]
        /\ disk' = [disk EXCEPT ![c] = Edit(@, n, b, o)]
        /\ touched' = touched \union {c}
        /\ late' = late \union {<<c, n>>}
    BY <1>3 DEF ThirdParty
  <2>1. ASSUME NEW t \in Tree PROVE Edit(t, n, b, o) \in Tree
    BY DEF Tree, Edit
  <2>2. target' \in [Components -> Tree] /\ disk' \in [Components -> Tree]
    BY <2>1
  <2>3. edits' \in 0..MaxEdits
    BY <1>3 DEF ThirdParty
  <2> QED BY <1>3, <2>2, <2>3 DEF ThirdParty
<1> QED BY <1>1, <1>2, <1>3

\* Every variable always has its type.
THEOREM TypeCorrect == Spec => []TypeOK
<1>1. TypeOK /\ [Next]_vars => TypeOK'
  <2>1. TypeOK /\ UNCHANGED vars => TypeOK'
    BY DEF TypeOK, vars, liveVars, journalVars, workVars, envVars
  <2> QED
    BY <2>1, PrepareType, ReplaceType, InstallType, RestoreType, EnvironmentType
       DEF Next, WorkerStep
<1> QED BY <1>1, InitType, PTL DEF Spec

-----------------------------------------------------------------------------
(* What the ownership check accepts                                        *)

\* A component that is its own original is recognised.
LEMMA OriginalIsOwned ==
    ASSUME NEW t \in Tree, NEW p
    PROVE  Owned(t, t, p)
BY BundleAssumption DEF Owned, Unrecognised, MatchesPartial, Tree, Content

\* Removing a file makes nothing unrecognisable.
LEMMA RemovalIsOwned ==
    ASSUME NEW t \in Tree, NEW o, NEW p, NEW n \in Names
    PROVE  NoWorse([t EXCEPT !.file[n] = Missing], t, o, p)
BY DEF NoWorse, Unrecognised, Tree

\* Nor does writing a part of the original's or of the payload's file.
LEMMA CopyIsOwned ==
    ASSUME NEW t \in Tree, NEW o, NEW p, NEW n \in Names, NEW b \in Content,
           MatchesPartial(b, o.file[n]) \/ MatchesPartial(b, p.file[n])
    PROVE  NoWorse([t EXCEPT !.file[n] = b], t, o, p)
BY DEF NoWorse, Unrecognised, Tree

\* The owner of a component is not part of the check.
LEMMA RootIsOwned ==
    ASSUME NEW t \in Tree, NEW o, NEW p, NEW w
    PROVE  NoWorse([t EXCEPT !.root = w], t, o, p)
BY DEF NoWorse, Unrecognised, Tree

LEMMA NoTreeIsOwned ==
    ASSUME NEW t, NEW o, NEW p
    PROVE  NoWorse(NoTree, t, o, p)
BY DEF NoWorse, Unrecognised, NoTree

\* A part of a part is a part.
LEMMA PartOfPart ==
    ASSUME NEW b \in Bytes, NEW src \in Content, MatchesPartial(b, src), NEW q \in Partial[b]
    PROVE  q \in Bytes /\ MatchesPartial(q, src)
BY BundleAssumption DEF MatchesPartial, Content

\* A power loss leaves what was recognised, on the disk and in the cache,
\* recognised.
LEMMA PowerLossIsOwned ==
    ASSUME NEW d \in Tree, NEW t \in Tree, NEW o \in Tree, NEW p \in Tree,
           NEW m \in AfterPowerLoss(d, t), Owned(d, o, p), Owned(t, o, p)
    PROVE  Owned(m, o, p)
<1> SUFFICES ASSUME NEW n \in Names, m.file[n] # Missing
             PROVE  MatchesPartial(m.file[n], o.file[n]) \/ MatchesPartial(m.file[n], p.file[n])
  BY DEF Owned, Unrecognised
<1>1. \/ m.file[n] = d.file[n]
      \/ m.file[n] = t.file[n]
      \/ t.file[n] # Missing /\ m.file[n] \in Partial[t.file[n]]
  BY DEF AfterPowerLoss, Survivors
<1>2. CASE m.file[n] = d.file[n]
  BY <1>2 DEF Owned, Unrecognised
<1>3. CASE m.file[n] = t.file[n]
  BY <1>3 DEF Owned, Unrecognised
<1>4. CASE t.file[n] # Missing /\ m.file[n] \in Partial[t.file[n]]
  <2>1. t.file[n] \in Bytes /\ o.file[n] \in Content /\ p.file[n] \in Content
    BY <1>4 DEF Tree, Content
  <2>2. MatchesPartial(t.file[n], o.file[n]) \/ MatchesPartial(t.file[n], p.file[n])
    BY <1>4 DEF Owned, Unrecognised
  <2> QED BY <1>4, <2>1, <2>2, PartOfPart
<1> QED BY <1>1, <1>2, <1>3, <1>4

LEMMA SameComponents ==
    ASSUME NEW f \in [Components -> Tree], NEW g \in [Components -> Tree],
           \A c \in Components : f[c] = g[c]
    PROVE  f = g
BY SMTT(60)

-----------------------------------------------------------------------------
(* The steps of prepare()                                                  *)

LEMMA PrepareInv == TypeOK /\ TypeOK' /\ IInv /\ Prepare => IInv'
<1> SUFFICES ASSUME TypeOK, TypeOK', IInv, Prepare PROVE IInv'
  OBVIOUS
<1> USE ComponentsType
    DEF IInv, JournalInv, SnapshotInv, QuietInv, ProgressInv, RecognisedInv, CheckedInv, Checked, InForce, Saved,
        Preparing, Installing, Restoring, Durable, IntactUnlessTouched, Intact,
        liveVars, journalVars, workVars, envVars, Proceed
<1>1. CASE BeginPrepare BY <1>1 DEF BeginPrepare
<1>2. CASE CreateJournal BY <1>2 DEF CreateJournal
<1>3. CASE WritePreparing BY <1>3 DEF WritePreparing, SnapshotsMatch
<1>4. CASE CopySnapshot BY <1>4 DEF CopySnapshot
<1>5. CASE CheckSnapshots BY <1>5 DEF CheckSnapshots, SnapshotsMatch
<1>6. CASE SyncSnapshots BY <1>6 DEF SyncSnapshots, SnapshotsMatch
<1>7. CASE RecheckOriginals BY <1>7 DEF RecheckOriginals, SnapshotsMatch
<1>8. CASE WritePrepared
  <2>1. \A c \in Components : Owned(original[c], original[c], Payload[c])
    BY OriginalIsOwned DEF TypeOK
  <2> QED BY <1>8, <2>1 DEF WritePrepared, SnapshotsMatch
<1>9. CASE LinkJournal BY <1>9 DEF LinkJournal, SnapshotsMatch
<1> QED
  BY <1>1, <1>2, <1>3, <1>4, <1>5, <1>6, <1>7, <1>8, <1>9 DEF Prepare

-----------------------------------------------------------------------------
(* Steps that write a live component                                       *)

\* Program points at which the worker is about to write component cur.
Writing == {"rm", "mkbundle", "cp", "rmtree", "mkdirs", "copytree"}

\* A write to the component at the cursor keeps the invariant when it leaves
\* the component recognisable, and when the worker goes on within the copy or
\* within the restore of this component, or gives up.
LEMMA WriteInv ==
    ASSUME TypeOK, TypeOK', IInv, pc \in Writing, NEW t \in Tree, Change(t),
           UNCHANGED <<journalVars, touched, late>>,
           NoWorse(t, target[cur], original[cur], Payload[cur]),
           \/ pc \in Installing /\ pc' \in Installing \union {"installed"}
           \/ pc \in Restoring /\ pc' \in Restoring \ {"compare", "flush"} /\ cur' = cur
           \/ pc' = "idle"
    PROVE  IInv'
<1> USE ComponentsType
    DEF IInv, Installing, Restoring, Writing, journalVars
<1>1. active /\ receipt \in {"prepared", "rollback_pending"} /\ (pc \in Installing => linked)
  BY DEF JournalInv
<1>2. InForce /\ InForce' /\ SnapshotsMatch'
  BY <1>1 DEF InForce, Saved, SnapshotsMatch, SnapshotInv
<1>3. disk' = disk /\ \A c \in Components : c # cur => target'[c] = target[c]
  BY DEF Change, TypeOK
<1>4. target'[cur] = t
  BY DEF Change, TypeOK
<1>5. JournalInv'
  BY <1>1 DEF JournalInv
<1>6. SnapshotInv'
  BY <1>2 DEF SnapshotInv
<1>7. ~linked => cur \in touched
  BY <1>1 DEF QuietInv
<1>8. QuietInv'
  BY <1>1, <1>2, <1>3, <1>7
     DEF QuietInv, Preparing, IntactUnlessTouched, Intact
<1>9. ProgressInv'
  <2>1. \A c \in Components : c > cur => c # cur
    BY DEF TypeOK
  <2> QED BY <1>1, <1>3, <2>1 DEF ProgressInv, Durable, IntactUnlessTouched, Intact
<1>10. RecognisedInv'
  BY <1>2, <1>3, <1>4 DEF RecognisedInv, Owned, NoWorse
<1>11. CheckedInv'
  BY <1>3, <1>4 DEF CheckedInv, Checked, NoWorse
<1> QED BY <1>5, <1>6, <1>8, <1>9, <1>10, <1>11

\* What is copied is a part of the original or of the payload.
LEMMA SourceIsOwned ==
    ASSUME TypeOK, IInv, pc \in {"cp", "copytree"}, NEW n \in Names
    PROVE  \/ Source.file[n] = Payload[cur].file[n]
           \/ Source.file[n] = original[cur].file[n]
<1>1. pc = "copytree" => active /\ receipt = "rollback_pending"
  BY DEF IInv, JournalInv, Restoring
<1>2. pc = "copytree" => SnapshotsMatch
  BY <1>1 DEF IInv, SnapshotInv, InForce, Saved
<1>3. pc = "copytree" => backups[cur].file = original[cur].file
  BY <1>2 DEF SnapshotsMatch, SameBytes, TypeOK
<1> QED BY <1>3 DEF Source

LEMMA ReplaceInv == TypeOK /\ TypeOK' /\ IInv /\ Replace => IInv'
<1> SUFFICES ASSUME TypeOK, TypeOK', IInv, Replace PROVE IInv'
  OBVIOUS
<1> USE ComponentsType DEF Writing, Installing, Restoring
<1>1. target[cur] \in Tree /\ original[cur] \in Tree
  BY DEF TypeOK
<1>2. CASE ListForRemoval
  BY <1>2
     DEF ListForRemoval, IInv, JournalInv, SnapshotInv, QuietInv, ProgressInv, RecognisedInv, CheckedInv, Checked,
         InForce, Saved, Preparing, Durable, IntactUnlessTouched, Intact, SnapshotsMatch,
         liveVars, journalVars, envVars
<1>3. CASE pc' = "idle" /\ UNCHANGED <<liveVars, journalVars, touched, late>>
  BY <1>3
     DEF IInv, JournalInv, SnapshotInv, QuietInv, ProgressInv, RecognisedInv, CheckedInv, Checked, InForce, Saved,
         Preparing, Durable, IntactUnlessTouched, Intact, SnapshotsMatch, liveVars, journalVars
<1>4. CASE RemoveEntry
  <2> PICK n \in todo :
        IF target[cur].file[n] # Missing
        THEN /\ Change([target[cur] EXCEPT !.file[n] = Missing])
             /\ todo' = todo \ {n}
             /\ pc' = pc
        ELSE pc' = "idle" /\ UNCHANGED <<liveVars, todo>>
    BY <1>4 DEF RemoveEntry
  <2>1. n \in Names
    BY DEF TypeOK
  <2>2. [target[cur] EXCEPT !.file[n] = Missing] \in Tree
    BY <1>1, <2>1, EditFile DEF Content
  <2>3. NoWorse([target[cur] EXCEPT !.file[n] = Missing], target[cur], original[cur], Payload[cur])
    BY <1>1, <2>1, RemovalIsOwned
  <2> QED BY <1>3, <1>4, <2>2, <2>3, WriteInv DEF RemoveEntry, envVars
<1>5. CASE RemoveRoot
  <2>1. NoWorse(NoTree, target[cur], original[cur], Payload[cur])
    BY NoTreeIsOwned
  <2> QED BY <1>3, <1>5, <2>1, NoTreeIsTree, WriteInv DEF RemoveRoot, workVars, envVars
<1>6. CASE CreateRoot
  <2>1. [target[cur] EXCEPT !.root = Worker] \in Tree
    BY <1>1, EditRoot, TransactionAssumption
  <2>2. NoWorse([target[cur] EXCEPT !.root = Worker], target[cur], original[cur], Payload[cur])
    BY <1>1, RootIsOwned
  <2>3. CASE Change([target[cur] EXCEPT !.root = Worker]) /\ pc' \in {"cp", "copytree"}
    BY <1>6, <2>1, <2>2, <2>3, WriteInv DEF CreateRoot, envVars
  <2>4. CASE UNCHANGED liveVars /\ pc = "mkbundle" /\ pc' = "cp"
    BY <1>6, <2>4
       DEF CreateRoot, IInv, JournalInv, SnapshotInv, QuietInv, ProgressInv, RecognisedInv, CheckedInv, Checked,
           InForce, Saved, Preparing, Durable, IntactUnlessTouched, Intact, SnapshotsMatch,
           liveVars, journalVars, envVars
  <2> QED BY <1>3, <1>6, <2>3, <2>4 DEF CreateRoot, envVars
<1>7. CASE CopyPart
  <2> PICK n \in todo, b \in Bytes :
        /\ MatchesPartial(b, Source.file[n])
        /\ Change([target[cur] EXCEPT !.file[n] = b])
    BY <1>7 DEF CopyPart
  <2>1. n \in Names /\ b \in Content
    BY DEF TypeOK, Content
  <2>2. [target[cur] EXCEPT !.file[n] = b] \in Tree
    BY <1>1, <2>1, EditFile
  <2>3. MatchesPartial(b, original[cur].file[n]) \/ MatchesPartial(b, Payload[cur].file[n])
    BY <1>7, <2>1, SourceIsOwned DEF CopyPart
  <2>4. NoWorse([target[cur] EXCEPT !.file[n] = b], target[cur], original[cur], Payload[cur])
    BY <1>1, <2>1, <2>3, CopyIsOwned
  <2> QED BY <1>7, <2>2, <2>4, WriteInv DEF CopyPart, workVars, envVars
<1>8. CASE CopyEntry
  <2> PICK n \in todo : Change([target[cur] EXCEPT !.file[n] = Source.file[n]])
    BY <1>8 DEF CopyEntry
  <2>1. n \in Names /\ Source \in Tree
    BY TransactionAssumption DEF TypeOK, Source
  <2>2. Source.file[n] \in Content
    BY <2>1 DEF Tree
  <2>3. [target[cur] EXCEPT !.file[n] = Source.file[n]] \in Tree
    BY <1>1, <2>1, <2>2, EditFile
  <2>4. \/ Source.file[n] = Missing
        \/ MatchesPartial(Source.file[n], original[cur].file[n])
        \/ MatchesPartial(Source.file[n], Payload[cur].file[n])
    BY <1>8, <2>1, <2>2, SourceIsOwned, BundleAssumption
       DEF CopyEntry, MatchesPartial, Content
  <2>5. NoWorse([target[cur] EXCEPT !.file[n] = Source.file[n]], target[cur], original[cur], Payload[cur])
    BY <1>1, <2>1, <2>2, <2>4, RemovalIsOwned, CopyIsOwned
  <2> QED BY <1>8, <2>3, <2>5, WriteInv DEF CopyEntry, envVars
<1> QED BY <1>2, <1>4, <1>5, <1>6, <1>7, <1>8 DEF Replace

-----------------------------------------------------------------------------
(* The other steps of the caller and of the restore                        *)

LEMMA InstallInv == TypeOK /\ TypeOK' /\ IInv /\ Install => IInv'
<1> SUFFICES ASSUME TypeOK, TypeOK', IInv, Install PROVE IInv'
  OBVIOUS
<1> USE ComponentsType
<1>1. CASE InstallComponent \/ SkipComponent \/ VerifyInstalled \/ WriteVerified
  BY <1>1
     DEF InstallComponent, SkipComponent, VerifyInstalled, WriteVerified, Proceed, Installing, Restoring,
         IInv, JournalInv, SnapshotInv, QuietInv, ProgressInv, RecognisedInv, CheckedInv, Checked, InForce, Saved,
         Preparing, Durable, IntactUnlessTouched, Intact, SnapshotsMatch,
         liveVars, journalVars, workVars, envVars
<1>2. CASE FinishInstall
  <2>1. target[cur] \in Tree
    BY DEF TypeOK
  <2>2. [target[cur] EXCEPT !.root = Worker] \in Tree
    BY <2>1, EditRoot, TransactionAssumption
  <2>3. NoWorse([target[cur] EXCEPT !.root = Worker], target[cur], original[cur], Payload[cur])
    BY <2>1, RootIsOwned
  <2> QED BY <1>2, <2>2, <2>3, WriteInv DEF FinishInstall, Writing, Installing, envVars
<1> QED BY <1>1, <1>2 DEF Install

LEMMA RestoreInv == TypeOK /\ TypeOK' /\ IInv /\ Restore => IInv'
<1> SUFFICES ASSUME TypeOK, TypeOK', IInv, Restore PROVE IInv'
  OBVIOUS
<1> USE ComponentsType
<1>1. CASE RestoreMetadata
  <2>1. target[cur] \in Tree /\ original[cur].root \in Owners \union {Missing}
    BY DEF TypeOK, Tree
  <2>2. [target[cur] EXCEPT !.root = original[cur].root] \in Tree
    BY <2>1, EditRoot
  <2>3. NoWorse([target[cur] EXCEPT !.root = original[cur].root], target[cur], original[cur], Payload[cur])
    BY <2>1, RootIsOwned
  <2> QED
    BY <1>1, <2>2, <2>3, WriteInv DEF RestoreMetadata, Writing, Restoring, workVars, envVars
<1> USE DEF IInv, JournalInv, SnapshotInv, QuietInv, ProgressInv, RecognisedInv, CheckedInv, Checked, InForce, Saved,
            Preparing, Installing, Restoring, Durable, IntactUnlessTouched, Intact,
            liveVars, journalVars, workVars, envVars, Proceed
<1>2. CASE BeginRestore
  <2>1. \A c \in Components : ~(c < 1)
    BY DEF Components
  <2> QED BY <1>2, <2>1 DEF BeginRestore, SnapshotsMatch
<1>3. CASE BeginFinalize BY <1>3 DEF BeginFinalize, SnapshotsMatch
<1>4. CASE CheckOwned
  <2>1. /\ target' = target /\ original' = original
        /\ \/ /\ Owned(target[cur], original[cur], Payload[cur])
              /\ late' = late \ ({cur} \X Names)
              /\ \/ cur < N /\ pc' = "owned" /\ cur' = cur + 1
                 \/ ~(cur < N) /\ pc' = "pending" /\ cur' = cur
           \/ pc' = "idle"
    BY <1>4 DEF CheckOwned
  <2>2. \A c \in Components :
           /\ c < cur + 1 => c = cur \/ c < cur
           /\ ~(cur < N) => c = cur \/ c < cur
    BY DEF TypeOK, Components
  <2>3. CheckedInv'
    BY <1>4, <2>1, <2>2 DEF CheckOwned, Owned
  <2> QED BY <1>4, <2>3 DEF CheckOwned, SnapshotsMatch
<1>5. CASE WritePending
  <2>1. \A c \in Components : ~(c > N)
    BY TransactionAssumption DEF Components
  <2> QED BY <1>5, <2>1 DEF WritePending, SnapshotsMatch
<1>6. CASE Compare BY <1>6 DEF Compare, SnapshotsMatch, TypeOK
<1>7. CASE CheckOwnedAgain
  <2>1. CheckedInv'
    BY <1>7 DEF CheckOwnedAgain, Owned
  <2> QED BY <1>7, <2>1 DEF CheckOwnedAgain, SnapshotsMatch
<1>8. CASE Readback BY <1>8 DEF Readback, SnapshotsMatch
<1>9. CASE Flush
  <2>1. /\ disk'[cur] = target[cur]
        /\ \A c \in Components : c # cur => disk'[c] = disk[c]
    BY <1>9 DEF Flush, TypeOK
  <2>2. \A c \in Components : c = cur \/ c > cur \/ (cur > 1 /\ c < cur)
    BY DEF TypeOK, Components
  <2>3. \A c \in Components : c > cur - 1 => c = cur \/ c > cur
    BY DEF TypeOK
  <2>4. target' = target /\ original' = original /\ touched' = touched
    BY <1>9 DEF Flush
  <2>5. \A c \in Components \ touched : c = cur \/ c > cur => Intact(c)'
    BY <1>9, <2>1, <2>4 DEF Flush
  <2>6. \A c \in Components : c = cur \/ c > cur => disk'[c] = target'[c]
    BY <1>9, <2>1, <2>4 DEF Flush
  <2>7. ProgressInv'
    BY <1>9, <2>2, <2>3, <2>5, <2>6 DEF Flush
  <2>8. RecognisedInv'
    BY <1>9, <2>1, <2>4 DEF Flush
  <2>9. QuietInv'
    BY <1>9, <2>1, <2>4, <2>5 DEF Flush
  <2> QED BY <1>9, <2>7, <2>8, <2>9 DEF Flush, SnapshotsMatch
<1>10. CASE WriteRestored BY <1>10 DEF WriteRestored, SnapshotsMatch
<1>11. CASE AssertRestored BY <1>11 DEF AssertRestored, SnapshotsMatch
<1>12. CASE Archive
  <2>1. \A c \in Components : disk[c] = target[c]
    BY <1>12 DEF Archive
  <2>2. disk = target
    <3>1. disk \in [Components -> Tree] /\ target \in [Components -> Tree]
      BY DEF TypeOK
    <3> QED BY <2>1, <3>1, SameComponents
  <2> QED BY <1>12, <2>2 DEF Archive, SnapshotsMatch
<1> QED
  BY <1>1, <1>2, <1>3, <1>4, <1>5, <1>6, <1>7, <1>8, <1>9, <1>10, <1>11, <1>12 DEF Restore

-----------------------------------------------------------------------------
(* The environment                                                         *)

LEMMA InterruptInv == TypeOK /\ IInv /\ Interrupt => IInv'
BY DEF Interrupt, Quit, Installing, Restoring, IInv, JournalInv, SnapshotInv, QuietInv,
       ProgressInv, RecognisedInv, CheckedInv, Checked, InForce, Saved, Preparing, Durable, IntactUnlessTouched,
       Intact, SnapshotsMatch, liveVars, journalVars

\* A power loss keeps the invariant: a journal whose directory entry it can
\* lose is a journal nothing was written under.
LEMMA PowerLossInv == TypeOK /\ TypeOK' /\ IInv /\ PowerLoss => IInv'
<1> SUFFICES ASSUME TypeOK, TypeOK', IInv, PowerLoss PROVE IInv'
  OBVIOUS
<1>1. /\ pc' = "idle" /\ disk' = target' /\ original' = original /\ touched' = touched
      /\ active' => active
      /\ active /\ linked => active'
      /\ linked' = active' /\ synced' = active'
      /\ receipt' = IF active' THEN receipt ELSE "none"
      /\ active /\ synced => backups' = backups /\ expected' = expected
  BY DEF PowerLoss, Quit
<1>2. \A c \in Components : target'[c] \in AfterPowerLoss(disk[c], target[c])
  BY PowerLossTarget
<1>3. \A c \in Components : disk[c] = target[c] => target'[c] = target[c]
  BY <1>2, PowerLossSynced
<1>4. InForce' => InForce
  BY <1>1 DEF InForce
<1>5. \A c \in Components : Intact(c) => Intact(c)'
  BY <1>1, <1>3 DEF Intact
<1>6. JournalInv'
  BY <1>1 DEF JournalInv, Installing, Restoring
<1>7. SnapshotInv'
  BY <1>1, <1>4 DEF IInv, SnapshotInv, InForce, SnapshotsMatch
<1>8. QuietInv'
  BY <1>1 DEF QuietInv, Preparing, Restoring, InForce
<1>9. ProgressInv'
  <2>1. receipt' = "restored" => active' /\ receipt = "restored"
    BY <1>1
  <2> QED BY <1>1, <1>5, <2>1
          DEF IInv, ProgressInv, Restoring, Durable, IntactUnlessTouched
<1>11. CheckedInv'
  BY <1>1 DEF CheckedInv, Restoring
<1>10. RecognisedInv'
  <2> SUFFICES ASSUME InForce', NEW c \in Components \ touched
               PROVE  Owned(target'[c], original[c], Payload[c])
    BY <1>1 DEF RecognisedInv
  <2>1. /\ Owned(target[c], original[c], Payload[c])
        /\ Owned(disk[c], original[c], Payload[c])
    BY <1>4 DEF IInv, RecognisedInv
  <2>2. /\ target[c] \in Tree /\ disk[c] \in Tree /\ original[c] \in Tree
        /\ Payload[c] \in Tree
    BY TransactionAssumption DEF TypeOK
  <2> QED BY <1>2, <2>1, <2>2, PowerLossIsOwned
<1> QED BY <1>6, <1>7, <1>8, <1>9, <1>10, <1>11 DEF IInv

LEMMA ThirdPartyInv == TypeOK /\ TypeOK' /\ IInv /\ ThirdParty => IInv'
<1> SUFFICES ASSUME TypeOK, TypeOK', IInv, ThirdParty PROVE IInv'
  OBVIOUS
<1> PICK c \in Components, n \in Names, b \in Content, o \in Owners :
      /\ target' = [target EXCEPT ![c] = Edit(@, n, b, o)]
      /\ disk' = [disk EXCEPT ![c] = Edit(@, n, b, o)]
      /\ touched' = touched \union {c}
      /\ late' = late \union {<<c, n>>}
  BY DEF ThirdParty
<1>1. UNCHANGED <<journalVars, pc, cur>>
  BY DEF ThirdParty, workVars
<1>2. \A d \in Components \ touched' :
        d \in Components \ touched /\ target'[d] = target[d] /\ disk'[d] = disk[d]
  BY DEF TypeOK
<1>3. \A d \in Components : disk[d] = target[d] => disk'[d] = target'[d]
  BY DEF TypeOK
<1>4. disk = target => disk' = target'
  BY DEF TypeOK
<1>5. \A d \in Components \ touched' : Intact(d) => Intact(d)'
  BY <1>1, <1>2 DEF Intact, journalVars
<1>6. InForce' = InForce /\ SnapshotsMatch' = SnapshotsMatch
  BY <1>1 DEF InForce, SnapshotsMatch, journalVars
<1>7. JournalInv' /\ SnapshotInv'
  BY <1>1, <1>6 DEF IInv, JournalInv, SnapshotInv, journalVars
<1>8. QuietInv'
  BY <1>1, <1>2, <1>4, <1>5, <1>6
     DEF IInv, QuietInv, IntactUnlessTouched, journalVars
<1>9. ProgressInv'
  <2>1. pc = "flush" => cur \in touched' \/ target'[cur] = original[cur]
    BY <1>2 DEF IInv, ProgressInv, TypeOK
  <2> QED BY <1>1, <1>2, <1>3, <1>5, <2>1
          DEF IInv, ProgressInv, Durable, IntactUnlessTouched, journalVars
<1>10. RecognisedInv'
  BY <1>1, <1>2, <1>6 DEF IInv, RecognisedInv, journalVars
<1>11. \A d \in Components, m \in Names :
          <<d, m>> \in late' \/ target'[d].file[m] = target[d].file[m]
  <2> SUFFICES ASSUME NEW d \in Components, NEW m \in Names, d # c \/ m # n
               PROVE  target'[d].file[m] = target[d].file[m]
    OBVIOUS
  <2>1. target'[d] = IF d = c THEN Edit(target[c], n, b, o) ELSE target[d]
    BY DEF TypeOK
  <2>2. target[c].file \in [Names -> Content]
    BY DEF TypeOK, Tree
  <2> QED BY <2>1, <2>2 DEF Edit
<1>12. CheckedInv'
  BY <1>1, <1>11 DEF IInv, CheckedInv, Checked, Unrecognised, journalVars
<1> QED BY <1>7, <1>8, <1>9, <1>10, <1>12 DEF IInv

-----------------------------------------------------------------------------
(* The theorems                                                            *)

LEMMA InitInv == Init => IInv
<1> SUFFICES ASSUME Init PROVE IInv
  OBVIOUS
<1>1. JournalInv
  BY DEF Init, JournalInv, Installing, Restoring
<1>2. SnapshotInv /\ QuietInv /\ ProgressInv /\ RecognisedInv /\ CheckedInv
  BY DEF Init, SnapshotInv, QuietInv, ProgressInv, RecognisedInv, CheckedInv, Checked, InForce, Preparing,
         Restoring, Saved
<1> QED BY <1>1, <1>2 DEF IInv

LEMMA StutterInv == IInv /\ UNCHANGED vars => IInv'
BY DEF vars, IInv, JournalInv, SnapshotInv, QuietInv, ProgressInv, RecognisedInv, CheckedInv, Checked, InForce,
       Durable, IntactUnlessTouched, Intact, SnapshotsMatch, liveVars, journalVars, workVars,
       envVars

\* IInv is an invariant.
THEOREM Inductive == Spec => [](TypeOK /\ IInv)
<1>1. TypeOK /\ TypeOK' /\ IInv /\ [Next]_vars => IInv'
  BY PrepareInv, InstallInv, ReplaceInv, RestoreInv, InterruptInv, PowerLossInv, ThirdPartyInv,
     StutterInv DEF Next, WorkerStep
<1> QED BY <1>1, InitInv, TypeCorrect, PTL DEF Spec

\* The snapshots every restore copies from are complete and durable whenever
\* the receipt says that the originals are saved.
THEOREM BackupsAlwaysIntact == Spec => []BackupsIntact
<1>1. IInv => BackupsIntact
  BY DEF IInv, SnapshotInv, InForce, BackupsIntact
<1> QED BY <1>1, Inductive, PTL

\* A receipt "restored" means restored, on the disk.
THEOREM RestoredAlwaysDurable == Spec => []RestoredIsDurable
<1>1. IInv => RestoredIsDurable
  BY DEF IInv, ProgressInv, IntactUnlessTouched, Intact, RestoredIsDurable
<1> QED BY <1>1, Inductive, PTL

\* Whatever a crash or a power loss leaves can be restored.
THEOREM DebrisAlwaysRecognised == Spec => []DebrisIsRecognised
<1>1. IInv => DebrisIsRecognised
  BY DEF IInv, RecognisedInv, InForce, DebrisIsRecognised
<1> QED BY <1>1, Inductive, PTL

\* Without a pending transaction the live components are durable.
THEOREM SettledAlwaysDurable == Spec => []SettledIsDurable
<1>1. IInv => SettledIsDurable
  BY DEF IInv, QuietInv, InForce, SettledIsDurable
<1> QED BY <1>1, Inductive, PTL

\* A restore that refuses refuses before it writes: no step of it changes a
\* component while bytes are unrecognised that its checks could have seen.
THEOREM AlwaysRefusesBeforeWriting == Spec => RefusesBeforeWriting
<1>1. IInv => (pc \in Restoring =>
                 \A c \in Components, n \in Names :
                    Unrecognised(target[c], n, original[c], Payload[c]) => <<c, n>> \in late)
  BY DEF IInv, CheckedInv, Checked
<1> DEFINE Refuses ==
      (WorkerStep /\ pc \in Restoring /\ target' # target) =>
          \A c \in Components, n \in Names :
             Unrecognised(target[c], n, original[c], Payload[c]) => <<c, n>> \in late
<1>2. IInv /\ [Next]_vars => [Refuses]_vars
  BY <1>1
<1>3. Spec => [][Refuses]_vars
  BY <1>2, Inductive, PTL DEF Spec
<1> QED BY <1>3 DEF RefusesBeforeWriting

\* A journal is only archived over components that were all seen restored.
THEOREM ArchivesOnlyWhenRestored == Spec => ArchivesOnlyRestored
<1> DEFINE Seen ==
      \A c \in Components, n \in Names :
          target[c].file[n] # original[c].file[n] => <<c, n>> \in late
<1>1. IInv => (pc = "archive" => Seen)
  BY DEF IInv, CheckedInv
<1> DEFINE Archives == (active /\ ~active' /\ pc = "archive") => Seen
<1>2. IInv /\ [Next]_vars => [Archives]_vars
  BY <1>1
<1>3. Spec => [][Archives]_vars
  BY <1>2, Inductive, PTL DEF Spec
<1> QED BY <1>3 DEF ArchivesOnlyRestored

-----------------------------------------------------------------------------
(* The refinement of the undo log                                         *)

\* A saved copy of the originals is never taken for "no copy".
LEMMA SavedOrNot ==
    ASSUME TypeOK
    PROVE  (IF InForce THEN original ELSE NotSaved) = NotSaved <=> ~InForce
BY NotSavedAssumption DEF TypeOK

\* The step changes nothing the undo log knows of.
Invisible ==
    /\ UNCHANGED <<target, edits>>
    /\ InForce' = InForce
    /\ InForce => UNCHANGED <<original, touched>>

\* The step is covered by the saved originals.
Covered == InForce /\ InForce' /\ UNCHANGED <<original, touched, edits>>

LEMMA InvisibleStep ==
    ASSUME Invisible
    PROVE  UNCHANGED Undo!uvars
BY DEF Invisible, Undo!uvars

LEMMA CoveredStep ==
    ASSUME TypeOK, TypeOK', Covered
    PROVE  Undo!Work
<1>1. target' \in [Components -> Tree]
  BY DEF TypeOK
<1> QED BY <1>1, SavedOrNot DEF Covered, Undo!Work

\* The receipt "prepared" opens the undo log.
LEMMA WritePreparedStep ==
    ASSUME TypeOK, TypeOK', IInv, WritePrepared
    PROVE  Undo!Open
<1>1. ~InForce /\ InForce' /\ UNCHANGED <<target, original, touched, edits>>
  BY DEF WritePrepared, IInv, JournalInv, InForce, Saved, liveVars, envVars
<1>2. \A c \in Components \ touched : original[c] = target[c]
  BY DEF WritePrepared, IInv, QuietInv, Preparing, IntactUnlessTouched, Intact
<1>3. original' \in [Components -> Tree] /\ touched' \subseteq Components
  BY DEF TypeOK
<1> QED BY <1>1, <1>2, <1>3 DEF Undo!Open

\* The archive closes it: everything is what it was.
LEMMA ArchiveStep ==
    ASSUME TypeOK, TypeOK', IInv, Archive
    PROVE  Undo!Close
<1>1. InForce /\ ~InForce' /\ UNCHANGED <<target, edits>>
  BY DEF Archive, IInv, JournalInv, InForce, Saved, liveVars, envVars
<1>2. \A c \in Components \ touched : target[c] = original[c]
  BY DEF Archive, IInv, JournalInv, ProgressInv, IntactUnlessTouched, Intact
<1>3. target' \in [Components -> Tree]
  BY DEF TypeOK
<1> QED BY <1>1, <1>2, <1>3, SavedOrNot DEF Undo!Close

\* So does a power loss that takes a journal nothing was written under.
LEMMA PowerLossStep ==
    ASSUME TypeOK, TypeOK', IInv, PowerLoss
    PROVE  Undo!Next \/ UNCHANGED Undo!uvars
<1>1. UNCHANGED <<original, touched, edits>> /\ (InForce' => InForce)
  BY DEF PowerLoss, InForce
<1>2. \A c \in Components : disk[c] = target[c] => target'[c] = target[c]
  BY PowerLossTarget, PowerLossSynced
<1>3. target \in [Components -> Tree] /\ target' \in [Components -> Tree]
  BY DEF TypeOK
<1>4. CASE InForce'
  BY <1>1, <1>4, CoveredStep DEF Covered, Undo!Next
<1>5. CASE ~InForce
  <2>1. \A c \in Components : target'[c] = target[c]
    BY <1>2, <1>5 DEF IInv, QuietInv
  <2>2. target' = target
    BY <1>3, <2>1, SameComponents
  <2>3. InForce' = InForce
    BY <1>1, <1>5 DEF InForce
  <2> QED BY <1>1, <1>5, <2>2, <2>3, InvisibleStep DEF Invisible
<1>6. CASE InForce /\ ~InForce'
  <2>1. ~linked
    BY <1>6 DEF PowerLoss, InForce
  <2>2. \A c \in Components \ touched : target[c] = original[c] /\ disk[c] = original[c]
    BY <1>6, <2>1 DEF IInv, QuietInv, IntactUnlessTouched, Intact
  <2>3. \A c \in Components \ touched : target'[c] = original[c]
    BY <1>2, <2>2
  <2>4. Undo!Close
    BY <1>1, <1>3, <1>6, <2>2, <2>3, SavedOrNot DEF Undo!Close
  <2> QED BY <2>4 DEF Undo!Next
<1> QED BY <1>1, <1>4, <1>5, <1>6

LEMMA ThirdPartyStep ==
    ASSUME TypeOK, ThirdParty
    PROVE  Undo!Next
<1> PICK c \in Components, n \in Names, b \in Content, o \in Owners :
      /\ target' = [target EXCEPT ![c] = Edit(@, n, b, o)]
      /\ touched' = touched \union {c}
  BY DEF ThirdParty
<1>1. Edit(target[c], n, b, o) \in Tree
  BY DEF TypeOK, Tree, Edit
<1>2. /\ InForce' = InForce /\ original' = original /\ edits' = edits + 1
  BY DEF ThirdParty, InForce, journalVars
<1>3. Undo!Stain(c)
  BY <1>1, <1>2, SavedOrNot DEF Undo!Stain
<1> QED BY <1>3 DEF Undo!Next

LEMMA WorkerStepStep ==
    ASSUME TypeOK, TypeOK', IInv, WorkerStep
    PROVE  Undo!Next \/ UNCHANGED Undo!uvars
<1>1. CASE WritePrepared
  BY <1>1, WritePreparedStep DEF Undo!Next
<1>2. CASE Archive
  BY <1>2, ArchiveStep DEF Undo!Next
<1>3. CASE Prepare /\ ~WritePrepared
  <2>1. Invisible
    BY <1>3
       DEF Prepare, BeginPrepare, CreateJournal, WritePreparing, CopySnapshot, CheckSnapshots,
           SyncSnapshots, RecheckOriginals, LinkJournal, Proceed, Invisible, InForce, Saved,
           IInv, JournalInv, liveVars, journalVars, envVars
  <2> QED BY <2>1, InvisibleStep
<1>4. CASE Install \/ Replace
  <2>1. active /\ receipt \in {"prepared", "rollback_pending"}
    BY <1>4
       DEF Install, InstallComponent, SkipComponent, FinishInstall, VerifyInstalled, WriteVerified, Replace,
           ListForRemoval, RemoveEntry, RemoveRoot, CreateRoot, CopyPart, CopyEntry,
           IInv, JournalInv, Installing, Restoring
  <2>2. /\ UNCHANGED <<active, original, touched, edits>>
        /\ receipt' \in {receipt, "files_verified"}
    BY <1>4
       DEF Install, InstallComponent, SkipComponent, FinishInstall, VerifyInstalled, WriteVerified, Replace,
           ListForRemoval, RemoveEntry, RemoveRoot, CreateRoot, CopyPart, CopyEntry,
           journalVars, envVars
  <2> QED BY <2>1, <2>2, CoveredStep DEF Covered, InForce, Saved, Undo!Next
<1>5. CASE Restore /\ ~Archive
  <2>1. active /\ receipt \in Saved
    BY <1>5
       DEF Restore, BeginRestore, BeginFinalize, CheckOwned, WritePending, Compare,
           CheckOwnedAgain, RestoreMetadata, Readback, Flush, WriteRestored, AssertRestored,
           IInv, JournalInv, Restoring, Saved
  <2>2. /\ UNCHANGED <<active, original, touched, edits>>
        /\ receipt' \in {receipt, "rollback_pending", "restored"}
    BY <1>5
       DEF Restore, BeginRestore, BeginFinalize, CheckOwned, WritePending, Compare,
           CheckOwnedAgain, RestoreMetadata, Readback, Flush, WriteRestored, AssertRestored,
           journalVars, envVars
  <2> QED BY <2>1, <2>2, CoveredStep DEF Covered, InForce, Saved, Undo!Next
<1> QED BY <1>1, <1>2, <1>3, <1>4, <1>5 DEF WorkerStep

\* Every execution of the journaled transaction, with its crashes, power losses
\* and third-party edits, is an execution of an undo log.
THEOREM ImplementsUndoLog == Spec => IsUndoLog
<1>1. Init => Undo!Init
  BY DEF Init, InForce, Undo!Init
<1>2. TypeOK /\ TypeOK' /\ IInv /\ [Next]_vars => [Undo!Next]_Undo!uvars
  <2> SUFFICES ASSUME TypeOK, TypeOK', IInv, [Next]_vars
               PROVE  Undo!Next \/ UNCHANGED Undo!uvars
    OBVIOUS
  <2>1. CASE WorkerStep
    BY <2>1, WorkerStepStep
  <2>2. CASE Interrupt
    <3>1. Invisible
      BY <2>2 DEF Interrupt, Invisible, InForce, liveVars, journalVars
    <3> QED BY <3>1, InvisibleStep
  <2>3. CASE PowerLoss
    BY <2>3, PowerLossStep
  <2>4. CASE ThirdParty
    BY <2>4, ThirdPartyStep
  <2>5. CASE UNCHANGED vars
    <3>1. Invisible
      BY <2>5 DEF vars, Invisible, InForce, liveVars, journalVars, envVars
    <3> QED BY <3>1, InvisibleStep
  <2> QED BY <2>1, <2>2, <2>3, <2>4, <2>5 DEF Next
<1>3. Spec => Undo!Spec
  BY <1>1, <1>2, Inductive, PTL DEF Spec, Undo!Spec
<1> QED BY <1>3 DEF IsUndoLog

-----------------------------------------------------------------------------
(* A restore that nobody disturbs                                          *)

\* Program points at which RebuildInv says more than that the trees are whole.
Rebuilding == {"cp", "rmtree", "mkdirs", "copytree", "readback"}

\* A step that leaves the components alone and leads elsewhere.
LEMMA RebuildRests ==
    ASSUME RebuildInv, target' = target, original' = original \/ original' = target,
           pc' \notin Rebuilding
    PROVE  RebuildInv'
BY DEF RebuildInv, Rebuilding

\* A change of the present component.
LEMMA ChangedTree ==
    ASSUME TypeOK, NEW tree, Change(tree)
    PROVE  /\ target'[cur] = tree
           /\ \A c \in Components : c # cur => target'[c] = target[c]
BY DEF TypeOK, Change

LEMMA RebuildChanges ==
    ASSUME TypeOK, RebuildInv, NEW tree, Change(tree), Whole(tree), original' = original, cur' = cur
    PROVE  /\ \A c \in Components : Whole(target'[c]) /\ Whole(original'[c])
           /\ target'[cur'] = tree /\ original'[cur'] = original[cur]
BY ChangedTree DEF RebuildInv, TypeOK

\* Trees are equal when their roots and all their files are.
LEMMA SameTree ==
    ASSUME NEW t \in Tree, NEW u \in Tree, t.root = u.root,
           \A n \in Names : t.file[n] = u.file[n]
    PROVE  t = u
<1>1. t.file = u.file
  BY DEF Tree
<1> QED BY <1>1 DEF Tree

LEMMA ReplaceRebuild == TypeOK /\ TypeOK' /\ IInv /\ RebuildInv /\ Replace => RebuildInv'
<1> SUFFICES ASSUME TypeOK, TypeOK', IInv, RebuildInv, Replace PROVE RebuildInv'
  OBVIOUS
<1>1. /\ target[cur] \in Tree /\ original[cur] \in Tree /\ backups[cur] \in Tree
      /\ cur \in Components /\ todo \subseteq Names
  BY DEF TypeOK
<1>2. UNCHANGED <<journalVars, cur, touched>>
  BY DEF Replace, ListForRemoval, RemoveEntry, RemoveRoot, CreateRoot, CopyPart, CopyEntry,
         workVars, envVars
<1>3. original' = original
  BY <1>2 DEF journalVars
<1>4. CASE pc' = "idle" /\ UNCHANGED liveVars
  BY <1>3, <1>4, RebuildRests DEF Rebuilding, liveVars
<1>5. CASE ListForRemoval
  BY <1>2, <1>3, <1>5 DEF ListForRemoval, RebuildInv, liveVars
<1>6. CASE RemoveEntry /\ ~(pc' = "idle" /\ UNCHANGED liveVars)
  <2>1. PICK n \in todo : /\ target[cur].file[n] # Missing
                          /\ Change([target[cur] EXCEPT !.file[n] = Missing])
                          /\ todo' = todo \ {n} /\ pc' = pc
    BY <1>6 DEF RemoveEntry
  <2> DEFINE tree == [target[cur] EXCEPT !.file[n] = Missing]
  <2>2. Exists(target[cur])
    BY <1>1, <2>1 DEF RebuildInv, Whole, NoTree
  <2>3. tree.root = target[cur].root /\ Present(tree) = Present(target[cur]) \ {n}
    BY <1>1, <2>1 DEF Tree, Present
  <2>4. Whole(tree)
    BY <2>2, <2>3 DEF Whole, Exists
  <2> HIDE DEF tree
  <2>5. /\ \A c \in Components : Whole(target'[c]) /\ Whole(original'[c])
        /\ target'[cur'] = tree
    BY <1>2, <1>3, <2>1, <2>4, RebuildChanges DEF tree
  <2>6. pc \in {"rm", "rmtree"}
    BY <1>6 DEF RemoveEntry
  <2> QED BY <1>2, <2>1, <2>3, <2>5, <2>6 DEF RebuildInv
<1>7. CASE RemoveRoot /\ ~(pc' = "idle" /\ UNCHANGED liveVars)
  <2>1. /\ Change(NoTree)
        /\ \/ pc' = "mkbundle"
           \/ Exists(original[cur]) /\ pc' = "mkdirs"
           \/ ~Exists(original[cur]) /\ pc' = "readback"
    BY <1>7 DEF RemoveRoot
  <2>2. /\ \A c \in Components : Whole(target'[c]) /\ Whole(original'[c])
        /\ target'[cur'] = NoTree /\ original'[cur'] = original[cur]
    BY <1>2, <1>3, <2>1, RebuildChanges DEF Whole
  <2>3. ~Exists(original[cur]) => original[cur] = NoTree
    BY <1>1 DEF RebuildInv, Whole
  <2> QED BY <1>2, <2>1, <2>2, <2>3 DEF RebuildInv
<1>8. CASE CreateRoot /\ ~(pc' = "idle" /\ UNCHANGED liveVars)
  <2>1. /\ todo' = Present(Source)
        /\ \/ pc = "mkbundle" /\ pc' = "cp"
           \/ pc = "mkdirs" /\ pc' = "copytree" /\ ~Exists(target[cur])
    BY <1>8 DEF CreateRoot
  <2>2. CASE Exists(target[cur])
    <3>1. UNCHANGED liveVars /\ pc' = "cp"
      BY <1>8, <2>1, <2>2 DEF CreateRoot
    <3> QED BY <1>2, <1>3, <2>2, <3>1 DEF RebuildInv, liveVars
  <2>3. CASE ~Exists(target[cur])
    <3> DEFINE tree == [target[cur] EXCEPT !.root = Worker]
    <3>1. Change(tree)
      BY <1>8, <2>3 DEF CreateRoot
    <3>2. tree.root = Worker /\ tree.file = target[cur].file /\ Exists(tree)
      BY <1>1, TransactionAssumption, BundleAssumption DEF Tree, Exists
    <3>3. target[cur] = NoTree
      BY <1>1, <2>3 DEF RebuildInv, Whole
    <3> HIDE DEF tree
    <3>4. /\ \A c \in Components : Whole(target'[c]) /\ Whole(original'[c])
          /\ target'[cur'] = tree /\ original'[cur'] = original[cur]
      BY <1>2, <1>3, <3>1, <3>2, RebuildChanges DEF Whole
    <3>5. pc' = "copytree" => \A n \in Names \ todo' : tree.file[n] = original[cur].file[n]
      <4> SUFFICES ASSUME pc' = "copytree", NEW n \in Names \ todo'
                   PROVE  tree.file[n] = original[cur].file[n]
        OBVIOUS
      <4>1. tree.file[n] = Missing
        BY <3>2, <3>3 DEF NoTree
      <4>2. backups[cur].file[n] = Missing
        BY <2>1 DEF Source, Present
      <4>3. SnapshotsMatch
        BY <2>1 DEF IInv, JournalInv, SnapshotInv, InForce, Saved, Restoring
      <4> QED BY <1>1, <4>1, <4>2, <4>3 DEF SnapshotsMatch, SameBytes
    <3>6. pc' = "copytree" => Exists(original[cur])
      BY <2>1 DEF RebuildInv
    <3> QED BY <1>2, <2>1, <3>2, <3>4, <3>5, <3>6 DEF RebuildInv
  <2> QED BY <2>2, <2>3
<1>9. CASE CopyPart \/ CopyEntry
  <2>1. PICK n \in todo, b \in Content :
          /\ Change([target[cur] EXCEPT !.file[n] = b])
          /\ pc \in {"cp", "copytree"} /\ pc' = pc
          /\ \/ todo' = todo
             \/ todo' = todo \ {n} /\ b = Source.file[n]
    <3>1. \A n \in Names : Source.file[n] \in Content
      BY <1>1, TransactionAssumption DEF Source, Tree
    <3> QED BY <1>1, <1>9, <3>1 DEF CopyPart, CopyEntry, workVars, Content
  <2> DEFINE tree == [target[cur] EXCEPT !.file[n] = b]
  <2>2. /\ tree.root = target[cur].root /\ tree.file[n] = b
        /\ \A k \in Names : k # n => tree.file[k] = target[cur].file[k]
    BY <1>1 DEF Tree
  <2>3. Exists(tree)
    BY <2>1, <2>2 DEF RebuildInv, Exists
  <2>4. pc = "copytree" /\ b = Source.file[n] => b = original[cur].file[n]
    <3>1. pc = "copytree" => SnapshotsMatch
      BY DEF IInv, JournalInv, SnapshotInv, InForce, Saved, Restoring
    <3> QED BY <1>1, <3>1 DEF Source, SnapshotsMatch, SameBytes
  <2> HIDE DEF tree
  <2>5. /\ \A c \in Components : Whole(target'[c]) /\ Whole(original'[c])
        /\ target'[cur'] = tree /\ original'[cur'] = original[cur]
    BY <1>2, <1>3, <2>1, <2>3, RebuildChanges DEF Whole, tree
  <2> QED BY <1>1, <1>2, <2>1, <2>2, <2>3, <2>4, <2>5 DEF RebuildInv
<1> QED
  BY <1>4, <1>5, <1>6, <1>7, <1>8, <1>9 DEF Replace

\* The worker's other steps.
LEMMA WorkerRebuild ==
    TypeOK /\ TypeOK' /\ RebuildInv /\ (Prepare \/ Install \/ Restore) => RebuildInv'
<1> SUFFICES ASSUME TypeOK, TypeOK', RebuildInv, Prepare \/ Install \/ Restore PROVE RebuildInv'
  OBVIOUS
<1>1. target[cur] \in Tree /\ original[cur] \in Tree /\ cur \in Components
  BY DEF TypeOK
<1>2. CASE FinishInstall
  <2>1. Change([target[cur] EXCEPT !.root = Worker]) /\ original' = original
        /\ pc' \in {"install", "installed"}
    BY <1>2 DEF FinishInstall, journalVars
  <2>2. Exists([target[cur] EXCEPT !.root = Worker])
    BY <1>1, TransactionAssumption, BundleAssumption DEF Tree, Exists
  <2>3. \A c \in Components : Whole(target'[c]) /\ Whole(original'[c])
    BY <2>1, <2>2, ChangedTree DEF Whole, RebuildInv
  <2> QED BY <2>1, <2>3 DEF RebuildInv
<1>3. CASE RestoreMetadata
  <2> DEFINE tree == [target[cur] EXCEPT !.root = original[cur].root]
  <2>1. /\ Change(tree) /\ original' = original /\ cur' = cur /\ touched' = touched
        /\ pc = "copytree" /\ todo = {} /\ pc' = "readback"
    BY <1>3 DEF RestoreMetadata, journalVars, workVars, envVars
  <2>2. tree \in Tree /\ tree.root = original[cur].root /\ tree.file = target[cur].file
    BY <1>1 DEF Tree
  <2>3. Exists(tree)
    BY <2>1, <2>2 DEF RebuildInv, Exists
  <2>4. cur \notin touched => tree = original[cur]
    <3>1. cur \notin touched => \A n \in Names : tree.file[n] = original[cur].file[n]
      BY <2>1, <2>2 DEF RebuildInv
    <3> HIDE DEF tree
    <3> QED BY <1>1, <2>2, <3>1, SameTree
  <2> HIDE DEF tree
  <2>5. /\ \A c \in Components : Whole(target'[c]) /\ Whole(original'[c])
        /\ target'[cur'] = tree /\ original'[cur'] = original[cur]
    BY <2>1, <2>3, RebuildChanges DEF Whole
  <2> QED BY <2>1, <2>4, <2>5 DEF RebuildInv
<1>4. CASE Compare
  <2>1. UNCHANGED <<liveVars, journalVars, cur, touched>>
    BY <1>4 DEF Compare, workVars, envVars
  <2>2. CASE pc' = "mkdirs"
    <3>1. target[cur] # original[cur] /\ ~Exists(target[cur])
      BY <1>4, <2>2 DEF Compare
    <3>2. target[cur] = NoTree /\ Exists(original[cur])
      BY <1>1, <3>1 DEF RebuildInv, Whole
    <3> QED BY <2>1, <2>2, <3>2 DEF RebuildInv, liveVars, journalVars
  <2>3. CASE pc' # "mkdirs"
    BY <1>4, <2>1, <2>3, RebuildRests DEF Compare, Rebuilding, liveVars, journalVars
  <2> QED BY <2>2, <2>3
<1>5. CASE ~FinishInstall /\ ~RestoreMetadata /\ ~Compare
  <2>1. target' = target /\ (original' = original \/ original' = target)
    BY <1>5 DEF Prepare, Install, Restore, BeginPrepare, CreateJournal, WritePreparing,
                CopySnapshot, CheckSnapshots, SyncSnapshots, RecheckOriginals, WritePrepared,
                LinkJournal, InstallComponent, SkipComponent, VerifyInstalled, WriteVerified,
                BeginRestore, BeginFinalize, CheckOwned, WritePending, CheckOwnedAgain, Readback,
                Flush, WriteRestored, AssertRestored, Archive, liveVars, journalVars
  <2>2. pc' \notin Rebuilding
    BY <1>5 DEF Prepare, Install, Restore, BeginPrepare, CreateJournal, WritePreparing,
                CopySnapshot, CheckSnapshots, SyncSnapshots, RecheckOriginals, WritePrepared,
                LinkJournal, InstallComponent, SkipComponent, VerifyInstalled, WriteVerified,
                BeginRestore, BeginFinalize, CheckOwned, WritePending, CheckOwnedAgain, Readback,
                Flush, WriteRestored, AssertRestored, Archive, Proceed, Rebuilding
  <2> QED BY <2>1, <2>2, RebuildRests
<1> QED BY <1>2, <1>3, <1>4, <1>5

\* The environment.
LEMMA EnvironmentRebuild ==
    TypeOK /\ TypeOK' /\ RebuildInv /\ (Interrupt \/ PowerLoss \/ ThirdParty) => RebuildInv'
<1> SUFFICES ASSUME TypeOK, TypeOK', RebuildInv, Interrupt \/ PowerLoss \/ ThirdParty
             PROVE  RebuildInv'
  OBVIOUS
<1>1. CASE Interrupt
  BY <1>1, RebuildRests DEF Interrupt, Quit, Rebuilding, liveVars, journalVars
<1>2. CASE PowerLoss
  <2>1. original' = original /\ pc' = "idle"
    BY <1>2 DEF PowerLoss, Quit
  <2>2. \A c \in Components : target'[c] \in AfterPowerLoss(disk[c], target[c])
    BY <1>2, PowerLossTarget
  <2>3. \A c \in Components : Whole(target'[c])
    <3> SUFFICES ASSUME NEW c \in Components PROVE Whole(target'[c])
      OBVIOUS
    <3>1. CASE target'[c] = target[c]
      BY <3>1 DEF RebuildInv
    <3>2. CASE target'[c] \in Survivors(disk[c], target[c])
      <4>1. target'[c] \in Tree
        BY <3>2 DEF Survivors
      <4>2. ~Exists(target'[c]) => \A n \in Names : target'[c].file[n] = Missing
        BY <3>2 DEF Survivors
      <4>3. ~Exists(target'[c]) => target'[c] = NoTree
        BY <4>1, <4>2, NoTreeIsTree, SameTree DEF Exists, NoTree
      <4> QED BY <4>3 DEF Whole
    <3> QED BY <2>2, <3>1, <3>2 DEF AfterPowerLoss
  <2> QED BY <2>1, <2>3 DEF RebuildInv
<1>3. CASE ThirdParty
  <2>1. PICK c \in Components, n \in Names, b \in Content, o \in Owners :
          /\ target' = [target EXCEPT ![c] = Edit(target[c], n, b, o)]
          /\ touched' = touched \union {c}
    BY <1>3 DEF ThirdParty
  <2>2. UNCHANGED <<journalVars, pc, workVars>>
    BY <1>3 DEF ThirdParty
  <2>3. Exists(Edit(target[c], n, b, o))
    BY BundleAssumption DEF Edit, Exists
  <2>4. /\ target'[c] = Edit(target[c], n, b, o)
        /\ \A k \in Components : k # c => target'[k] = target[k]
    BY <2>1 DEF TypeOK
  <2>5. original' = original /\ cur' = cur /\ todo' = todo /\ pc' = pc /\ cur \in Components
    BY <2>2 DEF journalVars, workVars, TypeOK
  <2>6. /\ \A k \in Components : Whole(target'[k]) /\ Whole(original'[k])
        /\ Exists(target[cur]) => Exists(target'[cur])
    BY <2>3, <2>4, <2>5 DEF RebuildInv, Whole
  <2>7. cur' \notin touched' => cur \notin touched /\ target'[cur] = target[cur]
    BY <2>1, <2>4, <2>5
  <2> QED BY <2>5, <2>6, <2>7 DEF RebuildInv
<1> QED BY <1>1, <1>2, <1>3

\* What the restore has made of a component nobody else edits is known.
LEMMA Rebuilds == Spec => []RebuildInv
<1>1. Init => RebuildInv
  BY TransactionAssumption DEF Init, RebuildInv, Whole, TypeOK
<1>2. TypeOK /\ TypeOK' /\ IInv /\ RebuildInv /\ [Next]_vars => RebuildInv'
  <2>1. UNCHANGED vars /\ RebuildInv => RebuildInv'
    BY DEF vars, liveVars, journalVars, workVars, envVars, RebuildInv
  <2> QED BY <2>1, WorkerRebuild, ReplaceRebuild, EnvironmentRebuild DEF Next, WorkerStep
<1> QED BY <1>1, <1>2, Inductive, PTL DEF Spec

\* What the restore gives up over.  The exceptions it raises itself are for the
\* edits of third parties, never for what its predecessors left behind: a restore
\* of components nobody else wrote to finds nothing it does not recognise, does
\* not trip over a half removed or half copied component, and reads back what it
\* wrote.
GivesUpOverEdits ==
    [][WorkerStep /\ pc' = "idle" =>
          /\ pc \in Restoring \union {"owned"} => cur \in touched
          /\ pc = "assert" => touched # {}]_vars

\* Where the worker ends without an exception of somebody else's making.
LEMMA WhereItGivesUp ==
    ASSUME TypeOK, WorkerStep, pc' = "idle"
    PROVE  /\ pc \in {"owned", "reown"} => ~Owned(target[cur], original[cur], Payload[cur])
           /\ pc = "rmtree" => todo # Present(target[cur])
           /\ pc = "mkdirs" => Exists(target[cur])
           /\ pc = "readback" => target[cur] # original[cur]
           /\ pc = "assert" => target # original
           /\ pc \notin {"compare", "list", "copytree", "flush"}
<1>1. CASE Prepare \/ Install
  BY <1>1 DEF Prepare, Install, BeginPrepare, CreateJournal, WritePreparing, CopySnapshot,
     CheckSnapshots, SyncSnapshots, RecheckOriginals, WritePrepared, LinkJournal, InstallComponent,
     SkipComponent, FinishInstall, VerifyInstalled, WriteVerified
<1>2. CASE Replace
  BY <1>2 DEF Replace, ListForRemoval, RemoveEntry, RemoveRoot, CreateRoot, CopyPart, CopyEntry,
     Present
<1>3. CASE Restore
  BY <1>3 DEF Restore, BeginRestore, BeginFinalize, CheckOwned, WritePending, Compare,
     CheckOwnedAgain, RestoreMetadata, Readback, Flush, WriteRestored, AssertRestored, Archive,
     Proceed
<1> QED BY <1>1, <1>2, <1>3 DEF WorkerStep

THEOREM GivesUpOnlyOverEdits == Spec => GivesUpOverEdits
<1> DEFINE Excused == /\ pc \in Restoring \union {"owned"} => cur \in touched
                      /\ pc = "assert" => touched # {}
<1>1. ASSUME TypeOK, IInv, RebuildInv, WorkerStep, pc' = "idle" PROVE Excused
  <2>1. CASE pc \in {"owned", "reown"}
    <3>1. InForce
      BY <1>1, <2>1 DEF IInv, JournalInv, InForce, Saved, Restoring
    <3>2. cur \in touched
      BY <1>1, <2>1, <3>1, WhereItGivesUp DEF IInv, RecognisedInv, TypeOK
    <3> QED BY <2>1, <3>2
  <2>2. CASE pc \in {"rmtree", "mkdirs", "readback"}
    BY <1>1, <2>2, WhereItGivesUp DEF RebuildInv, Exists, NoTree
  <2>3. CASE pc = "assert"
    <3>1. receipt = "restored"
      BY <1>1, <2>3 DEF IInv, JournalInv
    <3>2. touched # {}
      BY <1>1, <2>3, <3>1, WhereItGivesUp DEF IInv, ProgressInv, IntactUnlessTouched, Intact, TypeOK
    <3> QED BY <2>3, <3>2 DEF Restoring
  <2>4. pc \notin {"compare", "list", "copytree", "flush"}
    BY <1>1, WhereItGivesUp
  <2> QED BY <2>1, <2>2, <2>3, <2>4 DEF Restoring
<1>2. TypeOK /\ IInv /\ RebuildInv /\ [Next]_vars =>
         [WorkerStep /\ pc' = "idle" => Excused]_vars
  BY <1>1
<1> QED BY <1>2, Inductive, Rebuilds, PTL DEF Spec, GivesUpOverEdits

\* How far a restore is, and how far it is with the component at the cursor.
Order(place) ==
    CASE place = "owned"    -> 0
      [] place = "pending"  -> 1
      [] place \in Restoring -> 2
      [] place = "restored" -> 3
      [] place = "assert"   -> 4
      [] place = "archive"  -> 5
      [] place = "idle"     -> 6

Turn(place) ==
    CASE place = "compare"  -> 0
      [] place = "reown"    -> 1
      [] place = "list"     -> 2
      [] place = "rmtree"   -> 3
      [] place = "mkdirs"   -> 4
      [] place = "copytree" -> 5
      [] place = "readback" -> 6
      [] place = "flush"    -> 7

\* A later part of the restore, the next component, a later step for this one,
\* or one entry less to remove or to copy.
Onward ==
    \/ Order(pc) < Order(pc')
    \/ pc = "owned" /\ pc' = "owned" /\ cur' = cur + 1
    \/ /\ pc \in Restoring /\ pc' \in Restoring
       /\ \/ cur' = cur - 1
          \/ cur' = cur /\ Turn(pc) < Turn(pc')
          \/ cur' = cur /\ pc' = pc /\ \E n \in todo : todo' = todo \ {n}

\* No step of a restore, however often it was interrupted before, takes it back:
\* each component is compared, emptied, copied and read back at most once, in one
\* order, so that a restore that keeps being run must end.
THEOREM RestoreGoesOn == Spec => [][Progress /\ pc \in Restoring \union
                              {"owned", "pending", "restored", "assert", "archive"} => Onward]_vars
<1> DEFINE Restoration == pc \in Restoring \union {"owned", "pending", "restored", "assert", "archive"}
<1>1. ASSUME TypeOK, Progress, Restoration PROVE Onward
  <2> USE DEF Order, Turn, Restoring
  <2>1. CASE Prepare \/ Install
    BY <1>1, <2>1 DEF Prepare, Install, BeginPrepare, CreateJournal, WritePreparing, CopySnapshot,
       CheckSnapshots, SyncSnapshots, RecheckOriginals, WritePrepared, LinkJournal,
       InstallComponent, SkipComponent, FinishInstall, VerifyInstalled, WriteVerified
  <2>2. CASE ListForRemoval \/ RemoveRoot \/ CreateRoot
    BY <1>1, <2>2 DEF ListForRemoval, RemoveRoot, CreateRoot, workVars, Onward
  <2>6. CASE RemoveEntry \/ CopyEntry
    <3>1. /\ cur' = cur /\ pc \in {"rm", "rmtree", "cp", "copytree"}
          /\ pc' = "idle" \/ (pc' = pc /\ \E n \in todo : todo' = todo \ {n})
      BY <2>6 DEF RemoveEntry, CopyEntry
    <3> QED BY <1>1, <3>1 DEF Onward
  <2>3. CASE BeginRestore \/ BeginFinalize \/ CheckOwned \/ WritePending
    BY <1>1, <2>3 DEF BeginRestore, BeginFinalize, CheckOwned, WritePending, Proceed, Onward
  <2>4. CASE Compare \/ CheckOwnedAgain \/ RestoreMetadata \/ Readback \/ Flush
    BY <1>1, <2>4 DEF Compare, CheckOwnedAgain, RestoreMetadata, Readback, Flush, workVars, Proceed,
       Onward
  <2>5. CASE WriteRestored \/ AssertRestored \/ Archive
    BY <1>1, <2>5 DEF WriteRestored, AssertRestored, Archive, Proceed, Onward
  <2> QED BY <1>1, <2>1, <2>2, <2>3, <2>4, <2>5, <2>6 DEF Progress, Restore
<1>2. TypeOK /\ [Next]_vars => [Progress /\ Restoration => Onward]_vars
  BY <1>1
<1> QED BY <1>2, TypeCorrect, PTL DEF Spec

=============================================================================
