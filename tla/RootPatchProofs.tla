--------------------------- MODULE RootPatchProofs ---------------------------
(***************************************************************************)
(* Root patching, for every choice of patch sets and any number of calls   *)
(* and failures: types, what the success flag means, what is left behind,  *)
(* what the next start finds, and the use of the Mellow journal as an undo *)
(* log.                                                                    *)
(***************************************************************************)
EXTENDS RootPatchInvariant, TLAPS

Step == StartPatch \/ StartUnpatch \/ Mount \/ PrepareJournal \/ Preflight \/ CopyFiles
        \/ FinishCopy \/ VerifyInstalled \/ RebuildCache \/ CreateSnapshot \/ FinishPatch
        \/ Revert \/ Clean \/ RestoreFiles \/ Finalize \/ Finally \/ Kill \/ Reboot

LEMMA NextIsStep == Next = Step
BY DEF Next, Step, WorkerStep, Patch, Unpatch

-----------------------------------------------------------------------------
(* Types                                                                   *)

LEMMA CountersOK ==
    ASSUME TypeOK
    PROVE  /\ Works => faults' \in 0..MaxFaults
           /\ Fails => faults' \in 0..MaxFaults
BY PatchSetAssumption DEF TypeOK, Works, Fails

\* A call starts.
LEMMA CallTypes ==
    ASSUME TypeOK, StartPatch \/ StartUnpatch
    PROVE  /\ runs' \in 0..MaxRuns
           /\ call' \in {"patch", "unpatch"} /\ pc' = "mount"
           /\ selected' \in BOOLEAN /\ own' = FALSE /\ skip' \in BOOLEAN /\ succeeded' = FALSE
<1>1. runs < MaxRuns /\ runs' = runs + 1 /\ runs \in 0..MaxRuns /\ MaxRuns \in Nat
  BY PatchSetAssumption DEF TypeOK, StartPatch, StartUnpatch
<1>2. runs' \in 0..MaxRuns
  BY <1>1, SMT
<1>3. selected' \in BOOLEAN /\ skip' \in BOOLEAN
  <2>1. CASE StartPatch
    <3>1. PICK s \in PatchSets : selected' = s.mellow /\ skip' = ~s.kdk
      BY <2>1 DEF StartPatch
    <3>2. s.mellow \in BOOLEAN /\ s.kdk \in BOOLEAN
      BY PatchSetAssumption
    <3> QED BY <3>1, <3>2, Zenon
  <2>2. CASE StartUnpatch
    BY <2>2, Zenon DEF StartUnpatch
  <2> QED BY <2>1, <2>2
<1> QED BY <1>2, <1>3 DEF StartPatch, StartUnpatch

\* Every step keeps the types.
LEMMA TypeStep == TypeOK /\ [Next]_vars => TypeOK'
<1> SUFFICES ASSUME TypeOK, [Next]_vars PROVE TypeOK'
  OBVIOUS
<1> USE DEF TypeOK, FileStates, JournalStates, PCs, Patching, Unpatching, vars, macVars,
            dataVars, callVars
<1>0. /\ Works => faults' \in 0..MaxFaults
      /\ Fails => faults' \in 0..MaxFaults
  BY CountersOK
<1>s. Sealed \in Snapshots
  BY DEF Sealed, Snapshots, Volumes
<1>1. CASE StartPatch
  BY <1>1, CallTypes, ZenonT(60) DEF StartPatch
<1>2. CASE StartUnpatch
  BY <1>2, CallTypes, ZenonT(60) DEF StartUnpatch
<1>3. CASE Mount
  BY <1>0, <1>3 DEF Mount
<1>4. CASE PrepareJournal
  <2>1. journal' \in JournalStates /\ pc' \in PCs /\ faults' \in 0..MaxFaults
    BY <1>0, <1>4 DEF PrepareJournal
  <2>2. own' \in BOOLEAN
    BY <1>4, Zenon DEF PrepareJournal
  <2> QED BY <1>4, <2>1, <2>2, ZenonT(60) DEF PrepareJournal
<1>5. CASE Preflight
  BY <1>0, <1>5 DEF Preflight, Volumes
<1>6. CASE CopyFiles
  BY <1>6 DEF CopyFiles
<1>7. CASE FinishCopy
  BY <1>0, <1>7 DEF FinishCopy, Volumes
<1>8. CASE VerifyInstalled
  BY <1>0, <1>8 DEF VerifyInstalled
<1>9. CASE RebuildCache
  BY <1>0, <1>9 DEF RebuildCache, LeaveUnpatch
<1>10. CASE CreateSnapshot
  BY <1>0, <1>10 DEF CreateSnapshot, Snapshots
<1>11. CASE FinishPatch
  BY <1>11 DEF FinishPatch
<1>12. CASE Revert
  BY <1>0, <1>s, <1>12 DEF Revert, LeaveUnpatch
<1>13. CASE Clean
  BY <1>0, <1>13 DEF Clean, LeaveUnpatch
<1>14. CASE RestoreFiles
  BY <1>0, <1>14, ZenonT(60) DEF RestoreFiles, RestoreRaises, LeaveUnpatch
<1>15. CASE Finalize
  BY <1>0, <1>15, ZenonT(60) DEF Finalize, LeaveUnpatch
<1>16. CASE Finally
  BY <1>0, <1>16 DEF Finally, RestoreRaises
<1>17. CASE Kill
  BY <1>0, <1>17, ZenonT(60) DEF Kill, Quit
<1>18. CASE Reboot
  BY <1>0, <1>18, ZenonT(60) DEF Reboot, Quit, Volumes
<1>19. CASE UNCHANGED vars
  BY <1>19
<1> QED
  BY <1>1, <1>2, <1>3, <1>4, <1>5, <1>6, <1>7, <1>8, <1>9, <1>10, <1>11, <1>12, <1>13,
     <1>14, <1>15, <1>16, <1>17, <1>18, <1>19, NextIsStep DEF Step

\* Every reachable state is well typed, whatever the patch sets and bounds.
THEOREM TypeCorrect == Spec => []TypeOK
<1>1. Init => TypeOK
  <2> SUFFICES ASSUME Init PROVE TypeOK
    OBVIOUS
  <2>1. runs \in 0..MaxRuns /\ faults \in 0..MaxFaults
    BY PatchSetAssumption DEF Init
  <2>2. Sealed \in Snapshots
    BY DEF Sealed, Snapshots, Volumes, FileStates
  <2> QED
    BY <2>1, <2>2 DEF Init, TypeOK, FileStates, JournalStates, Volumes, PCs
<1> QED BY <1>1, TypeStep, PTL DEF Spec
-----------------------------------------------------------------------------
(* What the success flag means                                             *)

\* Every step keeps StageInv.
LEMMA StageStep == TypeOK /\ StageInv /\ [Next]_vars => StageInv'
<1> SUFFICES ASSUME TypeOK /\ StageInv, [Next]_vars PROVE StageInv'
  OBVIOUS
<1> USE DEF StageInv, CallInv, PatchInv, UnpatchInv, FilesInv, SuccessMeansDone,
    TypeOK, Patching, Unpatching, PCs, Saved, JournalStates, FileStates, Sealed, Snapshots, vars,
    macVars, dataVars, callVars
<1>1. CASE StartPatch
  <2>1. selected' => ~skip'
    <3>1. PICK s \in PatchSets : selected' = s.mellow /\ skip' = ~s.kdk
      BY <1>1 DEF StartPatch
    <3>2. s.mellow => s.kdk
      BY PatchSetAssumption
    <3> QED BY <3>1, <3>2, Zenon
  <2> QED BY <1>1, <2>1 DEF StartPatch
<1>2. CASE StartUnpatch
  BY <1>2 DEF StartUnpatch
<1>3. CASE Mount
  BY <1>3 DEF Mount
<1>4. CASE PrepareJournal
  BY <1>4 DEF PrepareJournal
<1>5. CASE Preflight
  BY <1>5 DEF Preflight
<1>6. CASE CopyFiles
  BY <1>6 DEF CopyFiles
<1>7. CASE FinishCopy
  BY <1>7 DEF FinishCopy
<1>8. CASE VerifyInstalled
  BY <1>8 DEF VerifyInstalled
<1>9. CASE RebuildCache
  BY <1>9 DEF RebuildCache, LeaveUnpatch
<1>10. CASE CreateSnapshot
  BY <1>10 DEF CreateSnapshot
<1>11. CASE FinishPatch
  BY <1>11 DEF FinishPatch
<1>12. CASE Revert
  BY <1>12 DEF Revert, LeaveUnpatch
<1>13. CASE Clean
  BY <1>13 DEF Clean, LeaveUnpatch
<1>14. CASE RestoreFiles
  BY <1>14 DEF RestoreFiles, LeaveUnpatch, RestoreRaises
<1>15. CASE Finalize
  BY <1>15 DEF Finalize, LeaveUnpatch
<1>16. CASE Finally
  BY <1>16 DEF Finally, RestoreRaises
<1>17. CASE Kill
  BY <1>17 DEF Kill, Quit
<1>18. CASE Reboot
  BY <1>18 DEF Reboot, Quit
<1>19. CASE UNCHANGED vars
  BY <1>19
<1> QED
  BY <1>1, <1>2, <1>3, <1>4, <1>5, <1>6, <1>7, <1>8, <1>9, <1>10, <1>11, <1>12, <1>13,
     <1>14, <1>15, <1>16, <1>17, <1>18, <1>19, NextIsStep DEF Step

LEMMA StageInvariant == Spec => [](TypeOK /\ StageInv)
<1>1. Init => StageInv
  BY DEF Init, StageInv, CallInv, PatchInv, UnpatchInv, FilesInv, SuccessMeansDone, Patching
<1> QED BY <1>1, StageStep, TypeCorrect, PTL DEF Spec

\* A call that reports success has done its work: what it claims about the
\* snapshot, the files, the collections and the journal is true when it returns
\* and stays true until the next call, whatever the patch sets.
THEOREM SuccessIsReal == Spec => []SuccessMeansDone
<1>1. TypeOK /\ StageInv => SuccessMeansDone
  BY DEF StageInv
<1> QED BY <1>1, StageInvariant, PTL

-----------------------------------------------------------------------------
(* What is left behind and what the next start finds                       *)

\* Every step keeps LinkInv when every patch set needs a KDK.
LEMMA LinkStep ==
    ASSUME KdkOnly
    PROVE  TypeOK /\ StageInv /\ LinkInv /\ [Next]_vars => LinkInv'
<1> SUFFICES ASSUME TypeOK, StageInv, LinkInv, [Next]_vars PROVE LinkInv'
  OBVIOUS
<1> USE DEF LinkInv, CacheInv, NothingLeftBehind, BootFindsItsFiles, StageInv, CallInv, PatchInv,
            UnpatchInv, FilesInv, TypeOK, Patching, Unpatching, PCs, Saved, JournalStates,
            FileStates, Sealed, Snapshots, vars, macVars, dataVars, callVars
<1>1. CASE StartPatch
  <2>1. ~skip'
    BY <1>1, Zenon DEF StartPatch, KdkOnly
  <2> QED BY <1>1, <2>1 DEF StartPatch
<1>2. CASE StartUnpatch
  BY <1>2 DEF StartUnpatch
<1>3. CASE Mount
  BY <1>3 DEF Mount
<1>4. CASE PrepareJournal
  BY <1>4 DEF PrepareJournal
<1>5. CASE Preflight
  BY <1>5 DEF Preflight
<1>6. CASE CopyFiles
  BY <1>6 DEF CopyFiles
<1>7. CASE FinishCopy
  BY <1>7 DEF FinishCopy
<1>8. CASE VerifyInstalled
  BY <1>8 DEF VerifyInstalled
<1>9. CASE RebuildCache
  BY <1>9 DEF RebuildCache, LeaveUnpatch
<1>10. CASE CreateSnapshot
  BY <1>10 DEF CreateSnapshot
<1>11. CASE FinishPatch
  BY <1>11 DEF FinishPatch
<1>12. CASE Revert
  BY <1>12 DEF Revert, LeaveUnpatch
<1>13. CASE Clean
  BY <1>13 DEF Clean, LeaveUnpatch
<1>14. CASE RestoreFiles
  BY <1>14 DEF RestoreFiles, RestoreRaises, LeaveUnpatch
<1>15. CASE Finalize
  BY <1>15 DEF Finalize, LeaveUnpatch
<1>16. CASE Finally
  BY <1>16 DEF Finally, RestoreRaises
<1>17. CASE Kill
  BY <1>17 DEF Kill, Quit
<1>18. CASE Reboot
  BY <1>18 DEF Reboot, Quit
<1>19. CASE UNCHANGED vars
  BY <1>19
<1> QED
  BY <1>1, <1>2, <1>3, <1>4, <1>5, <1>6, <1>7, <1>8, <1>9, <1>10, <1>11, <1>12, <1>13,
     <1>14, <1>15, <1>16, <1>17, <1>18, <1>19, NextIsStep DEF Step

LEMMA LinkInvariant ==
    ASSUME KdkOnly
    PROVE  Spec => []LinkInv
<1>1. Init => LinkInv
  BY DEF Init, LinkInv, CacheInv, NothingLeftBehind, BootFindsItsFiles, Saved, Sealed
<1>2. TypeOK /\ StageInv /\ LinkInv /\ [Next]_vars => LinkInv'
  BY LinkStep
<1> QED BY <1>1, <1>2, StageInvariant, PTL DEF Spec

\* When every patch set needs a KDK: a Mellow file, a collection that links one
\* or a snapshot with such a collection is only ever there under a journal that
\* can be restored.
THEOREM NothingIsLeftBehind ==
    ASSUME KdkOnly
    PROVE  Spec => []NothingLeftBehind
<1>1. LinkInv => NothingLeftBehind
  BY DEF LinkInv
<1> QED BY <1>1, LinkInvariant, PTL

\* When every patch set needs a KDK: whenever the machine restarts, a collection
\* that was built with Mellow finds its files.
THEOREM EveryBootFindsItsFiles ==
    ASSUME KdkOnly
    PROVE  Spec => []BootFindsItsFiles
<1>1. LinkInv => BootFindsItsFiles
  BY DEF LinkInv
<1> QED BY <1>1, LinkInvariant, PTL

-----------------------------------------------------------------------------
(* The journal as an undo log                                              *)

LEMMA NotACopy == NoCopy # [i \in {"mellow"} |-> "original"]
<1>1. DOMAIN NoCopy # DOMAIN [i \in {"mellow"} |-> "original"]
  BY DEF NoCopy
<1> QED BY <1>1

\* The journal is opened and given up by steps that leave the files alone.
LEMMA FilesStay ==
    ASSUME TypeOK, StageInv, Next, (journal \in Saved) # (journal' \in Saved)
    PROVE  files = "original" /\ files' = files
<1> USE DEF Saved, JournalStates, macVars, dataVars, callVars
<1>1. CASE PrepareJournal
  BY <1>1 DEF PrepareJournal, StageInv, FilesInv
<1>2. CASE Finalize
  BY <1>2 DEF Finalize, StageInv, UnpatchInv
<1>3. CASE StartPatch \/ StartUnpatch \/ Mount \/ Preflight \/ CopyFiles \/ FinishCopy
  BY <1>3 DEF StartPatch, StartUnpatch, Mount, Preflight, CopyFiles, FinishCopy
<1>4. CASE VerifyInstalled
  BY <1>4 DEF VerifyInstalled, StageInv, PatchInv
<1>5. CASE RebuildCache \/ CreateSnapshot \/ FinishPatch \/ Revert \/ Clean
  BY <1>5 DEF RebuildCache, CreateSnapshot, FinishPatch, Revert, Clean
<1>6. CASE RestoreFiles
  BY <1>6 DEF RestoreFiles, RestoreRaises
<1>7. CASE Finally
  BY <1>7 DEF Finally, RestoreRaises
<1>8. CASE Kill \/ Reboot
  BY <1>8 DEF Kill, Reboot
<1> QED BY <1>1, <1>2, <1>3, <1>4, <1>5, <1>6, <1>7, <1>8, NextIsStep DEF Step

\* Root patching implements the undo log for the Mellow files, whatever the
\* patch sets: it writes them under a journal of the originals only, and gives
\* the journal up only when they are back.
THEOREM RootPatchImplementsUndoLog == Spec => IsUndoLog
<1> DEFINE one == [i \in {"mellow"} |-> files]
<1> DEFINE copy == IF journal \in Saved THEN [i \in {"mellow"} |-> "original"] ELSE NoCopy
<1>1. Init => Undo!Init
  BY DEF Init, Undo!Init, FileStates, Saved
<1>2. TypeOK /\ StageInv /\ TypeOK' /\ StageInv' /\ [Next]_vars => [Undo!Next]_<<one, copy, {}, 0>>
  <2> SUFFICES ASSUME TypeOK, StageInv, TypeOK', StageInv', [Next]_vars
               PROVE  Undo!Next \/ UNCHANGED <<one, copy>>
    BY Zenon
  <2>1. one' \in [{"mellow"} -> FileStates]
    BY DEF TypeOK
  <2>2. CASE journal \in Saved /\ journal' \in Saved
    <3>1. copy' = copy /\ copy # NoCopy
      BY <2>2, NotACopy
    <3> QED BY <2>1, <3>1 DEF Undo!Next, Undo!Work
  <2>3. CASE journal \notin Saved /\ journal' \in Saved
    <3>1. files = "original" /\ files' = files
      BY <2>3, FilesStay DEF vars, dataVars
    <3> QED BY <2>1, <2>3, <3>1 DEF Undo!Next, Undo!Open
  <2>4. CASE journal \in Saved /\ journal' \notin Saved
    <3>1. files = "original" /\ files' = "original"
      BY <2>4, FilesStay DEF vars, dataVars
    <3> QED BY <2>1, <2>4, <3>1, NotACopy DEF Undo!Next, Undo!Close
  <2>5. CASE journal \notin Saved /\ journal' \notin Saved
    <3>1. files = "original" /\ files' = "original"
      BY <2>5 DEF StageInv, FilesInv
    <3> QED BY <2>5, <3>1
  <2> QED BY <2>2, <2>3, <2>4, <2>5
<1> QED BY <1>1, <1>2, StageInvariant, PTL DEF Spec, IsUndoLog, Undo!Spec, Undo!uvars

-----------------------------------------------------------------------------
(* Termination: every step of a call leads on                              *)

\* The order of the places of a call: the patch, its rollback or the unpatch.
Order(place) ==
    CASE place = "mount"     -> 0
      [] place = "prepare"   -> 1
      [] place = "preflight" -> 2
      [] place = "copy"      -> 3
      [] place = "copying"   -> 4
      [] place = "installed" -> 5
      [] place = "cache"     -> 6
      [] place = "snapshot"  -> 7
      [] place = "finish"    -> 8
      [] place = "revert"    -> 9
      [] place = "clean"     -> 10
      [] place = "restore"   -> 11
      [] place = "recache"   -> 12
      [] place = "finalize"  -> 13
      [] place = "finally"   -> 14
      [] place = "idle"      -> 15

\* Each step of start_patch and start_unpatch leads on, whatever fails: the
\* handler of a failed patch is entered once, and no restore starts another.
THEOREM CallGoesOn == Spec => [][WorkerStep => Order(pc) < Order(pc')]_vars
<1>1. WorkerStep => Order(pc) < Order(pc')
  <2> SUFFICES ASSUME WorkerStep PROVE Order(pc) < Order(pc')
    OBVIOUS
  <2> USE DEF Order, LeaveUnpatch
  <2>1. CASE Mount           BY <2>1 DEF Mount
  <2>2. CASE PrepareJournal  BY <2>2 DEF PrepareJournal
  <2>3. CASE Preflight       BY <2>3 DEF Preflight
  <2>4. CASE CopyFiles       BY <2>4 DEF CopyFiles
  <2>5. CASE FinishCopy      BY <2>5 DEF FinishCopy
  <2>6. CASE VerifyInstalled BY <2>6 DEF VerifyInstalled
  <2>7. CASE CreateSnapshot  BY <2>7 DEF CreateSnapshot
  <2>8. CASE FinishPatch     BY <2>8 DEF FinishPatch
  <2>9. CASE RebuildCache    BY <2>9 DEF RebuildCache
  <2>10. CASE Revert         BY <2>10 DEF Revert
  <2>11. CASE Clean          BY <2>11 DEF Clean
  <2>12. CASE RestoreFiles   BY <2>12 DEF RestoreFiles
  <2>13. CASE Finalize       BY <2>13 DEF Finalize
  <2>14. CASE Finally        BY <2>14 DEF Finally
  <2> QED
    BY <2>1, <2>2, <2>3, <2>4, <2>5, <2>6, <2>7, <2>8, <2>9, <2>10, <2>11, <2>12, <2>13, <2>14
       DEF WorkerStep, Patch, Unpatch
<1> QED BY <1>1, PTL DEF Spec

\* A rollback or an unpatch that is left without a failure of its steps, and
\* without a journal that never got past "preparing", leaves the sealed snapshot
\* blessed, the original files in place and no journal.
RollsBackUnlessFault ==
    [][/\ WorkerStep /\ pc \in Unpatching \ {"finally"} /\ pc' \notin Unpatching \ {"finally"}
       /\ Works /\ journal # "preparing"
       => boot' = Sealed /\ files' = "original" /\ journal' = "absent" /\ succeeded']_vars

\* So a rollback is cut short by failures only, never by the order of its steps
\* or by what an earlier attempt left.
THEOREM RollsBack == Spec => RollsBackUnlessFault
<1> DEFINE A == /\ WorkerStep /\ pc \in Unpatching \ {"finally"}
                /\ pc' \notin Unpatching \ {"finally"} /\ Works /\ journal # "preparing"
           B == boot' = Sealed /\ files' = "original" /\ journal' = "absent" /\ succeeded'
<1>1. TypeOK /\ StageInv /\ [Next]_vars => [A => B]_vars
  <2> SUFFICES ASSUME TypeOK, StageInv, A PROVE B
    OBVIOUS
  <2> USE DEF Unpatching, LeaveUnpatch, Works, macVars, dataVars
  <2>1. CASE RebuildCache BY <2>1 DEF RebuildCache, Fails, TypeOK
  <2>2. CASE Revert       BY <2>2 DEF Revert, Fails, TypeOK
  <2>3. CASE Clean        BY <2>3 DEF Clean, Fails, TypeOK
  <2>4. CASE RestoreFiles
    BY <2>4 DEF RestoreFiles, RestoreRaises, Fails, TypeOK, StageInv, UnpatchInv, FilesInv, Saved, JournalStates
  <2>5. CASE Finalize
    BY <2>5 DEF Finalize, Fails, TypeOK, StageInv, UnpatchInv
  <2>6. pc \notin {"mount", "finally"} \union Patching \/ pc = "cache"
    BY DEF Patching
  <2> QED
    BY <2>1, <2>2, <2>3, <2>4, <2>5, <2>6
       DEF WorkerStep, Patch, Unpatch, Patching, Mount, Finally, PrepareJournal, Preflight, CopyFiles,
           FinishCopy, VerifyInstalled, CreateSnapshot, FinishPatch
<1>2. Spec => [][A => B]_vars
  BY <1>1, StageInvariant, PTL DEF Spec
<1> QED BY <1>2, PTL DEF RollsBackUnlessFault

=============================================================================
