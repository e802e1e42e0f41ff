# 26x86: models, model checking and proofs

This directory holds TLA+ specifications of the parts of 26x86 in which a
mistake is hard to find by testing: the choice and order of root patches, the
journaled installation of driver files, root patching with its rollback,
the making of an OpenCore folder and its installation, resumable downloads, the
supervision of a worker's processes, the runs of a virtual machine and what they
claim, and the authority kernel of the sandbox.
TLC checks them on small instances; TLAPS proves every safety invariant, action
property and refinement the runs check, for every value of the constants, and of
the liveness properties the part that is about single steps. Every definition is translated from the code;
`PROJECT.json` maps each one to the lines it stands for.

    tlc -workers 2 -config RootPatch.cfg MCRootPatch.tla     # one run
    tlapm RootPatchProofs.tla                                # one module of proofs

## The system

26x86 ("NextCore") installs drivers and patches on macOS, builds EFI
configurations, and runs research guests under QEMU. Its parts:

| Part | Source | State | Operations | Hard because of |
|---|---|---|---|---|
| Patch-set detection, KDK and MetalLib handlers | `opencore_legacy_patcher/sys_patch/patchsets/`, `support/{kdk,metallib}_handler.py` | detected requirements, cached release lists, installed packages | detect, fetch, preflight, apply | two detections with the network in between, incompatible cards, order of the sets |
| Root patching | `opencore_legacy_patcher/sys_patch/` | system volume, snapshots, kernel collections, the Mellow journal, a success flag | `start_patch`, `start_unpatch` | rollback of a rollback, `sys.exit` in handlers, stale flags, restarts |
| Mellow transaction | `x86/mellow/transaction.py` | journal directory (receipt, backups, expected), live components | `prepare`, `installed`, `restore_installed`, `finalize_restore` | crashes and power losses between file-system effects, edits by others, retries |
| Downloads | `opencore_legacy_patcher/support/network_handler.py`, `wx_gui/gui_download.py` | `DownloadObject`, a window polling it | `download`, `stop`, validation by the caller | retry and resume, stop racing completion, a file replaced on the server |
| vmapple | `x86/vmapple.py`, `vmapple_restore.py`, `vmapple_personalization.py`, `iboot_handoff.py` | QEMU child, `launch.json`, tickets, the guest's stages | direct boot, recovery, restore chain | lost answers, resets, panics, interrupts, evidence out of order |
| Recovery supervisor | `x86/recovery_supervisor.py` | worker session, captures, evidence envelope | `run_owned`, `supervise` | forks racing the scan, PID reuse, deadlines |
| VSK policy | `sandbox/vsk/src/vf_policy.c` | capability, grant and partition tables | look-up, restricted dup, revoke, reclaim, bind, plan | unsigned arithmetic, revocation order |
| Boot picker, GUI bridge | `x86/boot_picker.py`, `x86/gui/` | cached selections | list, select, start | stale selections |
| Mellow payload, selection | `x86/mellow/payload.py`, `integration.py` | none | validation | - |
| EFI builder | `opencore_legacy_patcher/efi_builder/build.py`, `support/install.py`, `wx_gui/gui_{build,install_oc,oc_settings}.py`, `x86/gui/wizard/` | model, profile and saved path; build folders, the EFI partition; a window and its thread | choose, build, save, install | settings read anew at every access, unchecked `mv` and `rm`, interrupted builds |
| Data sets, front ends, tooling, vendored code | see `PROJECT.json` | none, or a user interface | - | - |

How they meet: the patcher window detects the hardware, selects patch sets and
downloads what they need; `start_patch` detects again, asks the Mellow selection
for a validated payload, calls `prepare()` of the transaction, merges the KDK,
copies files with the generic patch engine, calls `installed()`, rebuilds the
kernel collections and blesses a snapshot. A failure, and `start_unpatch`, revert
the snapshot and call `restore_installed` and `finalize_restore`. The supervisor
starts `python -m x86 vmapple run` in a session of its own; the two share nothing
but that process. The EFI builder shares the settings with the patcher window and
nothing else: the user builds and installs OpenCore, restarts, and patches then. The VSK policy is linked into a root that is not part of the
repository.

What makes each part correct:

* detection and preflight: no selected set undoes another one's files; nothing is
  written without the packages it needs; no plan is accepted that cannot be
  carried out; every search ends;
* root patching: the success flag means what it says; the next start never loads
  collections without their files; a failed patch leaves nothing behind without
  a journal;
* transaction: an original is never lost, whatever is interrupted; nothing that
  is not the payload's or the original's is overwritten; a restore can always be
  taken up again; the backups go away last;
* EFI builder: a validated folder holds one build; what is reported installed is
  the build that was just made; a saved build is where the window says;
* downloads: a complete download is whole, an accepted one is the expected one,
  the window reports what happened, a stop is heard, and everything ends;
* vmapple: the report claims no step that did not happen, no process is left
  behind silently, a verified boot did reach userspace, a bounded run ends;
* supervisor: it signals its own processes only, keeps the worker's exit status,
  leaves no process behind and says so only when it is true;
* VSK policy: reclaimed pages are unreachable, duplicates carry no more than
  their source, old handles open nothing, transfers stay in their partition.

## Modules

### Patch sets

`PatchHardware` is the table of `patchsets/`: for each hardware class, in the
order of `HardwarePatchsetDetection`, whether it is present on a machine, native
on its system, its graphics subclass, the packages it needs and the patch sets
it selects, with the version thresholds of the shared patches. A machine is a
system version, a model, sets of cards and devices, and whether it has AVX2.
`PatchFiles` says which of the contested files, those that more than one set
touches or that one removes and another brings, a set removes, overwrites and
merges. Files of one set only cannot be in conflict and are left out. Names are
those of the code with hyphens for spaces and underscores for commas.

`PatchSets` composes them: `StripIncompatible`, `TahoePreAVXPolicy` and `Detect`
are the passes of `_detect`. Hardware is a set of positions in the table, and a
place `<<p, k, name>>` is a set by its name together with where it is asked for,
the k-th step of the class at position p; the dictionary of the code, in which a
name keeps the place it was first given, is the set of the first places
(`Firsts`), in the order of `Earlier`. `KdkFound`, `MetallibFound` and the
`...Known` pair are the answers of the two handlers, for an installed and an
offered build that is missing, older or exact, with the list of releases fetched
or kept from before. `OpenPatcher` is the first detection, `WindowDownloads` the
download windows, `StartPatch` the second detection, `Preflight`,
`LookForMetallib`, `FetchMetallib` and `MergeKDK` the preflight, `ApplySet` one
pass of `_execute_patchset`: removals, then what is overwritten, then what is
merged. `disk` maps each contested file to the set of its layers. `NetworkChanges`
may come between any two of these. What a failure leaves on the disk belongs to
`RootPatch`. `PatchSetsProofs` holds the proofs.

### Root patching

`RootPatch` models the two entry points of `PatchSysVolume` as a sequence of
program points. `files` and `journal` are the data volume, `volume`, `kc`,
`aux`, `boot` and `booted` the system volume, the collections built with or
without the Mellow files and the blessed and running snapshots; `own`, `skip`,
`selected` and `succeeded` are the variables of the code with these meanings.
Every command the code runs succeeds or fails; where the code looks at the
result it goes to the handler, where it does not (`rsync`, missing folders,
post-install processes) it goes on. `sys.exit` leaves through `finally` clauses
only. `Kill` and `Reboot` may come at any point; a restart loads the blessed
snapshot. Calls of the journal are single steps with the outcomes
`MellowTransaction` allows; `IsUndoLog` ties the two together: both modules
implement `UndoLog`. `RootPatchInvariant` holds the inductive invariants,
`RootPatchProofs` the proofs.

### Mellow transaction

`Bundles` is the file-system side: a component is an owner and a function from
file names to contents; `MatchesPartial` and `Owned` are the recognition of
debris in `_matches_partial` and `_owned_current`; `AfterPowerLoss` says which
mixtures of the durable and the cached image a power loss can leave.

`UndoLog` is the abstract specification: data may change only while a copy of
the originals is saved, the copy does not change while it is needed, and it is
given up only when the data are back. What others change ("stained") is not the
log's to answer for.

`MellowTransaction` has one action per file-system effect or per read whose
result is relied on later. `target` is what processes read, `disk` what survives
a power loss; `active`, `linked`, `receipt`, `original`, `backups`, `expected`
and `synced` are the journal; `pc`, `cur`, `todo` and `defer` are the worker's
locals. `Interrupt` is an exception or the death of the process between any two
effects, `PowerLoss` also drops what was not synced, `ThirdParty` is an edit of
a live file. A receipt write (temporary file, fsync, `os.replace`, fsync of the
directory) is one step because it leaves the old or the new receipt.
`MellowInvariant` holds the inductive invariant and `MellowProofs` the proofs.

### Downloads

`Download` is three parties. The worker is `_download` and `_download_stream`:
`Begin`, `Get` with the answers 206, 200 and anything else, `Chunk`, `Break` (a
connection that ends within an answer), `Transient` with its bounded retries and
the sleep between them, `Finish`, `Publish` and `Fail`. The server publishes
versions of the file (`Republish`); block i of version v is `<<v, i>>`, so a file
on the disk shows which versions it is made of. The window polls `status` and
`download_complete` (`Poll`), may be cancelled at any moment, and hands the file
to a caller that compares the checksum (`Validate`). The checksum of a sequence
of blocks is that sequence: two files have the same checksum when they are equal.

### EFI builder

`EfiBuild` is the windows that choose a model, a profile and a place, the build
thread and the install thread. `customModel`, `profile` and `savePath` are
`Constants.custom_model`, `build_profile` and `oc_build_path`; `Target`, `BuildDir`
and `Release` are the properties of `Constants` that are worked out at every
access, and `Source` is what the folder of the moment holds. `folders` maps a
parent folder and a model to the build there, `inside` to what `mv` put into it,
`staging` to what was extracted and not yet renamed; `esp` is EFI/OC and System of
the partition. A copy of a build is which build wrote it last, which builds its
files are of, and whether it was validated. `frame` is the window in front and
what it was opened for, `step` the place in its thread.

`WizardBuild` and `WizardInstall` are the steps of the wizard, `Save` and `Install`
the two dialogs of the OpenCore settings, `InstallUnasked` the installation after
an update; `StartBuild` to `MoveBuild` is `_build_opencore`, `Mount` to
`FinishInstall` is `install_opencore`. A removal as root may be refused unseen
(`Refused`), a copy may fail half done or land nowhere, a build may raise at any
step (`BuildFails`), and the program may be killed and started again (`Restart`):
folders and partition stay. `cp -r` into a folder that still stands puts the new
one inside it (`Onto`): what counts as EFI/OC is then the old build with files of
the new one among it. `rmtree` removes what it is asked to: that it
leaves files behind silently on a system without `onexc` is left out.

### vmapple

`VMapple` is one call of `run()`. `pc` is the place in it; `report` is
`launch.json`; `qemu`, `stage`, `nonce`, `uart` and `got` are the guest: the
child process, where its boot stands, how often it was reset, the marks on its
serial log and the steps that reached it. The direct path observes the serial
log, terminates a guest without evidence, watches it, waits, kills and applies
the handoff gate. The recovery path personalises against the live identity,
uploads iBSS, probes for endpoint 4, sends policy and iBEC, waits for the prompt,
sends the restore chain in the order of `Plan`, watches, and reports.
`Transfer` is answered, or arrives and its answer is lost, or does not arrive.
The restore chain passes over a notification the guest refuses, and over an extra
command whatever the protocol error was, so also when the command arrived and only
its answer was broken; `ReportIsHonest` therefore lets extra commands, and the last
step, go unacknowledged, and nothing else. `Observe` reads the marks of the serial log and the
version of the kernel, which a banner need not have in a form it can read.
`Except` is the handler of `run()`; `Interrupt` reaches it from everywhere except
the restore chain, which catches `BaseException` itself. The guest may panic,
reset or exit, its firmware may print a word of the userspace marks (`Stray`),
and the input files may be edited at any time. `VMappleProofs` holds the proofs.

### Recovery supervisor

`Supervisor` models `run_owned`: the main loop, the cleanup phases (wait, then
SIGTERM, then SIGKILL), the exception handler and the finally clause. `stage`
and `pc` are the place in the code; `members`, `code`, `scanOK`, `eof`, `stop`,
`todo`, `sig` and `target` are its variables, `fd` the start time of the process
a pidfd pins. `phase` is the clock, cut at the points the code compares it with.
A `refresh` is the scan whose members are waited for (`Reap`, one step, because
its result is overwritten unless the second scan fails), then the listing of
`/proc` and the reads of what was listed (`List`, `Read`); a signal is the first
check, the pidfd, the second check with the delivery (`Choose`, `Open`, `Send`).
Between any two of these steps the worker's processes fork, leave the session,
exit, are waited for by their parents, and unrelated processes start and end
(`ProcessStep`). `proc` is the process table: start time, session, whether the
process descends from the worker, whether it runs, was killed, holds the pipes,
and who has to wait for it. A start time is the number of processes created so
far; the ten-millisecond tick of the real ones is not modelled, so two processes
never share one.

A complete cleanup has one blind spot, which `CompleteButForked` states: a process
that forks after `/proc` was listed and has left the session, or is gone, when it
is read hides its child from the scan.

A session is the identity (number and start time) of the process that made it; the
code knows only its number, and `InSession` is what the code compares, `Owned` what
is meant. `CONSTANT Reusable` says which numbers new processes may get, and in the
run the worker's own is among them. Nothing in the code keeps it from being given
away once the worker was reaped and its session is empty. `NoStrangerSignalled`
says what then holds: whoever is signalled without being the worker's is in a
session made under that very number, after the worker was reaped and its status
reported. That there is no such case at all is refuted by `SupervisorReuse.cfg`,
under Known disagreements.

### VSK policy

`VskBlock` is the arithmetic: words of `Word` values with the C operators
`Minus`, `Plus` and `Times` that wrap, `CheckPartition`, the exact match of a
selector and `Plans`/`Plan` of a block request. `VskPolicy` is the protocol
around it: capabilities with generations, rights and time windows, the canonical
grant with its flags, references, revocation and reclaim, discovery, binding and
requests to a block device that may be reset. The code decides; a root that
`vf_policy.h` describes acts. The root is modelled from those comments: it holds
the lock from a decision to what follows from it, fans a revocation out to every
view, issues every generation once, and records an acknowledgement only when no
reference of that kind is left. Which rights a first holder gets and which a
duplicate asks for are constants (`FirstRights`, `DupRights`). `reach` is what the hardware can still reach;
`ReclaimedIsUnreachable` relates it to the decision of the code.

### Instances

`MCMellowTransaction`, `MCRootPatch`, `MCSupervisor`, `MCPatchSets`, `MCEfiBuild`,
`MCDownload`, `MCVMapple` and `MCVskPolicy` hold the values TLC takes for the constants.

## Runs

| Run | Question | Bounds | States |
|---|---|---|---|
| `mellow_crash` | do exceptions, crashes and power losses lose an original, leave unrecognisable debris, or leave settled data that are not durable; does an undisturbed restore then finish? | 2 components, 2 file names, 4 contents, 2 transactions, 2 faults, fairness | |
| `mellow_third_party` | do the checks see every edit they can see before they write or archive? | 1 transaction, 1 fault, 1 edit | |
| `root_patch` | do flag, journal, collections and snapshot agree for patch sets with a KDK? | 4 calls, 4 faults | |
| `root_patch_aux` | is the journal an undo log with a patch set that needs no KDK; does a rollback that meets no further failure finish? | 4 calls, 4 faults, fairness | |
| `supervisor` | is anybody else signalled, is the exit status kept, is the report true, is the worker given up early; does `run_owned` return, does a kill phase that lasts kill everybody? | 2 numbers, both reused, 3 processes, 1 fault, fairness | 394 934 |
| `patch_sets` | which sets are selected, do they undo each other, is anything written without its packages, is a plan accepted that cannot be carried out, does every run end? | 5 releases, an integrated and up to 2 discrete cards, special models; for machines with packages every state of KDK, MetalLib and server, 2 changes of the network; fairness | 138 434 |
| `download` | is a complete file whole, an accepted one the expected one; what does the window show; is a stop heard; does everything end? | 3 versions of 4, 6 and 2 blocks, 5 retries, fairness | 13 268 |
| `vmapple` | is the report true, is anything left behind silently, is a verified boot a boot, does a bounded run end? | direct, supplied and personalised configurations, restore chain with logo, 2 systems, 1 reset, 1 edit, fairness | 469 336 |
| `vsk` | what is reachable after a reclaim, what do duplicates carry, which handles work, where do transfers land? | 2 cells, 1 slot each, 3 generations, 2 sets of first rights, 4-bit words, 2 disk generations, 1 request at a time | 551 882 |
| `efi_build` | does a folder hold one build, is the build installed that was made, is a saved one where the window says? | 2 models, one of them spoofed and one with the profile buttons, 2 profiles, 2 parent folders, 2 builds | 3 734 724 |
| `patch_sets_tahoe` | (violation) does a plan hold nothing but patch sets? | no outage | |
| `efi_places` | (violation) do builds for different Macs stay side by side? | as `efi_build` | |

Why the bounds are enough. Two components give a first and a last one, so the
cursor of a restore, the partial refusal and the reverse order all happen; one
existing component with a second file in the payload and one new component give
every kind of removal and creation; two faults give a fault of the recovery
from a fault; four calls of root patching give an installation, a failed second
patch, an unpatch and one more. Three processes are the worker, a child and
either a grandchild, a daemon's child or a stranger that takes a freed number:
every race of the supervisor is between two of them and one scan or signal.

A conflict of patch sets is between two classes, and stripping looks at three
subclasses, so an integrated and two discrete cards show every one; the releases
are one on each side of every threshold from Monterey to Tahoe that changes which
sets meet. Packages matter only as missing, older or exact, and two changes of
the network put one on each side of the second detection. Three versions, one
longer and one shorter than the first, let a range start within, at and past the
end of the file it continues; five retries are `MAX_DOWNLOAD_RETRIES`. One reset
makes every identity and ticket stale once. Four-bit words with a disk of 14
blocks put the sums and products the code guards on both sides of the wrap; three
generations are a capability, its duplicate, and one for the grant that follows.
The rights a duplicate asks for are fewer than those of one first holder and reach
beyond those of the other, so both an allowed and a refused one occur; longer chains,
with other rights, are the proof's (`DuplicatesNeverAmplify`).

Two builds are an earlier and a later one: what the first leaves behind, finished
or not, meets the second under every change of the settings in between. Two models
and two parent folders make a saved path that differs from the folder of the
build in either part; the third case of `Move`, a name already taken inside the
saved folder, takes a third build and changes nothing. The proofs hold for any
number.

`CHECK_DEADLOCK FALSE` is set where the program stops when nobody calls it and
the bounds are used up; the other specifications say where a run is over (`Over`,
`Closed`) and are checked for deadlock.

Fairness: each `FairSpec` is weak fairness of the steps of a running worker,
which the operating system's scheduler gives it. Nothing forces the user to start
or cancel an operation, and no fault is ever forced or forbidden. For downloads
this says that every request is answered or fails, which the 15-second time-out
of `SESSION.get` sees to, and that the window's timer fires. For vmapple it says
that waits with a time-out end; the guest is under no fairness at all, and a run
with neither a time budget nor a stop file may last as long as the guest. The
supervisor's is that of its steps, of the clock, and of the exit of a process
that was sent SIGKILL, which the kernel brings about; a process is never assumed
to exit, to fork or to wait for its children by itself. The clock may stop in the
kill phase: how long a kill takes is not bounded by the code, so `KillsAll` is
about what the phase does while it lasts, and `Returns` about every execution
that leaves it. The number of processes is bounded, so a worker that forks for
ever is not covered: the code does not stop one.

## Known disagreements

Two runs show the code doing something other than its own text says:

* `patch_sets_tahoe`: `TahoeYellowScreen.patches()` merges what the SkyLight
  hooks return among the patch sets; one of the hooks returns a report, its key
  `extreme` holds a Boolean, and the preflight raises a `TypeError` on it. Every
  machine whose card selects this set on Tahoe is rolled back.
* `efi_places`: `oc_build_path` keeps the place of the last saved build and every
  later build is moved there. After a change of the model `mv` puts the new build
  inside the saved folder, where the constants say that builds for different Macs
  sit next to each other. An installation that follows empties the partition, finds
  no folder to copy and reports failure.

Twelve more are kept with their configurations and are refuted the same way, one
property each, by running TLC by hand:

* `DownloadRestart.cfg`, `RestartsFromScratch`: a server that ignores the range
  makes a hashed download end with a `TypeError`, because the type of a `hashlib`
  object cannot be instantiated, where the comment says that it starts from scratch.
* `VMappleGate.cfg`, `VerifiedIsGated`: an exception after the direct observation,
  an interrupt or a guest that survives SIGKILL for five seconds, takes the report
  past the handoff gate: it is written and returned as verified, also over changed
  inputs.
* `EfiBuildUnfinished.cfg`, `InstalledIsFinished`: the wizard calls every build done
  (`wizard_frame.py:429`), also one that failed, and its install step copies the
  folder that build left and reports success: nothing asks whether it was ever
  validated.
* `MellowOverwrite.cfg`, `NeverOverwritesForeign`: the docstring of
  `transaction.py` claims that concurrent writes are never overwritten; a write
  between the last check and `rmtree` is.
* `RootPatchComplete.cfg`, `SuccessIsComplete`: a patch of Mellow and another set
  reports success over a system volume that was copied in part, because a failing
  `rsync`, a missing folder and a failing post-install process are passed over.
* `RootPatchArchive.cfg`, `RebuiltBeforeArchive`: the rollback of a patch that
  needs no KDK archives the Mellow journal although the primary collections were
  not rebuilt.
* `RootPatchLinking.cfg`, `VerifiedBeforeLinking`: a patch of other hardware links
  and blesses what an interrupted Mellow patch left half copied.
* `EfiBuildKept.cfg`, `ReportedIsInstalled`: the comments of `install.py` (158-161 and
  168) say that failures of the copies are no longer hidden and that a copy which
  did not land is found out. The removal of the old EFI/OC is still not checked:
  when it is refused, `cp -r` puts the new folder inside the old one, or nowhere,
  the check finds that something exists, and the window reports the installation as
  done while the partition boots the old build. `InstallsItsBuild` says what holds when no removal was
  refused.
* `SupervisorReuse.cfg`, `NobodyElseSignalled`: the docstring of
  `recovery_supervisor.py` (9-12) says that ownership is the new session and that
  number, start time and session are checked before a signal. The worker is
  reaped, its session is empty, a daemon holds the pipes, so the loop runs on; an
  unrelated process gets the worker's number, becomes a session leader, passes
  every one of these checks and is signalled.
* `SupervisorSkip.cfg`, `CleanupNotSkipped`: the read of the worker's identity
  fails; the worker runs on and the finally clause passes it by.
* `PatchSetsStale.cfg`, `KDKIsMerged`: the window detected offline, where a plan
  is cut down to the wireless sets; the network comes back, `start_patch` detects
  the full plan, and the merge of the KDK is still skipped
  (`skip_root_kmutil_requirement` comes from the window's details).
* `VMappleTarget.cfg`, `VerifiedIsTheTarget`: the observer compares the Darwin
  major of the kernel with the release number of the target, 26 or 27, where
  `os_data.py` has 25 and 26: a boot of Tahoe is not recognised, and a boot of
  Golden Gate passes as Tahoe.

Smaller observations made while modelling, not stated as properties: the first
look for an installed MetalLib asks for a folder named after `None`
(`metallib_handler.py:112`); `legacy_wireless.py:94` compares a method with
`False` instead of calling it, so the version check is never consulted and
airportd is always "11.7.10-Sandbox"; `_already_has_networking_patches`
(`detect.py:348`) is asked only when the root volume is sealed, because a
modified one already fails `_can_patch` (`detect.py:511`), so it can hardly find
the manifest it looks for (`PatchSets` counts a patched volume as
`host.blocked = "host"`); a restore of a KDK backup that succeeds without
leaving a valid KDK calls itself again (`kdk_handler.py:447`); a restore whose
inputs changed keeps `bootx_acknowledged` next to `sequence_sent` false
(`vmapple_restore.py:371`); `vf_efi.h` promises zeroed output on every failure
but the aliasing one, and `vf_efi_capture_memory_map` returns `VF_EINVAL` before
it clears; in recoveryOS the last check of `install_opencore` reads a flag that was
never assigned (`install.py:219`), so that an installation that worked raises
(`FinishInstall` may end in failure for this).

## Proofs

| Theorem | Says |
|---|---|
| `MellowProofs!TypeCorrect` | types |
| `MellowProofs!Inductive` | `IInv` is an invariant |
| `BackupsAlwaysIntact`, `RestoredAlwaysDurable`, `DebrisAlwaysRecognised`, `SettledAlwaysDurable` | the safety invariants |
| `AlwaysRefusesBeforeWriting`, `ArchivesOnlyWhenRestored` | the two action properties |
| `MellowProofs!ImplementsUndoLog` | the transaction implements the undo log |
| `GivesUpOnlyOverEdits` | a restore raises only over a component a third party wrote to, whatever interrupted its predecessors |
| `RestoreGoesOn` | each step of a restore leads on: a later component, a later step for this one, or one entry less to remove or copy |
| `RootPatchProofs!TypeCorrect` | types |
| `SuccessIsReal` | the success flag is only up when the work is done, for all patch sets |
| `NothingIsLeftBehind`, `EveryBootFindsItsFiles` | for patch sets that all need a KDK (`KdkOnly`) |
| `RootPatchImplementsUndoLog` | root patching implements the undo log, for all patch sets |
| `CallGoesOn` | the steps of a call have one order and none goes back in it |
| `RollsBack` | a rollback or unpatch that no failing step cuts short, with no journal or one that got past `preparing`, ends with the sealed snapshot, the original files and no journal |
| `SupervisorProofs!TypeCorrect` | types |
| `StatusKept`, `WorkerGetsItsTime` | the exit status; the worker is not given up early |
| `OnlyOwnSignalled`, `CompleteCountsAll` | whom a signal reaches and what a complete cleanup means, whatever numbers are reused |
| `OverdueGoesOn` | once the time is over each step leads on to a later loop, place or member |
| `DownloadProofs!DownloadTypes` | types |
| `CompleteDownloadIsWhole`, `AcceptedDownloadIsExpected`, `WindowReportsRight`, `StoppedDownloadIsHeard` | the safety invariants of downloads, for any versions, lengths and number of retries |
| `WorkerGoesOn` | each step of the worker uses up an attempt, reads a block or comes to a later place |
| `EfiProofs!BuilderTypes` | types |
| `FoldersHoldOneBuild`, `BuiltIsInstalled`, `SavedIsThere` | the safety invariants of the EFI builder, for any models, profiles, folders and number of builds |
| `VskProofs!PolicyTypes` | types |
| `ReclaimedPages`, `DuplicatesNeverAmplify`, `HandlesStayCurrent` | the grant protocol, for any cells, slots, rights and clock |
| `TransfersAreInside` | requests stay inside the selected partition, for any word size |
| `PatchSetsProofs!PatchTypes`, `PatchInvariant` | types; `IInv` is an invariant |
| `SetsSurvive` | whatever hardware is combined, no selected set is undone by a later one, for any set of machines |
| `SupportComesFirst`, `AcceptedCanBeDone` | what is written has its packages; what is accepted can be carried out |
| `PatcherGoesOn` | each step but a change of the network leads to a later phase or installs one more set |
| `VMappleProofs!RunnerTypes`, `RunnerInvariant` | types; `IInv` is an invariant |
| `ReportAlwaysHonest`, `NothingLeftSilently`, `VerifiedReachedUserspace` | the safety invariants of a run, for any configurations, releases and number of resets |
| `RunGoesOn` | each step of `run()` comes to a later place or to the next transfer of the plan |

Assumptions are the named ones of the modules: contents can be cut off to what
`Partial` says and a part of a part is a part (`BundleAssumption`), the payload
and the initial components are trees, and a component that is not there has no
files (`TransactionAssumption`), a patch set with
Mellow needs a KDK (`PatchSetAssumption`, from the `OSBundleRequired` value the
payload check insists on), lengths and counts are natural numbers
(`VersionsAssumption`, `LengthAssumption`, `RetriesAssumption`), and partitions,
selector and requests are made of words (`PolicyAssumption` and those of
`VskBlock`), and the Macs, profiles and parent folders of the builder contain the
ones the code names (`PlacesAssumption`, `ProfilesAssumption`, `BuildsAssumption`).
Machines are as `device_probe` describes them: it keeps one graphics part in the
processor (`computer.igpu`) and one wireless card (`computer.wifi`), and
`MachinesAssumption` says no more than that; `HostsAssumption`, `ConfigsAssumption`,
`SystemsAssumption` and `ResetsAssumption` are the types of the other constants.

The argument for the transaction is one inductive invariant. The safety
properties are not inductive by themselves: that debris is recognised depends on
which program points may have cut which copy short, that settled data are
durable on which components a restore has synced so far, and both on the
snapshots being complete and durable from the receipt "prepared" on. `IInv`
says, per program point, what is known of the journal, the snapshots, the
components above and below the cursor, and the entries edited since the last
check. Root patching needs two: `StageInv` (what each program point knows about
the call, the journal and the files) holds for all patch sets and carries the
flag and the refinement; `LinkInv` relates collections and snapshots to files
and journal and needs `KdkOnly`: `RootPatchArchive.cfg` shows why it must.

The supervisor needs four small invariants. `StatusInv`: as long as the status is
not reported the worker holds its number, its session and its parent. `TimeInv`:
while it does, every scan that works finds it, so no loop ends for want of
members. `KinInv`: whoever is not the worker's and has its session number is in a
session made after the worker was reaped and its status reported, because a number
is free only then; nothing is assumed of `Reusable`. `ScanInv`: whom the last scan did not list or
read was forked after its listing. `ProcessEffect` and `StepEffect` say once what
any step can do to one process, and the four proofs only use that.

Downloads: `Resumable` says that between requests the file is in order up to the
byte count and that the running hash is that file; with `Whole` (what the end of
a stream means), `Reported` (which results the object shows at which point),
`Heard` and `Shown` (the stop and the window) it is inductive. `InOrderIsContent`
turns an ordered file of one version into the published one.

EFI builder: a change of the settings could send every later access of a thread to
another folder. `Built` says what the folder of the moment holds at each step of a
build, `Saving` that it is still the folder the window was opened for, `Finds` that
a window which built finds its own build or none, and `Copied` what the partition
has of it as long as no removal was refused; with `Threads` and `Ended` (which
window shows which thread) and the properties this is inductive.

VSK: `GrantInv` says that whatever the hardware can reach is either still held or
not yet acknowledged since the revocation, that every capability is a view of the
present grant within its rights and time, and that a handle was issued for one
object only. `BlockInv` says that what was bound is a partition the last discovery
found, that passed the checks, and that a plan was made for the present
generation of the disk. `CheckedPartition` and `PlanIsInside` are the arithmetic:
the guards of `vf_check_partition` and `vf_plan_block_request` leave no sum or
product that wraps.

Patch sets: `EverySetSurvives` is about pairs of sets and the order in which they
come, so the argument is about pairs too. `Origins` is the table of hardware read
backwards: for each set, which classes can ask for it, at which step and on which
systems. `Undoing` is the table of files read the same way: which set can undo
another, and that the two then never meet on one machine (`Apart`), are in
`Overlays`, or are in the wrong order (`WrongOrder`). `SelectedHardware` is what
the stripping leaves, non-Metal cards only without Metal ones, and with `Origins`
it gives `LaterIsHarmless`: in a dictionary a set that comes later undoes none
that comes earlier. The inductive part is small: the sets installed are a first
part of the plan (`InstalledInOrder`) and each of them survives
(`InstalledSurvive`). For the packages, `DetailsSound` says what the window's
details imply about the plan they were made for, `MetallibThere` and `MergedFirst`
what the preflight has established at each of its places.

vmapple: the report is put together from what happened all over the run. `Place`
says how far the plan is at each place of `run()`; `Sent` that the guest received
steps of the plan in their order and that the report lists the same, but for extra
commands and one more step whose answers were lost; `Said` how far the plan is once the report
calls the boot executed or the chain sent;
`Signals` that a signal has its reason in the report and that a run ends with a
child that is gone or a cleanup reported incomplete; `Log` what the serial log of a
direct boot says of the guest, as long as nothing reset it; and `Verdict` what a
verified and gated report says of it. `Sent` and `Said` rest on `Place`, `Verdict`
on `Log` and `Signals`.

The restore: `RestoreCompletes` holds because an undisturbed restore neither stops
half way nor goes back. `RebuildInv` says what a restore has made so far of the
component at its cursor (what is listed is all there is to remove, what was copied
is the original's, what is read back is the original) and that a directory that is
not there has no entries, also after a power loss; it holds unless a third party
wrote to the component. With it `GivesUpOnlyOverEdits` shows that none of the
checks of a restore fails over what its predecessors left, and `RestoreGoesOn`
that its steps descend in a well-founded order.

The theorems that end in `GoesOn` are of this kind: `Onward` orders the places of a
program, and within a place what is left to do there (attempts, blocks, members,
entries, transfers, sets), and every step goes up in that order. They hold
whatever fails and whatever the environment does, and they are where a loop of the
code that could go round for ever would show. That such a run then ends needs
fairness, and an induction over the order: that half is TLC's.

Only model-checked: the liveness properties themselves (`RestoreCompletes`,
`RollbackCompletes`, `Returns`, `KillsAll`, the `Ends` of three modules and
`WindowCloses`), because TLAPS cannot reason about fairness and `ENABLED`, and
`KillsAll` and `WindowCloses` have no descent theorem beside them, because they
rest on the fairness of others, of killed processes and of a timer; and the
violation runs, whose counterexamples are the result.

## Not modelled

* Two workers on one journal: nothing locks it, and the code assumes one.
* Creation of parent directories of a component, permissions other than the
  owner, symbolic links inside bundles; a journal that a crash left in state
  preparing, which the code leaves to the user.
* Preboot and dyld caches, post-install processes, systems before Big Sur; the
  SIP, AMFI, SecureBoot and FileVault validations, which are one flag.
* Version matching of the KDK and MetalLib catalogues beyond older and exact,
  and their installers beyond success and failure; backups of KDKs.
* The framing of the USB protocol, image formats and signatures of vmapple, its
  configuration checks, and its native macosvm runner.
* The branch of the installation that moves `boot.efi` to EFI/BOOT and removes
  System again (`install.py:179`): `boot_efi` is False (`constants.py:222`) and no part of
  the program sets it; only a key written by hand into the settings file would.
* What a build writes into `config.plist`, the kexts it copies, `boot.efi`, icons, the copy for a profile, and the checks of the host; two windows
  or processes that build at once.
* The evidence envelope of the supervisor (`supervise`), its captures, and a
  failing `Popen`; signals the supervisor itself cannot catch.
* The shape of VSK messages, serial numbers, the code-generation and VMX helpers,
  and the parsers of firmware tables (`vf_efi.c`, `vf_elf.c`, `vf_dmar.c`, ...).
* Boot picker and GUI bridge: sessions and cached selections that no front end
  calls any more (`tests/test_gui_boundaries.py:56`). Two things were noticed:
  `get_boot_picker_status` lets a session expire without keeping the selection,
  so that a later launch falls back to recovery, and a tick at exactly two
  seconds wins over a key at the same time.
* Everything marked `not_modelled` in `PROJECT.json`, with the reason there:
  tables, generators of configuration files, user interfaces and build scripts,
  which make up most of the repository and run neither concurrently nor in steps
  that a failure could part.

## Where to go on

1. The evidence envelope of the supervisor: input hashes against edits by
   others, the helpers before and after the worker, cancellation, captures.
2. The composition of `PatchSets` and `RootPatch`: what a stale skip flag of the
   window does to collections and snapshots.
3. Two patchers on one journal (window and auto-patcher).
4. The native macosvm runner, beside the QEMU one in `VMapple`.
5. A build of `EfiBuild` driven by a second window while the first still runs.
