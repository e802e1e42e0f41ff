------------------------------ MODULE EfiBuild ------------------------------
(***************************************************************************)
(* The OpenCore builder and its installer: the windows of wx_gui and of    *)
(* the wizard that choose a model, a profile and a place, the thread of    *)
(* efi_builder/build.py that makes a build folder, and the thread of       *)
(* support/install.py that puts one on an EFI partition.  All of them      *)
(* read the same mutable settings; the folder a step works on is worked    *)
(* out anew, from those settings, at every access.                         *)
(*                                                                         *)
(* A step may fail wherever the code can raise or exit, an administrator   *)
(* prompt may be declined, and the program may be killed at any moment:    *)
(* the disk and the partition stay as they are.  One window is in use at a *)
(* time, on a host that may build, with one EFI partition; kexts, drivers  *)
(* and the contents of config.plist are the identity of the build.         *)
(***************************************************************************)
EXTENDS Naturals

CONSTANTS Models,       \* the Macs a build may be made for
          Host,         \* the one the program runs on
          Spoof,        \* the one test_c_spoofed turns every build into
          RadioModels,  \* those whose build window offers the profiles
          Profiles,     \* the build profiles
          Dirs, Home,   \* parent folders, and the program's own among them
          None,
          MaxBuilds     \* how many builds are begun (a bound)

ASSUME PlacesAssumption ==
    /\ Host \in Models /\ Spoof \in Models /\ RadioModels \subseteq Models
    /\ Home \in Dirs /\ None \notin Models \union (Dirs \X Models)
ASSUME ProfilesAssumption == {"standard", "test_c_spoofed"} \subseteq Profiles /\ "" \notin Profiles
ASSUME BuildsAssumption == MaxBuilds \in Nat

VARIABLES developer,    \* Experimental_Features
          customModel,  \* constants.custom_model
          profile,      \* constants.build_profile, "" to be asked
          savePath,     \* constants.oc_build_path, never reset
          frame,        \* the build or install window in front
          step,         \* where its thread is
          build,        \* the number of the last build
          folders,      \* what stands in a build folder itself
          inside,       \* the build folders mv put into it
          staging,      \* the builds that extracted into a parent's OpenCore-Build
          esp,          \* EFI/OC and System of the EFI partition
          said          \* what the last window told

settings == <<developer, customModel, profile, savePath>>
disk     == <<folders, inside, staging>>
vars     == <<settings, frame, step, build, disk, esp, said>>

Paths == Dirs \X Models
Ids   == 0..MaxBuilds

\* A copy of a build: the last build that wrote it, those its files are of,
\* and whether it was validated.  Build 0 is one made before.
Stages  == {"none", "unfinished", "checked"}
Content == [of : Ids, files : SUBSET Ids, stage : Stages]
Nothing == [of |-> 0, files |-> {}, stage |-> "none"]
Earlier == [of |-> 0, files |-> {0}, stage |-> "checked"]

BuildSteps   == {"start", "clear", "extract", "rename", "check", "move"}
InstallSteps == {"mount", "remove oc", "remove system", "copy oc", "copy system",
                 "verify", "finish"}
Screens == {"idle", "ready", "building", "failed", "built", "disks", "copying", "over"}
Frames  == [screen : Screens, origin : {"wizard", "menu"},
            purpose : {"build", "save", "install"}, kept : BOOLEAN]

TypeOK ==
    /\ developer \in BOOLEAN /\ profile \in Profiles \union {""}
    /\ customModel \in Models \union {None} /\ savePath \in Paths \union {None}
    /\ frame \in Frames
    /\ step \in BuildSteps \union InstallSteps \union {"none"}
    /\ build \in Ids
    /\ folders \in [Paths -> Content] /\ inside \in [Paths -> SUBSET Models]
    /\ staging \in [Dirs -> SUBSET Ids]
    /\ esp \in [oc : Content, sys : SUBSET Ids]
    /\ said \in {"nothing", "saved", "installed", "failed"}

-----------------------------------------------------------------------------
\* constants.py: the model, the parent folder and the folder of the build.

Target   == IF customModel = None THEN Host ELSE customModel
BuildDir == IF savePath = None THEN Home ELSE savePath[1]
Release  == <<BuildDir, Target>>
Source   == folders[Release]

\* What a window was opened for, and whether a removal was refused while it
\* installed (history).
Frame(screen, origin, purpose) ==
    [screen |-> screen, origin |-> origin, purpose |-> purpose, kept |-> FALSE]
NoFrame == Frame("idle", "wizard", "build")

\* Of constants, or in developer mode what GUI:oc_build holds.
FirstProfiles == IF developer THEN Profiles \union {""} ELSE {"standard"}

Init ==
    /\ developer \in BOOLEAN
    /\ customModel = None /\ profile \in FirstProfiles /\ savePath = None
    /\ frame = NoFrame
    /\ step = "none" /\ build = 0
    /\ folders = [p \in Paths |-> Nothing] /\ inside = [p \in Paths |-> {}]
    /\ staging = [d \in Dirs |-> {}]
    /\ \E oc \in {Nothing, Earlier} : esp = [oc |-> oc, sys |-> oc.files]
    /\ said = "nothing"

\* The program dies and is started again: what is in memory is gone.
Restart ==
    /\ customModel' = None /\ profile' \in FirstProfiles /\ savePath' = None
    /\ frame' = NoFrame
    /\ step' = "none" /\ said' = "nothing"
    /\ UNCHANGED <<developer, build, disk, esp>>

-----------------------------------------------------------------------------
\* The windows.

\* The wizard and the main menu are both at hand: the wizard opens the menu,
\* and is there still when a window it opened returns to one.
Idle == frame.screen = "idle"

ChangeModel ==
    /\ Idle
    /\ customModel' \in Models \union {None} /\ said' = "nothing"
    /\ UNCHANGED <<developer, profile, savePath, frame, step, build, disk, esp>>

ChooseProfile ==
    /\ Idle /\ developer
    /\ profile' \in Profiles \union {""} /\ said' = "nothing"
    /\ UNCHANGED <<developer, customModel, savePath, frame, step, build, disk, esp>>

BeginBuild == build < MaxBuilds /\ step' = "start" /\ build' = build + 1

\* BuildFrame builds as it is constructed, but waits for a click in developer
\* mode.  The caller takes a profile it asked for back when that returns,
\* and only asks in developer mode.
OpenBuild(origin, purpose, p) ==
    /\ frame' = Frame(IF developer THEN "ready" ELSE "building", origin, purpose)
    /\ profile' = IF profile = "" THEN "" ELSE p
    /\ IF developer THEN UNCHANGED <<step, build>> ELSE BeginBuild
    /\ said' = "nothing"
    /\ UNCHANGED <<developer, customModel, disk, esp>>

WizardBuild == Idle /\ OpenBuild("wizard", "build", profile) /\ UNCHANGED savePath

Prompted == IF profile = "" THEN Profiles ELSE {profile}

\* Mutant: the folder is named for the Mac the program runs on.
SavePathOfHost(dir) == <<dir, Host>>

SavePath(dir) == <<dir, Target>>

Save ==
    /\ Idle
    /\ \E p \in Prompted, dir \in Dirs :
        /\ savePath' = SavePath(dir)
        /\ OpenBuild("menu", "save", p)

Install ==
    /\ Idle
    /\ \E p \in IF developer THEN Prompted ELSE {"standard"} : OpenBuild("menu", "install", p)
    /\ UNCHANGED savePath

\* After an update, a mismatch found at start or a USB installer made: no prompt.
InstallUnasked == Idle /\ OpenBuild("menu", "install", profile) /\ UNCHANGED savePath

BuildClick ==
    /\ frame.screen = "ready"
    /\ profile' \in IF Target \in RadioModels THEN Profiles \ {"test_c_spoofed"} ELSE {profile}
    /\ frame' = [frame EXCEPT !.screen = "building"]
    /\ BeginBuild
    /\ UNCHANGED <<developer, customModel, savePath, disk, esp, said>>

\* A window is returned from or closed, except while its thread runs.
Leave ==
    /\ frame.screen \in {"ready", "failed", "built", "disks", "over"}
    /\ frame' = NoFrame /\ said' = "nothing"
    /\ UNCHANGED <<settings, step, build, disk, esp>>

\* The wizard's install step asks for no build before it.
WizardInstall ==
    /\ Idle
    /\ frame' = Frame("disks", "wizard", "install") /\ said' = "nothing"
    /\ UNCHANGED <<settings, step, build, disk, esp>>

-----------------------------------------------------------------------------
\* The build thread.

Step(from, to) == frame.screen = "building" /\ step = from /\ step' = to

\* BuildOpenCore was given the model; a spoofing profile changes the setting.
StartBuild ==
    /\ Step("start", "clear")
    /\ customModel' = IF profile = "test_c_spoofed" THEN Spoof ELSE customModel
    /\ UNCHANGED <<developer, profile, savePath, frame, build, disk, esp, said>>

\* Mutant: what an interrupted run left in OpenCore-Build stays there.
ClearBaseKeepsStaging ==
    /\ Step("clear", "extract")
    /\ folders' = [folders EXCEPT ![Release] = Nothing]
    /\ inside' = [inside EXCEPT ![Release] = {}]
    /\ UNCHANGED <<settings, frame, build, staging, esp, said>>

ClearBase ==
    /\ Step("clear", "extract")
    /\ folders' = [folders EXCEPT ![Release] = Nothing]
    /\ inside' = [inside EXCEPT ![Release] = {}]
    /\ staging' = [staging EXCEPT ![BuildDir] = {}]
    /\ UNCHANGED <<settings, frame, build, esp, said>>

ExtractBase ==
    /\ Step("extract", "rename")
    /\ staging' = [staging EXCEPT ![BuildDir] = @ \union {build}]
    /\ UNCHANGED <<settings, frame, build, folders, inside, esp, said>>

\* Also the template of config.plist, and the kexts copied as it is edited.
RenameBase ==
    /\ Step("rename", "check") /\ Source = Nothing
    /\ folders' = [folders EXCEPT ![Release] =
                     [of |-> build, files |-> staging[BuildDir], stage |-> "unfinished"]]
    /\ staging' = [staging EXCEPT ![BuildDir] = {}]
    /\ UNCHANGED <<settings, frame, build, inside, esp, said>>

\* config.plist is written, the files are signed, and all of it validated.
CheckBuild ==
    /\ Step("check", "move")
    /\ folders' = [folders EXCEPT ![Release].stage = "checked"]
    /\ UNCHANGED <<settings, frame, build, inside, staging, esp, said>>

\* mv without a look at its result: a rename, a move into a folder that
\* exists, or nothing when the two are one or the name is taken in there.
Move ==
    IF savePath = None \/ savePath = Release THEN UNCHANGED <<folders, inside>>
    ELSE IF folders[savePath] = Nothing
    THEN /\ folders' = [folders EXCEPT ![savePath] = Source, ![Release] = Nothing]
         /\ UNCHANGED inside
    ELSE IF Target \in inside[savePath] THEN UNCHANGED <<folders, inside>>
    ELSE /\ folders' = [folders EXCEPT ![Release] = Nothing]
         /\ inside' = [inside EXCEPT ![savePath] = @ \union {Target}]

MoveBuild ==
    /\ frame.screen = "building" /\ step = "move" /\ step' = "none"
    /\ Move
    /\ frame' = CASE frame.purpose = "build"   -> [frame EXCEPT !.screen = "built"]
                  [] frame.purpose = "save"    -> NoFrame
                  [] frame.purpose = "install" -> [frame EXCEPT !.screen = "disks"]
    /\ said' = IF frame.purpose = "save" THEN "saved" ELSE said
    /\ UNCHANGED <<settings, build, staging, esp>>

\* Mutant: the window goes on to install when the thread has ended.
BuildFailsUnseen ==
    /\ frame.screen = "building" /\ step' = "none"
    /\ frame' = [frame EXCEPT !.screen = IF frame.purpose = "install" THEN "disks" ELSE "failed"]
    /\ UNCHANGED <<settings, build, disk, esp, said>>

\* An exception, or sys.exit(3): build_successful stays False.
BuildFails ==
    /\ frame.screen = "building" /\ step' = "none"
    /\ frame' = [frame EXCEPT !.screen = "failed"]
    /\ UNCHANGED <<settings, build, disk, esp, said>>

-----------------------------------------------------------------------------
\* The install thread.

InstallStep(from, to) ==
    /\ frame.screen = "copying" /\ step = from /\ step' = to
    /\ UNCHANGED <<settings, build, disk, said>>

PickDisk ==
    /\ frame.screen = "disks"
    /\ frame' = [frame EXCEPT !.screen = "copying"] /\ step' = "mount"
    /\ UNCHANGED <<settings, build, disk, esp, said>>

Mount == InstallStep("mount", "remove oc") /\ UNCHANGED <<frame, esp>>

\* run_as_root: a removal that is refused is not noticed.
Refused == frame' = [frame EXCEPT !.kept = TRUE] /\ UNCHANGED esp

RemoveOC ==
    /\ InstallStep("remove oc", "remove system")
    /\ \/ esp' = [esp EXCEPT !.oc = Nothing] /\ UNCHANGED frame
       \/ esp.oc # Nothing /\ Refused

RemoveSystem ==
    /\ InstallStep("remove system", "copy oc")
    /\ \/ esp' = [esp EXCEPT !.sys = {}] /\ UNCHANGED frame
       \/ esp.sys # {} /\ Refused

\* cp -r puts a folder inside the one that stands at its place.
Onto(old, new) == IF old = Nothing THEN new ELSE [old EXCEPT !.files = @ \union new.files]

\* run_as_root_and_verify: cp needs the source.  The helper may say it copied
\* and not have done so.
CopyOC ==
    /\ InstallStep("copy oc", "copy system") /\ UNCHANGED frame
    /\ Source # Nothing
    /\ esp' \in {esp, [esp EXCEPT !.oc = Onto(@, Source)]}

CopySystem ==
    /\ InstallStep("copy system", "verify") /\ UNCHANGED frame
    /\ Source # Nothing
    /\ esp' \in {esp, [esp EXCEPT !.sys = @ \union Source.files]}

VerifyCopy ==
    /\ InstallStep("verify", "finish") /\ UNCHANGED frame
    /\ esp.oc # Nothing /\ esp.sys # {} /\ UNCHANGED esp

EndInstall(told) ==
    /\ frame.screen = "copying" /\ step' = "none"
    /\ frame' = [frame EXCEPT !.screen = "over"] /\ said' = told
    /\ UNCHANGED <<settings, build, disk>>

\* In recoveryOS the flag the last check reads was never assigned, which raises.
FinishInstall == step = "finish" /\ UNCHANGED esp /\ \E told \in {"installed", "failed"} : EndInstall(told)

\* A mount or copy that fails, half done perhaps, or files that are missing.
InstallFails ==
    /\ step \in {"mount", "copy oc", "copy system", "verify"}
    /\ step = "verify" => esp.oc = Nothing \/ esp.sys = {}
    /\ EndInstall("failed")
    /\ \/ UNCHANGED esp
       \/ /\ step = "copy oc" /\ Source # Nothing
          /\ esp' = [esp EXCEPT !.oc = Onto(@, [Source EXCEPT !.stage = "unfinished"])]
       \/ /\ step = "copy system"
          /\ esp' = [esp EXCEPT !.sys = @ \union Source.files]

-----------------------------------------------------------------------------
BuildThread == \/ StartBuild \/ ClearBase \/ ExtractBase \/ RenameBase
               \/ CheckBuild \/ MoveBuild \/ BuildFails

InstallThread == \/ Mount \/ RemoveOC \/ RemoveSystem \/ CopyOC \/ CopySystem
                 \/ VerifyCopy \/ FinishInstall \/ InstallFails

User == \/ ChangeModel \/ ChooseProfile
        \/ WizardBuild \/ Save \/ Install \/ InstallUnasked \/ BuildClick
        \/ Leave \/ WizardInstall \/ PickDisk

Next == User \/ BuildThread \/ InstallThread \/ Restart

Spec == Init /\ [][Next]_vars

-----------------------------------------------------------------------------
\* A build that passed validate_pathing holds its own files and no other's,
\* whatever was killed or failed in the same folders before: _generate_base.
OnlyOwnFiles ==
    \A p \in Paths : folders[p].stage = "checked" => folders[p].files = {folders[p].of}

\* A reported installation, of which no removal was refused, put one build
\* folder on the partition, EFI/OC and System of it.  When the window that
\* built went on to install, that is the very build it made, finished: not an
\* older one, nor what a saved path, mv or a failure left in the folder.
InstallsItsBuild ==
    said = "installed" /\ ~frame.kept =>
        /\ esp.oc # Nothing /\ esp.sys = esp.oc.files
        /\ frame.origin = "menu" =>
              esp.oc = [of |-> build, files |-> {build}, stage |-> "checked"]

\* "OpenCore was built and placed at ...": there it is.  A profile that turns
\* the build into another model renames its folder under way and is left out.
SavedWhereSaid ==
    said = "saved" /\ profile # "test_c_spoofed" =>
        folders[savePath].of = build /\ folders[savePath].stage = "checked"

\* Violated: constants.py says that builds for different machines sit next to
\* each other in a parent folder.  The path of the last saved one stays set,
\* and mv puts the next build, of another model, into its folder.
SitSideBySide == \A p \in Paths : inside[p] = {}

\* Violated: install.py's comments say that failures are surfaced and that a copy
\* which did not land is found out, so what a window built and reports installed
\* is at EFI/OC.  A removal is not verified: the old folder stays, the new one goes
\* inside it or nowhere, and something exists at both places.
ReportedIsInstalled == said = "installed" /\ frame.origin = "menu" => esp.oc.of = build

\* Violated: what is reported installed was finished and validated.  The wizard
\* calls a build done that failed, and installs whatever it left.
InstalledIsFinished == said = "installed" /\ ~frame.kept => esp.oc.stage = "checked"
=============================================================================
