----------------------------- MODULE EfiProofs ------------------------------
(***************************************************************************)
(* The OpenCore builder, for any Macs, profiles and folders and any number *)
(* of builds: a validated folder holds the files of one build, a reported  *)
(* installation is of the build its window made, and a saved build is      *)
(* where the window says.                                                  *)
(*                                                                         *)
(* The settings could redirect every access of a thread to another folder; *)
(* the invariant says what the folder of the moment (Source) holds at each *)
(* step of a build (Built), that it is still the one the window was opened *)
(* for (Saving), and what the partition has of it (Copied).                *)
(***************************************************************************)
EXTENDS EfiBuild, TLAPS

Held(stage) == [of |-> build, files |-> {build}, stage |-> stage]

\* A thread runs in a window that shows it.
Threads ==
    /\ step \in BuildSteps <=> frame.screen = "building"
    /\ step \in InstallSteps <=> frame.screen = "copying"

\* What a build has made so far, in the folders as they are named now.
Built ==
    /\ step = "extract" => staging[BuildDir] = {}
    /\ step = "rename" => staging[BuildDir] = {build}
    /\ step = "check" => Source = Held("unfinished")
    /\ step = "move" => Source = Held("checked")

\* A window that saves works in the folder it was given, until a profile
\* turns the build into one for another model.
Saving ==
    /\ frame.purpose = "save" /\ frame.screen \in {"ready", "building"} =>
          savePath # None
    /\ frame.purpose = "save" =>
          /\ frame.screen = "ready" \/ step = "start" => savePath = Release
          /\ frame.screen = "building" /\ profile # "test_c_spoofed" => savePath = Release
    /\ said = "saved" => frame.screen = "idle"

\* What a window that built installs, if it still finds it.
Finds ==
    frame.origin = "menu" /\ frame.screen \in {"disks", "copying"} =>
        Source \in {Nothing, Held("checked")}

\* What the partition has of it, no removal having been refused.
Copied ==
    ~frame.kept =>
        /\ step \in {"remove system", "copy oc"} => esp.oc = Nothing
        /\ step \in {"copy oc", "copy system"} => esp.sys = {}
        /\ step \in {"copy system", "verify", "finish"} => esp.oc \in {Nothing, Source}
        /\ step \in {"verify", "finish"} => esp.sys \in {{}, Source.files}
        /\ step = "finish" => esp.oc # Nothing /\ esp.sys # {}

Ended == said = "installed" => frame.screen = "over"

IInv == /\ TypeOK /\ Threads
        /\ Built /\ OnlyOwnFiles
        /\ Saving /\ SavedWhereSaid
        /\ Finds /\ Copied /\ Ended /\ InstallsItsBuild
-----------------------------------------------------------------------------
(* Types, and what the settings name                                       *)

LEMMA Places ==
    ASSUME TypeOK
    PROVE  /\ BuildDir \in Dirs /\ Target \in Models
           /\ Release \in Paths /\ Source \in Content
<1>1. BuildDir \in Dirs /\ Target \in Models
  BY PlacesAssumption DEF TypeOK, BuildDir, Target, Paths
<1> QED BY <1>1 DEF TypeOK, Release, Source, Paths

LEMMA Contents == Nothing \in Content /\ Earlier \in Content
<1>1. 0 \in Ids /\ {} \in SUBSET Ids /\ {0} \in SUBSET Ids
  BY BuildsAssumption DEF Ids
<1> QED BY <1>1 DEF Nothing, Earlier, Content, Stages

LEMMA TypeInit == Init => TypeOK
<1> SUFFICES ASSUME Init PROVE TypeOK
  OBVIOUS
<1>1. developer \in BOOLEAN /\ profile \in Profiles \union {""}
  BY ProfilesAssumption DEF Init, FirstProfiles
<1>2. build \in Ids
  BY BuildsAssumption DEF Init, Ids
<1>3. esp \in [oc : Content, sys : SUBSET Ids]
  BY Contents DEF Init, Nothing, Earlier, Content
<1>4. /\ folders \in [Paths -> Content] /\ inside \in [Paths -> SUBSET Models]
      /\ staging \in [Dirs -> SUBSET Ids]
  BY Contents DEF Init
<1> QED BY <1>1, <1>2, <1>3, <1>4
           DEF Init, TypeOK, NoFrame, Frame, Frames, Screens

\* What each kind of step leaves alone.
LEMMA UserLeaves == User => UNCHANGED <<developer, disk, esp>>
BY DEF User, ChangeModel, ChooseProfile, WizardBuild, Save, Install, InstallUnasked, OpenBuild,
       BuildClick, Leave, WizardInstall, PickDisk, settings

LEMMA BuildLeaves == BuildThread => UNCHANGED <<developer, profile, savePath, build, esp>>
BY DEF BuildThread, StartBuild, ClearBase, ExtractBase, RenameBase, CheckBuild, MoveBuild,
       BuildFails, settings

LEMMA InstallLeaves == InstallThread => UNCHANGED <<settings, build, disk>>
BY DEF InstallThread, Mount, RemoveOC, RemoveSystem, CopyOC, CopySystem, VerifyCopy,
       FinishInstall, InstallFails, InstallStep, EndInstall

LEMMA StepTypes ==
    ASSUME TypeOK, Next
    PROVE  step' \in BuildSteps \union InstallSteps \union {"none"}
<1>1. CASE User
  BY <1>1 DEF TypeOK, BuildSteps, InstallSteps, User, ChangeModel, ChooseProfile, WizardBuild,
       Save, Install, InstallUnasked, OpenBuild, BeginBuild, BuildClick, Leave, WizardInstall,
       PickDisk
<1>2. CASE BuildThread
  BY <1>2 DEF BuildSteps, InstallSteps, BuildThread, StartBuild, ClearBase, ExtractBase,
       RenameBase, CheckBuild, MoveBuild, BuildFails, Step
<1>3. CASE InstallThread
  BY <1>3 DEF BuildSteps, InstallSteps, InstallThread, Mount, RemoveOC, RemoveSystem, CopyOC,
       CopySystem, VerifyCopy, FinishInstall, InstallFails, InstallStep, EndInstall
<1>4. CASE Restart
  BY <1>4 DEF Restart
<1> QED BY <1>1, <1>2, <1>3, <1>4 DEF Next

LEMMA FrameTypes ==
    ASSUME TypeOK, Next
    PROVE  frame' \in Frames
<1>1. /\ frame \in Frames
      /\ [frame EXCEPT !.screen = "building"] \in Frames
      /\ [frame EXCEPT !.screen = "built"] \in Frames
      /\ [frame EXCEPT !.screen = "disks"] \in Frames
      /\ [frame EXCEPT !.screen = "failed"] \in Frames
      /\ [frame EXCEPT !.screen = "copying"] \in Frames
      /\ [frame EXCEPT !.screen = "over"] \in Frames
      /\ [frame EXCEPT !.kept = TRUE] \in Frames
      /\ NoFrame \in Frames
  BY DEF TypeOK, Frames, Screens, NoFrame, Frame
<1>2. CASE User
  <2>1. ASSUME NEW origin \in {"wizard", "menu"}, NEW purpose \in {"build", "save", "install"},
               NEW screen \in Screens
        PROVE  Frame(screen, origin, purpose) \in Frames
    BY DEF Frame, Frames
  <2>2. ASSUME NEW origin \in {"wizard", "menu"}, NEW purpose \in {"build", "save", "install"},
               NEW p, OpenBuild(origin, purpose, p)
        PROVE  frame' \in Frames
    <3>1. /\ Frame("ready", origin, purpose) \in Frames
          /\ Frame("building", origin, purpose) \in Frames
      BY <2>1 DEF Screens
    <3>2. \/ frame' = Frame("ready", origin, purpose)
          \/ frame' = Frame("building", origin, purpose)
      BY <2>2 DEF OpenBuild
    <3> QED BY <3>1, <3>2
  <2>3. CASE WizardBuild \/ Save \/ Install \/ InstallUnasked
    BY <2>2, <2>3 DEF WizardBuild, Save, Install, InstallUnasked
  <2>4. CASE WizardInstall
    BY <2>1, <2>4 DEF WizardInstall, Screens
  <2>5. CASE ChangeModel \/ ChooseProfile \/ BuildClick \/ Leave \/ PickDisk
    BY <1>1, <2>5 DEF ChangeModel, ChooseProfile, BuildClick, Leave, PickDisk
  <2> QED BY <1>2, <2>3, <2>4, <2>5 DEF User
<1>3. CASE BuildThread
  <2>1. CASE MoveBuild
    <3>1. frame.purpose \in {"build", "save", "install"}
      BY DEF TypeOK, Frames
    <3> QED BY <1>1, <2>1, <3>1 DEF MoveBuild
  <2>2. CASE ~MoveBuild
    BY <1>1, <1>3, <2>2 DEF BuildThread, StartBuild, ClearBase, ExtractBase, RenameBase,
         CheckBuild, BuildFails
  <2> QED BY <2>1, <2>2
<1>4. CASE InstallThread
  <2>1. \/ frame' = frame \/ frame' = [frame EXCEPT !.kept = TRUE]
        \/ frame' = [frame EXCEPT !.screen = "over"]
    BY <1>4 DEF InstallThread, Mount, RemoveOC, RemoveSystem, CopyOC, CopySystem, VerifyCopy,
         FinishInstall, InstallFails, EndInstall, Refused
  <2> QED BY <1>1, <2>1
<1>5. CASE Restart
  BY <1>1, <1>5 DEF Restart
<1> QED BY <1>2, <1>3, <1>4, <1>5 DEF Next

LEMMA SettingTypes ==
    ASSUME TypeOK, Next
    PROVE  /\ developer' \in BOOLEAN /\ profile' \in Profiles \union {""}
           /\ customModel' \in Models \union {None} /\ savePath' \in Paths \union {None}
<1> USE DEF TypeOK, settings
<1>1. CASE User
  <2>1. profile' \in Profiles \union {""}
    BY <1>1, ProfilesAssumption DEF User, ChangeModel, ChooseProfile, WizardBuild, Save, Install,
       InstallUnasked, OpenBuild, BuildClick, Leave, WizardInstall, PickDisk, Prompted
  <2>2. savePath' \in Paths \union {None}
    BY <1>1, Places DEF User, ChangeModel, ChooseProfile, WizardBuild, Save, Install,
       InstallUnasked, BuildClick, Leave, WizardInstall, PickDisk, SavePath, Paths
  <2>3. customModel' \in Models \union {None}
    BY <1>1 DEF User, ChangeModel, ChooseProfile, WizardBuild, Save, Install,
       InstallUnasked, OpenBuild, BuildClick, Leave, WizardInstall, PickDisk
  <2> QED BY <1>1, <2>1, <2>2, <2>3, UserLeaves
<1>2. CASE BuildThread
  <2>1. customModel' \in Models \union {None}
    BY <1>2, PlacesAssumption DEF BuildThread, StartBuild, ClearBase, ExtractBase, RenameBase,
       CheckBuild, MoveBuild, BuildFails
  <2> QED BY <1>2, <2>1, BuildLeaves
<1>3. CASE InstallThread
  BY <1>3, InstallLeaves
<1>4. CASE Restart
  BY <1>4, ProfilesAssumption DEF Restart, FirstProfiles
<1> QED BY <1>1, <1>2, <1>3, <1>4 DEF Next

LEMMA BuildTypes == ASSUME TypeOK, Next PROVE build' \in Ids
<1>1. BeginBuild => build' \in Ids
  <2>1. build \in Ids
    BY DEF TypeOK
  <2> QED BY <2>1, BuildsAssumption DEF BeginBuild, Ids
<1>2. CASE User
  BY <1>1, <1>2 DEF TypeOK, User, ChangeModel, ChooseProfile, WizardBuild, Save,
       Install, InstallUnasked, OpenBuild, BuildClick, Leave, WizardInstall, PickDisk
<1>3. CASE Restart
  BY <1>3 DEF TypeOK, Restart
<1> QED BY <1>2, <1>3, BuildLeaves, InstallLeaves DEF Next, TypeOK

LEMMA SaidTypes ==
    ASSUME TypeOK, Next PROVE said' \in {"nothing", "saved", "installed", "failed"}
<1>1. CASE User
  BY <1>1 DEF TypeOK, User, ChangeModel, ChooseProfile, WizardBuild, Save,
       Install, InstallUnasked, OpenBuild, BuildClick, Leave, WizardInstall, PickDisk
<1>2. CASE BuildThread
  BY <1>2 DEF TypeOK, BuildThread, StartBuild, ClearBase, ExtractBase, RenameBase,
       CheckBuild, MoveBuild, BuildFails
<1>3. CASE InstallThread
  BY <1>3 DEF TypeOK, InstallThread, Mount, RemoveOC, RemoveSystem, CopyOC, CopySystem,
       VerifyCopy, FinishInstall, InstallFails, InstallStep, EndInstall
<1>4. CASE Restart
  BY <1>4 DEF Restart
<1> QED BY <1>1, <1>2, <1>3, <1>4 DEF Next

LEMMA MoveTypes ==
    ASSUME TypeOK, Move
    PROVE  folders' \in [Paths -> Content] /\ inside' \in [Paths -> SUBSET Models]
<1>1. \/ UNCHANGED <<folders, inside>>
      \/ savePath \in Paths /\ UNCHANGED inside
         /\ folders' = [folders EXCEPT ![savePath] = Source, ![Release] = Nothing]
      \/ savePath \in Paths /\ folders' = [folders EXCEPT ![Release] = Nothing]
         /\ inside' = [inside EXCEPT ![savePath] = @ \union {Target}]
  BY DEF TypeOK, Move
<1>2. inside \in [Paths -> SUBSET Models] /\ folders \in [Paths -> Content]
  BY DEF TypeOK
<1>3. savePath \in Paths =>
        /\ [folders EXCEPT ![savePath] = Source, ![Release] = Nothing] \in [Paths -> Content]
        /\ [inside EXCEPT ![savePath] = @ \union {Target}] \in [Paths -> SUBSET Models]
  <2> SUFFICES ASSUME savePath \in Paths
               PROVE  /\ [folders EXCEPT ![savePath] = Source, ![Release] = Nothing]
                            \in [Paths -> Content]
                      /\ [inside EXCEPT ![savePath] = @ \union {Target}]
                            \in [Paths -> SUBSET Models]
    OBVIOUS
  <2>1. inside[savePath] \union {Target} \in SUBSET Models
    BY <1>2, Places
  <2> QED BY <1>2, <2>1, Places, Contents
<1>4. [folders EXCEPT ![Release] = Nothing] \in [Paths -> Content]
  BY <1>2, Places, Contents
<1> QED BY <1>1, <1>2, <1>3, <1>4

LEMMA DiskTypes ==
    ASSUME TypeOK, BuildThread
    PROVE  /\ folders' \in [Paths -> Content] /\ inside' \in [Paths -> SUBSET Models]
           /\ staging' \in [Dirs -> SUBSET Ids]
<1> USE Places, Contents DEF TypeOK
<1>1. CASE StartBuild
  BY <1>1 DEF StartBuild, disk
<1>2. CASE ClearBase
  BY <1>2 DEF ClearBase
<1>3. CASE ExtractBase
  BY <1>3 DEF ExtractBase
<1>4. CASE RenameBase
  <2>1. [of |-> build, files |-> staging[BuildDir], stage |-> "unfinished"] \in Content
    BY DEF Content, Stages
  <2> QED BY <1>4, <2>1 DEF RenameBase
<1>5. CASE CheckBuild
  <2>1. [Source EXCEPT !.stage = "checked"] \in Content
    BY DEF Content, Stages
  <2> QED BY <1>5, <2>1 DEF CheckBuild, Source
<1>6. CASE MoveBuild
  BY <1>6, MoveTypes DEF MoveBuild
<1>7. CASE BuildFails
  BY <1>7 DEF BuildFails, disk
<1> QED BY <1>1, <1>2, <1>3, <1>4, <1>5, <1>6, <1>7 DEF BuildThread

LEMMA EspTypes ==
    ASSUME TypeOK, InstallThread
    PROVE  esp' \in [oc : Content, sys : SUBSET Ids]
<1>1. /\ esp \in [oc : Content, sys : SUBSET Ids]
      /\ \A c \in Content : [esp EXCEPT !.oc = c] \in [oc : Content, sys : SUBSET Ids]
      /\ \A f \in SUBSET Ids : [esp EXCEPT !.sys = f] \in [oc : Content, sys : SUBSET Ids]
  BY DEF TypeOK
<1>2. /\ Source.files \in SUBSET Ids /\ {} \in SUBSET Ids
      /\ [Source EXCEPT !.stage = "unfinished"] \in Content
  BY Places DEF Content, Stages
<1>5. ASSUME NEW old \in Content, NEW new \in Content PROVE Onto(old, new) \in Content
  BY DEF Onto, Content
<1>6. esp.oc \in Content /\ esp.sys \union Source.files \in SUBSET Ids
  BY <1>1, <1>2
<1>7. /\ Onto(esp.oc, Source) \in Content
      /\ Onto(esp.oc, [Source EXCEPT !.stage = "unfinished"]) \in Content
  BY <1>2, <1>5, <1>6, Places
<1>3. CASE InstallFails
  <2>1. \/ esp' = esp
        \/ esp' = [esp EXCEPT !.oc = Onto(esp.oc, [Source EXCEPT !.stage = "unfinished"])]
        \/ esp' = [esp EXCEPT !.sys = esp.sys \union Source.files]
    BY <1>3, Zenon DEF InstallFails
  <2> QED BY <1>1, <1>6, <1>7, <2>1
<1>8. CASE CopyOC \/ CopySystem
  <2>1. \/ esp' = esp
        \/ esp' = [esp EXCEPT !.oc = Onto(esp.oc, Source)]
        \/ esp' = [esp EXCEPT !.sys = esp.sys \union Source.files]
    BY <1>8, Zenon DEF CopyOC, CopySystem
  <2> QED BY <1>1, <1>6, <1>7, <2>1
<1>4. CASE ~(InstallFails \/ CopyOC \/ CopySystem)
  BY <1>1, <1>2, <1>4, Places, Contents DEF InstallThread, Mount, RemoveOC, RemoveSystem,
       VerifyCopy, FinishInstall, Refused
<1> QED BY <1>3, <1>4, <1>8

LEMMA TypeStep == TypeOK /\ [Next]_vars => TypeOK'
<1> SUFFICES ASSUME TypeOK, [Next]_vars PROVE TypeOK'
  OBVIOUS
<1>1. CASE Next
  <2>1. /\ folders' \in [Paths -> Content] /\ inside' \in [Paths -> SUBSET Models]
        /\ staging' \in [Dirs -> SUBSET Ids]
    BY <1>1, UserLeaves, DiskTypes, InstallLeaves DEF Next, Restart, TypeOK, disk
  <2>2. esp' \in [oc : Content, sys : SUBSET Ids]
    BY <1>1, UserLeaves, BuildLeaves, EspTypes DEF Next, Restart, TypeOK
  <2> QED BY <1>1, <2>1, <2>2, StepTypes, FrameTypes, SettingTypes, BuildTypes, SaidTypes
             DEF TypeOK
<1>2. CASE UNCHANGED vars
  BY <1>2 DEF vars, settings, disk, TypeOK
<1> QED BY <1>1, <1>2
-----------------------------------------------------------------------------
(* Threads and windows                                                     *)

LEMMA FrameFields ==
    ASSUME TypeOK
    PROVE  /\ \A s : LET f == [frame EXCEPT !.screen = s]
                  IN  /\ f.screen = s /\ f.origin = frame.origin
                      /\ f.purpose = frame.purpose /\ f.kept = frame.kept
           /\ LET f == [frame EXCEPT !.kept = TRUE]
              IN  f.screen = frame.screen /\ f.origin = frame.origin
                  /\ f.purpose = frame.purpose /\ f.kept
           /\ NoFrame.screen = "idle" /\ NoFrame.purpose = "build"
           /\ NoFrame.origin = "wizard" /\ ~NoFrame.kept
BY DEF TypeOK, Frames, NoFrame, Frame

LEMMA OpenBuildDoes ==
    ASSUME NEW origin, NEW purpose, NEW p, OpenBuild(origin, purpose, p)
    PROVE  /\ frame'.origin = origin /\ frame'.purpose = purpose /\ ~frame'.kept
           /\ said' = "nothing"
           /\ \/ frame'.screen = "ready" /\ UNCHANGED <<step, build>>
              \/ frame'.screen = "building" /\ step' = "start"
BY DEF OpenBuild, Frame, BeginBuild

\* What each action of the user does to the window and the thread.
LEMMA UserDoes ==
    ASSUME TypeOK, Threads, User
    PROVE  /\ \/ said' = "nothing"
              \/ UNCHANGED said /\ frame.screen \in {"ready", "disks"}
           /\ \/ step = "none" /\ step' = "none"
                 /\ frame'.screen \in {"idle", "ready", "disks"}
              \/ step = "none" /\ step' = "start" /\ frame'.screen = "building"
              \/ step = "none" /\ step' = "mount" /\ frame'.screen = "copying"
<1>1. step \in BuildSteps \union InstallSteps \union {"none"}
  BY DEF TypeOK
<1>2. frame.screen \notin {"building", "copying"} => step = "none"
  BY <1>1 DEF Threads
<1>3. CASE WizardBuild \/ Save \/ Install \/ InstallUnasked
  <2>1. Idle /\ \E o, u, p : OpenBuild(o, u, p)
    BY <1>3 DEF WizardBuild, Save, Install, InstallUnasked
  <2> QED BY <1>2, <2>1, OpenBuildDoes DEF Idle
<1>4. CASE ChangeModel \/ ChooseProfile
  BY <1>2, <1>4 DEF ChangeModel, ChooseProfile, Idle
<1>5. CASE Leave
  BY <1>2, <1>5, FrameFields DEF Leave
<1>6. CASE WizardInstall
  BY <1>2, <1>6 DEF WizardInstall, Idle, Frame
<1>7. CASE PickDisk
  <2>1. frame'.screen = "copying" /\ frame.screen = "disks"
    BY <1>7, FrameFields DEF PickDisk
  <2> QED BY <1>2, <1>7, <2>1 DEF PickDisk
<1>8. CASE BuildClick
  <2>1. frame'.screen = "building" /\ frame.screen = "ready"
    BY <1>8, FrameFields DEF BuildClick
  <2> QED BY <1>2, <1>8, <2>1 DEF BuildClick, BeginBuild
<1> QED BY <1>3, <1>4, <1>5, <1>6, <1>7, <1>8 DEF User

\* And each step of an installation.
LEMMA InstallDoes ==
    ASSUME TypeOK, InstallThread
    PROVE  /\ frame.screen = "copying" /\ frame'.origin = frame.origin
           /\ \/ /\ step' \in InstallSteps /\ UNCHANGED said
                 /\ frame'.screen = "copying" /\ (frame.kept => frame'.kept)
              \/ /\ step' = "none" /\ said' \in {"installed", "failed"}
                 /\ frame'.screen = "over" /\ frame'.kept = frame.kept
                 /\ said' = "installed" => step = "finish" /\ UNCHANGED esp
<1>1. CASE Mount \/ CopyOC \/ CopySystem \/ VerifyCopy
  BY <1>1 DEF Mount, CopyOC, CopySystem, VerifyCopy, InstallStep, InstallSteps
<1>2. CASE RemoveOC \/ RemoveSystem
  <2>1. \/ frame' = frame \/ frame' = [frame EXCEPT !.kept = TRUE]
    BY <1>2 DEF RemoveOC, RemoveSystem, Refused
  <2>2. frame.screen = "copying" /\ step' \in InstallSteps /\ UNCHANGED said
    BY <1>2 DEF RemoveOC, RemoveSystem, InstallStep, InstallSteps
  <2> QED BY <2>1, <2>2, FrameFields
<1>3. CASE FinishInstall
  <2>1. PICK told \in {"installed", "failed"} : EndInstall(told)
    BY <1>3 DEF FinishInstall
  <2> QED BY <1>3, <2>1, FrameFields DEF FinishInstall, EndInstall
<1>4. CASE InstallFails
  <2>1. EndInstall("failed")
    BY <1>4 DEF InstallFails
  <2> QED BY <2>1, FrameFields DEF EndInstall
<1> QED BY <1>1, <1>2, <1>3, <1>4 DEF InstallThread

LEMMA ThreadsStep == TypeOK /\ Threads /\ [Next]_vars => Threads'
<1> SUFFICES ASSUME TypeOK, Threads, [Next]_vars PROVE Threads'
  OBVIOUS
<1> USE DEF Threads, BuildSteps, InstallSteps
<1>1. CASE User
  BY <1>1, UserDoes
<1>3. CASE StartBuild \/ ClearBase \/ ExtractBase \/ RenameBase \/ CheckBuild
  BY <1>3 DEF StartBuild, ClearBase, ExtractBase, RenameBase, CheckBuild, Step
<1>4. CASE MoveBuild \/ BuildFails
  <2>1. step' = "none" /\ frame'.screen \notin {"building", "copying"}
    <3>1. frame.purpose \in {"build", "save", "install"}
      BY DEF TypeOK, Frames
    <3>2. CASE MoveBuild
      BY <3>1, <3>2, FrameFields DEF MoveBuild
    <3>3. CASE BuildFails
      BY <3>3, FrameFields, ZenonT(60) DEF BuildFails
    <3> QED BY <1>4, <3>2, <3>3
  <2> QED BY <2>1
<1>5. CASE InstallThread
  BY <1>5, InstallDoes
<1>6. CASE Restart
  BY <1>6 DEF Restart, NoFrame, Frame
<1>7. CASE UNCHANGED vars
  BY <1>7 DEF vars
<1> QED BY <1>1, <1>3, <1>4, <1>5, <1>6, <1>7 DEF Next, BuildThread

-----------------------------------------------------------------------------
(* What a build makes                                                      *)

LEMMA HeldChecked == [Held("unfinished") EXCEPT !.stage = "checked"] = Held("checked")
BY DEF Held

LEMMA BuiltStep ==
    TypeOK /\ Threads /\ Built /\ OnlyOwnFiles /\ [Next]_vars => Built' /\ OnlyOwnFiles'
<1> SUFFICES ASSUME TypeOK, Threads, Built, OnlyOwnFiles, [Next]_vars
             PROVE  Built' /\ OnlyOwnFiles'
  OBVIOUS
<1> USE Places DEF TypeOK
<1>1. CASE User \/ Restart
  <2>1. step' \in {"none", "start", "mount"} /\ UNCHANGED disk
    BY <1>1, UserLeaves, UserDoes DEF Restart
  <2> QED BY <2>1 DEF Built, OnlyOwnFiles, disk, BuildSteps
<1>2. CASE StartBuild
  BY <1>2 DEF StartBuild, Step, disk, Built, OnlyOwnFiles
<1>3. CASE ClearBase
  <2>1. step' = "extract" /\ staging'[BuildDir] = {} /\ BuildDir' = BuildDir
    BY <1>3 DEF ClearBase, Step, settings, BuildDir
  <2>2. OnlyOwnFiles'
    BY <1>3 DEF ClearBase, OnlyOwnFiles, Nothing
  <2> QED BY <2>1, <2>2 DEF Built
<1>4. CASE ExtractBase
  <2>1. step' = "rename" /\ staging'[BuildDir] = {build} /\ BuildDir' = BuildDir /\ build' = build
    BY <1>4 DEF ExtractBase, Step, settings, BuildDir, Built
  <2> QED BY <1>4, <2>1 DEF Built, ExtractBase, OnlyOwnFiles
<1>5. CASE RenameBase
  <2>1. step' = "check" /\ folders' = [folders EXCEPT ![Release] = Held("unfinished")]
        /\ Release' = Release /\ build' = build
    BY <1>5 DEF RenameBase, Step, settings, BuildDir, Target, Release, Built, Held
  <2> QED BY <2>1 DEF Built, OnlyOwnFiles, Held, Source
<1>6. CASE CheckBuild
  <2>1. step' = "move" /\ folders' = [folders EXCEPT ![Release] = Held("checked")]
        /\ Release' = Release /\ build' = build
    <3>1. folders[Release] = Held("unfinished")
      BY <1>6 DEF CheckBuild, Step, Built, Source
    <3>2. [folders[Release] EXCEPT !.stage = "checked"] = Held("checked")
      BY <3>1, HeldChecked, Zenon
    <3>3. folders' = [folders EXCEPT ![Release] = [folders[Release] EXCEPT !.stage = "checked"]]
      BY <1>6 DEF CheckBuild
    <3>4. Release' = Release
      BY <1>6 DEF CheckBuild, settings, BuildDir, Target, Release
    <3> QED BY <1>6, <3>2, <3>3, <3>4 DEF CheckBuild, Step
  <2> QED BY <2>1 DEF Built, OnlyOwnFiles, Held, Source
<1>7. CASE MoveBuild
  <2>1. Move /\ step' = "none"
    BY <1>7 DEF MoveBuild
  <2>2. \/ folders' = folders
        \/ savePath \in Paths
           /\ folders' = [folders EXCEPT ![savePath] = Source, ![Release] = Nothing]
        \/ folders' = [folders EXCEPT ![Release] = Nothing]
    BY <2>1 DEF Move
  <2>3. \A q \in Paths : folders'[q] \in {folders[q], Nothing, folders[Release]}
    BY <2>2 DEF Source
  <2>4. \A q \in Paths : folders[q].stage = "checked" => folders[q].files = {folders[q].of}
    BY DEF OnlyOwnFiles
  <2>5. OnlyOwnFiles'
    <3> SUFFICES ASSUME NEW q \in Paths, folders'[q].stage = "checked"
                 PROVE  folders'[q].files = {folders'[q].of}
      BY DEF OnlyOwnFiles
    <3>1. folders'[q] # Nothing
      <4>1. Nothing.stage # "checked"
        BY DEF Nothing
      <4> QED BY <4>1, Zenon
    <3>2. PICK c \in Paths : folders'[q] = folders[c]
      BY <2>3, <3>1
    <3> QED BY <2>4, <3>2
  <2> QED BY <2>1, <2>5 DEF Built
<1>8. CASE BuildFails
  BY <1>8 DEF BuildFails, Built, OnlyOwnFiles, disk
<1>9. CASE InstallThread
  <2>1. step' \notin BuildSteps /\ UNCHANGED disk
    BY <1>9, InstallLeaves, InstallDoes DEF BuildSteps, InstallSteps
  <2> QED BY <2>1 DEF Built, OnlyOwnFiles, disk, BuildSteps
<1>10. CASE UNCHANGED vars
  <2>1. UNCHANGED <<BuildDir, Source>>
    BY <1>10 DEF vars, settings, disk, BuildDir, Source, Release, Target
  <2> QED BY <1>10, <2>1 DEF vars, disk, Built, OnlyOwnFiles, Held
<1> QED BY <1>1, <1>2, <1>3, <1>4, <1>5, <1>6, <1>7, <1>8, <1>9, <1>10 DEF Next, BuildThread

-----------------------------------------------------------------------------
(* Where a build is saved                                                  *)

LEMMA SettingsName == UNCHANGED settings => UNCHANGED <<BuildDir, Target, Release>>
BY DEF settings, BuildDir, Target, Release

LEMMA SavingStep ==
    /\ TypeOK /\ Threads /\ Built /\ Saving /\ SavedWhereSaid /\ [Next]_vars
    => Saving' /\ SavedWhereSaid'
<1> SUFFICES ASSUME TypeOK, Threads, Built, Saving, SavedWhereSaid, [Next]_vars
             PROVE  Saving' /\ SavedWhereSaid'
  OBVIOUS
<1>1. CASE Save
  <2>1. PICK dir \in Dirs, q \in Prompted : savePath' = SavePath(dir) /\ OpenBuild("menu", "save", q)
    BY <1>1 DEF Save
  <2>2. Target' = Target
    BY <2>1 DEF OpenBuild, Target
  <2>3. savePath' = <<dir, Target>> /\ savePath' \in Paths
    BY <2>1, Places DEF SavePath, Paths
  <2>4. savePath' # None
    BY <2>3, TypeStep, PlacesAssumption DEF Paths
  <2>5. savePath' = Release'
    BY <2>2, <2>3, <2>4 DEF Release, BuildDir
  <2>6. said' = "nothing"
    BY <2>1, OpenBuildDoes
  <2> QED BY <2>4, <2>5, <2>6 DEF Saving, SavedWhereSaid
<1>2. CASE WizardBuild \/ Install \/ InstallUnasked
  <2>1. \E o, q : \E u \in {"build", "install"} : OpenBuild(o, u, q)
    BY <1>2 DEF WizardBuild, Install, InstallUnasked
  <2>2. frame'.purpose # "save" /\ said' = "nothing"
    BY <2>1, OpenBuildDoes
  <2> QED BY <2>2 DEF Saving, SavedWhereSaid
<1>3. CASE ChangeModel \/ ChooseProfile \/ Leave \/ WizardInstall \/ PickDisk
  <2>1. step' # "start" /\ frame'.screen \notin {"ready", "building"}
    <3>1. frame'.screen \in {"idle", "disks", "copying"}
      <4>1. CASE PickDisk
        BY <4>1, FrameFields DEF PickDisk
      <4>2. CASE Leave
        BY <4>2, FrameFields DEF Leave
      <4>3. CASE ChangeModel \/ ChooseProfile
        BY <4>3 DEF ChangeModel, ChooseProfile, Idle
      <4>4. CASE WizardInstall
        BY <4>4 DEF WizardInstall, Frame
      <4> QED BY <1>3, <4>1, <4>2, <4>3, <4>4
    <3> QED BY <1>3, <3>1, UserDoes DEF User
  <2>2. said' # "saved"
    BY <1>3, UserDoes DEF User, Saving
  <2> QED BY <2>1, <2>2 DEF Saving, SavedWhereSaid
<1>4. CASE BuildClick
  <2>1. UNCHANGED <<savePath, said>> /\ frame.screen = "ready" /\ frame'.purpose = frame.purpose
    BY <1>4, FrameFields DEF BuildClick
  <2>2. Release' = Release
    BY <1>4 DEF BuildClick, Release, BuildDir, Target
  <2> QED BY <2>1, <2>2 DEF Saving, SavedWhereSaid
<1>5. CASE StartBuild
  <2>1. /\ UNCHANGED <<savePath, profile, frame, said>> /\ step' = "clear"
        /\ frame.screen = "building" /\ step = "start"
    BY <1>5 DEF StartBuild, Step
  <2>2. profile # "test_c_spoofed" => Release' = Release
    BY <1>5 DEF StartBuild, Release, BuildDir, Target
  <2> QED BY <2>1, <2>2 DEF Saving, SavedWhereSaid
<1>6. CASE ClearBase \/ ExtractBase \/ RenameBase \/ CheckBuild
  <2>1. UNCHANGED <<settings, frame, said>> /\ step' # "start" /\ frame.screen = "building"
    BY <1>6 DEF ClearBase, ExtractBase, RenameBase, CheckBuild, Step
  <2> QED BY <2>1, SettingsName DEF Saving, SavedWhereSaid, settings
<1>7. CASE MoveBuild
  <2>1. /\ UNCHANGED <<settings, build>> /\ step' = "none" /\ frame.screen = "building"
        /\ step = "move" /\ Move
    BY <1>7 DEF MoveBuild
  <2>2. frame'.screen \in {"built", "idle", "disks"}
        /\ (said' = "saved" => frame.purpose = "save" /\ frame'.screen = "idle")
    <3>1. frame.purpose \in {"build", "save", "install"}
      BY DEF TypeOK, Frames
    <3>2. said # "saved"
      BY <2>1 DEF Saving
    <3> QED BY <1>7, <3>1, <3>2, FrameFields DEF MoveBuild
  <2>3. Saving'
    BY <2>1, <2>2 DEF Saving
  <2>4. ASSUME said' = "saved", profile' # "test_c_spoofed"
        PROVE  folders'[savePath'].of = build' /\ folders'[savePath'].stage = "checked"
    <3>1. savePath = Release /\ UNCHANGED <<savePath, build>>
      BY <2>1, <2>2, <2>4 DEF Saving, settings
    <3>2. folders' = folders
      BY <2>1, <3>1 DEF Move
    <3>3. folders[savePath] = Held("checked")
      BY <2>1, <3>1 DEF Built, Source
    <3> QED BY <3>1, <3>2, <3>3 DEF Held
  <2> QED BY <2>3, <2>4 DEF SavedWhereSaid
<1>8. CASE BuildFails
  <2>1. step' = "none" /\ frame'.screen = "failed" /\ said' = said /\ frame.screen = "building"
    BY <1>8, FrameFields DEF BuildFails
  <2> QED BY <2>1 DEF Saving, SavedWhereSaid
<1>9. CASE InstallThread
  BY <1>9, InstallDoes DEF Saving, SavedWhereSaid, InstallSteps
<1>10. CASE Restart
  <2>1. step' = "none" /\ frame'.screen = "idle" /\ said' = "nothing"
    BY <1>10, FrameFields DEF Restart
  <2> QED BY <2>1 DEF Saving, SavedWhereSaid
<1>11. CASE UNCHANGED vars
  <2>1. UNCHANGED <<settings, frame, step, build, folders, said>>
    BY <1>11 DEF vars, disk
  <2> QED BY <2>1, SettingsName DEF Saving, SavedWhereSaid, settings
<1> QED BY <1>1, <1>2, <1>3, <1>4, <1>5, <1>6, <1>7, <1>8, <1>9, <1>10, <1>11
        DEF Next, User, BuildThread

-----------------------------------------------------------------------------
(* What is installed                                                       *)

LEMMA FindsStep ==
    TypeOK /\ Threads /\ Built /\ Finds /\ [Next]_vars => Finds'
<1> SUFFICES ASSUME TypeOK, Threads, Built, Finds, [Next]_vars PROVE Finds'
  OBVIOUS
<1>1. CASE PickDisk
  <2>1. UNCHANGED <<settings, build, folders>> /\ frame.screen = "disks"
        /\ frame'.origin = frame.origin
    BY <1>1, FrameFields DEF PickDisk, disk
  <2>2. Source' = Source
    BY <2>1, SettingsName DEF Source
  <2> QED BY <2>1, <2>2 DEF Finds, Held
<1>2. CASE WizardInstall
  <2>1. frame'.origin = "wizard"
    BY <1>2 DEF WizardInstall, Frame
  <2> QED BY <2>1 DEF Finds
<1>3. CASE User /\ ~PickDisk /\ ~WizardInstall
  <2>1. frame'.screen \notin {"disks", "copying"}
    <3>1. CASE WizardBuild \/ Save \/ Install \/ InstallUnasked
      <4>1. \E o, u, q : OpenBuild(o, u, q)
        BY <3>1 DEF WizardBuild, Save, Install, InstallUnasked
      <4> QED BY <4>1, OpenBuildDoes
    <3>2. CASE ChangeModel \/ ChooseProfile
      BY <3>2 DEF ChangeModel, ChooseProfile, Idle
    <3>3. CASE Leave
      BY <3>3, FrameFields DEF Leave
    <3>4. CASE BuildClick
      BY <3>4, FrameFields DEF BuildClick
    <3> QED BY <1>3, <3>1, <3>2, <3>3, <3>4 DEF User
  <2> QED BY <2>1 DEF Finds
<1>4. CASE BuildThread /\ ~MoveBuild
  <2>1. frame'.screen \in {"building", "failed"}
    BY <1>4, FrameFields, ZenonT(60) DEF BuildThread, StartBuild, ClearBase, ExtractBase, RenameBase,
         CheckBuild, BuildFails, Step
  <2> QED BY <2>1 DEF Finds
<1>5. CASE MoveBuild
  <2>1. UNCHANGED <<settings, build>> /\ step = "move" /\ Move
    BY <1>5 DEF MoveBuild
  <2>2. Source = Held("checked") /\ Release' = Release
    BY <2>1, SettingsName DEF Built
  <2>3. folders'[Release] \in {Nothing, Source}
    <3>1. CASE UNCHANGED folders
      BY <3>1 DEF Source
    <3>2. CASE folders' = [folders EXCEPT ![Release] = Nothing]
      BY <3>2, Places DEF TypeOK
    <3>3. CASE folders' = [folders EXCEPT ![savePath] = Source, ![Release] = Nothing]
      BY <3>3, Places DEF TypeOK
    <3> QED BY <2>1, <3>1, <3>2, <3>3 DEF Move
  <2> QED BY <2>1, <2>2, <2>3 DEF Finds, Source, Held
<1>6. CASE InstallThread
  <2>1. Source' = Source /\ build' = build
    BY <1>6, InstallLeaves, SettingsName DEF Source, disk
  <2> QED BY <1>6, <2>1, InstallDoes DEF Finds, Held
<1>7. CASE Restart
  BY <1>7, FrameFields DEF Restart, Finds
<1>8. CASE UNCHANGED vars
  <2>1. UNCHANGED <<frame, build, Source>>
    BY <1>8, SettingsName DEF vars, disk, Source
  <2> QED BY <2>1 DEF Finds, Held
<1> QED BY <1>1, <1>2, <1>3, <1>4, <1>5, <1>6, <1>7, <1>8 DEF Next

LEMMA CopiedStep == TypeOK /\ Threads /\ Copied /\ [Next]_vars => Copied'
<1> SUFFICES ASSUME TypeOK, Threads, Copied, [Next]_vars PROVE Copied'
  OBVIOUS
<1>1. CASE InstallThread /\ step' \in InstallSteps /\ ~frame'.kept
  <2>1. Source' = Source
    BY <1>1, InstallLeaves, SettingsName DEF Source, disk
  <2>2. ~frame.kept
    BY <1>1, InstallDoes DEF InstallSteps
  <2>3. esp \in [oc : Content, sys : SUBSET Ids]
    BY DEF TypeOK
  <2>4. CASE Mount
    BY <2>4 DEF Mount, InstallStep, Copied
  <2>5. CASE RemoveOC
    <3>1. esp' = [esp EXCEPT !.oc = Nothing] /\ step' = "remove system"
      BY <1>1, <2>5, FrameFields DEF RemoveOC, Refused, InstallStep
    <3> QED BY <2>3, <3>1 DEF Copied
  <2>6. CASE RemoveSystem
    <3>1. esp' = [esp EXCEPT !.sys = {}] /\ step' = "copy oc" /\ step = "remove system"
      BY <1>1, <2>6, FrameFields DEF RemoveSystem, Refused, InstallStep
    <3> QED BY <2>2, <2>3, <3>1 DEF Copied
  <2>7. CASE CopyOC
    <3>2. step' = "copy system" /\ step = "copy oc" /\ esp.oc = Nothing
      BY <2>2, <2>7 DEF CopyOC, InstallStep, Copied
    <3>1. (esp' = esp \/ esp' = [esp EXCEPT !.oc = Source])
          /\ step' = "copy system" /\ step = "copy oc"
      BY <2>7, <3>2, Zenon DEF CopyOC, Onto
    <3> QED BY <2>1, <2>2, <2>3, <3>1 DEF Copied
  <2>8. CASE CopySystem
    <3>2. step' = "verify" /\ step = "copy system" /\ esp.sys = {}
      BY <2>2, <2>8 DEF CopySystem, InstallStep, Copied
    <3>1. (esp' = esp \/ esp' = [esp EXCEPT !.sys = Source.files])
          /\ step' = "verify" /\ step = "copy system"
      BY <2>8, <3>2 DEF CopySystem
    <3> QED BY <2>1, <2>2, <2>3, <3>1 DEF Copied
  <2>9. CASE VerifyCopy
    <3>1. esp' = esp /\ esp.oc # Nothing /\ esp.sys # {} /\ step' = "finish" /\ step = "verify"
      BY <2>9 DEF VerifyCopy, InstallStep
    <3> QED BY <2>1, <2>2, <3>1 DEF Copied
  <2>10. CASE FinishInstall \/ InstallFails
    BY <1>1, <2>10 DEF FinishInstall, InstallFails, EndInstall, InstallSteps
  <2> QED BY <1>1, <2>4, <2>5, <2>6, <2>7, <2>8, <2>9, <2>10 DEF InstallThread
<1>2. CASE InstallThread /\ ~(step' \in InstallSteps /\ ~frame'.kept)
  BY <1>2 DEF Copied, InstallSteps
<1>3. CASE User
  BY <1>3, UserDoes DEF Copied
<1>4. CASE BuildThread
  <2>1. step' \notin InstallSteps
    BY <1>4 DEF BuildThread, StartBuild, ClearBase, ExtractBase, RenameBase, CheckBuild,
         MoveBuild, BuildFails, Step, InstallSteps
  <2> QED BY <2>1 DEF Copied, InstallSteps
<1>5. CASE Restart
  BY <1>5 DEF Restart, Copied
<1>6. CASE UNCHANGED vars
  <2>1. UNCHANGED <<frame, step, esp, Source>>
    BY <1>6, SettingsName DEF vars, disk, Source
  <2> QED BY <2>1 DEF Copied
<1> QED BY <1>1, <1>2, <1>3, <1>4, <1>5, <1>6 DEF Next

LEMMA InstalledStep ==
    /\ TypeOK /\ Threads /\ Finds /\ Copied /\ Ended /\ InstallsItsBuild /\ [Next]_vars
    => Ended' /\ InstallsItsBuild'
<1> SUFFICES ASSUME TypeOK, Threads, Finds, Copied, Ended, InstallsItsBuild, [Next]_vars
             PROVE  Ended' /\ InstallsItsBuild'
  OBVIOUS
<1>1. CASE InstallThread /\ said' = "installed"
  <2>1. /\ step = "finish" /\ UNCHANGED <<esp, build>> /\ frame.screen = "copying"
        /\ frame'.screen = "over" /\ frame'.origin = frame.origin /\ frame'.kept = frame.kept
    BY <1>1, InstallDoes, InstallLeaves DEF Ended
  <2>2. ~frame.kept => esp.oc = Source /\ esp.sys = Source.files /\ esp.oc # Nothing
    BY <2>1 DEF Copied
  <2>3. frame.origin = "menu" => Source \in {Nothing, Held("checked")}
    BY <2>1 DEF Finds
  <2> QED BY <2>1, <2>2, <2>3 DEF Ended, InstallsItsBuild, Held
<1>2. CASE Next /\ said' # "installed"
  BY <1>2 DEF Ended, InstallsItsBuild
<1>3. CASE User \/ BuildThread \/ Restart
  <2>1. CASE User
    BY <2>1, UserDoes DEF Ended, InstallsItsBuild
  <2>2. CASE BuildThread
    <3>1. frame.screen = "building" /\ said' \in {said, "saved"}
      BY <2>2 DEF BuildThread, StartBuild, ClearBase, ExtractBase, RenameBase, CheckBuild,
           MoveBuild, BuildFails, Step
    <3> QED BY <3>1 DEF Ended, InstallsItsBuild
  <2>3. CASE Restart
    BY <2>3 DEF Restart, Ended, InstallsItsBuild
  <2> QED BY <1>3, <2>1, <2>2, <2>3
<1>4. CASE UNCHANGED vars
  BY <1>4 DEF vars, Ended, InstallsItsBuild
<1> QED BY <1>1, <1>2, <1>3, <1>4 DEF Next

-----------------------------------------------------------------------------

LEMMA IInvInit == Init => IInv
<1> SUFFICES ASSUME Init PROVE IInv
  OBVIOUS
<1>1. /\ step = "none" /\ said = "nothing" /\ frame.screen = "idle"
      /\ folders = [q \in Paths |-> Nothing]
  BY TypeInit, FrameFields DEF Init
<1>2. OnlyOwnFiles
  BY <1>1 DEF OnlyOwnFiles, Nothing
<1> QED BY <1>1, <1>2, TypeInit
        DEF IInv, Threads, BuildSteps, InstallSteps, Built, Saving, SavedWhereSaid, Finds, Copied,
            Ended, InstallsItsBuild

LEMMA IInvStep == IInv /\ [Next]_vars => IInv'
BY TypeStep, ThreadsStep, BuiltStep, SavingStep, FindsStep, CopiedStep, InstalledStep DEF IInv

\* Every variable keeps its type, for any number of Macs, folders and builds.
THEOREM BuilderTypes == Spec => []TypeOK
<1>1. Init => TypeOK
  BY TypeInit
<1>2. TypeOK /\ [Next]_vars => TypeOK'
  BY TypeStep
<1> QED BY <1>1, <1>2, PTL DEF Spec

\* A folder that was validated holds the files of the build that made it and
\* of no interrupted one: _generate_base clears what it is going to use.
THEOREM FoldersHoldOneBuild == Spec => []OnlyOwnFiles
<1>1. IInv => OnlyOwnFiles
  BY DEF IInv
<1> QED BY <1>1, IInvInit, IInvStep, PTL DEF Spec

\* What a window built and reports installed is what stands on the partition.
THEOREM BuiltIsInstalled == Spec => []InstallsItsBuild
<1>1. IInv => InstallsItsBuild
  BY DEF IInv
<1> QED BY <1>1, IInvInit, IInvStep, PTL DEF Spec

\* A build that is said to be saved is in the folder that is named.
THEOREM SavedIsThere == Spec => []SavedWhereSaid
<1>1. IInv => SavedWhereSaid
  BY DEF IInv
<1> QED BY <1>1, IInvInit, IInvStep, PTL DEF Spec
=============================================================================
