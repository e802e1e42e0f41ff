------------------------------ MODULE PatchSets ------------------------------
(***************************************************************************)
(* From the hardware of a machine to the files on its root volume: which   *)
(* patch sets HardwarePatchsetDetection selects, what the patcher window   *)
(* downloads for them, what start_patch detects again, and how the sets    *)
(* are laid over each other.                                               *)
(*                                                                         *)
(* The window detects once (details); the patcher detects a second time    *)
(* when it starts (plan), and between the two the network may come and go. *)
(* What is on the disk before and after a failure is the business of       *)
(* RootPatch; here a failed preflight or copy ends the run.                *)
(*                                                                         *)
(* A place <<p, k, name>> is a set by its name and the place it is asked   *)
(* for: the class at position p of HardwareVariants, its k-th step.  disk  *)
(* maps each contested file to the layers it is made of.                   *)
(***************************************************************************)
EXTENDS PatchFiles, FiniteSets, FiniteSetsExt

CONSTANTS
    Machines,     \* the machines considered
    HostsOf(_),   \* what a machine may have installed and set when the patcher opens
    OutagesOf(_)  \* bound: how often the network of a machine changes; 0: it is up

VARIABLES
    machine,
    host,         \* packages and settings: kdk, metallib, complete, remote, dmg, blocked
    online,       \* the network answers
    lists,        \* the release lists fetched so far and kept for the process
    pc,
    details,      \* device_properties as the window detected them
    plan,         \* patch_set_dictionary: the places of its keys
    installed,    \* the places of the plan installed so far
    disk,
    merged,       \* the KDK is merged with the root volume
    refreshed,    \* _metallib_preflight_refresh_attempted
    outages

vars == <<machine, host, online, lists, pc, details, plan, installed, disk, merged, refreshed, outages>>

Builds == {"none", "older", "exact"}

Hosts == [kdk : Builds, metallib : Builds, complete : BOOLEAN, remote : Builds,
          dmg : BOOLEAN, blocked : {"nothing", "host", "web-driver"}]

\* Machines as device_probe describes them: one graphics part in the processor,
\* one wireless card.
ASSUME MachinesAssumption ==
    \A m \in Machines :
        /\ m.os \in Nat /\ m.avx2 \in BOOLEAN /\ m.renderbox \in BOOLEAN
        /\ \A a, b \in m.gpus \cap IntegratedGpus : a = b
        /\ ~({"legacy-wifi", "modern-wifi"} \subseteq m.devices)

\* What a machine may find when the patcher opens is a host, the bound a number.
ASSUME HostsAssumption ==
    \A m \in Machines : HostsOf(m) \subseteq Hosts /\ OutagesOf(m) \in Nat

-----------------------------------------------------------------------------
(* KernelDebugKitObject and MetalLibraryObject *)

\* The list of releases: fetched, or kept from an earlier call.
ListKnown(package) == online \/ package \in lists

\* An installed KDK of this build is taken at once; otherwise the list decides
\* which build is wanted, and without a list a version that is close will do.
KdkFound ==
    \/ host.kdk = "exact"
    \/ host.kdk = "older" /\ (ListKnown("kdk") => host.remote = "older")

\* The same, but the first look, for this very build, compares with None.
MetallibFound ==
    /\ host.metallib # "none"
    /\ ListKnown("metallib") => host.metallib = host.remote

KdkKnown      == KdkFound \/ (ListKnown("kdk") /\ host.remote # "none")
MetallibKnown == MetallibFound \/ (ListKnown("metallib") /\ host.remote # "none")

-----------------------------------------------------------------------------
(* HardwarePatchsetDetection *)

\* The classes of a machine; a choice of hardware is a set of their positions.
Variants == [m \in Machines |-> HardwareVariants(m)]

PresentHardware(classes) ==
    {i \in DOMAIN classes : classes[i].present /\ ~classes[i].native}

OfSubclass(classes, hardware, subclass) == {i \in hardware : classes[i].subclass = subclass}

\* Mutant: only a 3802 card makes the non-Metal cards go.
StripBeside3802(m, classes, hardware) ==
    IF OfSubclass(classes, hardware, "3802") # {}
    THEN hardware \ OfSubclass(classes, hardware, "non-metal") ELSE hardware

\* The Metal stack of the last 31001 card seen decides whether 3802 may stay.
StripIncompatible(m, classes, hardware) ==
    LET metal31001 == OfSubclass(classes, hardware, "31001")
        metal3802  == OfSubclass(classes, hardware, "3802")
        nonMetalGoes == metal31001 \cup metal3802 # {}
        metal3802Goes ==
            /\ metal31001 # {} /\ m.os >= Sequoia
            /\ classes[Max(metal31001)].name # "AMD-Legacy-GCN"
    IN  {i \in hardware :
            /\ nonMetalGoes => classes[i].subclass # "non-metal"
            /\ metal3802Goes => classes[i].subclass # "3802"}

\* Mac Pros without AVX2 are not offered 3802 or non-Metal hardware on Tahoe.
TahoePreAVXPolicy(m, classes, hardware) ==
    LET strip == /\ m.os >= Tahoe
                 /\ m.model \in {"MacPro3_1", "MacPro5_1", "MacPro6_1"}
                 /\ ~m.avx2
    IN  {i \in hardware : ~(strip /\ classes[i].subclass \in {"3802", "non-metal"})}

Needs(classes, hardware, what) == \E i \in hardware : classes[i][what]

\* Every set a class asks for, at each place where it does.
PlacesOf(classes, i) ==
    LET steps == classes[i].sets
    IN  UNION {{<<i, k, name>> : name \in steps[k]} : k \in DOMAIN steps}

Places(classes, hardware) == UNION {PlacesOf(classes, i) : i \in hardware}

Name(place)   == place[3]
Names(places) == {Name(place) : place \in places}

Earlier(a, b) == a[1] < b[1] \/ (a[1] = b[1] /\ a[2] < b[2])

\* dict.update: a name that is there keeps its place.
Firsts(places) ==
    {a \in places : \A b \in places : Name(b) = Name(a) => ~Earlier(b, a)}

Dictionary(classes, hardware) == Firsts(Places(classes, hardware))

\* What a machine's hardware comes to, before packages and network are asked.
Offered(m, classes) ==
    TahoePreAVXPolicy(m, classes, StripIncompatible(m, classes, PresentHardware(classes)))

Selected        == [m \in Machines |-> Offered(m, Variants[m])]
NetworkHardware == [m \in Machines |-> {i \in Selected[m] : Variants[m][i].network}]
AllSets         == [m \in Machines |-> Dictionary(Variants[m], Selected[m])]
NetworkSets     == [m \in Machines |-> Dictionary(Variants[m], NetworkHardware[m])]

\* The contested files a machine's sets touch.
Contested == [m \in Machines |->
    UNION {Removes(name) \cup Brings(name, m) : name \in Names(Places(Variants[m], Selected[m]))}]

Requires(what) == Needs(Variants[machine], Selected[machine], what)

Blocked ==
    \/ host.blocked = "host"
    \/ host.blocked = "web-driver" /\ \E i \in Selected[machine] :
                                         Variants[machine][i].name = "Nvidia-Web-Drivers"

PackageMissing ==
    (Requires("kdk") /\ ~KdkFound) \/ (Requires("metallib") /\ ~MetallibFound)

\* Offline, with packages missing and nothing else in the way: the wireless
\* sets alone, so that the machine gets a network.
NetworkingOnly == PackageMissing /\ ~online /\ ~Blocked /\ Requires("network")

\* Mutant: the requirements are cleared, the other hardware stays.
DetectAllOffline ==
    [kdk |-> ~NetworkingOnly /\ Requires("kdk"), metallib |-> ~NetworkingOnly /\ Requires("metallib"),
     sets |-> AllSets[machine], canPatch |-> ~Blocked /\ (PackageMissing /\ ~online => NetworkingOnly)]

Detect ==
    [kdk      |-> ~NetworkingOnly /\ Requires("kdk"),
     metallib |-> ~NetworkingOnly /\ Requires("metallib"),
     sets     |-> IF NetworkingOnly THEN NetworkSets[machine] ELSE AllSets[machine],
     canPatch |-> ~Blocked /\ (PackageMissing /\ ~online => NetworkingOnly)]

\* The release lists a detection of this machine asks for.
ListsAsked ==
    {p \in {"kdk", "metallib"} : online /\ Requires(p) /\ (p = "kdk" => host.kdk # "exact")}

-----------------------------------------------------------------------------
NoDetails == [kdk |-> FALSE, metallib |-> FALSE, sets |-> {}, canPatch |-> FALSE]

Init ==
    /\ machine \in Machines
    /\ host \in HostsOf(machine)
    /\ online \in (IF OutagesOf(machine) = 0 THEN {TRUE} ELSE BOOLEAN)
    /\ lists = {} /\ details = NoDetails /\ plan = {} /\ installed = {}
    /\ pc = "closed"
    /\ disk = [f \in Contested[machine] |-> {"macOS"}]
    /\ merged = FALSE /\ refreshed = FALSE /\ outages = 0

Running == {"opened", "prepared", "preflight", "metallib", "metallib-again", "metallib-fetch",
            "kdk", "apply"}
Ended   == {"nothing", "refused", "exited", "rolled-back", "done"}

\* The network comes or goes while the patcher is at work.
NetworkChanges ==
    /\ pc \in Running /\ outages < OutagesOf(machine)
    /\ online' = ~online /\ outages' = outages + 1
    /\ UNCHANGED <<machine, host, lists, pc, details, plan, installed, disk, merged, refreshed>>

\* The patcher window, or PatchSysVolume itself on the command line, detects.
OpenPatcher ==
    /\ pc = "closed"
    /\ details' = Detect
    /\ lists' = lists \cup ListsAsked
    /\ pc' = "opened"
    /\ UNCHANGED <<machine, host, online, plan, installed, disk, merged, refreshed, outages>>

\* start_root_patching of the window fetches the KDK image, then installs the
\* Metal libraries; it leaves with sys.exit(1) when either cannot be had.
WindowDownloads ==
    /\ pc = "opened"
    /\ LET kdkHere      == details.kdk => KdkFound
           metallibHere == details.metallib => MetallibFound
           canFetch     == /\ ~kdkHere => KdkKnown /\ online
                           /\ ~metallibHere => MetallibKnown /\ online
       IN  \/ /\ canFetch
              /\ pc' = "prepared"
              /\ \E whole \in BOOLEAN :
                     host' = [host EXCEPT
                         !.dmg      = @ \/ ~kdkHere,
                         !.metallib = IF metallibHere THEN @ ELSE host.remote,
                         !.complete = IF metallibHere THEN @ ELSE whole]
           \/ /\ ~(kdkHere /\ metallibHere)
              /\ pc' = "exited"
              /\ UNCHANGED host
    /\ lists' = lists \cup {p \in {"kdk", "metallib"} : online /\ details[p]}
    /\ UNCHANGED <<machine, online, details, plan, installed, disk, merged, refreshed, outages>>

\* On the command line nothing is fetched beforehand.
WithoutWindow ==
    /\ pc = "opened"
    /\ pc' = "prepared"
    /\ UNCHANGED <<machine, host, online, lists, details, plan, installed, disk, merged, refreshed, outages>>

\* start_patch detects again and gives up without a set, or on a validation.
StartPatch ==
    /\ pc = "prepared"
    /\ LET detected == Detect
       IN  /\ plan' = detected.sets
           /\ pc' = IF detected.sets = {} THEN "nothing"
                    ELSE IF detected.canPatch THEN "preflight" ELSE "refused"
    /\ lists' = lists \cup ListsAsked
    /\ UNCHANGED <<machine, host, online, details, installed, disk, merged, refreshed, outages>>

\* _preflight_checks walks the sets; a value that is no container raises.
Preflight ==
    /\ pc = "preflight"
    /\ pc' = IF "extreme" \in Names(plan) THEN "rolled-back"
             ELSE IF "Metal-3802-.metallibs" \in Names(plan) THEN "metallib" ELSE "kdk"
    /\ UNCHANGED <<machine, host, online, lists, details, plan, installed, disk, merged, refreshed, outages>>

\* Mutant: the second look fetches again, as the code once did.
LookAgainAndAgain ==
    /\ pc \in {"metallib", "metallib-again"}
    /\ lists' = IF online THEN lists \cup {"metallib"} ELSE lists
    /\ pc' = IF MetallibFound THEN "kdk" ELSE IF MetallibKnown THEN "metallib-fetch" ELSE "exited"
    /\ UNCHANGED <<machine, host, online, details, plan, installed, disk, merged, refreshed, outages>>

\* _resolve_metallib_support_pkg looks for the package, downloads and installs
\* it at most once and looks again: an installer that reports success without
\* effect ends the run.  A file the package lacks forces one fresh download;
\* what is missing then is skipped.  Any failure here is sys.exit(3).
LookForMetallib ==
    /\ pc \in {"metallib", "metallib-again"}
    /\ lists' = IF online THEN lists \cup {"metallib"} ELSE lists
    /\ \/ /\ MetallibFound /\ (host.complete \/ refreshed)
          /\ pc' = "kdk" /\ UNCHANGED refreshed
       \/ /\ MetallibFound /\ ~host.complete /\ ~refreshed
          /\ pc' = "metallib-fetch" /\ refreshed' = TRUE
       \/ /\ ~MetallibFound
          /\ pc' = IF pc = "metallib" /\ MetallibKnown THEN "metallib-fetch" ELSE "exited"
          /\ UNCHANGED refreshed
    /\ UNCHANGED <<machine, host, online, details, plan, installed, disk, merged, outages>>

FetchMetallib ==
    /\ pc = "metallib-fetch"
    /\ \/ /\ online /\ host.remote # "none"
          /\ pc' = "metallib-again"
          /\ \/ UNCHANGED host
             \/ \E whole \in BOOLEAN :
                    host' = [host EXCEPT !.metallib = host.remote, !.complete = whole]
       \/ /\ pc' = "exited"
          /\ UNCHANGED host
    /\ lists' = IF online THEN lists \cup {"metallib"} ELSE lists
    /\ UNCHANGED <<machine, online, details, plan, installed, disk, merged, refreshed, outages>>

\* KernelDebugKitMerge.merge, decided by what the window had detected.
SkipRootKmutil == machine.os < Ventura \/ ~details.kdk

\* Mutant: a KDK that cannot be had is only logged.
MergeIfPossible ==
    /\ pc = "kdk" /\ pc' = "apply"
    /\ merged' = (~SkipRootKmutil /\ KdkFound)
    /\ UNCHANGED <<machine, host, online, lists, details, plan, installed, disk, refreshed, outages>>

MergeKDK ==
    /\ pc = "kdk"
    /\ \/ /\ SkipRootKmutil
          /\ pc' = "apply"
          /\ UNCHANGED <<host, lists, merged>>
       \/ /\ ~SkipRootKmutil
          /\ lists' = IF online /\ host.kdk # "exact" /\ ~host.dmg THEN lists \cup {"kdk"} ELSE lists
          /\ \/ /\ host.dmg \/ KdkFound \/ (online /\ host.remote # "none")
                /\ host' = [host EXCEPT !.kdk = IF host.dmg \/ ~KdkFound THEN host.remote ELSE @]
                /\ merged' = TRUE /\ pc' = "apply"
             \/ /\ pc' = "rolled-back"
                /\ UNCHANGED <<host, merged>>
    /\ UNCHANGED <<machine, online, details, plan, installed, disk, refreshed, outages>>

\* Another preflight step raises, or a command of a set fails.
Fail ==
    /\ pc \in {"preflight", "apply"}
    /\ pc' = "rolled-back"
    /\ UNCHANGED <<machine, host, online, lists, details, plan, installed, disk, merged, refreshed, outages>>

\* The three newer AMD sets bring the same bytes where they bring the same file.
Layer(set) == IF set \in {"AMD-Legacy-GCN", "AMD-Polaris", "AMD-Vega"} THEN "AMD-12.5" ELSE set

\* One set: its removals, then what it overwrites, then what it merges.
Installed(name, file, layers) ==
    LET kept     == IF file \in Removes(name) THEN {} ELSE layers
        replaced == IF file \in Overwrites(name, machine) THEN {Layer(name)} ELSE kept
    IN  IF file \in Merges(name, machine) THEN replaced \cup {Layer(name)} ELSE replaced

\* The first place of the plan that is not installed yet.
ApplySet ==
    /\ pc = "apply"
    /\ \E place \in plan \ installed :
           /\ \A other \in plan \ installed : ~Earlier(other, place)
           /\ disk' = [f \in DOMAIN disk |-> Installed(Name(place), f, disk[f])]
           /\ installed' = installed \cup {place}
    /\ UNCHANGED <<machine, host, online, lists, pc, details, plan, merged, refreshed, outages>>

Finish ==
    /\ pc = "apply" /\ installed = plan
    /\ pc' = "done"
    /\ UNCHANGED <<machine, host, online, lists, details, plan, installed, disk, merged, refreshed, outages>>

Work == \/ OpenPatcher \/ WindowDownloads \/ WithoutWindow \/ StartPatch \/ Preflight
        \/ LookForMetallib \/ FetchMetallib \/ MergeKDK \/ ApplySet \/ Finish

Over == pc \in Ended /\ UNCHANGED vars

Next == Work \/ Fail \/ NetworkChanges \/ Over

Spec     == Init /\ [][Next]_vars
FairSpec == Spec /\ WF_vars(Work)

-----------------------------------------------------------------------------
(* Properties *)

\* What a detection may return as patch_set_dictionary.
Plans == {{}, AllSets[machine], NetworkSets[machine]}

TypeOK ==
    /\ machine \in Machines /\ host \in Hosts /\ online \in BOOLEAN
    /\ lists \subseteq {"kdk", "metallib"} /\ pc \in {"closed"} \cup Running \cup Ended
    /\ details \in [kdk : BOOLEAN, metallib : BOOLEAN, sets : Plans, canPatch : BOOLEAN]
    /\ plan \in Plans /\ installed \subseteq plan /\ merged \in BOOLEAN /\ refreshed \in BOOLEAN
    /\ DOMAIN disk = Contested[machine] /\ outages \in 0 .. OutagesOf(machine)

\* A later set may take the place of an earlier one here, and the sources say
\* so or replace one driver by another on purpose.
Overlays ==
    {<<"Nvidia-Tesla", "Nvidia-Web-Drivers">>,
     <<"Legacy-Non-GOP", "Modern-Audio">>, <<"Legacy-Realtek", "Modern-Audio">>,
     <<"Monterey-GVA", "Revert-Monterey-GVA">>, <<"Big-Sur-GVA", "Revert-Monterey-GVA">>,
     <<"Non-Metal-Common", "Non-Metal-IOAccelerator-Common">>}

\* Whatever graphics cards, wireless cards and other devices are combined, when
\* the patcher is done no selected set was undone by a later one: each file a
\* set brings still has the set's layer, or a set meant to replace it came
\* after.  This is what the stripping of incompatible hardware, the order of
\* the hardware list and the order of removal and installation are for.
EverySetSurvives ==
    pc = "done" => \A place \in plan : \A f \in Brings(Name(place), machine) :
        \/ Layer(Name(place)) \in disk[f]
        \/ \E later \in plan : Earlier(place, later) /\ <<Name(place), Name(later)>> \in Overlays

\* A set of the plan is asked for by hardware that needs a KDK.
PlanNeedsKDK ==
    machine.os >= Ventura /\ \E place \in plan : Variants[machine][place[1]].kdk

\* No file is written before what it relies on is there: the package the Metal
\* libraries come from, and, unless the plan changed since the window detected,
\* a root volume merged with the KDK.
SupportBeforeWriting ==
    pc = "apply" =>
        /\ "Metal-3802-.metallibs" \in Names(plan) => host.metallib # "none"
        /\ details.sets = plan /\ PlanNeedsKDK => merged

\* A plan start_patch accepts can be carried through with the network as it is:
\* every package it needs is installed, or the network is up to fetch it.
AcceptedIsFeasible ==
    [][pc' = "preflight" /\ pc = "prepared" =>
        \/ online
        \/ /\ "Metal-3802-.metallibs" \in Names(plan') => MetallibFound
           /\ PlanNeedsKDK' => KdkFound]_vars

\* Every run of the patcher comes to an end: the search for the Metal libraries
\* does not go round for ever.
Ends == pc = "opened" ~> pc \in Ended

\* What the sources say that does not hold: a card whose class still selects
\* sets on Tahoe gets them, because what the hooks add is merged like a set.
PlansHoldOnlySets == pc = "preflight" => "extreme" \notin Names(plan)

\* And: the preflight ensures that the KDK is merged when the plan needs it.
KDKIsMerged == pc = "apply" /\ PlanNeedsKDK => merged

=============================================================================
