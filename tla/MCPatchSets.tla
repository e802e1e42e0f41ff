----------------------------- MODULE MCPatchSets -----------------------------
(* Machines and hosts for TLC.                                              *)
EXTENDS PatchSets

CONSTANT MaxOutages   \* bound for the machines tried with every host

Idle == [kdk |-> "exact", metallib |-> "exact", complete |-> TRUE, remote |-> "exact",
         dmg |-> FALSE, blocked |-> "nothing"]

\* Every state of the packages, for the machines that need them.
AllHosts ==
    {h \in Hosts : ~h.dmg /\ (h.metallib = "none" => ~h.complete)}

Machine(os, model, gpus, devices, avx2) ==
    [os |-> os, model |-> model, gpus |-> gpus, devices |-> devices, avx2 |-> avx2,
     renderbox |-> FALSE]

Discrete == {"Nvidia-Tesla", "Nvidia-Kepler", "Nvidia-Web-Drivers", "AMD-TeraScale-1",
             "AMD-TeraScale-2", "AMD-Legacy-GCN", "AMD-Polaris", "AMD-Vega"}

Releases == {216, 220, 232, 240, 250}

\* Up to one integrated and two discrete cards, at rest.
GraphicsMachines ==
    {Machine(os, "Macmini6_2", igpu \cup dgpu, {}, TRUE) :
        os \in Releases, igpu \in {{}} \cup {{i} : i \in IntegratedGpus},
        dgpu \in {d \in SUBSET Discrete : Cardinality(d) <= 2}}
    \cup {Machine(os, "Macmini6_2", igpu \cup {"AMD-Polaris"} \cup dgpu, {}, FALSE) :
              os \in Releases, igpu \in {{}, {"Intel-Haswell"}, {"Intel-Sandy-Bridge"}},
              dgpu \in {{d} : d \in Discrete}}

\* Models and devices the classes single out.
SpecialMachines ==
    {Machine(os, model, gpus, devices, TRUE) :
        os \in Releases, model \in {"MacBook", "MacBookPro13_3", "MacBookPro14_3"},
        gpus \in {{"Intel-Skylake", "AMD-Polaris"}, {"AMD-TeraScale-1", "Intel-Sandy-Bridge"}},
        devices \in {{"T1", "modern-wifi"}, {"legacy-wifi", "no-AppleALC"}, {"T2", "PCIe-camera"}}}
    \cup {Machine(os, "iMac7_1", {"AMD-TeraScale-1"}, {"legacy-wifi"}, FALSE) : os \in Releases}
    \cup {Machine(os, "MacBookPro8_2", {"Intel-Sandy-Bridge", "AMD-TeraScale-2"},
                  {"demuxed", "legacy-wifi"}, FALSE) : os \in Releases}
    \cup {Machine(os, model, gpus, {"no-AppleALC"}, FALSE) :
              os \in Releases, model \in {"MacPro5_1", "MacPro6_1"},
              gpus \in {{"Nvidia-Kepler"}, {"AMD-Legacy-GCN", "AMD-Vega"}, {"Nvidia-Tesla"},
                        {"AMD-Legacy-GCN", "Nvidia-Kepler"}}}

\* Every state of the packages and the network, with and without a wireless
\* card to patch.
PackageMachines ==
    {Machine(240, "Macmini6_2", gpus, devices, TRUE) :
        gpus \in {{"Intel-Ivy-Bridge", "AMD-Legacy-GCN"}, {"Intel-Ivy-Bridge"}, {"Nvidia-Web-Drivers"}},
        devices \in {{}, {"modern-wifi"}}}
    \cup {Machine(224, "Macmini6_2", {"AMD-Legacy-GCN"}, {"legacy-wifi"}, TRUE)}

MCHostsOf(m)   == IF m \in PackageMachines THEN AllHosts ELSE {Idle}
MCOutagesOf(m) == IF m \in PackageMachines THEN MaxOutages ELSE 0

MCMachines == GraphicsMachines \cup SpecialMachines \cup PackageMachines

=============================================================================
