--------------------------- MODULE PatchSetsProofs ---------------------------
(***************************************************************************)
(* Proofs about PatchSets, for every set of machines device_probe can      *)
(* describe and every state of their packages and network.                 *)
(*                                                                         *)
(* The first part reads the tables: what the place of a set says of the    *)
(* machine (Origin), which sets take files of which (Undoing), and from    *)
(* both that no set of a dictionary takes anything of an earlier one that  *)
(* is not meant to go (LaterIsHarmless).  The second part is the inductive *)
(* invariant of the patcher's run, one lemma for each conjunct.            *)
(***************************************************************************)
EXTENDS PatchSets, TLAPS

-----------------------------------------------------------------------------
(* Where a set comes from *)

\* What the position of a class and of a step say of a set asked for there: the
\* graphics family, the device or the model behind it, and its place in the order.
NonMetalSets ==
    {"Non-Metal-Common", "Non-Metal-IOAccelerator-Common", "Non-Metal-CoreDisplay-Common",
     "High-Sierra-GVA", "AMD-TeraScale-Common", "AMD-TeraScale-2", "Nvidia-Tesla",
     "Nvidia-Web-Drivers"}

MetalSets ==
    {"Intel-Ivy-Bridge", "Intel-Haswell", "Intel-Broadwell", "Intel-Skylake", "Nvidia-Kepler",
     "AMD-Legacy-GCN", "AMD-Polaris", "AMD-Vega", "AMD-Vega-Extended", "Revert-Monterey-GVA"}

Origin(m, h, i, k, name) ==
    /\ h.network => ~h.kdk
    /\ name \in NonMetalSets => h.subclass = "non-metal"
    /\ name \in MetalSets => h.subclass \in {"3802", "31001"}
    /\ name \in IntegratedGpus /\ h.present => name \in m.gpus
    /\ name \in {"Legacy-Wireless", "Legacy-Wireless-Extended"} /\ h.present =>
           "legacy-wifi" \in m.devices
    /\ name \in {"Modern-Wireless", "Modern-Wireless-Extended"} /\ h.present =>
           "modern-wifi" \in m.devices
    /\ name \in {"Legacy-Backlight-Control", "Legacy-Realtek"} /\ h.present =>
           m.model = "iMac7_1"
    /\ name = "Legacy-GMUX" /\ h.present => m.model = "MacBookPro8_2"
    /\ name = "Legacy-Non-GOP" => m.model # "iMac7_1"
    /\ name = "Metal-3802-.metallibs" => m.os >= Sequoia /\ h.metallib /\ ~h.network
    /\ name = "Non-Metal-Common" => k = 1
    /\ name = "Non-Metal-IOAccelerator-Common" => 
           k = 2 /\ 1 \in DOMAIN h.sets /\ "Non-Metal-Common" \in h.sets[1]
    /\ name = "Big-Sur-GVA" => i = 3
    /\ name = "Monterey-GVA" => i \in {4, 5}
    /\ name = "Nvidia-Tesla" => i = 7
    /\ name = "Nvidia-Web-Drivers" => i = 9
    /\ name = "Revert-Monterey-GVA" => i \in {12, 13, 14}
    /\ name \in {"Legacy-Realtek", "Legacy-Non-GOP"} => i = 17
    /\ name = "Modern-Audio" => i = 18
    /\ name = "Legacy-USB-1.1" => i = 25 /\ k = 1
    /\ name = "Legacy-USB-1.1-Extended" => i = 25 /\ k = 2

\* The sets of IntelIronLake.
LEMMA OfIntelIronLake ==
    ASSUME NEW m, NEW k \in DOMAIN IntelIronLake(m).sets,
           NEW name \in IntelIronLake(m).sets[k]
    PROVE  Origin(m, IntelIronLake(m), 1, k, name)
<1> DEFINE steps == <<NonMetal(m), MontereyWebKit(m), {"Intel-Iron-Lake"}>>
<1>1. IntelIronLake(m).sets = steps
  BY DEF IntelIronLake, NeedsKDK, Gpu, Base
<1>2. k \in 1 .. 3 /\ name \in steps[k]
  BY <1>1
<1>3. /\ IntelIronLake(m).subclass = "non-metal" /\ ~IntelIronLake(m).network
      /\ IntelIronLake(m).present => "Intel-Iron-Lake" \in m.gpus
  BY DEF IntelIronLake, NeedsKDK, Gpu, Base
<1> QED
  BY <1>1, <1>2, <1>3 DEF Origin, NonMetalSets, MetalSets, IntegratedGpus, NonMetal,
                          MontereyWebKit, When

\* The sets of IntelSandyBridge.
LEMMA OfIntelSandyBridge ==
    ASSUME NEW m, NEW k \in DOMAIN IntelSandyBridge(m).sets,
           NEW name \in IntelSandyBridge(m).sets[k]
    PROVE  Origin(m, IntelSandyBridge(m), 2, k, name)
<1> DEFINE steps == <<NonMetal(m), HighSierraGVA(m), MontereyWebKit(m),
                      {"Intel-Sandy-Bridge"}>>
<1>1. IntelSandyBridge(m).sets = steps
  BY DEF IntelSandyBridge, NeedsKDK, Gpu, Base
<1>2. k \in 1 .. 4 /\ name \in steps[k]
  BY <1>1
<1>3. /\ IntelSandyBridge(m).subclass = "non-metal" /\ ~IntelSandyBridge(m).network
      /\ IntelSandyBridge(m).present => "Intel-Sandy-Bridge" \in m.gpus
  BY DEF IntelSandyBridge, NeedsKDK, Gpu, Base
<1> QED
  BY <1>1, <1>2, <1>3 DEF Origin, NonMetalSets, MetalSets, IntegratedGpus, NonMetal,
                          HighSierraGVA, MontereyWebKit, When

\* The sets of IntelIvyBridge.
LEMMA OfIntelIvyBridge ==
    ASSUME NEW m, NEW k \in DOMAIN IntelIvyBridge(m).sets,
           NEW name \in IntelIvyBridge(m).sets[k]
    PROVE  Origin(m, IntelIvyBridge(m), 3, k, name)
<1> DEFINE steps == <<Metal3802Common(m), Metal3802Extended(m), Metal3802Libs(m),
                      BigSurGVA(m), MontereyOpenCL(m), BigSurOpenCL(m),
                      MontereyWebKit(m), {"Intel-Ivy-Bridge"}>>
<1>1. IntelIvyBridge(m).sets = steps
  BY DEF IntelIvyBridge, NeedsMetallib, Gpu, Base
<1>2. k \in 1 .. 8 /\ name \in steps[k]
  BY <1>1
<1>3. /\ IntelIvyBridge(m).subclass = "3802" /\ ~IntelIvyBridge(m).network
      /\ IntelIvyBridge(m).present => "Intel-Ivy-Bridge" \in m.gpus
      /\ IntelIvyBridge(m).metallib <=> m.os >= Sequoia
  BY DEF IntelIvyBridge, NeedsMetallib, Gpu, Base
<1> QED
  BY <1>1, <1>2, <1>3 DEF Origin, NonMetalSets, MetalSets, IntegratedGpus,
                          Metal3802Common, Metal3802Extended, Metal3802Libs, BigSurGVA,
                          MontereyOpenCL, BigSurOpenCL, MontereyWebKit, LegacyMetal3802,
                          When

\* The sets of IntelHaswell.
LEMMA OfIntelHaswell ==
    ASSUME NEW m, NEW k \in DOMAIN IntelHaswell(m).sets,
           NEW name \in IntelHaswell(m).sets[k]
    PROVE  Origin(m, IntelHaswell(m), 4, k, name)
<1> DEFINE steps == <<Metal3802Common(m), Metal3802Extended(m), Metal3802Libs(m),
                      MontereyGVA(m), MontereyOpenCL(m), {"Intel-Haswell"}>>
<1>1. IntelHaswell(m).sets = steps
  BY DEF IntelHaswell, NeedsMetallib, Gpu, Base
<1>2. k \in 1 .. 6 /\ name \in steps[k]
  BY <1>1
<1>3. /\ IntelHaswell(m).subclass = "3802" /\ ~IntelHaswell(m).network
      /\ IntelHaswell(m).present => "Intel-Haswell" \in m.gpus
      /\ IntelHaswell(m).metallib <=> m.os >= Sequoia
  BY DEF IntelHaswell, NeedsMetallib, Gpu, Base
<1> QED
  BY <1>1, <1>2, <1>3 DEF Origin, NonMetalSets, MetalSets, IntegratedGpus,
                          Metal3802Common, Metal3802Extended, Metal3802Libs,
                          MontereyGVA, MontereyOpenCL, LegacyMetal3802, When

\* The sets of IntelBroadwell.
LEMMA OfIntelBroadwell ==
    ASSUME NEW m, NEW k \in DOMAIN IntelBroadwell(m).sets,
           NEW name \in IntelBroadwell(m).sets[k]
    PROVE  Origin(m, IntelBroadwell(m), 5, k, name)
<1> DEFINE steps == <<LegacyMetal31001(m), MontereyGVA(m), MontereyOpenCL(m),
                      {"Intel-Broadwell"}>>
<1>1. IntelBroadwell(m).sets = steps
  BY DEF IntelBroadwell, Gpu, Base
<1>2. k \in 1 .. 4 /\ name \in steps[k]
  BY <1>1
<1>3. /\ IntelBroadwell(m).subclass = "31001" /\ ~IntelBroadwell(m).network
      /\ IntelBroadwell(m).present => "Intel-Broadwell" \in m.gpus
  BY DEF IntelBroadwell, Gpu, Base
<1> QED
  BY <1>1, <1>2, <1>3 DEF Origin, NonMetalSets, MetalSets, IntegratedGpus,
                          LegacyMetal31001, MontereyGVA, MontereyOpenCL, When

\* The sets of IntelSkylake.
LEMMA OfIntelSkylake ==
    ASSUME NEW m, NEW k \in DOMAIN IntelSkylake(m).sets,
           NEW name \in IntelSkylake(m).sets[k]
    PROVE  Origin(m, IntelSkylake(m), 6, k, name)
<1> DEFINE steps == <<LegacyMetal31001(m), MontereyOpenCL(m), {"Intel-Skylake"}>>
<1>1. IntelSkylake(m).sets = steps
  BY DEF IntelSkylake, Gpu, Base
<1>2. k \in 1 .. 3 /\ name \in steps[k]
  BY <1>1
<1>3. /\ IntelSkylake(m).subclass = "31001" /\ ~IntelSkylake(m).network
      /\ IntelSkylake(m).present => "Intel-Skylake" \in m.gpus
  BY DEF IntelSkylake, Gpu, Base
<1> QED
  BY <1>1, <1>2, <1>3 DEF Origin, NonMetalSets, MetalSets, IntegratedGpus,
                          LegacyMetal31001, MontereyOpenCL, When

\* The sets of NvidiaTesla.
LEMMA OfNvidiaTesla ==
    ASSUME NEW m, NEW k \in DOMAIN NvidiaTesla(m).sets,
           NEW name \in NvidiaTesla(m).sets[k]
    PROVE  Origin(m, NvidiaTesla(m), 7, k, name)
<1> DEFINE steps == <<NonMetal(m), MontereyWebKit(m), {"Nvidia-Tesla"}>>
<1>1. NvidiaTesla(m).sets = steps
  BY DEF NvidiaTesla, NeedsKDK, Gpu, Base
<1>2. k \in 1 .. 3 /\ name \in steps[k]
  BY <1>1
<1>3. /\ NvidiaTesla(m).subclass = "non-metal" /\ ~NvidiaTesla(m).network
      /\ NvidiaTesla(m).present => "Nvidia-Tesla" \in m.gpus
  BY DEF NvidiaTesla, NeedsKDK, Gpu, Base
<1> QED
  BY <1>1, <1>2, <1>3 DEF Origin, NonMetalSets, MetalSets, IntegratedGpus, NonMetal,
                          MontereyWebKit, When

\* The sets of NvidiaKepler.
LEMMA OfNvidiaKepler ==
    ASSUME NEW m, NEW k \in DOMAIN NvidiaKepler(m).sets,
           NEW name \in NvidiaKepler(m).sets[k]
    PROVE  Origin(m, NvidiaKepler(m), 8, k, name)
<1> DEFINE steps == <<Metal3802Common(m), Metal3802Extended(m), Metal3802Libs(m),
                      MontereyOpenCL(m), BigSurOpenCL(m), MontereyWebKit(m),
                      {"Nvidia-Kepler"}>>
<1>1. NvidiaKepler(m).sets = steps
  BY DEF NvidiaKepler, NeedsMetallib, Gpu, Base
<1>2. k \in 1 .. 7 /\ name \in steps[k]
  BY <1>1
<1>3. /\ NvidiaKepler(m).subclass = "3802" /\ ~NvidiaKepler(m).network
      /\ NvidiaKepler(m).present => "Nvidia-Kepler" \in m.gpus
      /\ NvidiaKepler(m).metallib <=> m.os >= Sequoia
  BY DEF NvidiaKepler, NeedsMetallib, Gpu, Base
<1> QED
  BY <1>1, <1>2, <1>3 DEF Origin, NonMetalSets, MetalSets, IntegratedGpus,
                          Metal3802Common, Metal3802Extended, Metal3802Libs,
                          MontereyOpenCL, BigSurOpenCL, MontereyWebKit, LegacyMetal3802,
                          When

\* The sets of NvidiaWebDriver.
LEMMA OfNvidiaWebDriver ==
    ASSUME NEW m, NEW k \in DOMAIN NvidiaWebDriver(m).sets,
           NEW name \in NvidiaWebDriver(m).sets[k]
    PROVE  Origin(m, NvidiaWebDriver(m), 9, k, name)
<1> DEFINE steps == <<NonMetal(m), NonMetalIOAccel(m), NonMetalCoreDisplay(m),
                      MontereyWebKit(m), {"Nvidia-Web-Drivers"}, NonMetalEnforcement(m)>>
<1>1. NvidiaWebDriver(m).sets = steps
  BY DEF NvidiaWebDriver, NeedsKDK, Gpu, Base
<1>2. k \in 1 .. 6 /\ name \in steps[k]
  BY <1>1
<1>3. /\ NvidiaWebDriver(m).subclass = "non-metal" /\ ~NvidiaWebDriver(m).network
      /\ NvidiaWebDriver(m).present => "Nvidia-Web-Drivers" \in m.gpus
  BY DEF NvidiaWebDriver, NeedsKDK, Gpu, Base
<1> QED
  BY <1>1, <1>2, <1>3 DEF Origin, NonMetalSets, MetalSets, IntegratedGpus, NonMetal,
                          NonMetalIOAccel, NonMetalCoreDisplay, MontereyWebKit,
                          NonMetalEnforcement, When

\* The sets of AMDTeraScale1.
LEMMA OfAMDTeraScale1 ==
    ASSUME NEW m, NEW k \in DOMAIN AMDTeraScale1(m).sets,
           NEW name \in AMDTeraScale1(m).sets[k]
    PROVE  Origin(m, AMDTeraScale1(m), 10, k, name)
<1> DEFINE steps == <<NonMetal(m), MontereyWebKit(m), AMDTeraScale(m),
                      {"AMD-TeraScale-1"}>>
<1>1. AMDTeraScale1(m).sets = steps
  BY DEF AMDTeraScale1, NeedsKDK, Gpu, Base
<1>2. k \in 1 .. 4 /\ name \in steps[k]
  BY <1>1
<1>3. /\ AMDTeraScale1(m).subclass = "non-metal" /\ ~AMDTeraScale1(m).network
      /\ AMDTeraScale1(m).present => "AMD-TeraScale-1" \in m.gpus
  BY DEF AMDTeraScale1, NeedsKDK, Gpu, Base
<1> QED
  BY <1>1, <1>2, <1>3 DEF Origin, NonMetalSets, MetalSets, IntegratedGpus, NonMetal,
                          MontereyWebKit, AMDTeraScale, When

\* The sets of AMDTeraScale2.
LEMMA OfAMDTeraScale2 ==
    ASSUME NEW m, NEW k \in DOMAIN AMDTeraScale2(m).sets,
           NEW name \in AMDTeraScale2(m).sets[k]
    PROVE  Origin(m, AMDTeraScale2(m), 11, k, name)
<1> DEFINE steps == <<NonMetal(m), NonMetalIOAccel(m), MontereyWebKit(m),
                      AMDTeraScale(m), {"AMD-TeraScale-2"}>>
<1>1. AMDTeraScale2(m).sets = steps
  BY DEF AMDTeraScale2, NeedsKDK, Gpu, Base
<1>2. k \in 1 .. 5 /\ name \in steps[k]
  BY <1>1
<1>3. /\ AMDTeraScale2(m).subclass = "non-metal" /\ ~AMDTeraScale2(m).network
      /\ AMDTeraScale2(m).present => "AMD-TeraScale-2" \in m.gpus
  BY DEF AMDTeraScale2, NeedsKDK, Gpu, Base
<1> QED
  BY <1>1, <1>2, <1>3 DEF Origin, NonMetalSets, MetalSets, IntegratedGpus, NonMetal,
                          NonMetalIOAccel, MontereyWebKit, AMDTeraScale, When

\* The sets of AMDLegacyGCN.
LEMMA OfAMDLegacyGCN ==
    ASSUME NEW m, NEW k \in DOMAIN AMDLegacyGCN(m).sets,
           NEW name \in AMDLegacyGCN(m).sets[k]
    PROVE  Origin(m, AMDLegacyGCN(m), 12, k, name)
<1> DEFINE steps == <<LegacyMetal31001(m), RevertMontereyGVA(m), MontereyOpenCL(m),
                      AMDOpenCL(m), {"AMD-Legacy-GCN"}, Compositor(m)>>
<1>1. AMDLegacyGCN(m).sets = steps
  BY DEF AMDLegacyGCN, NeedsKDK, Gpu, Base
<1>2. k \in 1 .. 6 /\ name \in steps[k]
  BY <1>1
<1>3. /\ AMDLegacyGCN(m).subclass = "31001" /\ ~AMDLegacyGCN(m).network
      /\ AMDLegacyGCN(m).present => "AMD-Legacy-GCN" \in m.gpus
  BY DEF AMDLegacyGCN, NeedsKDK, Gpu, Base
<1> QED
  BY <1>1, <1>2, <1>3 DEF Origin, NonMetalSets, MetalSets, IntegratedGpus,
                          LegacyMetal31001, RevertMontereyGVA, MontereyOpenCL,
                          AMDOpenCL, Compositor, MergeSysPatchHooks, HookReport, When

\* The sets of AMDPolaris.
LEMMA OfAMDPolaris ==
    ASSUME NEW m, NEW k \in DOMAIN AMDPolaris(m).sets,
           NEW name \in AMDPolaris(m).sets[k]
    PROVE  Origin(m, AMDPolaris(m), 13, k, name)
<1>1. /\ AMDPolaris(m).subclass = "31001" /\ ~AMDPolaris(m).network
      /\ AMDPolaris(m).present => "AMD-Polaris" \in m.gpus
  BY DEF AMDPolaris, NeedsKDK, Gpu, Base
<1>2. CASE m.model = "MacBookPro14_3"
  <2>1. AMDPolaris(m).sets = <<When(m.os >= Sonoma, "AMD-Polaris"), Compositor(m)>>
    BY <1>2 DEF AMDPolaris, NeedsKDK, Gpu, Base
  <2>2. k \in 1 .. 2 /\ name \in <<When(m.os >= Sonoma, "AMD-Polaris"), Compositor(m)>>[k]
    BY <2>1
  <2> QED
    BY <1>1, <2>2 DEF Origin, NonMetalSets, MetalSets, IntegratedGpus, Compositor,
                      MergeSysPatchHooks, HookReport, When
<1>3. CASE m.model # "MacBookPro14_3"
  <2> DEFINE steps == <<LegacyMetal31001(m), MontereyOpenCL(m), {"AMD-Polaris"},
                        IF m.avx2 THEN {} ELSE AMDOpenCL(m), RevertMontereyGVA(m),
                        Compositor(m)>>
  <2>1. AMDPolaris(m).sets = steps
    BY <1>3 DEF AMDPolaris, NeedsKDK, Gpu, Base
  <2>2. k \in 1 .. 6 /\ name \in steps[k]
    BY <2>1
  <2> QED
    BY <1>1, <2>2 DEF Origin, NonMetalSets, MetalSets, IntegratedGpus, LegacyMetal31001,
                      MontereyOpenCL, AMDOpenCL, RevertMontereyGVA, Compositor,
                      MergeSysPatchHooks, HookReport, When
<1> QED
  BY <1>2, <1>3

\* The sets of AMDVega.
LEMMA OfAMDVega ==
    ASSUME NEW m, NEW k \in DOMAIN AMDVega(m).sets,
           NEW name \in AMDVega(m).sets[k]
    PROVE  Origin(m, AMDVega(m), 14, k, name)
<1> DEFINE steps == <<LegacyMetal31001(m), RevertMontereyGVA(m), MontereyOpenCL(m),
                      AMDOpenCL(m), {"AMD-Vega"},
                      When("AMD-Legacy-GCN" \in m.gpus, "AMD-Vega-Extended"),
                      Compositor(m)>>
<1>1. AMDVega(m).sets = steps
  BY DEF AMDVega, NeedsKDK, Gpu, Base
<1>2. k \in 1 .. 7 /\ name \in steps[k]
  BY <1>1
<1>3. /\ AMDVega(m).subclass = "31001" /\ ~AMDVega(m).network
      /\ AMDVega(m).present => "AMD-Vega" \in m.gpus
  BY DEF AMDVega, NeedsKDK, Gpu, Base
<1> QED
  BY <1>1, <1>2, <1>3 DEF Origin, NonMetalSets, MetalSets, IntegratedGpus,
                          LegacyMetal31001, RevertMontereyGVA, MontereyOpenCL,
                          AMDOpenCL, Compositor, MergeSysPatchHooks, HookReport, When

\* The sets of LegacyWireless.
LEMMA OfLegacyWireless ==
    ASSUME NEW m, NEW k \in DOMAIN LegacyWireless(m).sets,
           NEW name \in LegacyWireless(m).sets[k]
    PROVE  Origin(m, LegacyWireless(m), 15, k, name)
<1> DEFINE steps == <<{"Legacy-Wireless"},
                      When(m.os >= Ventura, "Legacy-Wireless-Extended")>>
<1>1. LegacyWireless(m).sets = steps
  BY DEF LegacyWireless, Base
<1>2. k \in 1 .. 2 /\ name \in steps[k]
  BY <1>1
<1>3. /\ ~LegacyWireless(m).kdk
      /\ LegacyWireless(m).present => "legacy-wifi" \in m.devices
  BY DEF LegacyWireless, Base
<1> QED
  BY <1>1, <1>2, <1>3 DEF Origin, NonMetalSets, MetalSets, IntegratedGpus, When

\* The sets of ModernWireless.
LEMMA OfModernWireless ==
    ASSUME NEW m, NEW k \in DOMAIN ModernWireless(m).sets,
           NEW name \in ModernWireless(m).sets[k]
    PROVE  Origin(m, ModernWireless(m), 16, k, name)
<1> DEFINE steps == <<{"Modern-Wireless"},
                      When(m.os < Sequoia, "Modern-Wireless-Extended")>>
<1>1. ModernWireless(m).sets = steps
  BY DEF ModernWireless, Base
<1>2. k \in 1 .. 2 /\ name \in steps[k]
  BY <1>1
<1>3. /\ ~ModernWireless(m).kdk
      /\ ModernWireless(m).present => "modern-wifi" \in m.devices
  BY DEF ModernWireless, Base
<1> QED
  BY <1>1, <1>2, <1>3 DEF Origin, NonMetalSets, MetalSets, IntegratedGpus, When

\* The sets of LegacyAudio.
LEMMA OfLegacyAudio ==
    ASSUME NEW m, NEW k \in DOMAIN LegacyAudio(m).sets,
           NEW name \in LegacyAudio(m).sets[k]
    PROVE  Origin(m, LegacyAudio(m), 17, k, name)
<1>1. CASE m.model = "iMac7_1"
  <2>1. LegacyAudio(m).sets = <<{"Legacy-Realtek"}>> /\ ~LegacyAudio(m).network
    BY <1>1 DEF LegacyAudio, Base
  <2>2. k = 1 /\ name = "Legacy-Realtek"
    BY <2>1
  <2> QED
    BY <1>1, <2>1, <2>2 DEF Origin, NonMetalSets, MetalSets, IntegratedGpus
<1>2. CASE m.model # "iMac7_1"
  <2>1. LegacyAudio(m).sets = <<{"Legacy-Non-GOP"}>> /\ ~LegacyAudio(m).network
    BY <1>2 DEF LegacyAudio, Base
  <2>2. k = 1 /\ name = "Legacy-Non-GOP"
    BY <2>1
  <2> QED
    BY <1>2, <2>1, <2>2 DEF Origin, NonMetalSets, MetalSets, IntegratedGpus
<1> QED
  BY <1>1, <1>2

\* The sets of ModernAudio.
LEMMA OfModernAudio ==
    ASSUME NEW m, NEW k \in DOMAIN ModernAudio(m).sets,
           NEW name \in ModernAudio(m).sets[k]
    PROVE  Origin(m, ModernAudio(m), 18, k, name)
<1> DEFINE steps == <<{"Modern-Audio"}>>
<1>1. ModernAudio(m).sets = steps
  BY DEF ModernAudio, Base
<1>2. k \in 1 .. 1 /\ name \in steps[k]
  BY <1>1
<1>3. ~ModernAudio(m).network
  BY DEF ModernAudio, Base
<1> QED
  BY <1>1, <1>2, <1>3 DEF Origin, NonMetalSets, MetalSets, IntegratedGpus

\* The sets of DisplayBacklight.
LEMMA OfDisplayBacklight ==
    ASSUME NEW m, NEW k \in DOMAIN DisplayBacklight(m).sets,
           NEW name \in DisplayBacklight(m).sets[k]
    PROVE  Origin(m, DisplayBacklight(m), 19, k, name)
<1> DEFINE steps == <<{"Legacy-Backlight-Control"}>>
<1>1. DisplayBacklight(m).sets = steps
  BY DEF DisplayBacklight, NeedsKDK, Base
<1>2. k \in 1 .. 1 /\ name \in steps[k]
  BY <1>1
<1>3. /\ ~DisplayBacklight(m).network
      /\ DisplayBacklight(m).present => m.model = "iMac7_1"
  BY DEF DisplayBacklight, NeedsKDK, Base
<1> QED
  BY <1>1, <1>2, <1>3 DEF Origin, NonMetalSets, MetalSets, IntegratedGpus

\* The sets of GraphicsMultiplexer.
LEMMA OfGraphicsMultiplexer ==
    ASSUME NEW m, NEW k \in DOMAIN GraphicsMultiplexer(m).sets,
           NEW name \in GraphicsMultiplexer(m).sets[k]
    PROVE  Origin(m, GraphicsMultiplexer(m), 20, k, name)
<1> DEFINE steps == <<{"Legacy-GMUX"}>>
<1>1. GraphicsMultiplexer(m).sets = steps
  BY DEF GraphicsMultiplexer, NeedsKDK, Base
<1>2. k \in 1 .. 1 /\ name \in steps[k]
  BY <1>1
<1>3. /\ ~GraphicsMultiplexer(m).network
      /\ GraphicsMultiplexer(m).present => m.model = "MacBookPro8_2"
  BY DEF GraphicsMultiplexer, NeedsKDK, Base
<1> QED
  BY <1>1, <1>2, <1>3 DEF Origin, NonMetalSets, MetalSets, IntegratedGpus

\* The sets of KeyboardBacklight.
LEMMA OfKeyboardBacklight ==
    ASSUME NEW m, NEW k \in DOMAIN KeyboardBacklight(m).sets,
           NEW name \in KeyboardBacklight(m).sets[k]
    PROVE  Origin(m, KeyboardBacklight(m), 21, k, name)
<1> DEFINE steps == <<{"Legacy-Keyboard-Backlight"}>>
<1>1. KeyboardBacklight(m).sets = steps
  BY DEF KeyboardBacklight, NeedsKDK, Base
<1>2. k \in 1 .. 1 /\ name \in steps[k]
  BY <1>1
<1>3. ~KeyboardBacklight(m).network
  BY DEF KeyboardBacklight, NeedsKDK, Base
<1> QED
  BY <1>1, <1>2, <1>3 DEF Origin, NonMetalSets, MetalSets, IntegratedGpus

\* The sets of PCIeFaceTimeCamera.
LEMMA OfPCIeFaceTimeCamera ==
    ASSUME NEW m, NEW k \in DOMAIN PCIeFaceTimeCamera(m).sets,
           NEW name \in PCIeFaceTimeCamera(m).sets[k]
    PROVE  Origin(m, PCIeFaceTimeCamera(m), 22, k, name)
<1> DEFINE steps == <<{"PCIe-FaceTime-Camera"}>>
<1>1. PCIeFaceTimeCamera(m).sets = steps
  BY DEF PCIeFaceTimeCamera, Base
<1>2. k \in 1 .. 1 /\ name \in steps[k]
  BY <1>1
<1>3. ~PCIeFaceTimeCamera(m).network
  BY DEF PCIeFaceTimeCamera, Base
<1> QED
  BY <1>1, <1>2, <1>3 DEF Origin, NonMetalSets, MetalSets, IntegratedGpus

\* The sets of T1SecurityChip.
LEMMA OfT1SecurityChip ==
    ASSUME NEW m, NEW k \in DOMAIN T1SecurityChip(m).sets,
           NEW name \in T1SecurityChip(m).sets[k]
    PROVE  Origin(m, T1SecurityChip(m), 23, k, name)
<1> DEFINE steps == <<When(m.os < Tahoe, "T1-Security-Chip")>>
<1>1. T1SecurityChip(m).sets = steps
  BY DEF T1SecurityChip, Base
<1>2. k \in 1 .. 1 /\ name \in steps[k]
  BY <1>1
<1>3. ~T1SecurityChip(m).network
  BY DEF T1SecurityChip, Base
<1> QED
  BY <1>1, <1>2, <1>3 DEF Origin, NonMetalSets, MetalSets, IntegratedGpus, When

\* The sets of T1LoginExperimental.
LEMMA OfT1LoginExperimental ==
    ASSUME NEW m, NEW k \in DOMAIN T1LoginExperimental(m).sets,
           NEW name \in T1LoginExperimental(m).sets[k]
    PROVE  Origin(m, T1LoginExperimental(m), 24, k, name)
<1>1. T1LoginExperimental(m).sets = << >>
  BY DEF T1LoginExperimental, Base
<1> QED
  BY <1>1

\* The sets of USB11Controller.
LEMMA OfUSB11Controller ==
    ASSUME NEW m, NEW k \in DOMAIN USB11Controller(m).sets,
           NEW name \in USB11Controller(m).sets[k]
    PROVE  Origin(m, USB11Controller(m), 25, k, name)
<1> DEFINE steps == <<{"Legacy-USB-1.1"}, When(m.os >= 231, "Legacy-USB-1.1-Extended"),
                      When(m.os >= Sequoia, "Legacy-USB-1.1-Webcam")>>
<1>1. USB11Controller(m).sets = steps
  BY DEF USB11Controller, NeedsKDK, Base
<1>2. k \in 1 .. 3 /\ name \in steps[k]
  BY <1>1
<1>3. ~USB11Controller(m).network
  BY DEF USB11Controller, NeedsKDK, Base
<1> QED
  BY <1>1, <1>2, <1>3 DEF Origin, NonMetalSets, MetalSets, IntegratedGpus, When

\* The positions of HardwareVariants.
LEMMA Classes ==
    ASSUME NEW m \in Machines
    PROVE  /\ DOMAIN Variants[m] = 1 .. 25
           /\ Variants[m][1] = IntelIronLake(m) /\ Variants[m][2] = IntelSandyBridge(m)
           /\ Variants[m][3] = IntelIvyBridge(m) /\ Variants[m][4] = IntelHaswell(m)
           /\ Variants[m][5] = IntelBroadwell(m) /\ Variants[m][6] = IntelSkylake(m)
           /\ Variants[m][7] = NvidiaTesla(m) /\ Variants[m][8] = NvidiaKepler(m)
           /\ Variants[m][9] = NvidiaWebDriver(m) /\ Variants[m][10] = AMDTeraScale1(m)
           /\ Variants[m][11] = AMDTeraScale2(m) /\ Variants[m][12] = AMDLegacyGCN(m)
           /\ Variants[m][13] = AMDPolaris(m) /\ Variants[m][14] = AMDVega(m)
           /\ Variants[m][15] = LegacyWireless(m) /\ Variants[m][16] = ModernWireless(m)
           /\ Variants[m][17] = LegacyAudio(m) /\ Variants[m][18] = ModernAudio(m)
           /\ Variants[m][19] = DisplayBacklight(m) /\ Variants[m][20] = GraphicsMultiplexer(m)
           /\ Variants[m][21] = KeyboardBacklight(m) /\ Variants[m][22] = PCIeFaceTimeCamera(m)
           /\ Variants[m][23] = T1SecurityChip(m) /\ Variants[m][24] = T1LoginExperimental(m)
           /\ Variants[m][25] = USB11Controller(m)
<1>1. Variants[m] = HardwareVariants(m)
  BY DEF Variants
<1> QED
  BY <1>1 DEF HardwareVariants

\* Every set a machine is offered comes from where Origin says.
LEMMA Origins ==
    ASSUME NEW m \in Machines, NEW i \in DOMAIN Variants[m],
           NEW k \in DOMAIN Variants[m][i].sets, NEW name \in Variants[m][i].sets[k]
    PROVE  Origin(m, Variants[m][i], i, k, name)
<1>1. CASE i = 1
  BY <1>1, Classes, OfIntelIronLake
<1>2. CASE i = 2
  BY <1>2, Classes, OfIntelSandyBridge
<1>3. CASE i = 3
  BY <1>3, Classes, OfIntelIvyBridge
<1>4. CASE i = 4
  BY <1>4, Classes, OfIntelHaswell
<1>5. CASE i = 5
  BY <1>5, Classes, OfIntelBroadwell
<1>6. CASE i = 6
  BY <1>6, Classes, OfIntelSkylake
<1>7. CASE i = 7
  BY <1>7, Classes, OfNvidiaTesla
<1>8. CASE i = 8
  BY <1>8, Classes, OfNvidiaKepler
<1>9. CASE i = 9
  BY <1>9, Classes, OfNvidiaWebDriver
<1>10. CASE i = 10
  BY <1>10, Classes, OfAMDTeraScale1
<1>11. CASE i = 11
  BY <1>11, Classes, OfAMDTeraScale2
<1>12. CASE i = 12
  BY <1>12, Classes, OfAMDLegacyGCN
<1>13. CASE i = 13
  BY <1>13, Classes, OfAMDPolaris
<1>14. CASE i = 14
  BY <1>14, Classes, OfAMDVega
<1>15. CASE i = 15
  BY <1>15, Classes, OfLegacyWireless
<1>16. CASE i = 16
  BY <1>16, Classes, OfModernWireless
<1>17. CASE i = 17
  BY <1>17, Classes, OfLegacyAudio
<1>18. CASE i = 18
  BY <1>18, Classes, OfModernAudio
<1>19. CASE i = 19
  BY <1>19, Classes, OfDisplayBacklight
<1>20. CASE i = 20
  BY <1>20, Classes, OfGraphicsMultiplexer
<1>21. CASE i = 21
  BY <1>21, Classes, OfKeyboardBacklight
<1>22. CASE i = 22
  BY <1>22, Classes, OfPCIeFaceTimeCamera
<1>23. CASE i = 23
  BY <1>23, Classes, OfT1SecurityChip
<1>24. CASE i = 24
  BY <1>24, Classes, OfT1LoginExperimental
<1>25. CASE i = 25
  BY <1>25, Classes, OfUSB11Controller
<1> QED
  BY <1>1, <1>2, <1>3, <1>4, <1>5, <1>6, <1>7, <1>8, <1>9, <1>10, <1>11, <1>12,
     <1>13, <1>14, <1>15, <1>16, <1>17, <1>18, <1>19, <1>20, <1>21, <1>22, <1>23, <1>24,
     <1>25, Classes

-----------------------------------------------------------------------------
(* Which sets take files of which *)

\* Why one set never undoes another it should not: they are of two graphics
\* families, of devices or models no machine has both of, or of two releases;
\* or they are meant to overlay; or the other order is the only one.
Apart(m, a, b) ==
    \/ a \in NonMetalSets /\ b \in MetalSets
    \/ a \in MetalSets /\ b \in NonMetalSets
    \/ a \in IntegratedGpus /\ b \in IntegratedGpus /\ a # b
    \/ a \in {"Legacy-Wireless", "Legacy-Wireless-Extended"}
       /\ b \in {"Modern-Wireless", "Modern-Wireless-Extended"}
    \/ a \in {"Modern-Wireless", "Modern-Wireless-Extended"}
       /\ b \in {"Legacy-Wireless", "Legacy-Wireless-Extended"}
    \/ a = "Legacy-Backlight-Control" /\ b = "Legacy-GMUX"
    \/ a = "Legacy-Realtek" /\ b = "Legacy-Non-GOP"
    \/ a = "Legacy-Non-GOP" /\ b = "Legacy-Realtek"
    \/ m.os < Sequoia /\ "Metal-3802-.metallibs" \in {a, b}

WrongOrder ==
    {<<"Non-Metal-IOAccelerator-Common", "Non-Metal-Common">>,
     <<"Modern-Audio", "Legacy-Realtek">>, <<"Modern-Audio", "Legacy-Non-GOP">>,
     <<"Legacy-USB-1.1-Extended", "Legacy-USB-1.1">>}

\* Whenever one set takes a file another brought, one of these is the reason why
\* nothing is lost by it.
LEMMA Undoing ==
    ASSUME NEW m, m.os \in Nat, NEW a, NEW b, NEW f \in Brings(a, m),
           f \in Removes(b) \cup Overwrites(b, m)
    PROVE  \/ Layer(a) = Layer(b) /\ f \in Overwrites(b, m)
           \/ <<a, b>> \in Overlays
           \/ <<a, b>> \in WrongOrder
           \/ Apart(m, a, b)
BY DEF Brings, Removes, Overwrites, Merges, Layer, Overlays, WrongOrder, Apart, NonMetalSets,
       MetalSets, IntegratedGpus, Sonoma, Sequoia

-----------------------------------------------------------------------------
(* What is selected *)

\* What is selected is present, and never of both graphics families.
LEMMA SelectedHardware ==
    ASSUME NEW m \in Machines, NEW i \in Selected[m]
    PROVE  /\ i \in DOMAIN Variants[m] /\ Variants[m][i].present
           /\ Variants[m][i].subclass = "non-metal" =>
                  \A j \in Selected[m] : Variants[m][j].subclass \notin {"3802", "31001"}
<1>1. Selected[m] = TahoePreAVXPolicy(m, Variants[m],
                        StripIncompatible(m, Variants[m], PresentHardware(Variants[m])))
  BY DEF Selected, Offered
<1>2. \A j \in Selected[m] : j \in StripIncompatible(m, Variants[m], PresentHardware(Variants[m]))
  BY <1>1 DEF TahoePreAVXPolicy
<1>3. \A j \in Selected[m] : j \in PresentHardware(Variants[m])
  BY <1>2 DEF StripIncompatible
<1>4. ASSUME Variants[m][i].subclass = "non-metal", NEW j \in Selected[m],
             Variants[m][j].subclass \in {"3802", "31001"}
      PROVE  FALSE
  <2>1. j \in OfSubclass(Variants[m], PresentHardware(Variants[m]), "31001")
                  \cup OfSubclass(Variants[m], PresentHardware(Variants[m]), "3802")
    BY <1>3, <1>4 DEF OfSubclass
  <2>2. i \in StripIncompatible(m, Variants[m], PresentHardware(Variants[m]))
    BY <1>2
  <2> QED
    BY <1>4, <2>1, <2>2 DEF StripIncompatible
<1> QED
  BY <1>3, <1>4 DEF PresentHardware

\* A place names a class of the hardware, one of its steps and a set of that step.
LEMMA PlaceParts ==
    ASSUME NEW m \in Machines, NEW hardware, NEW a \in Places(Variants[m], hardware)
    PROVE  /\ a[1] \in hardware
           /\ a[2] \in DOMAIN Variants[m][a[1]].sets
           /\ Name(a) \in Variants[m][a[1]].sets[a[2]]
  BY DEF Places, PlacesOf, Name

\* A set asked for at a step is at a place.
LEMMA PlaceOfStep ==
    ASSUME NEW m \in Machines, NEW hardware, NEW i \in hardware,
           NEW k \in DOMAIN Variants[m][i].sets, NEW name \in Variants[m][i].sets[k]
    PROVE  <<i, k, name>> \in Places(Variants[m], hardware)
  BY DEF Places, PlacesOf

\* What holds of the places of the selected hardware.
LEMMA PlacesOfSelected ==
    ASSUME NEW m \in Machines, NEW hardware \in SUBSET Selected[m], NEW a \in Places(Variants[m], hardware)
    PROVE  /\ Origin(m, Variants[m][a[1]], a[1], a[2], Name(a))
           /\ a[1] \in hardware /\ a[1] \in 1 .. 25
           /\ Variants[m][a[1]].present
  BY PlaceParts, SelectedHardware, Origins, Classes

\* Of two sets of one dictionary, in the order they are installed, the second
\* takes nothing of the first that is not meant to go.
LEMMA LaterIsHarmless ==
    ASSUME NEW m \in Machines, NEW hardware \in SUBSET Selected[m],
           NEW a \in Dictionary(Variants[m], hardware), NEW b \in Dictionary(Variants[m], hardware), ~Earlier(b, a),
           NEW f \in Brings(Name(a), m), f \in Removes(Name(b)) \cup Overwrites(Name(b), m)
    PROVE  \/ Layer(Name(a)) = Layer(Name(b)) /\ f \in Overwrites(Name(b), m)
           \/ <<Name(a), Name(b)>> \in Overlays /\ Earlier(a, b)
<1>1. /\ a \in Places(Variants[m], hardware) /\ b \in Places(Variants[m], hardware)
      /\ \A c \in Places(Variants[m], hardware) : Name(c) = Name(b) => ~Earlier(c, b)
  BY DEF Dictionary, Firsts
<1>2. /\ Origin(m, Variants[m][a[1]], a[1], a[2], Name(a))
      /\ a[1] \in 1 .. 25 /\ a[1] \in Selected[m] /\ Variants[m][a[1]].present
  BY <1>1, PlacesOfSelected
<1>3. /\ Origin(m, Variants[m][b[1]], b[1], b[2], Name(b))
      /\ b[1] \in 1 .. 25 /\ b[1] \in Selected[m] /\ Variants[m][b[1]].present
  BY <1>1, PlacesOfSelected
<1>4. ~Apart(m, Name(a), Name(b))
  <2>1. ~(Name(a) \in NonMetalSets /\ Name(b) \in MetalSets)
    BY <1>2, <1>3, SelectedHardware DEF Origin
  <2>2. ~(Name(a) \in MetalSets /\ Name(b) \in NonMetalSets)
    BY <1>2, <1>3, SelectedHardware DEF Origin
  <2>3. ~(Name(a) \in IntegratedGpus /\ Name(b) \in IntegratedGpus /\ Name(a) # Name(b))
    BY <1>2, <1>3, MachinesAssumption DEF Origin
  <2> QED
    BY <1>2, <1>3, <2>1, <2>2, <2>3, MachinesAssumption DEF Origin, Apart, Sequoia
<1>5. <<Name(a), Name(b)>> \notin WrongOrder
  <2>1. ASSUME Name(a) = "Non-Metal-IOAccelerator-Common", Name(b) = "Non-Metal-Common"
        PROVE  FALSE
    <3>1. /\ a[2] = 2 /\ 1 \in DOMAIN Variants[m][a[1]].sets
          /\ "Non-Metal-Common" \in Variants[m][a[1]].sets[1]
      BY <1>2, <2>1 DEF Origin
    <3>2. <<a[1], 1, "Non-Metal-Common">> \in Places(Variants[m], hardware)
      BY <1>1, <3>1, PlaceParts, PlaceOfStep
    <3>3. ~Earlier(<<a[1], 1, "Non-Metal-Common">>, b)
      BY <1>1, <2>1, <3>2 DEF Name
    <3> QED
      BY <1>2, <1>3, <2>1, <3>1, <3>3 DEF Earlier, Origin
  <2> QED
    BY <1>2, <1>3, <2>1 DEF Origin, WrongOrder, Earlier
<1>6. m.os \in Nat
  BY MachinesAssumption
<1>7. ASSUME <<Name(a), Name(b)>> \in Overlays
      PROVE  Earlier(a, b)
  BY <1>2, <1>3, <1>7 DEF Overlays, Origin, Earlier
<1> QED
  BY <1>4, <1>5, <1>6, <1>7, Undoing

-----------------------------------------------------------------------------
(* The inductive invariant *)

\* What the window detected is one of the two kinds of detection: everything,
\* or the wireless sets alone, with the requirements cleared.
DetailsSound ==
    pc # "closed" =>
        \/ details.sets = AllSets[machine] /\ (details.kdk <=> Requires("kdk"))
        \/ details.sets = NetworkSets[machine] /\ ~details.kdk

\* Past the search for the Metal libraries they are there.
MetallibThere ==
    pc \in {"kdk", "apply"} /\ "Metal-3802-.metallibs" \in Names(plan) => host.metallib # "none"

\* Past the merge the KDK is there, unless the window saw no need of one.
MergedFirst ==
    pc = "apply" => (details.sets = plan /\ PlanNeedsKDK => merged)

\* Sets are installed from the first place of the plan on, and all in the end.
InstalledInOrder ==
    /\ pc \notin {"apply", "rolled-back", "done"} => installed = {}
    /\ pc = "done" => installed = plan
    /\ \A a \in installed : \A b \in plan \ installed : ~Earlier(b, a)

\* EverySetSurvives, of the sets installed so far.
InstalledSurvive ==
    \A a \in installed : \A f \in Brings(Name(a), machine) :
        \/ Layer(Name(a)) \in disk[f]
        \/ \E b \in installed : Earlier(a, b) /\ <<Name(a), Name(b)>> \in Overlays

IInv ==
    /\ TypeOK /\ DetailsSound /\ MetallibThere /\ MergedFirst
    /\ InstalledInOrder /\ InstalledSurvive

-----------------------------------------------------------------------------
(* Detection *)

\* The definitions of what a machine is offered, at one machine.
LEMMA Sets ==
    ASSUME NEW m \in Machines
    PROVE  /\ AllSets[m] = Dictionary(Variants[m], Selected[m])
           /\ NetworkSets[m] = Dictionary(Variants[m], NetworkHardware[m])
           /\ NetworkHardware[m] \subseteq Selected[m]
           /\ \A i \in NetworkHardware[m] : Variants[m][i].network
           /\ Contested[m] = UNION {Removes(name) \cup Brings(name, m) :
                                        name \in Names(Places(Variants[m], Selected[m]))}
  BY DEF AllSets, NetworkSets, NetworkHardware, Contested

\* The wireless sets need neither KDK nor Metal libraries.
LEMMA NetworkSetsNeedNothing ==
    ASSUME NEW m \in Machines
    PROVE  /\ "Metal-3802-.metallibs" \notin Names(NetworkSets[m])
           /\ \A a \in NetworkSets[m] : ~Variants[m][a[1]].kdk
<1>1. ASSUME NEW a \in NetworkSets[m]
      PROVE  /\ Origin(m, Variants[m][a[1]], a[1], a[2], Name(a))
             /\ Variants[m][a[1]].network
  <2>1. a \in Places(Variants[m], NetworkHardware[m])
    BY Sets DEF Dictionary, Firsts
  <2> QED
    BY <2>1, Sets, PlacesOfSelected
<1> QED
  BY <1>1 DEF Names, Origin

\* A set that needs a package makes the machine require it.
LEMMA AllSetsNeedWhatIsRequired ==
    ASSUME machine \in Machines
    PROVE  /\ "Metal-3802-.metallibs" \in Names(AllSets[machine]) => Requires("metallib")
           /\ \A a \in AllSets[machine] : Variants[machine][a[1]].kdk => Requires("kdk")
<1>1. ASSUME NEW a \in AllSets[machine]
      PROVE  /\ Origin(machine, Variants[machine][a[1]], a[1], a[2], Name(a))
             /\ a[1] \in Selected[machine]
  <2>1. a \in Places(Variants[machine], Selected[machine])
    BY Sets DEF Dictionary, Firsts
  <2> QED
    BY <2>1, PlacesOfSelected
<1> QED
  BY <1>1 DEF Names, Origin, Requires, Needs

\* A detection is of one of two kinds.
LEMMA DetectSound ==
    ASSUME machine \in Machines
    PROVE  /\ Detect \in
                  [kdk : BOOLEAN, metallib : BOOLEAN, sets : Plans, canPatch : BOOLEAN]
           /\ \/ /\ ~NetworkingOnly /\ Detect.sets = AllSets[machine]
                 /\ Detect.kdk <=> Requires("kdk")
              \/ NetworkingOnly /\ Detect.sets = NetworkSets[machine] /\ ~Detect.kdk
           /\ Detect.canPatch <=> ~Blocked /\ (PackageMissing /\ ~online => NetworkingOnly)
  BY DEF Detect, Plans

-----------------------------------------------------------------------------
(* Initial states *)

\* A patcher that was not opened yet satisfies the invariant.
LEMMA Initially == Init => IInv
<1> SUFFICES ASSUME Init PROVE IInv
  OBVIOUS
<1>1. machine \in Machines /\ host \in Hosts /\ OutagesOf(machine) \in Nat
  BY HostsAssumption DEF Init
<1>2. TypeOK
  <2>1. online \in BOOLEAN
    <3>1. online \in (IF OutagesOf(machine) = 0 THEN {TRUE} ELSE BOOLEAN)
      BY DEF Init
    <3> QED
      BY <3>1, Zenon
  <2>3. 0 \in 0 .. OutagesOf(machine)
    BY <1>1
  <2>2. details \in [kdk : BOOLEAN, metallib : BOOLEAN, sets : Plans, canPatch : BOOLEAN]
    BY DEF Init, NoDetails, Plans
  <2> QED
    BY <1>1, <2>1, <2>2, <2>3 DEF Init, TypeOK, Plans
<1> QED
  BY <1>2 DEF IInv, Init, DetailsSound, MetallibThere, MergedFirst, InstalledInOrder,
              InstalledSurvive

-----------------------------------------------------------------------------
(* Types *)

\* Whatever is fetched, a host stays one.
LEMMA FetchedHost ==
    ASSUME NEW h \in Hosts, NEW d \in BOOLEAN, NEW b \in Builds, NEW c \in BOOLEAN
    PROVE  /\ [h EXCEPT !.dmg = d, !.metallib = b, !.complete = c] \in Hosts
           /\ [h EXCEPT !.metallib = b, !.complete = c] \in Hosts
           /\ [h EXCEPT !.kdk = b] \in Hosts
  BY DEF Hosts

\* No step leaves the types.
LEMMA TypesPreserved == IInv /\ [Next]_vars => TypeOK'
<1> SUFFICES ASSUME IInv, [Next]_vars PROVE TypeOK'
  OBVIOUS
<1>a. /\ TypeOK /\ machine \in Machines /\ host \in Hosts /\ host.metallib \in Builds
      /\ host.remote \in Builds /\ host.complete \in BOOLEAN /\ host.dmg \in BOOLEAN
      /\ host.kdk \in Builds /\ OutagesOf(machine) \in Nat
  BY HostsAssumption DEF IInv, TypeOK, Hosts
<1>1. CASE OpenPatcher
  BY <1>1, <1>a, DetectSound DEF OpenPatcher, TypeOK, ListsAsked, Running, Plans
<1>2. CASE WindowDownloads
  <2>1. host' \in Hosts
    <3>1. CASE UNCHANGED host
      BY <1>a, <3>1
    <3>2. CASE ~UNCHANGED host
      <4> DEFINE kdkHere == details.kdk => KdkFound
                 metallibHere == details.metallib => MetallibFound
      <4>1. PICK whole \in BOOLEAN :
                host' = [host EXCEPT
                    !.dmg      = host.dmg \/ ~kdkHere,
                    !.metallib = IF metallibHere THEN host.metallib ELSE host.remote,
                    !.complete = IF metallibHere THEN host.complete ELSE whole]
        BY <1>2, <3>2, Zenon DEF WindowDownloads
      <4>2. /\ (host.dmg \/ ~kdkHere) \in BOOLEAN
            /\ (IF metallibHere THEN host.metallib ELSE host.remote) \in Builds
            /\ (IF metallibHere THEN host.complete ELSE whole) \in BOOLEAN
        BY <1>a
      <4> HIDE DEF kdkHere, metallibHere
      <4> QED
        BY <1>a, <4>1, <4>2, FetchedHost
    <3> QED
      BY <3>1, <3>2
  <2> QED
    BY <1>2, <1>a, <2>1, ZenonT(60) DEF WindowDownloads, TypeOK, Running, Ended, Plans
<1>3. CASE WithoutWindow
  BY <1>3, <1>a DEF WithoutWindow, TypeOK, Running, Plans
<1>4. CASE StartPatch
  <2>1. installed = {}
    BY <1>4 DEF IInv, InstalledInOrder, StartPatch
  <2>2. plan' \in Plans'
    BY <1>4, <1>a, DetectSound DEF StartPatch, Plans
  <2>3. pc' \in {"nothing", "preflight", "refused"}
    BY <1>4 DEF StartPatch
  <2> QED
    BY <1>4, <1>a, <2>1, <2>2, <2>3 DEF StartPatch, TypeOK, ListsAsked, Running, Ended, Plans
<1>5. CASE Preflight
  BY <1>5, <1>a DEF Preflight, TypeOK, Running, Ended, Plans
<1>6. CASE LookForMetallib
  BY <1>6, <1>a, ZenonT(60) DEF LookForMetallib, TypeOK, Running, Ended, Plans
<1>7. CASE FetchMetallib
  <2>1. host' \in Hosts
    <3>1. CASE UNCHANGED host
      BY <1>a, <3>1
    <3>2. CASE ~UNCHANGED host
      <4>1. PICK whole \in BOOLEAN :
                host' = [host EXCEPT !.metallib = host.remote, !.complete = whole]
        BY <1>7, <3>2, Zenon DEF FetchMetallib
      <4> QED
        BY <1>a, <4>1, FetchedHost
    <3> QED
      BY <3>1, <3>2
  <2> QED
    BY <1>7, <1>a, <2>1, ZenonT(60) DEF FetchMetallib, TypeOK, Running, Ended, Plans
<1>8. CASE MergeKDK
  <2>1. host' \in Hosts
    <3>1. CASE UNCHANGED host
      BY <1>a, <3>1
    <3>2. CASE ~UNCHANGED host
      <4>1. host' = [host EXCEPT
                        !.kdk = IF host.dmg \/ ~KdkFound THEN host.remote ELSE host.kdk]
        BY <1>8, <3>2, Zenon DEF MergeKDK
      <4>2. (IF host.dmg \/ ~KdkFound THEN host.remote ELSE host.kdk) \in Builds
        BY <1>a
      <4> QED
        BY <1>a, <4>1, <4>2, FetchedHost
    <3> QED
      BY <3>1, <3>2
  <2> QED
    BY <1>8, <1>a, <2>1, ZenonT(60) DEF MergeKDK, TypeOK, Running, Ended, Plans
<1>9. CASE ApplySet
  BY <1>9, <1>a DEF ApplySet, TypeOK, Plans
<1>10. CASE Finish
  BY <1>10, <1>a DEF Finish, TypeOK, Running, Ended, Plans
<1>11. CASE Fail
  BY <1>11, <1>a DEF Fail, TypeOK, Running, Ended, Plans
<1>12. CASE NetworkChanges
  BY <1>12, <1>a DEF NetworkChanges, TypeOK, Plans
<1>13. CASE UNCHANGED vars
  BY <1>13, <1>a DEF vars, TypeOK, Plans
<1> QED
  BY <1>1, <1>2, <1>3, <1>4, <1>5, <1>6, <1>7, <1>8, <1>9, <1>10, <1>11, <1>12, <1>13
     DEF Next, Work, Over

-----------------------------------------------------------------------------
(* Packages *)

\* The window's detection is kept as it was made.
LEMMA DetailsKept == IInv /\ [Next]_vars => DetailsSound'
<1> SUFFICES ASSUME IInv, [Next]_vars PROVE DetailsSound'
  OBVIOUS
<1>1. machine \in Machines /\ machine' = machine
  BY DEF IInv, TypeOK, Next, Work, Over, vars, OpenPatcher, WindowDownloads, WithoutWindow,
         StartPatch, Preflight, LookForMetallib, FetchMetallib, MergeKDK, ApplySet, Finish,
         Fail, NetworkChanges
<1>2. Requires("kdk")' = Requires("kdk")
  BY <1>1 DEF Requires, Needs
<1>3. CASE OpenPatcher
  BY <1>1, <1>2, <1>3, DetectSound DEF OpenPatcher, DetailsSound
<1>4. CASE ~OpenPatcher
  <2>1. details' = details
    BY <1>4 DEF Next, Work, Over, vars, WindowDownloads, WithoutWindow, StartPatch, Preflight,
                LookForMetallib, FetchMetallib, MergeKDK, ApplySet, Finish, Fail, NetworkChanges
  <2>2. pc = "closed" => pc' = "closed"
    BY <1>4 DEF Next, Work, Over, vars, WindowDownloads, WithoutWindow, StartPatch, Preflight,
                LookForMetallib, FetchMetallib, MergeKDK, ApplySet, Finish, Fail, NetworkChanges,
                Running
  <2>3. pc' # "closed" => pc # "closed"
    BY <2>2
  <2> QED
    BY <1>1, <1>2, <2>1, <2>3 DEF DetailsSound, IInv
<1> QED
  BY <1>3, <1>4

\* Once found, the Metal libraries are not taken away again.
LEMMA MetallibStays == IInv /\ [Next]_vars => MetallibThere'
<1> SUFFICES ASSUME IInv, [Next]_vars PROVE MetallibThere'
  OBVIOUS
<1>1. CASE Preflight
  BY <1>1 DEF Preflight, MetallibThere
<1>2. CASE LookForMetallib
  BY <1>2 DEF LookForMetallib, MetallibThere, MetallibFound
<1>3. CASE MergeKDK
  <2>1. host \in Hosts /\ MetallibThere
    BY DEF IInv, TypeOK
  <2>2. host'.metallib = host.metallib
    BY <1>3, <2>1 DEF MergeKDK, Hosts
  <2> QED
    BY <1>3, <2>1, <2>2 DEF MergeKDK, MetallibThere
<1>4. CASE ~(Preflight \/ LookForMetallib \/ MergeKDK)
  <2>1. pc' \in {"kdk", "apply"} => pc = pc' /\ host' = host /\ plan' = plan
    BY <1>4 DEF Next, Work, Over, vars, OpenPatcher, WindowDownloads, WithoutWindow, StartPatch,
                FetchMetallib, ApplySet, Finish, Fail, NetworkChanges
  <2> QED
    BY <2>1 DEF MetallibThere, IInv
<1> QED
  BY <1>1, <1>2, <1>3, <1>4

\* The step to the installation of sets merges the KDK, or the window found that
\* none is needed: then a plan like the window's has no set that needs one.
LEMMA MergedBefore == IInv /\ [Next]_vars => MergedFirst'
<1> SUFFICES ASSUME IInv, [Next]_vars PROVE MergedFirst'
  OBVIOUS
<1>1. CASE MergeKDK
  <2> SUFFICES ASSUME pc' = "apply", details.sets = plan, PlanNeedsKDK PROVE merged' = TRUE
    BY <1>1 DEF MergeKDK, MergedFirst, PlanNeedsKDK
  <2>1. machine \in Machines /\ machine.os \in Nat
    BY MachinesAssumption DEF IInv, TypeOK
  <2>2. pc = "kdk"
    BY <1>1 DEF MergeKDK
  <2>3. PICK a \in plan : Variants[machine][a[1]].kdk
    BY DEF PlanNeedsKDK
  <2>4. details.kdk
    <3>1. CASE details.sets = NetworkSets[machine]
      BY <2>1, <2>3, <3>1, NetworkSetsNeedNothing
    <3>2. CASE details.sets = AllSets[machine] /\ (details.kdk <=> Requires("kdk"))
      BY <2>1, <2>3, <3>2, AllSetsNeedWhatIsRequired
    <3> QED
      BY <2>2, <3>1, <3>2 DEF IInv, DetailsSound
  <2>5. ~SkipRootKmutil
    BY <2>1, <2>4 DEF SkipRootKmutil, PlanNeedsKDK, Ventura
  <2> QED
    BY <1>1, <2>5 DEF MergeKDK
<1>2. CASE ~MergeKDK
  <2>1. pc' = "apply" => /\ pc = pc' /\ merged' = merged /\ plan' = plan
                         /\ machine' = machine /\ details' = details
    BY <1>2 DEF Next, Work, Over, vars, OpenPatcher, WindowDownloads, WithoutWindow, StartPatch,
                Preflight, LookForMetallib, FetchMetallib, ApplySet, Finish, Fail, NetworkChanges
  <2> QED
    BY <2>1 DEF MergedFirst, PlanNeedsKDK, IInv
<1> QED
  BY <1>1, <1>2

-----------------------------------------------------------------------------
(* Installation *)

\* No step installs a set out of turn.
LEMMA OrderKept == IInv /\ [Next]_vars => InstalledInOrder'
<1> SUFFICES ASSUME IInv, [Next]_vars PROVE InstalledInOrder'
  OBVIOUS
<1>1. CASE ApplySet
  BY <1>1 DEF ApplySet, InstalledInOrder, IInv
<1>2. CASE Finish
  BY <1>2 DEF Finish, InstalledInOrder, IInv
<1>3. CASE StartPatch
  BY <1>3 DEF StartPatch, InstalledInOrder, IInv
<1>4. CASE ~(ApplySet \/ Finish \/ StartPatch)
  <2>1. /\ installed' = installed /\ plan' = plan
        /\ pc' \notin {"apply", "rolled-back", "done"} =>
               pc \notin {"apply", "rolled-back", "done"}
        /\ pc' = "done" => pc = "done"
    BY <1>4 DEF Next, Work, Over, vars, OpenPatcher, WindowDownloads, WithoutWindow, Preflight,
                LookForMetallib, FetchMetallib, MergeKDK, Fail, NetworkChanges, Running
  <2> QED
    BY <2>1 DEF InstalledInOrder, IInv
<1> QED
  BY <1>1, <1>2, <1>3, <1>4

\* What a set does to one of the files: its own layer is there afterwards, and
\* the others stay unless it removes or replaces the file.
LEMMA InstalledLayers ==
    ASSUME NEW name, NEW f, NEW layers
    PROVE  /\ f \in Brings(name, machine) => Layer(name) \in Installed(name, f, layers)
           /\ f \notin Removes(name) \cup Overwrites(name, machine) =>
                  layers \subseteq Installed(name, f, layers)
           /\ f \in Overwrites(name, machine) => Layer(name) \in Installed(name, f, layers)
  BY DEF Installed, Brings

\* No step undoes an installed set: ApplySet by LaterIsHarmless, the others do
\* not touch the disk.
LEMMA SurvivalKept == IInv /\ [Next]_vars => InstalledSurvive'
<1> SUFFICES ASSUME IInv, [Next]_vars PROVE InstalledSurvive'
  OBVIOUS
<1>1. CASE ApplySet
  <2>1. PICK c \in plan \ installed :
            /\ \A other \in plan \ installed : ~Earlier(other, c)
            /\ disk' = [f \in DOMAIN disk |-> Installed(Name(c), f, disk[f])]
            /\ installed' = installed \cup {c}
    BY <1>1 DEF ApplySet
  <2>2. machine \in Machines /\ machine' = machine
    BY <1>1 DEF ApplySet, IInv, TypeOK
  <2>3. PICK hardware \in SUBSET Selected[machine] : plan = Dictionary(Variants[machine], hardware)
    <3>1. plan \in {AllSets[machine], NetworkSets[machine]}
      BY <2>1 DEF IInv, TypeOK, Plans
    <3> QED
      BY <2>2, <3>1, Sets
  <2>4. ASSUME NEW a \in plan, NEW f \in Brings(Name(a), machine)
        PROVE  f \in DOMAIN disk
    <3>1. a \in Places(Variants[machine], hardware)
      BY <2>3 DEF Dictionary, Firsts
    <3>2. a \in Places(Variants[machine], Selected[machine])
      BY <2>3, <3>1 DEF Places
    <3>3. Name(a) \in Names(Places(Variants[machine], Selected[machine]))
      BY <3>2 DEF Names
    <3> QED
      BY <2>2, <3>3, Sets DEF IInv, TypeOK
  <2> SUFFICES ASSUME NEW a \in installed', NEW f \in Brings(Name(a), machine)
               PROVE  \/ Layer(Name(a)) \in disk'[f]
                      \/ \E b \in installed' : Earlier(a, b) /\ <<Name(a), Name(b)>> \in Overlays
    BY <2>2 DEF InstalledSurvive
  <2>5. a \in plan /\ c \in plan /\ installed \subseteq plan
    BY <2>1 DEF IInv, TypeOK
  <2>6. disk'[f] = Installed(Name(c), f, disk[f])
    BY <2>1, <2>4, <2>5
  <2>7. CASE a = c
    BY <2>6, <2>7, InstalledLayers
  <2>8. CASE a # c
    <3>1. a \in installed /\ ~Earlier(c, a)
      BY <2>1, <2>8 DEF IInv, InstalledInOrder
    <3>2. CASE f \notin Removes(Name(c)) \cup Overwrites(Name(c), machine)
      <4>1. disk[f] \subseteq disk'[f]
        BY <2>6, <3>2, InstalledLayers
      <4> QED
        BY <2>1, <3>1, <4>1 DEF IInv, InstalledSurvive
    <3>3. CASE f \in Removes(Name(c)) \cup Overwrites(Name(c), machine)
      <4>1. \/ Layer(Name(a)) = Layer(Name(c)) /\ f \in Overwrites(Name(c), machine)
            \/ <<Name(a), Name(c)>> \in Overlays /\ Earlier(a, c)
        BY <2>2, <2>3, <2>5, <3>1, <3>3, LaterIsHarmless
      <4> QED
        BY <2>1, <2>6, <4>1, InstalledLayers
    <3> QED
      BY <3>2, <3>3
  <2> QED
    BY <2>7, <2>8
<1>2. CASE ~ApplySet
  <2>1. machine' = machine /\ installed' = installed /\ disk' = disk
    BY <1>2 DEF Next, Work, Over, vars, OpenPatcher, WindowDownloads, WithoutWindow, StartPatch,
                Preflight, LookForMetallib, FetchMetallib, MergeKDK, Finish, Fail, NetworkChanges
  <2> QED
    BY <2>1 DEF InstalledSurvive, IInv
<1> QED
  BY <1>1, <1>2

-----------------------------------------------------------------------------
(* The theorems *)

\* The invariant is inductive.
LEMMA Inductive == IInv /\ [Next]_vars => IInv'
  BY TypesPreserved, DetailsKept, MetallibStays, MergedBefore, OrderKept, SurvivalKept
     DEF IInv

\* The inductive invariant holds whatever the machines, the packages and the
\* network do.
THEOREM PatchInvariant == Spec => []IInv
<1>1. Init => IInv
  BY Initially
<1>2. IInv /\ [Next]_vars => IInv'
  BY Inductive
<1> QED
  BY <1>1, <1>2, PTL DEF Spec

\* Every variable keeps its type: the plan is always nothing, everything the
\* machine selects or its wireless sets, and what is installed is part of it.
THEOREM PatchTypes == Spec => []TypeOK
<1>1. IInv => TypeOK
  BY DEF IInv
<1> QED
  BY <1>1, PatchInvariant, PTL

\* For every machine one graphics part and one wireless card can be in: when the
\* patcher is done no patch set has been undone by a later one.
THEOREM SetsSurvive == Spec => []EverySetSurvives
<1>1. IInv => EverySetSurvives
  BY DEF IInv, InstalledInOrder, InstalledSurvive, EverySetSurvives
<1> QED
  BY <1>1, PatchInvariant, PTL

\* No set is laid on the root volume before the Metal libraries and, for a plan
\* like the window's, the KDK are there.
THEOREM SupportComesFirst == Spec => []SupportBeforeWriting
<1>1. IInv => SupportBeforeWriting
  BY DEF IInv, MetallibThere, MergedFirst, SupportBeforeWriting
<1> QED
  BY <1>1, PatchInvariant, PTL

\* start_patch accepts a plan offline only when every package it needs is
\* installed.
THEOREM AcceptedCanBeDone == Spec => AcceptedIsFeasible
<1> DEFINE Feasible ==
        pc' = "preflight" /\ pc = "prepared" =>
            \/ online
            \/ /\ "Metal-3802-.metallibs" \in Names(plan') => MetallibFound
               /\ PlanNeedsKDK' => KdkFound
<1>1. ASSUME IInv, Next, pc = "prepared", pc' = "preflight", ~online
      PROVE  /\ "Metal-3802-.metallibs" \in Names(plan') => MetallibFound
             /\ PlanNeedsKDK' => KdkFound
  <2>1. machine \in Machines
    BY <1>1 DEF IInv, TypeOK
  <2>2. StartPatch
    BY <1>1 DEF Next, Work, Over, vars, OpenPatcher, WindowDownloads, WithoutWindow, Preflight,
                LookForMetallib, FetchMetallib, MergeKDK, ApplySet, Finish, Fail, NetworkChanges
  <2>3. machine' = machine /\ plan' = Detect.sets /\ Detect.canPatch
    BY <1>1, <2>2 DEF StartPatch
  <2>4. CASE NetworkingOnly
    <3>1. plan' = NetworkSets[machine]
      BY <2>1, <2>3, <2>4, DetectSound
    <3> QED
      BY <2>1, <2>3, <3>1, NetworkSetsNeedNothing DEF PlanNeedsKDK
  <2>5. CASE ~NetworkingOnly
    <3>1. plan' = AllSets[machine] /\ ~PackageMissing
      BY <1>1, <2>1, <2>3, <2>5, DetectSound
    <3> QED
      BY <2>1, <2>3, <3>1, AllSetsNeedWhatIsRequired DEF PlanNeedsKDK, PackageMissing
  <2> QED
    BY <2>4, <2>5
<1>2. IInv /\ [Next]_vars => [Feasible]_vars
  BY <1>1
<1> QED
  BY <1>2, PatchInvariant, PTL DEF Spec, AcceptedIsFeasible

-----------------------------------------------------------------------------
(* Termination: every step of the patcher leads on                         *)

\* How far the patcher is.  The search for the Metal libraries goes round at
\* most twice: the second time refreshed is set.
Phase ==
    CASE pc = "closed"         -> 0
      [] pc = "opened"         -> 1
      [] pc = "prepared"       -> 2
      [] pc = "preflight"      -> 3
      [] pc = "metallib"       -> 4
      [] pc = "metallib-fetch" -> IF refreshed THEN 7 ELSE 5
      [] pc = "metallib-again" -> IF refreshed THEN 8 ELSE 6
      [] pc = "kdk"            -> 9
      [] pc = "apply"          -> 10
      [] pc \in Ended          -> 11

\* A later phase, or one more set of the plan installed.
Onward ==
    \/ Phase < Phase'
    \/ /\ pc = "apply" /\ pc' = "apply" /\ plan' = plan
       /\ \E place \in plan \ installed : installed' = installed \cup {place}

\* No step but a change of the network leaves the patcher where it was, and that
\* does not take it back: the patcher can neither go round for ever in the search
\* for the Metal libraries nor install a set twice.
THEOREM PatcherGoesOn ==
    Spec => [][Onward \/ (NetworkChanges /\ Phase' = Phase /\ installed' = installed)]_vars
<1> DEFINE Idle == NetworkChanges /\ Phase' = Phase /\ installed' = installed
<1>1. ASSUME TypeOK, Next PROVE Onward \/ Idle \/ UNCHANGED vars
  <2> USE <1>1 DEF Phase, Ended, Onward
  <2>1. CASE OpenPatcher      BY <2>1 DEF OpenPatcher
  <2>2. CASE WindowDownloads
    <3>1. pc = "opened" /\ pc' \in {"prepared", "exited"}
      BY <2>2, Zenon DEF WindowDownloads
    <3> QED BY <3>1
  <2>3. CASE WithoutWindow    BY <2>3 DEF WithoutWindow
  <2>4. CASE StartPatch       BY <2>4 DEF StartPatch
  <2>5. CASE Preflight        BY <2>5 DEF Preflight
  <2>6. CASE LookForMetallib  BY <2>6 DEF LookForMetallib, TypeOK
  <2>7. CASE FetchMetallib
    <3>1. /\ pc = "metallib-fetch" /\ pc' \in {"metallib-again", "exited"}
          /\ refreshed' = refreshed
      BY <2>7, Zenon DEF FetchMetallib
    <3> QED BY <3>1
  <2>8. CASE MergeKDK         BY <2>8 DEF MergeKDK
  <2>9. CASE ApplySet         BY <2>9 DEF ApplySet
  <2>10. CASE Finish          BY <2>10 DEF Finish
  <2>11. CASE Fail            BY <2>11 DEF Fail
  <2>12. CASE NetworkChanges  BY <2>12 DEF NetworkChanges
  <2>13. CASE Over            BY <2>13 DEF Over
  <2> QED
    BY <2>1, <2>2, <2>3, <2>4, <2>5, <2>6, <2>7, <2>8, <2>9, <2>10, <2>11, <2>12, <2>13
       DEF Next, Work
<1>2. TypeOK /\ [Next]_vars => [Onward \/ Idle]_vars
  BY <1>1
<1> QED BY <1>2, PatchTypes, PTL DEF Spec

=============================================================================
