---------------------------- MODULE PatchHardware ----------------------------
(***************************************************************************)
(* The hardware classes and the shared patch sets of                       *)
(* opencore_legacy_patcher/sys_patch/patchsets: which sets a class asks    *)
(* for, in which order, what it needs before it can be installed, and      *)
(* which files two sets of the catalogue both touch.                       *)
(*                                                                         *)
(* A machine m is a record: os, the Darwin version times ten (22.4 is      *)
(* 224), the SMBIOS model, the architectures in gpus, other devices, avx2, *)
(* and renderbox, whether a usable RenderBox payload is shipped.  The      *)
(* X86_* opt-in variables are unset.                                       *)
(*                                                                         *)
(* The sets of a class are a sequence of what its code adds one after the  *)
(* other: at each step one set, none when the release does not need it, or *)
(* several that touch no file and so need no order.  Names are those of    *)
(* the source with a hyphen for a blank and an underscore for a comma.     *)
(***************************************************************************)
EXTENDS Naturals, Sequences

HighSierra == 170   Mojave  == 180   BigSur == 200   Monterey == 210
Ventura    == 220   Sonoma  == 230   Sequoia == 240  Tahoe    == 250

\* The graphics parts of Intel processors that patch sets exist for.
IntegratedGpus == {"Intel-Iron-Lake", "Intel-Sandy-Bridge", "Intel-Ivy-Bridge",
                   "Intel-Haswell", "Intel-Broadwell", "Intel-Skylake"}

When(condition, set) == IF condition THEN {set} ELSE {}

-----------------------------------------------------------------------------
(* Shared patch sets *)

NonMetal(m)          == When(Mojave <= m.os /\ m.os < Tahoe, "Non-Metal-Common")
NonMetalIOAccel(m)   == When(Mojave <= m.os /\ m.os < Tahoe, "Non-Metal-IOAccelerator-Common")
NonMetalCoreDisplay(m) == When(Mojave <= m.os /\ m.os < Tahoe, "Non-Metal-CoreDisplay-Common")
NonMetalEnforcement(m) == When(Mojave <= m.os /\ m.os < Tahoe, "Non-Metal-Enforcement")
MontereyWebKit(m)    == When(Monterey <= m.os /\ m.os < Ventura, "WebKit-Monterey-Common")
HighSierraGVA(m)     == When(m.os >= BigSur, "High-Sierra-GVA")
BigSurGVA(m)         == When(m.os >= Monterey, "Big-Sur-GVA")
BigSurOpenCL(m)      == When(m.os >= Monterey, "Big-Sur-OpenCL")
MontereyGVA(m)       == When(m.os >= Ventura, "Monterey-GVA")
RevertMontereyGVA(m) == When(m.os >= Ventura, "Revert-Monterey-GVA")
MontereyOpenCL(m)    == When(m.os >= Ventura, "Monterey-OpenCL")
AMDOpenCL(m)         == When(m.os >= Ventura, "AMD-OpenCL")
AMDTeraScale(m)      == When(m.os >= Mojave, "AMD-TeraScale-Common")
LegacyMetal31001(m)  == When(m.os >= Ventura /\ m.renderbox, "Metal-31001-Common")

\* All three together, and none of them on Tahoe.
LegacyMetal3802(m)   == m.os < Tahoe
Metal3802Common(m)   == When(LegacyMetal3802(m) /\ m.os >= Ventura, "Metal-3802-Common")
Metal3802Extended(m) == When(LegacyMetal3802(m) /\ m.os >= 224, "Metal-3802-Common-Extended")
Metal3802Libs(m)     == When(LegacyMetal3802(m) /\ m.os >= Sequoia, "Metal-3802-.metallibs")

\* What sys_patch_hooks of track B returns beside patch sets: its own report.
HookReport == {"track", "hooks", "extreme", "patches", "poc_table", "byte_patch", "notes"}

MergeSysPatchHooks == HookReport

\* TahoeYellowScreen.patches merges what the hooks return into its own result.
Compositor(m) ==
    IF m.os >= Tahoe THEN {"Tahoe-Yellow-Screen-Mitigations"} \cup MergeSysPatchHooks ELSE {}

-----------------------------------------------------------------------------
(* The hardware classes.  BaseHardware gives the defaults. *)

Base(name, present, since, m, sets) ==
    [name |-> name, subclass |-> "none", network |-> FALSE, present |-> present,
     native |-> m.os < since, kdk |-> FALSE, metallib |-> FALSE, sets |-> sets]

Gpu(name, subclass, m, since, sets) ==
    [Base(name, name \in m.gpus, since, m, sets) EXCEPT !.subclass = subclass]

NeedsKDK(m, hardware)      == [hardware EXCEPT !.kdk = m.os >= Ventura]
NeedsMetallib(m, hardware) == [hardware EXCEPT !.metallib = m.os >= Sequoia]

IntelIronLake(m) == NeedsKDK(m, Gpu("Intel-Iron-Lake", "non-metal", m, Mojave,
    <<NonMetal(m), MontereyWebKit(m), {"Intel-Iron-Lake"}>>))

IntelSandyBridge(m) == NeedsKDK(m, Gpu("Intel-Sandy-Bridge", "non-metal", m, Mojave,
    <<NonMetal(m), HighSierraGVA(m), MontereyWebKit(m), {"Intel-Sandy-Bridge"}>>))

IntelIvyBridge(m) == NeedsMetallib(m, Gpu("Intel-Ivy-Bridge", "3802", m, Monterey,
    <<Metal3802Common(m), Metal3802Extended(m), Metal3802Libs(m), BigSurGVA(m),
      MontereyOpenCL(m), BigSurOpenCL(m), MontereyWebKit(m), {"Intel-Ivy-Bridge"}>>))

IntelHaswell(m) == NeedsMetallib(m, Gpu("Intel-Haswell", "3802", m, Ventura,
    <<Metal3802Common(m), Metal3802Extended(m), Metal3802Libs(m), MontereyGVA(m),
      MontereyOpenCL(m), {"Intel-Haswell"}>>))

IntelBroadwell(m) == Gpu("Intel-Broadwell", "31001", m, Ventura,
    <<LegacyMetal31001(m), MontereyGVA(m), MontereyOpenCL(m), {"Intel-Broadwell"}>>)

IntelSkylake(m) == Gpu("Intel-Skylake", "31001", m, Ventura,
    <<LegacyMetal31001(m), MontereyOpenCL(m), {"Intel-Skylake"}>>)

NvidiaTesla(m) == NeedsKDK(m, Gpu("Nvidia-Tesla", "non-metal", m, Mojave,
    <<NonMetal(m), MontereyWebKit(m), {"Nvidia-Tesla"}>>))

NvidiaKepler(m) == NeedsMetallib(m, Gpu("Nvidia-Kepler", "3802", m, 211,
    <<Metal3802Common(m), Metal3802Extended(m), Metal3802Libs(m), MontereyOpenCL(m),
      BigSurOpenCL(m), MontereyWebKit(m), {"Nvidia-Kepler"}>>))

NvidiaWebDriver(m) == NeedsKDK(m, Gpu("Nvidia-Web-Drivers", "non-metal", m, Mojave,
    <<NonMetal(m), NonMetalIOAccel(m), NonMetalCoreDisplay(m), MontereyWebKit(m),
      {"Nvidia-Web-Drivers"}, NonMetalEnforcement(m)>>))

AMDTeraScale1(m) == NeedsKDK(m, Gpu("AMD-TeraScale-1", "non-metal", m, Mojave,
    <<NonMetal(m), MontereyWebKit(m), AMDTeraScale(m), {"AMD-TeraScale-1"}>>))

AMDTeraScale2(m) == NeedsKDK(m, Gpu("AMD-TeraScale-2", "non-metal", m, Mojave,
    <<NonMetal(m), NonMetalIOAccel(m), MontereyWebKit(m), AMDTeraScale(m),
      {"AMD-TeraScale-2"}>>))

AMDLegacyGCN(m) == NeedsKDK(m, Gpu("AMD-Legacy-GCN", "31001", m, Ventura,
    <<LegacyMetal31001(m), RevertMontereyGVA(m), MontereyOpenCL(m), AMDOpenCL(m),
      {"AMD-Legacy-GCN"}, Compositor(m)>>))

\* Only without AVX2, or on the two models Apple left without a framebuffer.
AMDPolaris(m) ==
    LET target == ~m.avx2 \/ m.model \in {"MacBookPro13_3", "MacBookPro14_3"}
        sets   == IF m.model = "MacBookPro14_3"
                  THEN <<When(m.os >= Sonoma, "AMD-Polaris"), Compositor(m)>>
                  ELSE <<LegacyMetal31001(m), MontereyOpenCL(m), {"AMD-Polaris"},
                         IF m.avx2 THEN {} ELSE AMDOpenCL(m), RevertMontereyGVA(m),
                         Compositor(m)>>
        gpu    == Gpu("AMD-Polaris", "31001", m, Ventura, sets)
    IN  NeedsKDK(m, [gpu EXCEPT !.present = @ /\ target])

AMDVega(m) == NeedsKDK(m, Gpu("AMD-Vega", "31001", m, Ventura,
    <<LegacyMetal31001(m), RevertMontereyGVA(m), MontereyOpenCL(m), AMDOpenCL(m),
      {"AMD-Vega"}, When("AMD-Legacy-GCN" \in m.gpus, "AMD-Vega-Extended"),
      Compositor(m)>>))

LegacyWireless(m) ==
    [Base("Legacy-Wireless", "legacy-wifi" \in m.devices, Monterey, m,
          <<{"Legacy-Wireless"}, When(m.os >= Ventura, "Legacy-Wireless-Extended")>>)
     EXCEPT !.network = TRUE]

ModernWireless(m) ==
    [Base("Modern-Wireless", "modern-wifi" \in m.devices, Sonoma, m,
          <<{"Modern-Wireless"}, When(m.os < Sequoia, "Modern-Wireless-Extended")>>)
     EXCEPT !.network = TRUE]

LegacyAudio(m) ==
    IF m.model = "iMac7_1"
    THEN Base("Legacy-Audio", TRUE, 160, m, <<{"Legacy-Realtek"}>>)
    ELSE Base("Legacy-Audio", "no-AppleALC" \in m.devices, Mojave, m, <<{"Legacy-Non-GOP"}>>)

\* Models with a T1 count as such even when their devices say T2.
ModernAudio(m) ==
    [Base("Modern-Audio", TRUE, Tahoe, m, <<{"Modern-Audio"}>>)
     EXCEPT !.kdk = TRUE,
            !.native = @ \/ ("T2" \in m.devices
                            /\ m.model \notin {"MacBookPro13_3", "MacBookPro14_3"})]

DisplayBacklight(m) == NeedsKDK(m, Base("Legacy-Backlight-Control", m.model = "iMac7_1",
    HighSierra, m, <<{"Legacy-Backlight-Control"}>>))

GraphicsMultiplexer(m) == NeedsKDK(m, Base("Legacy-GMUX",
    m.model = "MacBookPro8_2" /\ "demuxed" \in m.devices, 160, m, <<{"Legacy-GMUX"}>>))

KeyboardBacklight(m) ==
    LET nonMetal == {"Intel-Iron-Lake", "Intel-Sandy-Bridge", "AMD-TeraScale-1",
                     "AMD-TeraScale-2", "Nvidia-Tesla"}
        macBook  == {"MacBook", "MacBookPro8_2", "MacBookPro13_3", "MacBookPro14_3"}
    IN  NeedsKDK(m, Base("Legacy-Keyboard-Backlight",
            m.model \in macBook /\ m.gpus \cap nonMetal # {}, BigSur, m,
            <<{"Legacy-Keyboard-Backlight"}>>))

PCIeFaceTimeCamera(m) ==
    Base("PCIe-FaceTime-Camera", "PCIe-camera" \in m.devices, Sonoma, m, <<{"PCIe-FaceTime-Camera"}>>)

T1SecurityChip(m) ==
    Base("T1-Security-Chip", "T1" \in m.devices, Sonoma, m,
         <<When(m.os < Tahoe, "T1-Security-Chip")>>)

T1LoginExperimental(m) ==
    Base("T1-Login", "T1" \in m.devices /\ m.os >= Tahoe, 0, m, << >>)

USB11Controller(m) == NeedsKDK(m, Base("Legacy-USB-1.1",
    m.model \in {"iMac7_1", "MacPro3_1", "MacPro5_1"}, Ventura, m,
    <<{"Legacy-USB-1.1"}, When(m.os >= 231, "Legacy-USB-1.1-Extended"),
      When(m.os >= Sequoia, "Legacy-USB-1.1-Webcam")>>))

\* The order of detection, which is the order of installation.
HardwareVariants(m) ==
    <<IntelIronLake(m), IntelSandyBridge(m), IntelIvyBridge(m), IntelHaswell(m),
      IntelBroadwell(m), IntelSkylake(m), NvidiaTesla(m), NvidiaKepler(m),
      NvidiaWebDriver(m), AMDTeraScale1(m), AMDTeraScale2(m), AMDLegacyGCN(m),
      AMDPolaris(m), AMDVega(m), LegacyWireless(m), ModernWireless(m), LegacyAudio(m),
      ModernAudio(m), DisplayBacklight(m), GraphicsMultiplexer(m), KeyboardBacklight(m),
      PCIeFaceTimeCamera(m), T1SecurityChip(m), T1LoginExperimental(m), USB11Controller(m)>>

=============================================================================
