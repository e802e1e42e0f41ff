----------------------------- MODULE PatchFiles -----------------------------
(***************************************************************************)
(* What the patch sets of PatchHardware do to the root volume: the files a *)
(* set removes, overwrites and merges into.  Only contested files are      *)
(* here, those that two sets touch or that a set merges into after another *)
(* removed them; of several files that always share one fate, one.         *)
(***************************************************************************)
EXTENDS PatchHardware

\* REMOVE_SYSTEM_VOLUME and REMOVE_DATA_VOLUME.
Removes(set) ==
    CASE set = "Non-Metal-Common" ->
             {"AMDRadeonX4000.kext", "AMDRadeonX5000.kext", "AMDRadeonX5000HWServices.kext",
              "AppleIntelHD4000Graphics.kext", "AppleIntelHD5000Graphics.kext",
              "AppleIntelBDWGraphics.kext", "AppleIntelSKLGraphics.kext", "GeForce.kext",
              "IOAcceleratorFamily2.kext"}
      [] set = "AMD-TeraScale-Common"     -> {"AMD7000Controller.kext", "AMD9500Controller.kext"}
      [] set = "Revert-Monterey-GVA"      -> {"AppleGVA"}
      [] set = "Legacy-Backlight-Control" -> {"AGDCBacklightControl.kext"}
      [] set = "Legacy-GMUX"              -> {"AppleBacklight.kext", "AGDCBacklightControl.kext",
                                              "AppleMuxControl.kext"}
      [] set = "Nvidia-Web-Drivers"       -> {"NVDAStartup.kext"}
      [] OTHER                            -> {}

\* OVERWRITE_SYSTEM_VOLUME and OVERWRITE_DATA_VOLUME: the file is replaced.
Overwrites(set, m) ==
    CASE set = "AMD-Legacy-GCN" ->
             {"AMDRadeonX4000.kext", "AMDFramebuffer.kext", "AMDSupport.kext", "AMDShared.bundle",
              "AMD7000Controller.kext", "AMD9500Controller.kext", "AMDRadeonVADriver.bundle",
              "AMDRadeonVADriver2.bundle"}
      [] set = "AMD-Polaris" ->
             IF m.model = "MacBookPro14_3"
             THEN {"AMDFramebuffer.kext", "AMDSupport.kext", "AMD9500Controller.kext"}
             ELSE {"AMDRadeonX4000.kext", "AMDShared.bundle", "AMDRadeonVADriver2.bundle"}
                  \cup (IF m.model = "MacBookPro13_3"
                        THEN {"AMDFramebuffer.kext", "AMDSupport.kext", "AMD7000Controller.kext",
                              "AMD9500Controller.kext", "AMDRadeonVADriver.bundle"}
                        ELSE {})
      [] set = "AMD-Vega"            -> {"AMDRadeonX5000.kext", "AMDRadeonVADriver2.bundle",
                                         "AMDShared.bundle"}
      [] set = "AMD-Vega-Extended"   -> {"AMDRadeonX5000HWServices.kext"}
      [] set = "AMD-TeraScale-Common" -> {"AMDFramebuffer.kext", "AMDSupport.kext",
                                          "AMDShared.bundle"}
      [] set = "AMD-TeraScale-2"     -> {"AMDRadeonVADriver.bundle", "AMDRadeonVADriver2.bundle"}
      [] set = "Intel-Ivy-Bridge"    -> {"AppleIntelHD4000Graphics.kext",
                                         "AppleIntelGraphicsShared.bundle"}
      [] set = "Intel-Haswell"       -> {"AppleIntelHD5000Graphics.kext",
                                         "AppleIntelGraphicsShared.bundle"}
      [] set = "Intel-Broadwell"     -> {"AppleIntelBDWGraphics.kext",
                                         "AppleIntelGraphicsShared.bundle"}
      [] set = "Intel-Skylake"       -> {"AppleIntelSKLGraphics.kext",
                                         "AppleIntelGraphicsShared.bundle"}
      [] set = "Nvidia-Kepler"       -> {"GeForce.kext", "NVDAStartup.kext"}
      [] set = "Nvidia-Tesla" /\ m.os >= Monterey -> {"NVDAStartup.kext"}
      [] set = "Non-Metal-Common"    -> {"IOSurface.kext"}
      [] set = "Non-Metal-IOAccelerator-Common" -> {"IOAcceleratorFamily2.kext", "IOSurface.kext"}
      [] set = "Metal-3802-.metallibs" -> {"default.metallib"}
      [] set = "Metal-3802-Common-Extended" /\ Sonoma <= m.os /\ m.os < Sequoia ->
             {"default.metallib"}
      [] set \in {"Legacy-Non-GOP", "Legacy-Realtek", "Modern-Audio"} -> {"AppleHDA.kext"}
      [] set = "Legacy-Backlight-Control" -> {"AppleBacklight.kext"}
      [] set = "Legacy-GMUX"         -> {"AppleMuxControl.kext"}
      [] set = "Legacy-Wireless"     -> {"airportd"}
      [] set = "Legacy-Wireless-Extended" -> {"wifip2pd"}
      [] set = "Modern-Wireless"     -> {"wifip2pd"}
      [] set = "Modern-Wireless-Extended" -> {"airportd"}
      [] set = "Legacy-USB-1.1"      -> {"IOUSBHostFamily.kext"}
      [] OTHER                       -> {}

\* MERGE_SYSTEM_VOLUME and MERGE_DATA_VOLUME: rsync over what is there.
Merges(set, m) ==
    CASE set = "Non-Metal-Common"  -> {"IOSurface.framework", "CoreDisplay.framework",
                                       "GPUSupport.framework", "OpenGL.framework"}
      [] set = "Non-Metal-IOAccelerator-Common" -> {"IOSurface.framework", "OpenCL.framework",
                                                    "GPUSupport.framework"}
      [] set = "Non-Metal-CoreDisplay-Common" -> {"CoreDisplay.framework"}
      [] set = "High-Sierra-GVA"   -> {"AppleGVA"}
      [] set = "Big-Sur-GVA"       -> {"AppleGVA"}
      [] set = "Monterey-GVA"      -> {"AppleGVA"}
      [] set = "Big-Sur-OpenCL"    -> {"OpenCL.framework"}
      [] set = "Monterey-OpenCL"   -> {"OpenCL.framework"}
      [] set = "AMD-OpenCL"        -> {"OpenCL.framework", "OpenGL.framework"}
      [] set = "Metal-3802-Common" -> {"Metal.framework", "MTLCompiler.framework",
                                       "GPUCompiler.framework"}
      [] set = "Metal-3802-Common-Extended" ->
             {"Metal.framework"} \cup (IF m.os < Sonoma \/ m.os >= 232
                                       THEN {"MTLCompiler.framework", "GPUCompiler.framework"}
                                       ELSE {})
      [] set = "Nvidia-Kepler"     ->
             {"GPUCompiler.framework"} \cup (IF 216 <= m.os /\ m.os < Ventura
                                             THEN {"Metal.framework"} ELSE {})
      [] set = "Nvidia-Web-Drivers" /\ m.os >= Monterey -> {"GPUCompiler.framework"}
      [] set \in {"Legacy-Wireless-Extended", "Modern-Wireless"} -> {"WiFiPeerToPeer.framework"}
      [] set = "Legacy-USB-1.1-Extended" -> {"IOUSBHostFamily.kext"}
      [] OTHER                     -> {}

Brings(set, m) == Overwrites(set, m) \cup Merges(set, m)

=============================================================================
