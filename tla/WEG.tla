-------------------------------- MODULE WEG --------------------------------
(***************************************************************************)
(* The plug-in's own part, kern_weg.cpp. When the kernel patcher is ready, *)
(* WEG decides from boot arguments, device properties and the hardware     *)
(* what it will do about the framebuffer reset, the graphics policy and    *)
(* the backlight, gives the GPUs their names and the device ids the user   *)
(* asked for, and lets go of the kexts it does not need. Afterwards kexts  *)
(* are loaded and patched, and framebuffers are initialised.               *)
(*                                                                         *)
(* Other threads read the PCI configuration of the GPUs all the time.      *)
(* IOGraphics initialises one framebuffer at a time.                       *)
(***************************************************************************)
EXTENDS SequencesExt

CONSTANTS Setups,               \* machines WEG may run on
          Framebuffers,
          MaxExternalGfxIndex,  \* last index of a name (9)
          None

Yosemite == 14
Mojave == 18
Kexts == {"IOGraphics", "AGDPolicy", "Backlight", "MCCSControl"}
FramebufferFixModes == {"DETECT", "RESET", "COPY", "ZEROFILL", "NONE"}
BacklightModes == {"OFF", "ON", "DETECT", "NAVI10"}

\* AGDP_* bits and the words processGraphicsPolicyStr looks for.
Patches == {"vit9696", "pikera", "cfgmap"}
Words == Patches \cup {"detect", "ignore"}
Policies == SUBSET (Patches \cup {"SET", "DETECT"})

\* Only the kind of a name counts, and its digit if WEG has given it.
NameKinds == {"IGPU", "GFX", "other"}
Widths == {16, 32}

\* A GPU: real device id, property device-id (0 if there is none), id of a
\* similar GPU in the model table (0 if there is no need to fake), and the
\* properties no-gfx-spoof, preserve-names, agdpmod and applbkl.
Gpus == [amd : BOOLEAN, name : NameKinds, preserve : BOOLEAN,
         real : Nat \ {0}, acpi : Nat, model : Nat, optOut : BOOLEAN,
         agdp : SUBSET Words \cup {None}, applbkl : BacklightModes \cup {None}]

\* Boot arguments are None if they are not given. gfxrst "invalid" is a
\* number out of range.
SetupType ==
  [kernel : Nat, apple : BOOLEAN, info : BOOLEAN, rebuildTree : BOOLEAN,
   compatibleBoard : BOOLEAN, builtin : Gpus \cup {None}, connectorLess : BOOLEAN,
   externals : Seq(Gpus), vinfo : BOOLEAN, verbose : BOOLEAN,
   gfxrst : FramebufferFixModes \cup {"invalid", None},
   agdpmod : SUBSET Words \cup {None}, applbkl : BacklightModes \cup {None},
   mode : [Framebuffers -> {"same", "other", "unknown"}],
   vram : [Framebuffers -> BOOLEAN]]

\* What a framebuffer may show, and an initialisation in progress.
Pictures == {"boot image", "driver", "black", "console", "garbage"}
Calls == [fb : Framebuffers, backCopy : BOOLEAN, zeroFill : BOOLEAN,
          verboseBoot : BOOLEAN, done : BOOLEAN]

ASSUME NoneAssumption == /\ None \notin Framebuffers \cup Pictures \cup BacklightModes
                         /\ None \notin Calls
ASSUME SetupAssumption == \A s \in Setups : s \in SetupType
\* "There could be only one IGPU"
ASSUME NamesAssumption ==
  \A s \in Setups : \A k \in DOMAIN s.externals : s.externals[k].name # "IGPU"
ASSUME IndexAssumption == MaxExternalGfxIndex \in Nat

VARIABLES setup,
          pc,                     \* where WEG is on its way through the boot
          todo,                   \* next GPU to be processed, 0 is the IGPU
          resetFramebuffer, graphicsDisplayPolicyMod, appleBacklightPatch,
          watched,                \* kexts registered and not switched off
          name,                   \* name[d]: kind and digit
          currentExternalGfxIndex,
          hasIgpuSpoof, hasGfxSpoof,
          routed,                 \* configRead functions that are replaced
          fakeReads,              \* <<w, d>>: drivers have read another id than the real
          patched,                \* kexts that were loaded and patched
          gotConsoleVinfo,
          baseAddr,               \* v_baseaddr is not zero
          consoleBuffer,          \* what was copied
          verboseBoot,            \* gIOFBVerboseBoot
          call,                   \* the initialisation in progress
          screenMemory,           \* what v_baseaddr points to
          picture                 \* picture[f]: what framebuffer f shows

choices == <<resetFramebuffer, graphicsDisplayPolicyMod, appleBacklightPatch>>
tree == <<name, currentExternalGfxIndex, hasIgpuSpoof, hasGfxSpoof>>
screen == <<baseAddr, consoleBuffer, verboseBoot, call, screenMemory, picture>>
vars == <<setup, pc, todo, choices, watched, tree, routed, fakeReads, patched,
          gotConsoleVinfo, screen>>

Externals == DOMAIN setup.externals
Devices == (IF setup.builtin = None THEN {} ELSE {0}) \cup Externals
Gpu(d) == IF d = 0 THEN setup.builtin ELSE setup.externals[d]

Init ==
  /\ setup \in Setups
  /\ pc = "boot"
  /\ todo = 0
  /\ resetFramebuffer = "DETECT"
  /\ graphicsDisplayPolicyMod = {"DETECT"}
  /\ appleBacklightPatch = "DETECT"
  /\ watched = {}
  /\ name = [d \in Devices |-> [kind |-> Gpu(d).name, digit |-> None]]
  /\ currentExternalGfxIndex = 0
  /\ hasIgpuSpoof = FALSE /\ hasGfxSpoof = FALSE
  /\ routed = {}
  /\ fakeReads = {}
  /\ patched = {}
  /\ gotConsoleVinfo = FALSE
  /\ baseAddr = FALSE
  /\ consoleBuffer = None
  /\ verboseBoot = setup.verbose
  /\ call = None
  /\ screenMemory = "boot image"
  /\ picture = [f \in Framebuffers |-> None]

-----------------------------------------------------------------------------
(* WEG::init                                                               *)

processGraphicsPolicyStr(words) ==
  IF "detect" \in words THEN {"SET", "DETECT"}
  ELSE {"SET"} \cup (IF "ignore" \in words THEN {} ELSE words \cap Patches)

BootReset ==
  IF setup.kernel < Yosemite THEN "NONE"
  ELSE IF setup.gfxrst \in {None, "invalid"} THEN "DETECT" ELSE setup.gfxrst

WEGInit ==
  /\ pc = "boot"
  /\ pc' = "policy"
  /\ resetFramebuffer' = BootReset
  /\ graphicsDisplayPolicyMod' =
       IF setup.agdpmod = None THEN {"DETECT"}
       ELSE processGraphicsPolicyStr(setup.agdpmod)
  /\ appleBacklightPatch' = IF setup.applbkl = None THEN "DETECT" ELSE setup.applbkl
  /\ watched' = {k \in Kexts :
                   CASE k = "IOGraphics" -> resetFramebuffer' # "NONE"
                     [] k = "AGDPolicy" -> graphicsDisplayPolicyMod' # {"SET"}
                     [] k = "Backlight" -> appleBacklightPatch' # "OFF"
                     [] k = "MCCSControl" -> appleBacklightPatch' = "NAVI10"}
  /\ UNCHANGED <<setup, todo, tree, routed, fakeReads, patched, gotConsoleVinfo, screen>>

-----------------------------------------------------------------------------
(* WEG::processKernel                                                      *)

\* GPUs in the order of the code, and those that have an agdpmod property.
PolicyGpus ==
  setup.externals \o (IF setup.builtin = None THEN <<>> ELSE <<setup.builtin>>)
PolicySources == {k \in DOMAIN PolicyGpus : PolicyGpus[k].agdp # None}
FirstPolicy ==
  PolicyGpus[CHOOSE k \in PolicySources : \A l \in PolicySources : k <= l].agdp

\* Mutated form of UsesProperties: an explicit "detect" is no decision.
UsesPropertiesAfterDetect == "DETECT" \in graphicsDisplayPolicyMod

UsesProperties == graphicsDisplayPolicyMod = {"DETECT"}

ProcessPolicy ==
  /\ pc = "policy"
  /\ graphicsDisplayPolicyMod' =
       IF setup.info /\ UsesProperties /\ PolicySources # {}
       THEN processGraphicsPolicyStr(FirstPolicy)
       ELSE graphicsDisplayPolicyMod
  /\ pc' = IF setup.info /\ (~setup.apple \/ setup.rebuildTree) THEN "devices" ELSE "decide"
  /\ UNCHANGED <<setup, todo, resetFramebuffer, appleBacklightPatch, watched, tree,
                 routed, fakeReads, patched, gotConsoleVinfo, screen>>

\* Boot arguments come first, then the GPUs in the order of the code.
BacklightAfter(g) ==
  IF ~setup.apple /\ appleBacklightPatch = "DETECT" /\ g.applbkl # None
  THEN g.applbkl ELSE appleBacklightPatch

ResetAfter(applies, mode) ==
  IF ~setup.apple /\ resetFramebuffer = "DETECT" /\ applies
  THEN mode ELSE resetFramebuffer

\* The id an IGPU will have, 0 if it is not to be faked.
fakeDevice(g) == IF g.real # g.acpi THEN g.acpi ELSE g.model

SpoofsBuiltin(g) == fakeDevice(g) \notin {0, g.real} /\ ~g.optOut

\* Mutated form of SpoofsExternal: no-gfx-spoof is not looked at.
SpoofsExternalAlways(g) == g.amd /\ g.acpi \notin {0, g.real}

SpoofsExternal(g) == g.amd /\ ~g.optOut /\ g.acpi \notin {0, g.real}

ProcessBuiltin ==
  /\ pc = "devices" /\ todo = 0
  /\ todo' = 1
  /\ IF setup.builtin = None
     THEN UNCHANGED <<pc, choices, tree>>
     ELSE LET g == setup.builtin
          IN  /\ name' = [name EXCEPT ![0].kind = "IGPU"]
              /\ hasIgpuSpoof' = (hasIgpuSpoof \/ SpoofsBuiltin(g))
              /\ pc' = IF SpoofsBuiltin(g) THEN "route16" ELSE pc
              /\ resetFramebuffer' = ResetAfter(~setup.connectorLess, "COPY")
              /\ appleBacklightPatch' = BacklightAfter(g)
              /\ UNCHANGED <<graphicsDisplayPolicyMod, currentExternalGfxIndex, hasGfxSpoof>>
  /\ UNCHANGED <<setup, watched, routed, fakeReads, patched, gotConsoleVinfo, screen>>

NeedsName(d) ==
  /\ ~Gpu(d).preserve /\ name[d].kind # "GFX"
  /\ currentExternalGfxIndex <= MaxExternalGfxIndex

\* Mutated form of GfxSpoof: the flag is assigned for every GPU.
GfxSpoofOfLast(g) == SpoofsExternal(g)

GfxSpoof(g) == hasGfxSpoof \/ SpoofsExternal(g)

ProcessExternal ==
  /\ pc = "devices" /\ todo \in Externals
  /\ todo' = todo + 1
  /\ LET g == setup.externals[todo]
     IN  /\ IF NeedsName(todo)
            THEN /\ name' = [name EXCEPT ![todo] =
                               [kind |-> "GFX", digit |-> currentExternalGfxIndex]]
                 /\ currentExternalGfxIndex' = currentExternalGfxIndex + 1
            ELSE UNCHANGED <<name, currentExternalGfxIndex>>
         /\ hasGfxSpoof' = GfxSpoof(g)
         /\ pc' = IF SpoofsExternal(g) THEN "route16" ELSE pc
         /\ resetFramebuffer' = ResetAfter(g.amd, "ZEROFILL")
         /\ appleBacklightPatch' = BacklightAfter(g)
  /\ UNCHANGED <<setup, graphicsDisplayPolicyMod, watched, hasIgpuSpoof, routed,
                 fakeReads, patched, gotConsoleVinfo, screen>>

\* routeVirtual twice. All GPUs are IOPCIDevices and share a virtual table.
RouteConfigRead(w, from, to) ==
  /\ pc = from
  /\ pc' = to
  /\ routed' = routed \cup {w}
  /\ UNCHANGED <<setup, todo, choices, watched, tree, fakeReads, patched,
                 gotConsoleVinfo, screen>>

Route == \/ RouteConfigRead(16, "route16", "route32")
         \/ RouteConfigRead(32, "route32", "devices")

DevicesDone ==
  /\ pc = "devices" /\ todo > Len(setup.externals)
  /\ pc' = "decide"
  /\ UNCHANGED <<setup, todo, choices, watched, tree, routed, fakeReads, patched,
                 gotConsoleVinfo, screen>>

isGraphicsPolicyModRequired ==
  setup.externals # <<>> /\ ~setup.apple /\ ~setup.compatibleBoard

\* Mutated form of BacklightUnused: an external GPU does not matter.
BacklightUnusedBuiltin ==
  IF setup.apple THEN appleBacklightPatch # "ON"
  ELSE \/ appleBacklightPatch = "OFF"
       \/ appleBacklightPatch = "DETECT" /\ setup.builtin = None

BacklightUnused ==
  IF setup.apple THEN appleBacklightPatch # "ON"
  ELSE \/ appleBacklightPatch = "OFF"
       \/ /\ appleBacklightPatch = "DETECT"
          /\ setup.builtin = None \/ setup.externals # <<>>

\* The end of processKernel: the remaining decisions, and vinfo.
Decide ==
  /\ pc = "decide"
  /\ pc' = "running"
  /\ resetFramebuffer' = IF resetFramebuffer = "DETECT" THEN "NONE" ELSE resetFramebuffer
  /\ graphicsDisplayPolicyMod' =
       IF "DETECT" \notin graphicsDisplayPolicyMod THEN graphicsDisplayPolicyMod
       ELSE IF setup.info /\ isGraphicsPolicyModRequired
            THEN {"SET", "vit9696", "pikera"} ELSE {"SET"}
  /\ watched' = watched \
       ((IF setup.info /\ BacklightUnused THEN {"Backlight"} ELSE {})
        \cup (IF resetFramebuffer = "DETECT" THEN {"IOGraphics"} ELSE {})
        \cup (IF graphicsDisplayPolicyMod' = {"SET"} THEN {"AGDPolicy"} ELSE {}))
  /\ gotConsoleVinfo' = (resetFramebuffer' \in {"COPY", "ZEROFILL"} /\ setup.vinfo)
  /\ baseAddr' = gotConsoleVinfo'
  /\ UNCHANGED <<setup, todo, appleBacklightPatch, tree, routed, fakeReads, patched,
                 consoleBuffer, verboseBoot, call, screenMemory, picture>>

-----------------------------------------------------------------------------
(* The PCI configuration                                                   *)

Spoofed(d) == \/ hasIgpuSpoof /\ name[d].kind = "IGPU"
              \/ hasGfxSpoof /\ name[d].kind = "GFX"

\* The device id that a read of w bits returns.
wrapConfigRead(w, d) ==
  IF w \in routed /\ Spoofed(d) /\ Gpu(d).acpi # 0 THEN Gpu(d).acpi ELSE Gpu(d).real

ConfigRead(w, d) ==
  /\ pc # "panic"
  /\ fakeReads' = fakeReads \cup (IF wrapConfigRead(w, d) = Gpu(d).real THEN {}
                                  ELSE {<<w, d>>})
  /\ UNCHANGED <<setup, pc, todo, choices, watched, tree, routed, patched,
                 gotConsoleVinfo, screen>>

-----------------------------------------------------------------------------
(* WEG::processKext                                                        *)

\* A kext is loaded and patched. If its symbols are missing it stays as it is.
LoadKext(k) ==
  /\ pc = "running" /\ k \in watched \ patched
  /\ IF k = "AGDPolicy" /\ "cfgmap" \in graphicsDisplayPolicyMod /\ setup.kernel >= Mojave
     THEN pc' = "panic" /\ UNCHANGED patched
     ELSE patched' = patched \cup {k} /\ UNCHANGED pc
  /\ UNCHANGED <<setup, todo, choices, watched, tree, routed, fakeReads,
                 gotConsoleVinfo, screen>>

-----------------------------------------------------------------------------
(* wrapFramebufferInit                                                     *)

\* The image of the boot screen is copied once, before anything is drawn.
CaptureConsole ==
  IF resetFramebuffer = "COPY" /\ gotConsoleVinfo /\ baseAddr
  THEN /\ consoleBuffer' \in {screenMemory, None}
       /\ baseAddr' = FALSE
  ELSE UNCHANGED <<consoleBuffer, baseAddr>>

FramebufferInit(f) ==
  /\ pc = "running" /\ "IOGraphics" \in patched /\ call = None
  /\ CaptureConsole
  /\ LET same == setup.mode[f] = "same"
         backCopy == /\ resetFramebuffer = "COPY" /\ gotConsoleVinfo
                     /\ consoleBuffer' # None /\ ~verboseBoot /\ same
         zeroFill == resetFramebuffer = "ZEROFILL" /\ gotConsoleVinfo /\ same
     IN  /\ call' = [fb |-> f, backCopy |-> backCopy, zeroFill |-> zeroFill,
                     verboseBoot |-> verboseBoot, done |-> FALSE]
         /\ verboseBoot' = (verboseBoot \/ ~backCopy)
  /\ UNCHANGED <<setup, pc, todo, choices, watched, tree, routed, fakeReads, patched,
                 gotConsoleVinfo, screenMemory, picture>>

\* IOFramebuffer::initFB clears the screen only in a verbose boot.
OriginalInit ==
  /\ pc = "running" /\ call # None /\ ~call.done
  /\ call' = [call EXCEPT !.done = TRUE]
  /\ picture' = [picture EXCEPT ![call.fb] = IF verboseBoot THEN "console" ELSE "garbage"]
  /\ screenMemory' = "driver"
  /\ UNCHANGED <<setup, pc, todo, choices, watched, tree, routed, fakeReads, patched,
                 gotConsoleVinfo, baseAddr, consoleBuffer, verboseBoot>>

\* Mutated form of VerboseAfter: the flag stays as it was set.
VerboseAfterKept(c) == verboseBoot

VerboseAfter(c) == IF c.backCopy THEN verboseBoot ELSE c.verboseBoot

FramebufferDone ==
  /\ pc = "running" /\ call # None /\ call.done
  /\ verboseBoot' = VerboseAfter(call)
  /\ picture' =
       IF ~setup.vram[call.fb] THEN picture
       ELSE IF call.backCopy THEN [picture EXCEPT ![call.fb] = consoleBuffer]
       ELSE IF call.zeroFill THEN [picture EXCEPT ![call.fb] = "black"]
       ELSE picture
  /\ call' = None
  /\ UNCHANGED <<setup, pc, todo, choices, watched, tree, routed, fakeReads, patched,
                 gotConsoleVinfo, baseAddr, consoleBuffer, screenMemory>>

Boot == WEGInit \/ ProcessPolicy \/ ProcessBuiltin \/ ProcessExternal \/ Route
          \/ DevicesDone \/ Decide

Next == \/ Boot
        \/ \E w \in Widths, d \in Devices : ConfigRead(w, d)
        \/ \E k \in Kexts : LoadKext(k)
        \/ \E f \in Framebuffers : FramebufferInit(f)
        \/ OriginalInit \/ FramebufferDone

Spec == Init /\ [][Next]_vars

-----------------------------------------------------------------------------
(* Properties                                                              *)

\* The names WEG gives end in one digit, and the choices are among those
\* the code knows.
TypeOK ==
  /\ pc \in {"boot", "policy", "devices", "route16", "route32", "decide",
             "running", "panic"}
  /\ todo \in Nat
  /\ resetFramebuffer \in FramebufferFixModes
  /\ graphicsDisplayPolicyMod \in Policies
  /\ appleBacklightPatch \in BacklightModes
  /\ watched \subseteq Kexts /\ patched \subseteq Kexts
  /\ \A d \in Devices : /\ name[d].kind \in NameKinds
                        /\ name[d].digit \in 0..MaxExternalGfxIndex \cup {None}
  /\ currentExternalGfxIndex \in 0..(MaxExternalGfxIndex + 1)
  /\ hasIgpuSpoof \in BOOLEAN /\ hasGfxSpoof \in BOOLEAN
  /\ routed \subseteq Widths
  /\ fakeReads \subseteq Widths \X Devices
  /\ gotConsoleVinfo \in BOOLEAN /\ baseAddr \in BOOLEAN /\ verboseBoot \in BOOLEAN
  /\ consoleBuffer \in {"boot image", "driver", None}
  /\ screenMemory \in {"boot image", "driver"}
  /\ call \in Calls \cup {None}
  /\ picture \in [Framebuffers -> Pictures \cup {None}]

\* A driver that has seen the id the user asked for never sees the real one
\* again, although GPUs are renamed and flags set while it reads.
IdentityStable ==
  \A r \in fakeReads : wrapConfigRead(r[1], r[2]) = Gpu(r[2]).acpi

\* GPUs before d that WEG had to find a name for.
NamedBefore(d) == {e \in Externals : e < d /\ ~Gpu(e).preserve /\ Gpu(e).name # "GFX"}

Asked(d) == ~Gpu(d).optOut /\ Gpu(d).acpi \notin {0, Gpu(d).real}

\* When WEG is ready, a GPU whose device-id differs from the real id is seen
\* under that id, however it is read, if it is an IGPU or an AMD GPU that may
\* be named and for which there is still a name. A GPU with no-gfx-spoof keeps
\* its id, unless another one of its kind is faked: the functions are replaced
\* for all GPUs, and names tell the kinds apart.
IdsAsAsked ==
  \A d \in Devices, w \in Widths :
    /\ /\ pc = "running" /\ setup.info /\ (~setup.apple \/ setup.rebuildTree)
       /\ Asked(d)
       /\ d = 0 \/ /\ Gpu(d).amd
                   /\ \/ Gpu(d).name = "GFX"
                      \/ /\ ~Gpu(d).preserve
                         /\ Cardinality(NamedBefore(d)) <= MaxExternalGfxIndex
       => wrapConfigRead(w, d) = Gpu(d).acpi
    /\ /\ Gpu(d).optOut
       /\ d = 0 \/ ~\E e \in Externals : Gpu(e).amd /\ Asked(e)
       => wrapConfigRead(w, d) = Gpu(d).real

\* The patches of the graphics policy are those of the first of boot
\* argument, external GPUs and IGPU that names any. If none does, or it says
\* "detect", they are the default for machines with an external GPU, which
\* is not applied to Macs nor to boards that do not need it.
PolicyAsPromised ==
  LET gpus == setup.externals \o (IF setup.builtin = None THEN <<>> ELSE <<setup.builtin>>)
      said == <<setup.agdpmod>> \o
                (IF setup.info THEN [k \in DOMAIN gpus |-> gpus[k].agdp] ELSE <<>>)
      first == {said[k] : k \in {k \in DOMAIN said :
                 said[k] # None /\ \A l \in 1..(k - 1) : said[l] = None}}
      detects == first = {} \/ \E ws \in first : "detect" \in ws
      named == {p \in Patches : \E ws \in first : p \in ws /\ "ignore" \notin ws}
      needed == setup.info /\ isGraphicsPolicyModRequired
  IN  pc = "running" =>
        graphicsDisplayPolicyMod \ {"SET"} =
          IF detects THEN (IF needed THEN {"vit9696", "pikera"} ELSE {}) ELSE named

\* AppleBacklight is patched if the first setting that is not "detect" says
\* so or, without one, on machines with an IGPU only; on Macs only on demand.
BacklightWanted ==
  LET decided == {d \in Devices : Gpu(d).applbkl \notin {None, "DETECT"}}
  IN  IF setup.apple THEN setup.applbkl = "ON"
      ELSE IF setup.applbkl \notin {None, "DETECT"} THEN setup.applbkl # "OFF"
      ELSE IF decided = {} THEN setup.builtin # None /\ setup.externals = <<>>
      ELSE \E d \in decided : /\ \A e \in decided : d <= e
                              /\ Gpu(d).applbkl # "OFF"

\* Kexts are registered before the properties are read. In the end exactly
\* those are left for which the decision was in favour, and no other kext is
\* patched.
ChoicesReachKexts ==
  pc = "running" /\ setup.info =>
    /\ patched \subseteq watched
    /\ "IOGraphics" \in watched <=> resetFramebuffer # "NONE"
    /\ "AGDPolicy" \in watched <=> graphicsDisplayPolicyMod \cap Patches # {}
    /\ "Backlight" \in watched <=> BacklightWanted

\* A framebuffer with memory never shows what was left in it. It shows the
\* boot image only in the mode of the boot image, and if the image was to be
\* kept and could be copied it does show it, however many framebuffers were
\* initialised before. The flag of a verbose boot is the user's again.
Shown(f) ==
  /\ picture[f] \notin {"garbage", "driver"}
  /\ picture[f] = "boot image" => setup.mode[f] = "same"
  /\ setup.mode[f] = "same" /\ consoleBuffer # None /\ ~setup.verbose =>
       picture[f] = "boot image"
  /\ setup.mode[f] = "same" /\ resetFramebuffer = "ZEROFILL" /\ setup.vinfo =>
       picture[f] = "black"

ScreensAsChosen ==
  call = None => /\ verboseBoot = setup.verbose
                 /\ \A f \in Framebuffers : setup.vram[f] /\ picture[f] # None => Shown(f)
=============================================================================
