------------------------ MODULE SubmoduleCoordinator ------------------------
(***************************************************************************)
(* How IGFX sets up its submodules.  init() selects the kexts of the CPU   *)
(* generation; processKernel() lets each of the 21 submodules, then each   *)
(* of the three shared ones, decide whether it is enabled; processKext()   *)
(* patches a kext that is loaded, this time the shared submodules first.   *)
(* A shared submodule that cannot be set up disables all that depend on    *)
(* it.  Submodules that inject code into the write function of the MMIO    *)
(* registers add descriptors to a linked list, in which the first          *)
(* descriptor with the register's address is used.                         *)
(*                                                                         *)
(* Lilu calls the handlers one at a time.  The framebuffer and the         *)
(* accelerator kext are loaded once each, the framebuffer one being the    *)
(* generation's first or its optional second choice.  A submodule that     *)
(* fails to patch a kext only logs that, which is left out.                *)
(***************************************************************************)
EXTENDS Integers, Sequences, FiniteSets

CONSTANTS Generations,    \* CPU generations the machine may have
          Chosen,         \* submodules the user may switch on or off
          GraphicsFirst   \* may the accelerator kext be loaded before the
                          \* framebuffer kext?

Null == "nullptr"

\* Mutated form of Submodules: the I2C-over-AUX support before LSPCON's.
SubmodulesSwapped ==
  <<"DVMTCalcFix", "DPCDMaxLinkRateFix", "CoreDisplayClockFix",
    "HDMIDividersCalcFix", "AdvancedI2COverAUXSupport", "LSPCONDriverSupport",
    "RPSControlPatch", "ForceWakeWorkaround", "ForceCompleteModeset",
    "ForceOnlineDisplay", "AGDCDisabler", "TypeCCheckDisabler",
    "BlackScreenFix", "PAVPDisabler", "ReadDescriptorPatch",
    "BacklightRegistersFix", "BacklightRegistersAltFix", "BacklightSmoother",
    "FramebufferDebugSupport", "MaxPixelClockOverride",
    "DisplayDataBufferEarlyOptimizer">>

\* The submodules in the order in which they are called.
Submodules ==
  <<"DVMTCalcFix", "DPCDMaxLinkRateFix", "CoreDisplayClockFix",
    "HDMIDividersCalcFix", "LSPCONDriverSupport", "AdvancedI2COverAUXSupport",
    "RPSControlPatch", "ForceWakeWorkaround", "ForceCompleteModeset",
    "ForceOnlineDisplay", "AGDCDisabler", "TypeCCheckDisabler",
    "BlackScreenFix", "PAVPDisabler", "ReadDescriptorPatch",
    "BacklightRegistersFix", "BacklightRegistersAltFix", "BacklightSmoother",
    "FramebufferDebugSupport", "MaxPixelClockOverride",
    "DisplayDataBufferEarlyOptimizer">>
SharedSubmodules == <<"FCA", "RRS", "RWS">>

Names == {Submodules[k] : k \in 1..Len(Submodules)}
Shared == {"FCA", "RRS", "RWS"}
Backlight == {"BacklightRegistersFix", "BacklightRegistersAltFix",
              "BacklightSmoother"}

\* requiresGlobalFramebufferControllersAccess, requiresMMIORegistersReadAccess
\* and requiresMMIORegistersWriteAccess
Users == [FCA |-> {"DPCDMaxLinkRateFix", "RPSControlPatch",
                   "ForceWakeWorkaround"},
          RRS |-> {"CoreDisplayClockFix", "RPSControlPatch",
                   "ForceWakeWorkaround"} \cup Backlight,
          RWS |-> {"ForceWakeWorkaround"} \cup Backlight]
Needs(s) == {h \in Shared : s \in Users[h]}

\* requiresPatchingGraphics, requiresPatchingFramebuffer
PatchesGraphics == {"RPSControlPatch", "ForceWakeWorkaround", "PAVPDisabler",
                    "ReadDescriptorPatch"}
PatchesFramebuffer == (Names \ PatchesGraphics) \cup {"RPSControlPatch"}

\* currentFramebuffer and currentFramebufferOpt
Framebuffers ==
  [Westmere |-> {"HDFb"}, SandyBridge |-> {"SNBFb"}, IvyBridge |-> {"CapriFb"},
   Haswell |-> {"AzulFb"}, Broadwell |-> {"BDWFb"}, Skylake |-> {"SKLFb"},
   SkylakeAsKabyLake |-> {"KBLFb"}, KabyLake |-> {"KBLFb"},
   CoffeeLake |-> {"CFLFb", "KBLFb"}, CannonLake |-> {"CNLFb"},
   IceLake |-> {"ICLLPFb", "ICLHPFb"}, CometLake |-> {"CFLFb", "KBLFb"}]

\* Submodules that init() enables, and those that it makes unavailable on a
\* generation (which release of macOS runs is left open).
Defaults(g) ==
  (IF g \in {"SkylakeAsKabyLake", "KabyLake", "CoffeeLake"}
   THEN {"ForceWakeWorkaround"} ELSE {})
  \cup (IF g \in {"SkylakeAsKabyLake", "KabyLake", "CoffeeLake", "CannonLake",
                  "CometLake"}
        THEN {"ForceCompleteModeset", "TypeCCheckDisabler"} ELSE {})
Unavailable(g) ==
  (IF g \in {"SkylakeAsKabyLake", "KabyLake", "CoffeeLake", "CometLake"}
   THEN {} ELSE {"RPSControlPatch"})
  \cup (IF g \in {"Skylake", "SkylakeAsKabyLake", "KabyLake", "CoffeeLake",
                  "CannonLake", "CometLake"}
        THEN {} ELSE {"ForceCompleteModeset", "TypeCCheckDisabler"})

\* The register functions are known for these framebuffers.
Supports(h, f) ==
  h = "FCA" \/ f \in {"CapriFb", "AzulFb", "BDWFb", "SKLFb", "KBLFb", "CFLFb",
                      "ICLLPFb"}

ASSUME GenerationsAssumption == Generations \subseteq DOMAIN Framebuffers
ASSUME ChosenAssumption == Chosen \subseteq Names \ {"ForceWakeWorkaround",
                                                     "AdvancedI2COverAUXSupport"}
ASSUME GraphicsFirstAssumption == GraphicsFirst \in BOOLEAN

-----------------------------------------------------------------------------
\* Injection descriptors: the submodule, and its member

Descriptors == {"BLR dKBLPWMFreq1", "BLR dKBLPWMCtrl1", "BLR dCFLPWMFreq1",
                "BLR dCFLPWMDuty1", "BLS dIVBPWMCCTRL", "BLS dHSWPWMFreq1",
                "BLS dCFLPWMDuty1"}
Registers == {"BLC_PWM_CPU_CTL", "BXT_BLC_PWM_FREQ1", "BXT_BLC_PWM_CTL1",
              "BXT_BLC_PWM_DUTY1"}

Trigger(d) ==
  CASE d = "BLS dIVBPWMCCTRL" -> "BLC_PWM_CPU_CTL"
    [] d = "BLR dKBLPWMCtrl1" -> "BXT_BLC_PWM_CTL1"
    [] d \in {"BLR dCFLPWMDuty1", "BLS dCFLPWMDuty1"} -> "BXT_BLC_PWM_DUTY1"
    [] OTHER -> "BXT_BLC_PWM_FREQ1"

\* What processFramebufferKext() of submodule s adds for framebuffer f.
Added(s, f) ==
  CASE s = "BacklightRegistersFix" /\ f = "KBLFb" ->
         <<"BLR dKBLPWMFreq1", "BLR dKBLPWMCtrl1">>
    [] s = "BacklightRegistersFix" /\ f \in {"CFLFb", "ICLLPFb"} ->
         <<"BLR dCFLPWMFreq1", "BLR dCFLPWMDuty1">>
    [] s = "BacklightSmoother" /\ f = "CapriFb" -> <<"BLS dIVBPWMCCTRL">>
    [] s = "BacklightSmoother" /\ f \in {"AzulFb", "BDWFb", "SKLFb", "KBLFb"} ->
         <<"BLS dHSWPWMFreq1">>
    [] s = "BacklightSmoother" /\ f \in {"CFLFb", "ICLLPFb"} ->
         <<"BLS dCFLPWMDuty1">>
    [] OTHER -> <<>>

EmptyList == [head |-> Null, tail |-> Null,
              next |-> [d \in Descriptors |-> Null]]

\* Mutated form of Add: the tail is not moved.
AddKeepsTail(l, d) ==
  [head |-> IF l.head = Null THEN d ELSE l.head,
   tail |-> IF l.head = Null THEN d ELSE l.tail,
   next |-> [e \in Descriptors |-> IF e = d THEN Null
                                   ELSE IF e = l.tail THEN d ELSE l.next[e]]]

\* InjectionDescriptorList::add
Add(l, d) ==
  [head |-> IF l.head = Null THEN d ELSE l.head,
   tail |-> d,
   next |-> [e \in Descriptors |-> IF l.head # Null /\ e = l.tail THEN d
                                   ELSE IF e = d THEN Null ELSE l.next[e]]]

AddAll(l, ds) == IF Len(ds) = 0 THEN l
                 ELSE IF Len(ds) = 1 THEN Add(l, ds[1])
                 ELSE Add(Add(l, ds[1]), ds[2])

\* The list's n-th descriptor, or Null behind its end.
Item(l) ==
  LET item[n \in 1..(Cardinality(Descriptors) + 1)] ==
        IF n = 1 THEN l.head
        ELSE IF item[n - 1] = Null THEN Null ELSE l.next[item[n - 1]]
  IN  item

\* The descriptor that wrapWriteRegister32 finds for register r; Null when it
\* calls the original function.
getInjector(l, r) ==
  LET hits == {n \in 1..Cardinality(Descriptors) :
                 Item(l)[n] # Null /\ Trigger(Item(l)[n]) = r}
  IN  IF hits = {} THEN Null
      ELSE Item(l)[CHOOSE n \in hits : \A k \in hits : n <= k]

-----------------------------------------------------------------------------
VARIABLES generation,
          usable,       \* is there a supported integrated GPU?
          pc, index,    \* the handler, and the submodule it calls next
          enabled,      \* submodules, shared ones too, that are enabled
          off,          \* kexts that are not to be patched
          framebuffer,  \* the framebuffer kext that is loaded, or Null
          graphics,     \* is the accelerator kext loaded?
          called,       \* submodules whose process*Kext was called, by kext
          served,       \* shared submodules that are set up
          replacerList  \* of modMMIORegistersWriteSupport

machine == <<generation, usable>>
loaded == <<framebuffer, graphics>>
vars == <<generation, usable, pc, index, enabled, off, framebuffer, graphics,
          called, served, replacerList>>

\* IGFX::init
Init == /\ generation \in Generations /\ usable \in BOOLEAN
        /\ pc = "submodules" /\ index = 1
        /\ enabled = Defaults(generation)
        /\ off = {}
        /\ framebuffer = Null /\ graphics = FALSE
        /\ called = {} /\ served = {}
        /\ replacerList = EmptyList

Goto(label) == pc' = label /\ index' = 1

\* What submodule s decides: most follow the user, who is free;
\* ForceWakeWorkaround decides nothing.
Decisions(s) ==
  IF s = "AdvancedI2COverAUXSupport"
  THEN IF "LSPCONDriverSupport" \in enabled THEN {TRUE} ELSE BOOLEAN
  ELSE IF s \in Chosen \ Unavailable(generation) THEN BOOLEAN
  ELSE {s \in enabled}

\* processKernel of the next submodule ...
ProcessKernel ==
  /\ pc = "submodules" /\ usable /\ index <= Len(Submodules)
  /\ \E on \in Decisions(Submodules[index]) :
       enabled' = IF on THEN enabled \cup {Submodules[index]}
                        ELSE enabled \ {Submodules[index]}
  /\ index' = index + 1
  /\ UNCHANGED <<machine, pc, off, loaded, called, served, replacerList>>

\* ... and of the shared ones, which are needed, or wanted for their log.
ProcessKernelShared ==
  /\ pc = "submodules" /\ usable /\ index > Len(Submodules)
  /\ \E verbose \in SUBSET {"RRS", "RWS"} :
       /\ verbose \in {{}, {"RRS", "RWS"}}
       /\ enabled' = enabled \cup verbose
                       \cup {h \in Shared : Users[h] \cap enabled # {}}
  /\ Goto("switch")
  /\ UNCHANGED <<machine, off, loaded, called, served, replacerList>>

\* Mutated form of Required: only what is enabled counts.
RequiredByEnabled(patches) == enabled \cap patches # {}

\* Does a submodule require the kext?  Whether it is enabled is not asked.
Required(patches) == Names \cap patches # {}

\* Kexts with nothing to do are switched off; IGFX itself may have something.
SwitchOff ==
  /\ pc = "switch" \/ (pc = "submodules" /\ ~usable)
  /\ IF ~usable
     THEN off' = {"graphics", "framebuffer"}
     ELSE \E own \in SUBSET {"graphics", "framebuffer"} :
            off' = {k \in {"graphics", "framebuffer"} \ own :
                      ~Required(IF k = "graphics" THEN PatchesGraphics
                                ELSE PatchesFramebuffer)}
  /\ Goto("kexts")
  /\ UNCHANGED <<machine, enabled, loaded, called, served, replacerList>>

\* The framebuffer kext is loaded.
LoadFramebuffer ==
  /\ pc = "kexts" /\ framebuffer = Null
  /\ framebuffer' \in Framebuffers[generation]
  /\ IF "framebuffer" \in off THEN UNCHANGED <<pc, index>>
                              ELSE Goto("framebufferShared")
  /\ UNCHANGED <<machine, enabled, off, graphics, called, served, replacerList>>

\* Mutated form of disableDependentSubmodules: nothing is disabled.
disableDependentSubmodulesNone(h) == enabled

disableDependentSubmodules(h) == enabled \ Users[h]

\* processFramebufferKext of the next shared submodule: it is set up, or fails
\* and disables its users; it remains enabled itself.
ProcessFramebufferShared ==
  /\ pc = "framebufferShared" /\ index <= Len(SharedSubmodules)
  /\ LET h == SharedSubmodules[index]
     IN  IF h \notin enabled
         THEN UNCHANGED <<enabled, served>>
         ELSE \/ /\ Supports(h, framebuffer)
                 /\ served' = served \cup {h}
                 /\ UNCHANGED enabled
              \/ /\ enabled' = disableDependentSubmodules(h)
                 /\ UNCHANGED served
  /\ IF index = Len(SharedSubmodules) THEN Goto("framebufferSubmodules")
     ELSE index' = index + 1 /\ UNCHANGED pc
  /\ UNCHANGED <<machine, off, loaded, called, replacerList>>

\* processFramebufferKext of the next submodule, if it is enabled.
ProcessFramebuffer ==
  /\ pc = "framebufferSubmodules"
  /\ LET s == Submodules[index]
     IN  IF s \in enabled
         THEN /\ called' = called \cup {<<s, "framebuffer">>}
              /\ replacerList' = AddAll(replacerList, Added(s, framebuffer))
         ELSE UNCHANGED <<called, replacerList>>
  /\ IF index = Len(Submodules) THEN Goto("kexts")
     ELSE index' = index + 1 /\ UNCHANGED pc
  /\ UNCHANGED <<machine, enabled, off, loaded, served>>

\* The accelerator kext is loaded; only the submodules that patch it do
\* anything.
LoadGraphics ==
  /\ pc = "kexts" /\ ~graphics
  /\ GraphicsFirst \/ framebuffer # Null
  /\ graphics' = TRUE
  /\ called' = IF "graphics" \in off THEN called
               ELSE called \cup {<<s, "graphics">> :
                                s \in enabled \cap PatchesGraphics}
  /\ UNCHANGED <<machine, pc, index, enabled, off, framebuffer, served,
                 replacerList>>

processKernel == ProcessKernel \/ ProcessKernelShared \/ SwitchOff
processKext == \/ LoadFramebuffer \/ ProcessFramebufferShared
               \/ ProcessFramebuffer \/ LoadGraphics

Next == processKernel \/ processKext

Spec == Init /\ [][Next]_vars

-----------------------------------------------------------------------------
\* Properties

\* Indices stay inside the tables, and the list of injections has a head
\* exactly when it has a tail.
TypeOK ==
  /\ generation \in Generations /\ usable \in BOOLEAN
  /\ pc \in {"submodules", "switch", "kexts", "framebufferShared",
             "framebufferSubmodules"}
  /\ index \in 1..(Len(Submodules) + 1)
  /\ enabled \subseteq Names \cup Shared
  /\ off \subseteq {"graphics", "framebuffer"}
  /\ framebuffer \in Framebuffers[generation] \cup {Null}
  /\ graphics \in BOOLEAN
  /\ called \subseteq Names \X {"graphics", "framebuffer"}
  /\ served \subseteq Shared
  /\ replacerList.next \in [Descriptors -> Descriptors \cup {Null}]
  /\ replacerList.head \in Descriptors \cup {Null}
  /\ replacerList.tail \in Descriptors \cup {Null}
  /\ (replacerList.head = Null) = (replacerList.tail = Null)

\* A submodule patches the framebuffer driver only when everything it relies
\* on has been set up in that driver ("If a shared submodule fails to process
\* the framebuffer driver, all submodules that depend on it will be disabled
\* automatically", kern_igfx.cpp:365-367): its functions call the register
\* functions and use the controllers without a check.
FramebufferServed ==
  \A s \in Names : <<s, "framebuffer">> \in called => Needs(s) \subseteq served

\* The same for the accelerator driver, whose patched functions run when both
\* drivers do: also that the framebuffer kext is not switched off while they
\* need it.
AcceleratorServed ==
  framebuffer # Null /\ pc = "kexts" =>
    \A s \in Names : <<s, "graphics">> \in called => Needs(s) \subseteq served

\* The LSPCON driver always finds the I2C-over-AUX support it calls, although
\* they decide one after the other (kern_igfx_i2c_aux.cpp:19-20).
LSPCONServed ==
  pc \notin {"submodules"} /\ "LSPCONDriverSupport" \in enabled =>
    "AdvancedI2COverAUXSupport" \in enabled

\* The search for an injector comes to an end, and every write of a PWM
\* register reaches the function that is meant for the driver that is loaded:
\* BLR's when it supports the driver, else the smoother's, else the original
\* one ("first come, first served", kern_igfx.hpp:434: the smoother is only
\* called by BLR for a register both inject into).
Meant(r) ==
  LET by(s) == IF s \notin enabled THEN {}
               ELSE {d \in {Added(s, framebuffer)[k] :
                              k \in 1..Len(Added(s, framebuffer))} :
                       Trigger(d) = r}
  IN  IF by("BacklightRegistersFix") # {} THEN by("BacklightRegistersFix")
      ELSE by("BacklightSmoother")

InjectionsFollowDriver ==
  framebuffer # Null /\ pc = "kexts" /\ "framebuffer" \notin off =>
    /\ Item(replacerList)[Cardinality(Descriptors) + 1] = Null
    /\ \A r \in Registers :
         IF Meant(r) = {} THEN getInjector(replacerList, r) = Null
         ELSE getInjector(replacerList, r) \in Meant(r)
=============================================================================
