--------------------- MODULE SubmoduleCoordinatorProofs ---------------------
(***************************************************************************)
(* For every set of generations and every choice of the user: when the     *)
(* framebuffer kext is loaded before the accelerator kext, no submodule    *)
(* uses a shared one that was not set up; and in any order the LSPCON      *)
(* driver finds its support, and a write of a register the injection that  *)
(* is meant for the driver.                                                *)
(***************************************************************************)
EXTENDS SubmoduleCoordinator, FiniteSetTheorems, SequenceTheorems, TLAPS

\* Every shared submodule in S is set up or has no enabled user.
Settled(S) == \A h \in S : h \in served \/ Users[h] \cap enabled = {}

\* A shared submodule is enabled when one of its users is.
SharedOn == \A h \in Shared : Users[h] \cap enabled # {} => h \in enabled

\* Nothing has been loaded, called or set up.
Fresh == framebuffer = Null /\ ~graphics /\ called = {} /\ served = {}

Decided == /\ pc \in {"submodules", "switch"} => Fresh /\ off = {}
           /\ pc \notin {"submodules", "switch"} =>
                off \in {{}, {"graphics", "framebuffer"}}

Ready == /\ pc = "switch" => SharedOn
         /\ pc \notin {"submodules", "switch"} /\ off = {} => SharedOn

\* Before the framebuffer kext has been processed nothing is called.
Before == /\ pc = "kexts" /\ framebuffer = Null => Fresh
          /\ pc = "framebufferShared" => /\ framebuffer # Null /\ ~graphics
                                         /\ called = {} /\ off = {}
          /\ pc = "framebufferSubmodules" => framebuffer # Null /\ off = {}

\* How far the shared submodules have been set up.
Progress ==
  /\ pc = "framebufferShared" =>
       /\ index \in 1..3
       /\ Settled({SharedSubmodules[k] : k \in 1..(index - 1)})
  /\ pc = "framebufferSubmodules" => Settled(Shared)
  /\ pc = "kexts" /\ framebuffer # Null /\ off = {} => Settled(Shared)

CalledEnabled ==
  /\ off # {} => called = {}
  /\ \A s \in Names, k \in {"graphics", "framebuffer"} :
       <<s, k>> \in called => s \in enabled

Control == /\ pc \in {"submodules", "switch", "kexts", "framebufferShared",
                      "framebufferSubmodules"}
           /\ framebuffer \in {Null, "HDFb", "SNBFb", "CapriFb", "AzulFb",
                               "BDWFb", "SKLFb", "KBLFb", "CFLFb", "CNLFb",
                               "ICLLPFb", "ICLHPFb"}
           /\ graphics \in BOOLEAN
           /\ generation \in DOMAIN Framebuffers

IInv == Control /\ Decided /\ Ready /\ Before /\ Progress /\ CalledEnabled

\* What a submodule needs is set up when nothing is left to be disabled.
LEMMA SettledServes ==
  ASSUME Settled(Shared), NEW s \in enabled PROVE Needs(s) \subseteq served
BY DEF Settled, Needs

\* The framebuffer kext of any generation is one of twelve.
LEMMA LoadedFramebuffer ==
  ASSUME NEW g \in DOMAIN Framebuffers, NEW f \in Framebuffers[g]
  PROVE  f \in {"HDFb", "SNBFb", "CapriFb", "AzulFb", "BDWFb", "SKLFb", "KBLFb",
                "CFLFb", "CNLFb", "ICLLPFb", "ICLHPFb"}
BY DEF Framebuffers

\* Some submodule always patches each kext.
LEMMA AlwaysRequired == Required(PatchesGraphics) /\ Required(PatchesFramebuffer)
<1>1. Submodules[7] = "RPSControlPatch" /\ 7 \in 1..Len(Submodules)
  BY DEF Submodules
<1>2. "RPSControlPatch" \in Names
  BY <1>1 DEF Names
<1>3. QED
  BY <1>2 DEF Required, PatchesGraphics, PatchesFramebuffer

\* The invariant holds after IGFX::init.
LEMMA InitInv == Init => IInv
BY GenerationsAssumption
   DEF Init, IInv, Control, Decided, Ready, Before, Progress, CalledEnabled,
       Fresh

\* The decisions of processKernel keep the invariant.
LEMMA KernelInv == ASSUME IInv, processKernel PROVE IInv'
<1>1. CASE ProcessKernel
  BY <1>1 DEF ProcessKernel, IInv, Control, Decided, Ready, Before, Progress,
              CalledEnabled, Fresh, machine, loaded
<1>2. CASE ProcessKernelShared
  <2>1. PICK verbose \in SUBSET {"RRS", "RWS"} :
          enabled' = enabled \cup verbose
                       \cup {h \in Shared : Users[h] \cap enabled # {}}
    BY <1>2 DEF ProcessKernelShared
  <2>2. \A h \in Shared : Users[h] \cap Shared = {}
    BY DEF Users, Shared, Backlight
  <2>3. enabled' \subseteq enabled \cup Shared
    BY <2>1 DEF Shared
  <2>4. SharedOn'
    BY <2>1, <2>2, <2>3 DEF SharedOn
  <2>5. QED
    BY <1>2, <2>4 DEF ProcessKernelShared, Goto, IInv, Control, Decided, Ready,
                      Before, Progress, CalledEnabled, Fresh, machine, loaded
<1>3. CASE SwitchOff
  <2>1. off' \in {{}, {"graphics", "framebuffer"}}
    BY <1>3, AlwaysRequired DEF SwitchOff
  <2>2. off' = {} => pc = "switch"
    BY <1>3, AlwaysRequired DEF SwitchOff
  <2>3. pc \in {"submodules", "switch"}
    BY <1>3 DEF SwitchOff
  <2>4. Fresh /\ Fresh'
    BY <1>3, <2>3 DEF SwitchOff, IInv, Decided, Fresh, loaded
  <2>5. off' = {} => SharedOn'
    BY <1>3, <2>2 DEF SwitchOff, IInv, Ready, SharedOn
  <2>6. pc' = "kexts"
    BY <1>3 DEF SwitchOff, Goto
  <2>7. QED
    BY <1>3, <2>1, <2>4, <2>5, <2>6
       DEF SwitchOff, IInv, Control, Decided, Ready, Before, Progress,
           CalledEnabled, Fresh, machine, loaded
<1>4. QED
  BY <1>1, <1>2, <1>3 DEF processKernel

\* Loading the framebuffer kext starts with nothing set up.
LEMMA LoadFramebufferInv == ASSUME IInv, LoadFramebuffer PROVE IInv'
<1>1. Fresh
  BY DEF IInv, Before, LoadFramebuffer
<1>2. framebuffer' # Null /\ Control'
  <2>1. framebuffer' \in {"HDFb", "SNBFb", "CapriFb", "AzulFb", "BDWFb", "SKLFb",
                          "KBLFb", "CFLFb", "CNLFb", "ICLLPFb", "ICLHPFb"}
    BY LoadedFramebuffer DEF IInv, Control, LoadFramebuffer
  <2>2. QED
    BY <2>1 DEF LoadFramebuffer, IInv, Control, Goto, machine, Null
<1>3. CASE "framebuffer" \in off
  BY <1>1, <1>2, <1>3 DEF LoadFramebuffer, IInv, Decided, Ready, Before, SharedOn,
                          Progress, CalledEnabled, Fresh, machine
<1>4. CASE "framebuffer" \notin off
  <2>1. off = {}
    BY <1>4 DEF LoadFramebuffer, IInv, Decided
  <2>2. pc' = "framebufferShared" /\ index' = 1
    BY <1>4 DEF LoadFramebuffer, Goto
  <2>3. Progress'
    BY <2>2 DEF Progress, Settled
  <2>4. QED
    BY <1>1, <1>2, <2>1, <2>2, <2>3
       DEF LoadFramebuffer, IInv, Decided, Ready, Before, SharedOn,
           CalledEnabled, Fresh, machine
<1>5. QED
  BY <1>3, <1>4

\* A shared submodule is set up, or its users are disabled.
LEMMA SharedInv == ASSUME IInv, ProcessFramebufferShared PROVE IInv'
<1> DEFINE h == SharedSubmodules[index]
<1>1. index \in 1..3 /\ h \in Shared /\ off = {} /\ framebuffer # Null
  BY DEF IInv, Progress, Before, ProcessFramebufferShared, SharedSubmodules,
         Shared
<1>2. enabled' \subseteq enabled /\ served \subseteq served'
  BY DEF ProcessFramebufferShared, disableDependentSubmodules
<1>3. \A x \in Shared : x \in enabled => x \in enabled'
  <2>1. \A x \in Shared : Users[x] \cap Shared = {}
    BY DEF Users, Shared, Backlight
  <2>2. QED
    BY <1>1, <2>1 DEF ProcessFramebufferShared, disableDependentSubmodules
<1>4. SharedOn /\ SharedOn'
  BY <1>1, <1>2, <1>3 DEF IInv, Ready, SharedOn, ProcessFramebufferShared
<1>5. h \in served' \/ Users[h] \cap enabled' = {}
  BY <1>1, <1>4 DEF ProcessFramebufferShared, disableDependentSubmodules,
                    SharedOn
<1>6. \A k \in 1..index : \/ SharedSubmodules[k] \in served'
                          \/ Users[SharedSubmodules[k]] \cap enabled' = {}
  <2>1. SUFFICES ASSUME NEW k \in 1..index
                 PROVE  \/ SharedSubmodules[k] \in served'
                        \/ Users[SharedSubmodules[k]] \cap enabled' = {}
    OBVIOUS
  <2>2. CASE k = index
    BY <1>5, <2>2
  <2>3. CASE k # index
    <3>1. k \in 1..(index - 1)
      BY <1>1, <2>3
    <3>2. \/ SharedSubmodules[k] \in served
          \/ Users[SharedSubmodules[k]] \cap enabled = {}
      BY <3>1 DEF IInv, Progress, Settled, ProcessFramebufferShared
    <3>3. QED
      BY <3>2, <1>2
  <2>4. QED
    BY <2>2, <2>3
<1>7. Progress'
  <2>1. CASE index = 3
    <3>1. \A x \in Shared : \E k \in 1..index : x = SharedSubmodules[k]
      <4>1. /\ SharedSubmodules[1] = "FCA" /\ SharedSubmodules[2] = "RRS"
            /\ SharedSubmodules[3] = "RWS"
        BY DEF SharedSubmodules
      <4>2. 1 \in 1..index /\ 2 \in 1..index /\ 3 \in 1..index
        BY <2>1
      <4>3. QED
        BY <4>1, <4>2 DEF Shared
    <3>2. Settled(Shared)'
      BY <1>6, <3>1 DEF Settled
    <3>3. pc' = "framebufferSubmodules"
      BY <2>1 DEF ProcessFramebufferShared, Goto, SharedSubmodules
    <3>4. QED
      BY <3>2, <3>3 DEF Progress
  <2>2. CASE index # 3
    <3>1. index' = index + 1 /\ pc' = "framebufferShared"
      BY <1>1, <2>2 DEF ProcessFramebufferShared, SharedSubmodules
    <3>2. index' \in 1..3 /\ index' - 1 = index
      BY <1>1, <2>2, <3>1
    <3>3. \A k \in 1..(index' - 1) :
            \/ SharedSubmodules[k] \in served'
            \/ Users[SharedSubmodules[k]] \cap enabled' = {}
      BY <1>6, <3>2
    <3>4. QED
      BY <3>1, <3>2, <3>3 DEF Progress, Settled
  <2>3. QED
    BY <2>1, <2>2
<1>8. pc' \in {"framebufferShared", "framebufferSubmodules"}
  BY DEF ProcessFramebufferShared, Goto
<1>9. QED
  BY <1>1, <1>4, <1>7, <1>8
     DEF ProcessFramebufferShared, IInv, Control, Decided, Ready, Before,
         CalledEnabled, Fresh, machine, loaded

\* Only enabled submodules are called.
LEMMA FramebufferInv == ASSUME IInv, ProcessFramebuffer PROVE IInv'
<1>1. off = {} /\ framebuffer # Null /\ Settled(Shared) /\ SharedOn
  BY DEF IInv, Ready, Before, Progress, ProcessFramebuffer
<1>2. pc' \in {"framebufferSubmodules", "kexts"}
  BY DEF ProcessFramebuffer, Goto
<1>3. Settled(Shared)' /\ SharedOn'
  BY <1>1 DEF ProcessFramebuffer, Settled, SharedOn
<1>4. \A s \in Names, k \in {"graphics", "framebuffer"} :
        <<s, k>> \in called' => s \in enabled'
  <2>1. SUFFICES ASSUME NEW s \in Names, NEW k \in {"graphics", "framebuffer"},
                        <<s, k>> \in called'
                 PROVE  s \in enabled
    BY DEF ProcessFramebuffer
  <2>2. \/ <<s, k>> \in called
        \/ Submodules[index] \in enabled /\ s = Submodules[index]
    BY <2>1 DEF ProcessFramebuffer
  <2>3. QED
    BY <2>2 DEF IInv, CalledEnabled
<1>5. QED
  BY <1>1, <1>2, <1>3, <1>4
     DEF ProcessFramebuffer, IInv, Control, Decided, Ready, Before, Progress,
         CalledEnabled, machine, loaded

\* The accelerator kext comes when the shared submodules are settled.
LEMMA GraphicsInv == ASSUME ~GraphicsFirst, IInv, LoadGraphics PROVE IInv'
<1>1. framebuffer # Null
  BY DEF LoadGraphics
<1>2. \A s \in Names, k \in {"graphics", "framebuffer"} :
        <<s, k>> \in called' => s \in enabled'
  BY DEF IInv, CalledEnabled, LoadGraphics
<1>3. off' # {} => called' = {}
  BY DEF IInv, CalledEnabled, Decided, LoadGraphics
<1>4. QED
  BY <1>1, <1>2, <1>3
     DEF LoadGraphics, IInv, Control, Decided, Ready, Before, Progress, SharedOn,
         Settled, CalledEnabled, machine

\* No step leaves the invariant.
LEMMA NextInv == ASSUME ~GraphicsFirst, IInv, [Next]_vars PROVE IInv'
<1>1. CASE processKernel
  BY <1>1, KernelInv
<1>2. CASE processKext
  BY <1>2, LoadFramebufferInv, SharedInv, FramebufferInv, GraphicsInv
     DEF processKext
<1>3. CASE UNCHANGED vars
  BY <1>3 DEF vars, IInv, Control, Decided, Ready, Before, Progress, Settled,
              SharedOn, CalledEnabled, Fresh
<1>4. QED
  BY <1>1, <1>2, <1>3 DEF Next

\* The inductive invariant.
THEOREM InductiveInvariant == ASSUME ~GraphicsFirst PROVE Spec => []IInv
<1>1. IInv /\ [Next]_vars => IInv'
  BY NextInv
<1>2. QED
  BY InitInv, <1>1, PTL DEF Spec

\* While the framebuffer driver is patched, everything a patching submodule
\* needs has been set up.
LEMMA InvFramebufferServed == IInv => FramebufferServed
<1> SUFFICES ASSUME IInv, NEW s \in Names, <<s, "framebuffer">> \in called
             PROVE  Needs(s) \subseteq served
  BY DEF FramebufferServed
<1>1. s \in enabled /\ off = {}
  BY DEF IInv, CalledEnabled
<1>2. Settled(Shared)
  BY <1>1 DEF IInv, Control, Decided, Before, Progress, Fresh
<1>3. QED
  BY <1>1, <1>2, SettledServes

\* The invariant implies the property.
LEMMA InvAcceleratorServed == IInv => AcceleratorServed
<1> SUFFICES ASSUME IInv, framebuffer # Null, pc = "kexts",
                    NEW s \in Names, <<s, "graphics">> \in called
             PROVE  Needs(s) \subseteq served
  BY DEF AcceleratorServed
<1>1. s \in enabled /\ off = {}
  BY DEF IInv, CalledEnabled
<1>2. Settled(Shared)
  BY <1>1 DEF IInv, Progress
<1>3. QED
  BY <1>1, <1>2, SettledServes

\* No function that is patched into the framebuffer driver uses registers or
\* controllers that were not found.
THEOREM FramebufferIsServed ==
  ASSUME ~GraphicsFirst PROVE Spec => []FramebufferServed
<1>1. Spec => []IInv
  BY InductiveInvariant
<1>2. QED
  BY <1>1, InvFramebufferServed, PTL

\* Nor does one that is patched into the accelerator driver, provided that the
\* framebuffer kext is loaded first.
THEOREM AcceleratorIsServed ==
  ASSUME ~GraphicsFirst PROVE Spec => []AcceleratorServed
<1>1. Spec => []IInv
  BY InductiveInvariant
<1>2. QED
  BY <1>1, InvAcceleratorServed, PTL

-----------------------------------------------------------------------------
\* The LSPCON driver decides before the I2C-over-AUX support does, which then
\* looks at the decision; an unusable GPU lets neither decide.
LSPCONDecided ==
  /\ index \in Nat \ {0}
  /\ pc = "submodules" /\ ~usable => index = 1
  /\ "LSPCONDriverSupport" \in enabled => pc # "submodules" \/ index > 5
  /\ "LSPCONDriverSupport" \in enabled /\ (pc # "submodules" \/ index > 6) =>
       "AdvancedI2COverAUXSupport" \in enabled

\* Where the two are in the table.
LEMMA OrderOfSubmodules ==
  /\ Len(Submodules) = 21
  /\ \A k \in 1..21 : /\ Submodules[k] = "LSPCONDriverSupport" <=> k = 5
                      /\ Submodules[k] = "AdvancedI2COverAUXSupport" <=> k = 6
  BY DEF Submodules

\* Neither is a shared submodule or a user of one.
LEMMA NoUsers ==
  /\ "LSPCONDriverSupport" \notin Shared
  /\ "LSPCONDriverSupport" \notin {"RRS", "RWS"}
  /\ \A h \in Shared : "AdvancedI2COverAUXSupport" \notin Users[h]
  BY DEF Shared, Users, Backlight

\* The order is kept by every step.
LEMMA LSPCONInv == ASSUME LSPCONDecided, [Next]_vars PROVE LSPCONDecided'
<1>1. CASE ProcessKernel
  <2>1. index \in 1..21
    BY <1>1, OrderOfSubmodules DEF ProcessKernel, LSPCONDecided
  <2>2. /\ pc = "submodules" /\ pc' = pc /\ usable /\ usable' = usable
        /\ index' = index + 1 /\ index <= 21
    BY <1>1, OrderOfSubmodules DEF ProcessKernel, machine
  <2>3. PICK on \in Decisions(Submodules[index]) :
          enabled' = IF on THEN enabled \cup {Submodules[index]}
                           ELSE enabled \ {Submodules[index]}
    BY <1>1 DEF ProcessKernel
  <2>4. CASE index \notin {5, 6}
    <3>1. Submodules[index] \notin {"LSPCONDriverSupport",
                                   "AdvancedI2COverAUXSupport"}
      BY <2>1, <2>4, OrderOfSubmodules
    <3>2. /\ "LSPCONDriverSupport" \in enabled' <=> "LSPCONDriverSupport" \in enabled
          /\ "AdvancedI2COverAUXSupport" \in enabled' <=>
               "AdvancedI2COverAUXSupport" \in enabled
      BY <2>3, <3>1
    <3>3. QED
      BY <2>1, <2>2, <2>4, <3>2 DEF LSPCONDecided
  <2>5. CASE index = 5
    BY <2>1, <2>2, <2>5 DEF LSPCONDecided
  <2>6. CASE index = 6
    <3>1. Submodules[index] = "AdvancedI2COverAUXSupport"
      BY <2>1, <2>6, OrderOfSubmodules
    <3>2. "LSPCONDriverSupport" \in enabled' =>
            "AdvancedI2COverAUXSupport" \in enabled'
      BY <2>3, <3>1 DEF Decisions
    <3>3. QED
      BY <2>1, <2>2, <2>6, <3>2 DEF LSPCONDecided
  <2>7. QED
    BY <2>1, <2>4, <2>5, <2>6
<1>2. CASE ProcessKernelShared
  <2>1. /\ "LSPCONDriverSupport" \in enabled' => "LSPCONDriverSupport" \in enabled
        /\ enabled \subseteq enabled'
    BY <1>2, NoUsers DEF ProcessKernelShared
  <2>2. /\ pc = "submodules" /\ index > 21 /\ pc' = "switch" /\ index' = 1
    BY <1>2, OrderOfSubmodules DEF ProcessKernelShared, Goto
  <2>3. QED
    BY <2>1, <2>2 DEF LSPCONDecided
<1>3. CASE SwitchOff
  BY <1>3 DEF SwitchOff, Goto, LSPCONDecided
<1>4. CASE LoadFramebuffer \/ ProcessFramebuffer \/ LoadGraphics
  BY <1>4 DEF LoadFramebuffer, ProcessFramebuffer, LoadGraphics, Goto, LSPCONDecided
<1>5. CASE ProcessFramebufferShared
  <2>1. \/ enabled' = enabled
        \/ \E h \in Shared : enabled' = enabled \ Users[h]
    <3>1. index \in 1..3
      BY <1>5 DEF ProcessFramebufferShared, LSPCONDecided, SharedSubmodules
    <3>2. SharedSubmodules[index] \in Shared
      BY <3>1 DEF SharedSubmodules, Shared
    <3>3. QED
      BY <1>5, <3>2
         DEF ProcessFramebufferShared, disableDependentSubmodules
  <2>2. pc' # "submodules" /\ pc # "submodules" /\ index' \in Nat \ {0}
    BY <1>5 DEF ProcessFramebufferShared, Goto, LSPCONDecided
  <2>3. QED
    BY <2>1, <2>2, NoUsers DEF LSPCONDecided
<1>6. CASE UNCHANGED vars
  BY <1>6 DEF vars, machine, LSPCONDecided
<1>7. QED
  BY <1>1, <1>2, <1>3, <1>4, <1>5, <1>6 DEF Next, processKernel, processKext

\* On every machine, an enabled LSPCON driver finds the I2C-over-AUX support.
THEOREM LSPCONIsServed == Spec => []LSPCONServed
<1>1. Init => LSPCONDecided
  <2>1. \A g : "LSPCONDriverSupport" \notin Defaults(g)
    BY DEF Defaults
  <2>2. QED
    BY <2>1 DEF Init, LSPCONDecided
<1>2. LSPCONDecided /\ [Next]_vars => LSPCONDecided'
  BY LSPCONInv
<1>3. LSPCONDecided => LSPCONServed
  BY DEF LSPCONDecided, LSPCONServed
<1>4. QED
  BY <1>1, <1>2, <1>3, PTL DEF Spec
-----------------------------------------------------------------------------
\* The list of injections.

\* A finite set with one more element.
LEMMA OneMore ==
  ASSUME NEW S, NEW c \in Nat, IsFiniteSet(S), Cardinality(S) = c,
         NEW x, x \notin S, NEW T, T = S \cup {x}, NEW d, d = c + 1
  PROVE  IsFiniteSet(T) /\ Cardinality(T) = d
<1>1. /\ IsFiniteSet(S \cup {x})
      /\ Cardinality(S \cup {x}) = IF x \in S THEN Cardinality(S)
                                              ELSE Cardinality(S) + 1
  BY FS_AddElement
<1>2. QED
  BY <1>1

\* The list can hold seven descriptors.
LEMMA SevenDescriptors == Cardinality(Descriptors) = 7
<1> DEFINE a == "BLR dKBLPWMFreq1"
           b == "BLR dKBLPWMCtrl1"
           c == "BLR dCFLPWMFreq1"
           d == "BLR dCFLPWMDuty1"
           e == "BLS dIVBPWMCCTRL"
           f == "BLS dHSWPWMFreq1"
           g == "BLS dCFLPWMDuty1"
<1>1. /\ b # a /\ c \notin {a, b} /\ d \notin {a, b, c} /\ e \notin {a, b, c, d}
      /\ f \notin {a, b, c, d, e} /\ g \notin {a, b, c, d, e, f}
  OBVIOUS
<1>2. Descriptors = {a, b, c, d, e, f, g}
  BY DEF Descriptors
<1> HIDE DEF a, b, c, d, e, f, g
<1>3. 1 + 1 = 2 /\ 2 + 1 = 3 /\ 3 + 1 = 4 /\ 4 + 1 = 5 /\ 5 + 1 = 6 /\ 6 + 1 = 7
  OBVIOUS
<1>4. IsFiniteSet({a}) /\ Cardinality({a}) = 1
  BY FS_Singleton
<1>5. IsFiniteSet({a, b}) /\ Cardinality({a, b}) = 2
  <2>1. {a, b} = {a} \cup {b} /\ b \notin {a}
    BY <1>1
  <2>2. QED
    BY <1>1, <1>3, <1>4, <2>1, OneMore
<1>6. IsFiniteSet({a, b, c}) /\ Cardinality({a, b, c}) = 3
  <2>1. {a, b, c} = {a, b} \cup {c}
    OBVIOUS
  <2>2. QED
    BY <1>1, <1>3, <1>5, <2>1, OneMore
<1>7. IsFiniteSet({a, b, c, d}) /\ Cardinality({a, b, c, d}) = 4
  <2>1. {a, b, c, d} = {a, b, c} \cup {d}
    OBVIOUS
  <2>2. QED
    BY <1>1, <1>3, <1>6, <2>1, OneMore
<1>8. IsFiniteSet({a, b, c, d, e}) /\ Cardinality({a, b, c, d, e}) = 5
  <2>1. {a, b, c, d, e} = {a, b, c, d} \cup {e}
    OBVIOUS
  <2>2. QED
    BY <1>1, <1>3, <1>7, <2>1, OneMore
<1>9. IsFiniteSet({a, b, c, d, e, f}) /\ Cardinality({a, b, c, d, e, f}) = 6
  <2>1. {a, b, c, d, e, f} = {a, b, c, d, e} \cup {f}
    OBVIOUS
  <2>2. QED
    BY <1>1, <1>3, <1>8, <2>1, OneMore
<1>10. {a, b, c, d, e, f, g} = {a, b, c, d, e, f} \cup {g}
  OBVIOUS
<1>11. QED
  BY <1>1, <1>2, <1>3, <1>9, <1>10, OneMore

\* The list l holds the descriptors of s, in this order.
Chain(l, s) ==
  /\ s \in Seq(Descriptors) /\ Len(s) <= 7
  /\ \A j, k \in 1..Len(s) : s[j] = s[k] => j = k
  /\ l.next \in [Descriptors -> Descriptors \cup {Null}]
  /\ l.head = IF s = <<>> THEN Null ELSE s[1]
  /\ l.tail = IF s = <<>> THEN Null ELSE s[Len(s)]
  /\ \A k \in 1..Len(s) :
       l.next[s[k]] = IF k = Len(s) THEN Null ELSE s[k + 1]

\* Null is no descriptor.
LEMMA NullIsNone == Null \notin Descriptors
BY DEF Null, Descriptors

\* What a list of descriptors is made of.
LEMMA ChainType ==
  ASSUME NEW l, NEW s, Chain(l, s)
  PROVE  /\ s \in Seq(Descriptors)
         /\ Len(s) \in 0..7
         /\ s = <<>> <=> Len(s) = 0
         /\ \A k \in 1..Len(s) : s[k] \in Descriptors /\ s[k] # Null
<1>1. s \in Seq(Descriptors) /\ Len(s) <= 7
  BY DEF Chain
<1>2. Len(s) \in Nat /\ Len(s) <= 7
  BY <1>1
<1>3. s = <<>> <=> Len(s) = 0
  BY <1>1, EmptySeq
<1>4. \A k \in 1..Len(s) : s[k] \in Descriptors
  BY <1>1
<1>5. Len(s) \in 0..7
  <2>1. \A n \in Nat : n <= 7 => n \in 0..7
    OBVIOUS
  <2>2. QED
    BY <1>2, <2>1, Zenon
<1>6. QED
  BY <1>1, <1>3, <1>4, <1>5, NullIsNone, Zenon

\* A new descriptor comes last.
LEMMA AddChain ==
  ASSUME NEW l, NEW s, Chain(l, s), NEW d \in Descriptors, Len(s) < 7,
         \A k \in 1..Len(s) : s[k] # d
  PROVE  Chain(Add(l, d), Append(s, d))
<1> DEFINE t == Append(s, d)
           m == Add(l, d)
<1>1. /\ t \in Seq(Descriptors) /\ Len(t) = Len(s) + 1 /\ Len(s) \in Nat
      /\ t # <<>> /\ t[Len(t)] = d
      /\ \A k \in 1..Len(s) : t[k] = s[k]
  <2>1. s \in Seq(Descriptors) /\ Len(s) \in Nat
    BY ChainType
  <2>2. /\ t \in Seq(Descriptors) /\ Len(t) = Len(s) + 1
        /\ t[Len(s) + 1] = d /\ \A k \in 1..Len(s) : t[k] = s[k]
    BY <2>1
  <2>3. t # <<>>
    BY <2>1, <2>2, EmptySeq
  <2>4. QED
    BY <2>1, <2>2, <2>3
<1> HIDE DEF t
<1>2. /\ m.head = IF l.head = Null THEN d ELSE l.head
      /\ m.tail = d
      /\ m.next = [e \in Descriptors |-> IF l.head # Null /\ e = l.tail THEN d
                                         ELSE IF e = d THEN Null ELSE l.next[e]]
  BY DEF Add
<1> HIDE DEF m
<1>3. s # <<>> => Len(s) >= 1 /\ l.head # Null /\ l.tail = s[Len(s)]
  <2>1. s # <<>> => l.head = s[1] /\ l.tail = s[Len(s)]
    BY DEF Chain
  <2>2. /\ Len(s) \in 0..7 /\ (s = <<>> <=> Len(s) = 0)
        /\ \A k \in 1..Len(s) : s[k] # Null
    BY ChainType
  <2>3. s # <<>> => Len(s) >= 1 /\ 1 \in 1..Len(s)
    BY <2>2
  <2>4. QED
    BY <2>1, <2>2, <2>3
<1>4. s = <<>> => Len(s) = 0 /\ l.head = Null
  BY ChainType DEF Chain
<1>5. m.next \in [Descriptors -> Descriptors \cup {Null}]
  BY <1>2 DEF Chain
<1>6. m.head = t[1]
  BY <1>1, <1>2, <1>3, <1>4 DEF Chain
<1>7. \A j, k \in 1..Len(t) : t[j] = t[k] => j = k
  BY <1>1 DEF Chain
<1>8. \A k \in 1..Len(t) : m.next[t[k]] = IF k = Len(t) THEN Null ELSE t[k + 1]
  <2>1. SUFFICES ASSUME NEW k \in 1..Len(t)
                 PROVE  m.next[t[k]] = IF k = Len(t) THEN Null ELSE t[k + 1]
    OBVIOUS
  <2>2. CASE k = Len(t)
    <3>1. l.head # Null => l.tail # d
      BY <1>1, <1>3, <1>4
    <3>2. QED
      BY <1>1, <1>2, <2>2, <3>1
  <2>3. CASE k = Len(s)
    <3>1. l.head # Null /\ t[k] = l.tail /\ t[k + 1] = d /\ k # Len(t)
      BY <1>1, <1>3, <1>4, <2>3
    <3>2. t[k] \in Descriptors
      BY <1>1
    <3>3. QED
      BY <1>2, <3>1, <3>2
  <2>4. CASE k < Len(s)
    <3>1. t[k] = s[k] /\ s[k] \in Descriptors /\ s[k] # d /\ t[k + 1] = s[k + 1]
      BY <1>1, <2>4 DEF Chain
    <3>2. s[k] # s[Len(s)]
      BY <1>1, <2>4 DEF Chain
    <3>3. l.next[s[k]] = s[k + 1]
      BY <1>1, <2>4 DEF Chain
    <3>4. s[k] # l.tail
      BY <1>1, <1>3, <2>4, <3>2
    <3>5. QED
      BY <1>1, <1>2, <2>4, <3>1, <3>3, <3>4
  <2>5. QED
    BY <1>1, <2>2, <2>3, <2>4
<1>9. QED
  BY <1>1, <1>2, <1>5, <1>6, <1>7, <1>8, ChainType DEF Chain, t, m

\* One step of the search.
Step(l, f, n) == IF n = 1 THEN l.head
                 ELSE IF f[n - 1] = Null THEN Null ELSE l.next[f[n - 1]]

\* The search is what its steps say, if anything is.
LEMMA ItemStep ==
  ASSUME NEW l, NEW g,
         g = [n \in 1..(Cardinality(Descriptors) + 1) |-> Step(l, g, n)]
  PROVE  Item(l) = [n \in 1..(Cardinality(Descriptors) + 1) |->
                      Step(l, Item(l), n)]
BY DEF Item, Step

\* The search visits the descriptors in the order of the list, then ends.
LEMMA ItemOfChain ==
  ASSUME NEW l, NEW s, Chain(l, s)
  PROVE  \A n \in 1..8 : Item(l)[n] = IF n <= Len(s) THEN s[n] ELSE Null
<1> DEFINE at(n) == IF n <= Len(s) THEN s[n] ELSE Null
           g == [n \in 1..8 |-> at(n)]
<1>1. Cardinality(Descriptors) + 1 = 8
  BY SevenDescriptors
<1>2. Len(s) \in 0..7 /\ (s = <<>> <=> Len(s) = 0)
  BY ChainType
<1>3. \A k \in 1..Len(s) : s[k] \in Descriptors /\ s[k] # Null
  BY ChainType
<1>4. at(1) = l.head
  BY <1>2 DEF Chain
<1>5. ASSUME NEW n \in 2..8
      PROVE  at(n) = IF at(n - 1) = Null THEN Null ELSE l.next[at(n - 1)]
  <2>1. CASE n - 1 > Len(s)
    BY <1>2, <2>1
  <2>2. CASE n - 1 <= Len(s)
    <3>1. n - 1 \in 1..Len(s) /\ at(n - 1) = s[n - 1] /\ s[n - 1] # Null
      BY <1>2, <1>3, <2>2
    <3>2. l.next[s[n - 1]] = IF n - 1 = Len(s) THEN Null ELSE s[(n - 1) + 1]
      BY <3>1 DEF Chain
    <3>3. l.next[s[n - 1]] = at(n)
      BY <1>2, <2>2, <3>2
    <3>4. QED
      BY <3>1, <3>3
  <2>3. QED
    BY <1>2, <2>1, <2>2
<1>6. \A n \in 1..8 : g[n] = Step(l, g, n)
  <2>1. SUFFICES ASSUME NEW n \in 1..8 PROVE at(n) = Step(l, g, n)
    OBVIOUS
  <2>2. CASE n = 1
    BY <1>4, <2>2 DEF Step
  <2>3. CASE n # 1
    <3>1. n \in 2..8 /\ n - 1 \in 1..8 /\ g[n - 1] = at(n - 1)
      BY <2>3
    <3>2. QED
      BY <1>5, <2>3, <3>1 DEF Step
  <2>4. QED
    BY <2>2, <2>3
<1>7. g = [n \in 1..8 |-> Step(l, g, n)]
  BY <1>6
<1>8. Item(l) = [n \in 1..8 |-> Step(l, Item(l), n)]
  <2>1. g = [n \in 1..(Cardinality(Descriptors) + 1) |-> Step(l, g, n)]
    BY <1>1, <1>7, Zenon
  <2> HIDE DEF g
  <2>2. Item(l) = [n \in 1..(Cardinality(Descriptors) + 1) |->
                     Step(l, Item(l), n)]
    BY <2>1, ItemStep
  <2>3. QED
    BY <1>1, <2>2, Zenon
<1> HIDE DEF at
<1>9. Item(l)[1] = at(1)
  BY <1>4, <1>8 DEF Step
<1>10. ASSUME NEW n \in 2..8, Item(l)[n - 1] = at(n - 1)
       PROVE  Item(l)[n] = at(n)
  <2>1. n \in 1..8 /\ n # 1
    OBVIOUS
  <2>2. Item(l)[n] = Step(l, Item(l), n)
    BY <1>8, <2>1
  <2>3. QED
    BY <1>5, <1>10, <2>1, <2>2 DEF Step
<1>11. Item(l)[2] = at(2)
  BY <1>9, <1>10, 2 - 1 = 1
<1>12. Item(l)[3] = at(3)
  BY <1>11, <1>10, 3 - 1 = 2
<1>13. Item(l)[4] = at(4)
  BY <1>12, <1>10, 4 - 1 = 3
<1>14. Item(l)[5] = at(5)
  BY <1>13, <1>10, 5 - 1 = 4
<1>15. Item(l)[6] = at(6)
  BY <1>14, <1>10, 6 - 1 = 5
<1>16. Item(l)[7] = at(7)
  BY <1>15, <1>10, 7 - 1 = 6
<1>17. Item(l)[8] = at(8)
  BY <1>16, <1>10, 8 - 1 = 7
<1>18. \A n \in 1..8 : n \in {1, 2, 3, 4, 5, 6, 7, 8}
  OBVIOUS
<1>19. \A n \in 1..8 : Item(l)[n] = at(n)
  BY <1>9, <1>11, <1>12, <1>13, <1>14, <1>15, <1>16, <1>17, <1>18
<1>20. QED
  BY <1>19 DEF at

\* The first descriptor for a register is found, whatever follows it.
LEMMA InjectorOfChain ==
  ASSUME NEW l, NEW s, Chain(l, s), NEW r
  PROVE  /\ (\A k \in 1..Len(s) : Trigger(s[k]) # r) => getInjector(l, r) = Null
         /\ \A k \in 1..Len(s) :
              Trigger(s[k]) = r /\ (\A j \in 1..(k - 1) : Trigger(s[j]) # r)
                => getInjector(l, r) = s[k]
<1> DEFINE hits == {n \in 1..Cardinality(Descriptors) :
                      Item(l)[n] # Null /\ Trigger(Item(l)[n]) = r}
<1>1. Len(s) \in 0..7 /\ \A k \in 1..Len(s) : s[k] # Null
  BY ChainType
<1>2. \A n \in 1..7 : Item(l)[n] = IF n <= Len(s) THEN s[n] ELSE Null
  BY ItemOfChain
<1>3. hits = {n \in 1..Len(s) : Trigger(s[n]) = r}
  BY <1>1, <1>2, SevenDescriptors
<1>4. getInjector(l, r) =
        IF hits = {} THEN Null
        ELSE Item(l)[CHOOSE n \in hits : \A k \in hits : n <= k]
  BY DEF getInjector
<1> HIDE DEF hits
<1>5. (\A k \in 1..Len(s) : Trigger(s[k]) # r) => getInjector(l, r) = Null
  BY <1>3, <1>4
<1>6. ASSUME NEW k \in 1..Len(s), Trigger(s[k]) = r,
             \A j \in 1..(k - 1) : Trigger(s[j]) # r
      PROVE  getInjector(l, r) = s[k]
  <2>1. k \in hits
    BY <1>3, <1>6
  <2>2. \A j \in hits : k <= j
    <3>1. SUFFICES ASSUME NEW j \in hits, j < k PROVE FALSE
      BY <1>1, <1>3
    <3>2. j \in 1..(k - 1) /\ Trigger(s[j]) = r
      BY <1>1, <1>3, <3>1
    <3>3. QED
      BY <1>6, <3>2
  <2>3. \A n \in hits : (\A j \in hits : n <= j) => n = k
    BY <1>1, <1>3, <2>1, <2>2
  <2>4. (CHOOSE n \in hits : \A j \in hits : n <= j) = k
    BY <2>1, <2>2, <2>3
  <2>5. Item(l)[k] = s[k]
    BY <1>1, <1>2
  <2>6. QED
    BY <1>4, <2>1, <2>4, <2>5, Zenon
<1>7. QED
  BY <1>5, <1>6

\* The indices of sequences of one and of two elements.
LEMMA OneOrTwo ==
  /\ \A k \in 1..1 : k = 1
  /\ \A k \in 1..2 : k = 1 \/ k = 2
  /\ 1 \in 1..1 /\ 1 \in 1..2 /\ 2 \in 1..2 /\ 1 <= 1 /\ 2 <= 2
OBVIOUS

\* A sequence of one element.
LEMMA OfOne ==
  ASSUME NEW S, NEW a \in S
  PROVE  <<a>> \in Seq(S) /\ Len(<<a>>) = 1 /\ <<a>>[1] = a
OBVIOUS

\* A sequence of two elements.
LEMMA OfTwo ==
  ASSUME NEW S, NEW a \in S, NEW b \in S
  PROVE  /\ <<a, b>> \in Seq(S) /\ Len(<<a, b>>) = 2
         /\ <<a, b>>[1] = a /\ <<a, b>>[2] = b
OBVIOUS

\* A sequence of one element is joined by appending the element.
LEMMA AppendOne ==
  ASSUME NEW S, NEW s \in Seq(S), NEW ds \in Seq(S), Len(ds) = 1
  PROVE  Append(s, ds[1]) = s \o ds
<1>1. ds[1] \in S /\ Len(s) \in Nat
  BY OneOrTwo, ElementOfSeq, LenProperties
<1>2. /\ Append(s, ds[1]) \in Seq(S)
      /\ Len(Append(s, ds[1])) = Len(s) + 1
      /\ \A k \in 1..Len(s) : Append(s, ds[1])[k] = s[k]
      /\ Append(s, ds[1])[Len(s) + 1] = ds[1]
  BY <1>1, AppendProperties
<1>3. /\ s \o ds \in Seq(S) /\ Len(s \o ds) = Len(s) + 1
      /\ \A k \in 1..(Len(s) + 1) :
           (s \o ds)[k] = IF k <= Len(s) THEN s[k] ELSE ds[k - Len(s)]
  BY ConcatProperties
<1>4. ASSUME NEW k \in 1..(Len(s) + 1)
      PROVE  Append(s, ds[1])[k] = (s \o ds)[k]
  <2>1. CASE k = Len(s) + 1
    <3>1. k - Len(s) = 1 /\ ~(k <= Len(s))
      BY <1>1, <2>1
    <3>2. QED
      BY <1>2, <1>3, <2>1, <3>1
  <2>2. CASE k \in 1..Len(s)
    BY <1>1, <1>2, <1>3, <2>2
  <2>3. k = Len(s) + 1 \/ k \in 1..Len(s)
    <3>1. \A m \in Nat : \A i \in 1..(m + 1) : i = m + 1 \/ i \in 1..m
      OBVIOUS
    <3>2. QED
      BY <1>1, <3>1, Zenon
  <2>4. QED
    BY <2>1, <2>2, <2>3
<1>5. QED
  BY <1>2, <1>3, <1>4, SeqEqual

\* The same for a sequence of two elements.
LEMMA AppendTwo ==
  ASSUME NEW S, NEW s \in Seq(S), NEW ds \in Seq(S), Len(ds) = 2
  PROVE  Append(Append(s, ds[1]), ds[2]) = s \o ds
<1>1. ds[1] \in S /\ ds[2] \in S
  BY OneOrTwo, ElementOfSeq
<1>2. <<ds[1]>> \in Seq(S) /\ Len(<<ds[1]>>) = 1 /\ <<ds[1]>>[1] = ds[1]
  BY <1>1
<1>3. Append(s, ds[1]) = s \o <<ds[1]>> /\ Append(s, ds[1]) \in Seq(S)
  BY <1>1, <1>2, AppendIsConcat, AppendProperties
<1>4. Append(Append(s, ds[1]), ds[2]) = Append(s, ds[1]) \o <<ds[2]>>
  BY <1>1, <1>3, AppendIsConcat
<1>5. (s \o <<ds[1]>>) \o <<ds[2]>> = s \o (<<ds[1]>> \o <<ds[2]>>)
  <2>1. <<ds[2]>> \in Seq(S)
    BY <1>1
  <2>2. QED
    BY <1>2, <2>1, ConcatAssociative
<1>6. <<ds[1]>> \o <<ds[2]>> = ds
  <2>1. /\ <<ds[1]>> \o <<ds[2]>> \in Seq(S) /\ Len(<<ds[1]>> \o <<ds[2]>>) = 1 + 1
        /\ \A k \in 1..(1 + 1) :
             (<<ds[1]>> \o <<ds[2]>>)[k] =
               IF k <= 1 THEN <<ds[1]>>[k] ELSE <<ds[2]>>[k - 1]
    BY <1>1, OfOne, ConcatProperties
  <2>2. \A k \in 1..2 : (<<ds[1]>> \o <<ds[2]>>)[k] = ds[k]
    <3>1. (<<ds[1]>> \o <<ds[2]>>)[1] = <<ds[1]>>[1]
      BY <2>1
    <3>2. (<<ds[1]>> \o <<ds[2]>>)[2] = <<ds[2]>>[1]
      BY <2>1
    <3>3. QED
      BY <1>1, <3>1, <3>2, OfOne, OneOrTwo
  <2>3. 1 + 1 = 2
    OBVIOUS
  <2>4. QED
    BY <2>1, <2>2, <2>3, SeqEqual
<1>7. QED
  BY <1>3, <1>4, <1>5, <1>6

\* The descriptors of ds follow those of s.
LEMMA AddAllChain ==
  ASSUME NEW l, NEW s, Chain(l, s), NEW ds \in Seq(Descriptors), Len(ds) <= 2,
         Len(s) + Len(ds) <= 7,
         \A j \in 1..Len(s), k \in 1..Len(ds) : s[j] # ds[k],
         \A j, k \in 1..Len(ds) : ds[j] = ds[k] => j = k
  PROVE  Chain(AddAll(l, ds), s \o ds)
<1>1. s \in Seq(Descriptors) /\ Len(s) \in Nat
  BY ChainType
<1>2. CASE Len(ds) = 0
  <2>1. s \o ds = s
    BY <1>1, <1>2, EmptySeq, ConcatEmptySeq
  <2>2. QED
    BY <1>2, <2>1 DEF AddAll
<1>3. CASE Len(ds) = 1
  <2>1. ds[1] \in Descriptors /\ Append(s, ds[1]) = s \o ds
    BY <1>1, <1>3, AppendOne
  <2>2. \A k \in 1..Len(s) : s[k] # ds[1]
    BY <1>3
  <2>3. Len(s) < 7
    BY <1>1, <1>3
  <2>4. Chain(Add(l, ds[1]), Append(s, ds[1]))
    BY <2>1, <2>2, <2>3, AddChain
  <2>5. QED
    BY <1>3, <2>1, <2>4 DEF AddAll
<1>4. CASE Len(ds) = 2
  <2> DEFINE t == Append(s, ds[1])
  <2>1. /\ ds[1] \in Descriptors /\ ds[2] \in Descriptors /\ ds[1] # ds[2]
        /\ t \in Seq(Descriptors) /\ Len(t) = Len(s) + 1
        /\ \A k \in 1..Len(s) : t[k] = s[k]
        /\ t[Len(s) + 1] = ds[1]
    <3>1. ds[1] \in Descriptors /\ ds[2] \in Descriptors
      BY <1>4, OneOrTwo, ElementOfSeq
    <3>2. ds[1] # ds[2]
      BY <1>4, OneOrTwo, 1 # 2
    <3>3. QED
      BY <1>1, <3>1, <3>2, AppendProperties
  <2>2. Append(t, ds[2]) = s \o ds
    BY <1>1, <1>4, AppendTwo
  <2>3. \A k \in 1..Len(s) : s[k] # ds[1] /\ s[k] # ds[2]
    BY <1>4
  <2>4. Len(s) < 7 /\ Len(t) < 7
    BY <1>1, <1>4, <2>1
  <2>5. Chain(Add(l, ds[1]), t)
    BY <2>1, <2>3, <2>4, AddChain
  <2>6. \A k \in 1..Len(t) : t[k] # ds[2]
    BY <1>1, <2>1, <2>3
  <2> HIDE DEF t
  <2>7. Chain(Add(Add(l, ds[1]), ds[2]), Append(t, ds[2]))
    BY <2>1, <2>4, <2>5, <2>6, AddChain
  <2>8. AddAll(l, ds) = Add(Add(l, ds[1]), ds[2])
    BY <1>4 DEF AddAll
  <2>9. QED
    BY <2>2, <2>7, <2>8
<1>5. Len(ds) = 0 \/ Len(ds) = 1 \/ Len(ds) = 2
  <2>1. \A n \in Nat : n <= 2 => n = 0 \/ n = 1 \/ n = 2
    OBVIOUS
  <2>2. Len(ds) \in Nat
    OBVIOUS
  <2>3. QED
    BY <2>1, <2>2, Zenon
<1>6. QED
  BY <1>2, <1>3, <1>4, <1>5

\* What the two submodules that inject add.
OfFix == IF "BacklightRegistersFix" \in enabled
         THEN Added("BacklightRegistersFix", framebuffer) ELSE <<>>
OfSmoother == IF "BacklightSmoother" \in enabled
              THEN Added("BacklightSmoother", framebuffer) ELSE <<>>

\* What has been added before submodule n is called.
Queue(n) == IF n <= 16 THEN <<>> ELSE IF n <= 18 THEN OfFix
            ELSE OfFix \o OfSmoother

\* The list holds what the enabled submodules have added so far, in their order.
InjectionsInOrder ==
  /\ index \in Nat \ {0}
  /\ generation \in DOMAIN Framebuffers
  /\ pc \in {"submodules", "switch"} => framebuffer = Null
  /\ pc \in {"framebufferShared", "framebufferSubmodules"} => framebuffer # Null
  /\ pc # "framebufferSubmodules" /\ (pc = "kexts" => framebuffer = Null) =>
       Chain(replacerList, <<>>)
  /\ pc = "framebufferSubmodules" =>
       index <= 21 /\ Chain(replacerList, Queue(index))
  /\ pc = "kexts" /\ framebuffer # Null /\ "framebuffer" \notin off =>
       Chain(replacerList, Queue(22))

\* They add at most two descriptors and at most one, all of them different.
LEMMA AddedOnce ==
  /\ OfFix \in Seq(Descriptors) /\ Len(OfFix) <= 2
  /\ OfSmoother \in Seq(Descriptors) /\ Len(OfSmoother) <= 1
  /\ \A j, k \in 1..Len(OfFix) : OfFix[j] = OfFix[k] => j = k
  /\ \A j, k \in 1..Len(OfSmoother) : j = k
  /\ \A j \in 1..Len(OfFix), k \in 1..Len(OfSmoother) : OfFix[j] # OfSmoother[k]
<1> DEFINE B == {"BLR dKBLPWMFreq1", "BLR dKBLPWMCtrl1", "BLR dCFLPWMFreq1",
                 "BLR dCFLPWMDuty1"}
           S == {"BLS dIVBPWMCCTRL", "BLS dHSWPWMFreq1", "BLS dCFLPWMDuty1"}
<1>1. \/ OfFix = <<>>
      \/ OfFix = <<"BLR dKBLPWMFreq1", "BLR dKBLPWMCtrl1">>
      \/ OfFix = <<"BLR dCFLPWMFreq1", "BLR dCFLPWMDuty1">>
  BY DEF OfFix, Added
<1>2. \/ OfSmoother = <<>> \/ OfSmoother = <<"BLS dIVBPWMCCTRL">>
      \/ OfSmoother = <<"BLS dHSWPWMFreq1">>
      \/ OfSmoother = <<"BLS dCFLPWMDuty1">>
  BY DEF OfSmoother, Added
<1>3. ASSUME NEW a \in B, NEW b \in B, a # b, OfFix = <<a, b>>
      PROVE  /\ OfFix \in Seq(B) /\ Len(OfFix) <= 2
             /\ \A j, k \in 1..Len(OfFix) : OfFix[j] = OfFix[k] => j = k
  <2>1. OfFix \in Seq(B) /\ Len(OfFix) = 2 /\ OfFix[1] = a /\ OfFix[2] = b
    BY <1>3, OfTwo
  <2>2. 2 <= 2
    BY OneOrTwo
  <2>3. \A j, k \in 1..2 : OfFix[j] = OfFix[k] => j = k
    BY <1>3, <2>1, OneOrTwo, Zenon
  <2>4. QED
    BY <2>1, <2>2, <2>3, Zenon
<1>4. /\ OfFix \in Seq(B) /\ Len(OfFix) <= 2
      /\ \A j, k \in 1..Len(OfFix) : OfFix[j] = OfFix[k] => j = k
  <2>1. CASE OfFix = <<>>
    BY <2>1
  <2>2. CASE OfFix = <<"BLR dKBLPWMFreq1", "BLR dKBLPWMCtrl1">>
    BY <1>3, <2>2
  <2>3. CASE OfFix = <<"BLR dCFLPWMFreq1", "BLR dCFLPWMDuty1">>
    BY <1>3, <2>3
  <2>4. QED
    BY <1>1, <2>1, <2>2, <2>3
<1>5. ASSUME NEW a \in S, OfSmoother = <<a>>
      PROVE  /\ OfSmoother \in Seq(S) /\ Len(OfSmoother) <= 1
             /\ \A j, k \in 1..Len(OfSmoother) : j = k
  <2>1. OfSmoother \in Seq(S) /\ Len(OfSmoother) = 1
    BY <1>5, OfOne
  <2>2. 1 <= 1
    BY OneOrTwo
  <2>3. \A j, k \in 1..1 : j = k
    BY OneOrTwo, Zenon
  <2>4. QED
    BY <2>1, <2>2, <2>3, Zenon
<1>6. /\ OfSmoother \in Seq(S) /\ Len(OfSmoother) <= 1
      /\ \A j, k \in 1..Len(OfSmoother) : j = k
  <2>1. CASE OfSmoother = <<>>
    BY <2>1
  <2>2. CASE OfSmoother = <<"BLS dIVBPWMCCTRL">>
    BY <1>5, <2>2
  <2>3. CASE OfSmoother = <<"BLS dHSWPWMFreq1">>
    BY <1>5, <2>3
  <2>4. CASE OfSmoother = <<"BLS dCFLPWMDuty1">>
    BY <1>5, <2>4
  <2>5. QED
    BY <1>2, <2>1, <2>2, <2>3, <2>4
<1>7. B \subseteq Descriptors /\ S \subseteq Descriptors /\ B \cap S = {}
  BY DEF Descriptors
<1> HIDE DEF B, S
<1>8. /\ \A k \in 1..Len(OfFix) : OfFix[k] \in B
      /\ \A k \in 1..Len(OfSmoother) : OfSmoother[k] \in S
  BY <1>4, <1>6, ElementOfSeq
<1>9. OfFix \in Seq(Descriptors) /\ OfSmoother \in Seq(Descriptors)
  <2>1. \A T : T \subseteq Descriptors => Seq(T) \subseteq Seq(Descriptors)
    OBVIOUS
  <2>2. QED
    BY <1>4, <1>6, <1>7, <2>1
<1>10. \A j \in 1..Len(OfFix), k \in 1..Len(OfSmoother) : OfFix[j] # OfSmoother[k]
  BY <1>7, <1>8
<1>11. QED
  BY <1>4, <1>6, <1>9, <1>10

\* Where they are in the table.
LEMMA OrderOfInjectors ==
  /\ Len(Submodules) = 21
  /\ \A k \in 1..21 : /\ Submodules[k] = "BacklightRegistersFix" <=> k = 16
                      /\ Submodules[k] = "BacklightSmoother" <=> k = 18
BY DEF Submodules

\* Nothing is in an empty list.
LEMMA EmptyChain == Chain(EmptyList, <<>>)
BY DEF Chain, EmptyList

\* The next submodule adds its descriptors at the end, if it is enabled.
LEMMA QueueGrows ==
  ASSUME NEW n \in 1..21, NEW l, Chain(l, Queue(n))
  PROVE  /\ Submodules[n] \in enabled =>
              Chain(AddAll(l, Added(Submodules[n], framebuffer)), Queue(n + 1))
         /\ Submodules[n] \notin enabled => Chain(l, Queue(n + 1))
<1>1. CASE n \notin {16, 18}
  <2>1. Queue(n + 1) = Queue(n)
    BY <1>1 DEF Queue
  <2>2. Added(Submodules[n], framebuffer) = <<>>
    BY <1>1, OrderOfInjectors DEF Added
  <2>3. AddAll(l, <<>>) = l
    BY DEF AddAll
  <2>4. QED
    BY <2>1, <2>2, <2>3
<1>2. CASE n = 16
  <2>1. Queue(n) = <<>> /\ Queue(n + 1) = OfFix
    BY <1>2 DEF Queue
  <2>2. Submodules[n] = "BacklightRegistersFix"
    BY <1>2, OrderOfInjectors
  <2>3. OfFix \in Seq(Descriptors) /\ <<>> \o OfFix = OfFix
    BY AddedOnce, ConcatEmptySeq
  <2>4. /\ Len(<<>>) + Len(OfFix) <= 7
        /\ \A j \in 1..Len(<<>>), k \in 1..Len(OfFix) : <<>>[j] # OfFix[k]
    BY <2>3, AddedOnce
  <2>5. Chain(AddAll(l, OfFix), <<>> \o OfFix)
    BY <2>1, <2>3, <2>4, AddedOnce, AddAllChain
  <2>6. "BacklightRegistersFix" \notin enabled => OfFix = <<>>
    BY DEF OfFix
  <2>7. QED
    BY <2>1, <2>2, <2>3, <2>5, <2>6 DEF OfFix
<1>3. CASE n = 18
  <2>1. Queue(n) = OfFix /\ Queue(n + 1) = OfFix \o OfSmoother
    BY <1>3 DEF Queue
  <2>2. Submodules[n] = "BacklightSmoother"
    BY <1>3, OrderOfInjectors
  <2>3. Len(OfFix) \in Nat /\ Len(OfSmoother) \in Nat
    BY AddedOnce
  <2>4. Chain(AddAll(l, OfSmoother), OfFix \o OfSmoother)
    BY <2>1, <2>3, AddedOnce, AddAllChain
  <2>5. OfSmoother = <<>> => AddAll(l, OfSmoother) = l
    BY DEF AddAll
  <2>6. QED
    BY <2>1, <2>2, <2>4, <2>5 DEF OfSmoother
<1>4. QED
  BY <1>1, <1>2, <1>3

\* Nothing is injected when IGFX starts.
LEMMA InitInjections == Init => InjectionsInOrder
<1> SUFFICES ASSUME Init PROVE InjectionsInOrder
  OBVIOUS
<1>1. /\ index = 1 /\ generation \in DOMAIN Framebuffers
      /\ pc = "submodules" /\ framebuffer = Null /\ replacerList = EmptyList
  BY GenerationsAssumption DEF Init
<1>2. QED
  BY <1>1, EmptyChain DEF InjectionsInOrder

\* No step leaves the invariant, in whichever order the kexts are loaded.
LEMMA NextInjections ==
  ASSUME InjectionsInOrder, [Next]_vars PROVE InjectionsInOrder'
<1>1. CASE ProcessKernel \/ ProcessKernelShared
  BY <1>1 DEF ProcessKernel, ProcessKernelShared, Goto, machine, loaded,
              InjectionsInOrder
<1>2. CASE SwitchOff
  BY <1>2 DEF SwitchOff, Goto, machine, loaded, InjectionsInOrder
<1>3. CASE LoadFramebuffer
  <2>1. framebuffer' # Null
    <3>1. framebuffer' \in Framebuffers[generation]
      BY <1>3 DEF LoadFramebuffer
    <3>2. QED
      BY <3>1, LoadedFramebuffer DEF InjectionsInOrder, Null
  <2>2. pc = "kexts" /\ framebuffer = Null /\ Chain(replacerList, <<>>)
    BY <1>3 DEF LoadFramebuffer, InjectionsInOrder
  <2>3. /\ replacerList' = replacerList /\ generation' = generation /\ off' = off
        /\ \/ "framebuffer" \in off /\ pc' = pc /\ index' = index
           \/ pc' = "framebufferShared" /\ index' = 1
    BY <1>3 DEF LoadFramebuffer, Goto, machine
  <2>4. QED
    BY <2>1, <2>2, <2>3 DEF InjectionsInOrder
<1>4. CASE ProcessFramebufferShared
  <2>1. /\ replacerList' = replacerList /\ generation' = generation
        /\ framebuffer' = framebuffer /\ pc = "framebufferShared"
    BY <1>4 DEF ProcessFramebufferShared, machine, loaded
  <2>2. \/ pc' = "framebufferSubmodules" /\ index' = 1
        \/ pc' = "framebufferShared" /\ index' = index + 1
    BY <1>4 DEF ProcessFramebufferShared, Goto
  <2>3. Chain(replacerList, <<>>) /\ framebuffer # Null
    BY <2>1 DEF InjectionsInOrder
  <2>4. index' = 1 => Queue(index)' = <<>>
    BY DEF Queue
  <2>5. CASE pc' = "framebufferSubmodules" /\ index' = 1
    BY <2>1, <2>3, <2>4, <2>5 DEF InjectionsInOrder
  <2>6. CASE pc' = "framebufferShared" /\ index' = index + 1
    BY <2>1, <2>3, <2>6 DEF InjectionsInOrder
  <2>7. QED
    BY <2>2, <2>5, <2>6
<1>5. CASE ProcessFramebuffer
  <2>1. index \in 1..21 /\ Chain(replacerList, Queue(index)) /\ framebuffer # Null
    BY <1>5 DEF ProcessFramebuffer, InjectionsInOrder
  <2>2. /\ enabled' = enabled /\ framebuffer' = framebuffer
        /\ generation' = generation
        /\ replacerList' = IF Submodules[index] \in enabled
                           THEN AddAll(replacerList,
                                       Added(Submodules[index], framebuffer))
                           ELSE replacerList
    BY <1>5 DEF ProcessFramebuffer, machine, loaded
  <2>3. Chain(replacerList', Queue(index + 1))
    BY <2>1, <2>2, QueueGrows
  <2>4. OfFix' = OfFix /\ OfSmoother' = OfSmoother
    BY <2>2 DEF OfFix, OfSmoother
  <2>5. \/ index = 21 /\ pc' = "kexts" /\ index' = 1
        \/ index # 21 /\ index' = index + 1 /\ pc' = "framebufferSubmodules"
    BY <1>5, OrderOfInjectors DEF ProcessFramebuffer, Goto
  <2>6. CASE index = 21
    <3>1. Chain(replacerList', Queue(22))
      BY <2>3, <2>6
    <3>2. Queue(22)' = Queue(22)
      BY <2>4 DEF Queue
    <3>3. QED
      BY <2>1, <2>2, <2>5, <2>6, <3>1, <3>2 DEF InjectionsInOrder
  <2>7. CASE index # 21
    <3>1. index' \in Nat \ {0} /\ index' <= 21
      BY <2>1, <2>5, <2>7
    <3>2. Queue(index)' = Queue(index + 1)
      BY <2>4, <2>5, <2>7 DEF Queue
    <3>3. QED
      BY <2>1, <2>2, <2>3, <2>5, <2>7, <3>1, <3>2 DEF InjectionsInOrder
  <2>8. QED
    BY <2>6, <2>7
<1>6. CASE LoadGraphics \/ UNCHANGED vars
  <2>1. /\ index' = index /\ generation' = generation /\ pc' = pc
        /\ framebuffer' = framebuffer /\ replacerList' = replacerList
        /\ off' = off /\ enabled' = enabled
    BY <1>6 DEF LoadGraphics, vars, machine
  <2>2. Queue(index)' = Queue(index) /\ Queue(22)' = Queue(22)
    BY <2>1 DEF Queue, OfFix, OfSmoother
  <2>3. QED
    BY <2>1, <2>2 DEF InjectionsInOrder
<1>7. QED
  BY <1>1, <1>2, <1>3, <1>4, <1>5, <1>6 DEF Next, processKernel, processKext

\* In such a list the fix comes before the smoother.
LEMMA InvInjectionsFollowDriver == InjectionsInOrder => InjectionsFollowDriver
<1> SUFFICES ASSUME InjectionsInOrder, framebuffer # Null, pc = "kexts",
                    "framebuffer" \notin off
             PROVE  /\ Item(replacerList)[Cardinality(Descriptors) + 1] = Null
                    /\ \A r \in Registers :
                         IF Meant(r) = {}
                         THEN getInjector(replacerList, r) = Null
                         ELSE getInjector(replacerList, r) \in Meant(r)
  BY DEF InjectionsFollowDriver
<1> DEFINE t == OfFix \o OfSmoother
           l == replacerList
<1>1. Chain(l, t)
  BY DEF InjectionsInOrder, Queue
<1>2. /\ Len(OfFix) \in Nat /\ Len(OfSmoother) \in Nat
      /\ Len(t) = Len(OfFix) + Len(OfSmoother) /\ Len(t) \in Nat
      /\ \A k \in 1..Len(OfFix) : t[k] = OfFix[k]
      /\ \A k \in 1..Len(OfSmoother) : t[Len(OfFix) + k] = OfSmoother[k]
  <2>1. Len(OfFix) \in Nat /\ Len(OfSmoother) \in Nat
    BY AddedOnce
  <2>2. /\ Len(t) = Len(OfFix) + Len(OfSmoother)
        /\ \A k \in 1..(Len(OfFix) + Len(OfSmoother)) :
             t[k] = IF k <= Len(OfFix) THEN OfFix[k]
                    ELSE OfSmoother[k - Len(OfFix)]
    BY AddedOnce, ConcatProperties
  <2> HIDE DEF t
  <2>3. QED
    BY <2>1, <2>2
<1> HIDE DEF t, l
<1>3. Item(l)[Cardinality(Descriptors) + 1] = Null
  <2>1. Cardinality(Descriptors) + 1 = 8
    BY SevenDescriptors
  <2>2. 8 \in 1..8 /\ ~(8 <= Len(t))
    BY <1>1, ChainType
  <2>3. QED
    BY <1>1, <2>1, <2>2, ItemOfChain
<1>4. ASSUME NEW r \in Registers
      PROVE  IF Meant(r) = {} THEN getInjector(l, r) = Null
             ELSE getInjector(l, r) \in Meant(r)
  <2> DEFINE byFix == {d \in {OfFix[k] : k \in 1..Len(OfFix)} : Trigger(d) = r}
             bySmoother == {d \in {OfSmoother[k] : k \in 1..Len(OfSmoother)} :
                              Trigger(d) = r}
  <2> DEFINE by(s) == IF s \notin enabled THEN {}
                      ELSE {d \in {Added(s, framebuffer)[k] :
                                     k \in 1..Len(Added(s, framebuffer))} :
                              Trigger(d) = r}
  <2>1. Meant(r) = IF byFix # {} THEN byFix ELSE bySmoother
    <3>1. by("BacklightRegistersFix") = byFix
      BY DEF OfFix
    <3>2. by("BacklightSmoother") = bySmoother
      BY DEF OfSmoother
    <3>3. Meant(r) = IF by("BacklightRegistersFix") # {}
                     THEN by("BacklightRegistersFix")
                     ELSE by("BacklightSmoother")
      BY DEF Meant
    <3> HIDE DEF by, byFix, bySmoother
    <3>4. QED
      BY <3>1, <3>2, <3>3
  <2>2. CASE byFix # {}
    <3>1. PICK k \in 1..Len(OfFix) : Trigger(OfFix[k]) = r
      BY <2>2
    <3>2. CASE Trigger(OfFix[1]) = r
      <4>1. 1 \in 1..Len(OfFix) /\ 1 \in 1..Len(t)
        BY <1>2, <3>1
      <4>2. \A j \in 1..(1 - 1) : Trigger(t[j]) # r
        OBVIOUS
      <4>3. t[1] = OfFix[1]
        BY <1>2, <4>1
      <4>4. getInjector(l, r) = OfFix[1]
        BY <1>1, <3>2, <4>1, <4>2, <4>3, InjectorOfChain
      <4>5. OfFix[1] \in byFix
        BY <3>2, <4>1
      <4>6. QED
        BY <2>1, <2>2, <4>4, <4>5
    <3>3. CASE Trigger(OfFix[1]) # r
      <4>1. k = 2 /\ 1 \in 1..Len(OfFix) /\ 2 \in 1..Len(OfFix) /\ 2 \in 1..Len(t)
        BY <1>2, <3>1, <3>3, AddedOnce
      <4>2. t[1] = OfFix[1] /\ t[2] = OfFix[2]
        BY <1>2, <4>1
      <4>3. \A j \in 1..(2 - 1) : Trigger(t[j]) # r
        BY <3>3, <4>2
      <4>4. getInjector(l, r) = OfFix[2]
        BY <1>1, <3>1, <4>1, <4>2, <4>3, InjectorOfChain
      <4>5. OfFix[2] \in byFix
        BY <3>1, <4>1
      <4>6. QED
        BY <2>1, <2>2, <4>4, <4>5
    <3>4. QED
      BY <3>2, <3>3
  <2>3. CASE byFix = {}
    <3>1. \A k \in 1..Len(OfFix) : Trigger(t[k]) # r
      BY <1>2, <2>3
    <3>2. CASE bySmoother # {}
      <4>1. PICK k \in 1..Len(OfSmoother) : Trigger(OfSmoother[k]) = r
        BY <3>2
      <4>2. k = 1 /\ Len(OfSmoother) = 1
        <5>1. Len(OfSmoother) <= 1
          BY AddedOnce
        <5>2. QED
          BY <1>2, <4>1, <5>1
      <4> DEFINE n == Len(OfFix) + 1
      <4>3. n \in 1..Len(t) /\ t[n] = OfSmoother[1]
        BY <1>2, <4>1, <4>2
      <4>4. \A j \in 1..(n - 1) : Trigger(t[j]) # r
        BY <1>2, <3>1
      <4>5. Trigger(t[n]) = r
        BY <4>1, <4>2, <4>3
      <4> HIDE DEF n
      <4>6. getInjector(l, r) = OfSmoother[1]
        BY <1>1, <4>3, <4>4, <4>5, InjectorOfChain
      <4>7. OfSmoother[1] \in bySmoother
        BY <4>1, <4>2
      <4>8. QED
        BY <2>1, <2>3, <3>2, <4>6, <4>7
    <3>3. CASE bySmoother = {}
      <4>1. \A k \in 1..Len(t) : Trigger(t[k]) # r
        <5>1. SUFFICES ASSUME NEW k \in 1..Len(t), k \notin 1..Len(OfFix)
                       PROVE  Trigger(t[k]) # r
          BY <3>1
        <5>2. /\ k - Len(OfFix) \in 1..Len(OfSmoother)
              /\ Len(OfFix) + (k - Len(OfFix)) = k
          BY <1>2, <5>1
        <5>3. t[k] = OfSmoother[k - Len(OfFix)]
          BY <1>2, <5>2
        <5>4. QED
          BY <3>3, <5>2, <5>3
      <4>2. QED
        BY <1>1, <2>1, <2>3, <3>3, <4>1, InjectorOfChain
    <3>4. QED
      BY <3>2, <3>3
  <2>4. QED
    BY <2>2, <2>3
<1>5. QED
  BY <1>3, <1>4 DEF l

\* On every machine, and in whichever order the kexts are loaded, a write of a
\* register reaches the injection that is meant for the driver, and the search
\* for it ends.
THEOREM InjectionsFollow == Spec => []InjectionsFollowDriver
<1>1. InjectionsInOrder /\ [Next]_vars => InjectionsInOrder'
  BY NextInjections
<1>2. QED
  BY InitInjections, <1>1, InvInjectionsFollowDriver, PTL DEF Spec
=============================================================================
