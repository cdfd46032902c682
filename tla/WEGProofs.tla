------------------------------ MODULE WEGProofs ------------------------------
(* What is proved of the core of WhateverGreen, for all machines, GPUs and *)
(* numbers of framebuffers: what drivers see of a faked device id does not *)
(* change any more and is the id asked for, the GPUs that may be switched  *)
(* off are the ones of the policy, the choices reach the kexts, and the    *)
(* screens show what was chosen for them.                                  *)
EXTENDS WEG, FiniteSetTheorems, SequenceTheorems, WellFoundedInduction, TLAPS

\* Names of external GPUs, as far as WEG's choice of a GPU depends on them.
NamesKnown == /\ setup \in Setups
              /\ name = [d \in Devices |-> name[d]]
              /\ \A d \in Externals : name[d].kind # "IGPU"

\* Until the IGPU has been looked at, nothing is replaced.
NothingRouted == /\ todo \in Nat
                 /\ todo = 0 => /\ pc \notin {"route16", "route32"}
                                /\ routed = {} /\ fakeReads = {}

\* Whatever was faked once, the reasons for it are still there.
ReadsHeld == /\ fakeReads \subseteq Widths \X Devices
             /\ \A r \in fakeReads :
                  r[1] \in routed /\ Spoofed(r[2]) /\ Gpu(r[2]).acpi # 0

IInv == NamesKnown /\ NothingRouted /\ ReadsHeld

\* The IGPU has number 0, and no other GPU has.
LEMMA ExternalsPositive ==
  ASSUME setup \in Setups
  PROVE  /\ Externals \subseteq Nat \ {0}
         /\ \A d \in Externals : Gpu(d) = setup.externals[d] /\ Gpu(d).name # "IGPU"
<1>1. setup.externals \in Seq(Gpus)
  BY SetupAssumption DEF SetupType
<1>2. Externals \subseteq Nat \ {0}
  BY <1>1 DEF Externals
<1> QED
  BY <1>2, NamesAssumption DEF Gpu, Externals

\* No id has been read before the boot.
LEMMA InitIInv == Init => IInv
<1> SUFFICES ASSUME Init PROVE IInv
  OBVIOUS
<1>1. setup \in Setups
  BY DEF Init
<1>2. NamesKnown
  BY <1>1, ExternalsPositive DEF Init, NamesKnown, Devices
<1> QED
  BY <1>2 DEF Init, IInv, NothingRouted, ReadsHeld

\* Steps that leave the device tree and the functions alone.
LEMMA QuietStep ==
  ASSUME IInv, UNCHANGED <<setup, tree, routed, fakeReads>>,
         todo' = todo, pc' \notin {"route16", "route32"}
  PROVE  IInv'
BY DEF IInv, NamesKnown, NothingRouted, ReadsHeld, tree, Spoofed, Gpu, Devices, Externals

\* Every step keeps the reasons: flags are never cleared, and the GPUs that
\* are renamed are those whose name was no reason.
LEMMA NextIInv == IInv /\ [Next]_vars => IInv'
<1> SUFFICES ASSUME IInv, [Next]_vars PROVE IInv'
  OBVIOUS
<1>1. Externals \subseteq Nat \ {0}
  BY ExternalsPositive DEF IInv, NamesKnown
<1>2. CASE WEGInit
  BY <1>2, QuietStep DEF WEGInit
<1>3. CASE ProcessPolicy
  BY <1>3, QuietStep DEF ProcessPolicy
<1>4. CASE ProcessBuiltin
  <2>1. fakeReads = {} /\ fakeReads' = {} /\ todo' = 1 /\ setup' = setup
    BY <1>4 DEF ProcessBuiltin, IInv, NothingRouted
  <2>2. NamesKnown'
    <3>1. CASE setup.builtin = None
      BY <1>4, <3>1 DEF ProcessBuiltin, tree, IInv, NamesKnown, Devices, Externals
    <3>2. CASE setup.builtin # None
      <4>1. name' = [name EXCEPT ![0].kind = "IGPU"]
        BY <1>4, <3>2 DEF ProcessBuiltin
      <4>2. \A d \in Externals : name'[d] = name[d]
        BY <4>1, <1>1 DEF IInv, NamesKnown, Devices
      <4>3. name' = [d \in Devices |-> name'[d]]
        BY <4>1 DEF IInv, NamesKnown
      <4> QED
        BY <2>1, <4>2, <4>3 DEF IInv, NamesKnown, Devices, Externals
    <3> QED
      BY <3>1, <3>2
  <2>3. NothingRouted'
    BY <2>1 DEF NothingRouted
  <2>4. ReadsHeld'
    BY <2>1 DEF ReadsHeld
  <2> QED
    BY <2>2, <2>3, <2>4 DEF IInv
<1>5. CASE ProcessExternal
  <2>1. setup' = setup /\ routed' = routed /\ fakeReads' = fakeReads /\ todo' = todo + 1
    BY <1>5 DEF ProcessExternal
  <2>2. hasIgpuSpoof' = hasIgpuSpoof /\ (hasGfxSpoof => hasGfxSpoof')
    BY <1>5 DEF ProcessExternal, GfxSpoof
  <2>3. \/ name' = name
        \/ /\ name[todo].kind # "GFX"
           /\ name' = [name EXCEPT ![todo] = [kind |-> "GFX", digit |-> currentExternalGfxIndex]]
    BY <1>5 DEF ProcessExternal, NeedsName
  <2>4. \A d \in Devices : \/ name'[d] = name[d]
                           \/ /\ d = todo /\ name[d].kind # "GFX"
                              /\ name'[d].kind = "GFX"
    BY <2>3 DEF IInv, NamesKnown
  <2>5. name' = [d \in Devices |-> name'[d]]
    BY <2>3 DEF IInv, NamesKnown
  <2>6. todo \in Externals /\ Externals \subseteq Devices
    BY <1>5 DEF ProcessExternal, Devices
  <2>7. name[todo].kind # "IGPU"
    BY <2>6 DEF IInv, NamesKnown
  <2>8. NamesKnown'
    <3>1. \A d \in Externals : name'[d].kind # "IGPU"
      BY <2>4, <2>6 DEF IInv, NamesKnown
    <3> QED
      BY <3>1, <2>1, <2>5 DEF IInv, NamesKnown, Devices, Externals
  <2>9. NothingRouted'
    BY <2>1, <2>6, <1>1 DEF IInv, NothingRouted
  <2>10. ReadsHeld'
    <3>1. \A r \in fakeReads : r[2] \in Devices /\ Spoofed(r[2])
      BY DEF IInv, ReadsHeld
    <3>2. \A d \in Devices : Spoofed(d) => Spoofed(d)'
      BY <2>2, <2>4, <2>7 DEF Spoofed
    <3> QED
      BY <3>1, <3>2, <2>1 DEF IInv, ReadsHeld, Gpu, Devices, Externals, Spoofed
  <2> QED
    BY <2>8, <2>9, <2>10 DEF IInv
<1>6. CASE Route
  BY <1>6 DEF Route, RouteConfigRead, IInv, NamesKnown, NothingRouted, ReadsHeld, tree,
              Spoofed, Gpu, Devices, Externals
<1>7. CASE DevicesDone
  BY <1>7, QuietStep DEF DevicesDone
<1>8. CASE Decide
  BY <1>8, QuietStep DEF Decide
<1>9. CASE \E w \in Widths, d \in Devices : ConfigRead(w, d)
  <2> PICK w \in Widths, d \in Devices : ConfigRead(w, d)
    BY <1>9
  <2>1. UNCHANGED <<setup, pc, todo, tree, routed>>
    BY DEF ConfigRead
  <2>2. \/ fakeReads' = fakeReads
        \/ /\ fakeReads' = fakeReads \cup {<<w, d>>}
           /\ w \in routed /\ Spoofed(d) /\ Gpu(d).acpi # 0
    BY DEF ConfigRead, wrapConfigRead
  <2>3. NamesKnown'
    BY <2>1 DEF IInv, NamesKnown, tree, Devices, Externals
  <2>4. NothingRouted'
    BY <2>1, <2>2 DEF IInv, NothingRouted
  <2>5. ReadsHeld'
    BY <2>1, <2>2 DEF IInv, ReadsHeld, tree, Spoofed, Gpu, Devices, Externals
  <2> QED
    BY <2>3, <2>4, <2>5 DEF IInv
<1>10. CASE \E k \in Kexts : LoadKext(k)
  BY <1>10, QuietStep DEF LoadKext
<1>11. CASE \E f \in Framebuffers : FramebufferInit(f)
  BY <1>11, QuietStep DEF FramebufferInit
<1>12. CASE OriginalInit
  BY <1>12 DEF OriginalInit, IInv, NamesKnown, NothingRouted, ReadsHeld, tree, Spoofed,
               Gpu, Devices, Externals
<1>13. CASE FramebufferDone
  BY <1>13 DEF FramebufferDone, IInv, NamesKnown, NothingRouted, ReadsHeld, tree, Spoofed,
               Gpu, Devices, Externals
<1>14. CASE UNCHANGED vars
  BY <1>14 DEF vars, IInv, NamesKnown, NothingRouted, ReadsHeld, tree, Spoofed, Gpu,
               Devices, Externals
<1> QED
  BY <1>2, <1>3, <1>4, <1>5, <1>6, <1>7, <1>8, <1>9, <1>10, <1>11, <1>12, <1>13, <1>14
  DEF Next, Boot

\* wrapConfigRead16 and wrapConfigRead32: once a driver has read the id the
\* user asked for, every later read returns it, whatever WEG does meanwhile.
THEOREM IdentityIsStable == Spec => []IdentityStable
<1>1. IInv => IdentityStable
  BY DEF IInv, ReadsHeld, IdentityStable, wrapConfigRead
<1> QED
  BY <1>1, InitIInv, NextIInv, PTL DEF Spec

-----------------------------------------------------------------------------
(* What the screens show.                                                  *)

Early == {"boot", "policy", "devices", "route16", "route32", "decide"}

\* Nothing happens to the screens before WEG has decided.
Untouched ==
  pc \in Early => /\ call = None /\ consoleBuffer = None
                  /\ screenMemory = "boot image" /\ verboseBoot = setup.verbose
                  /\ \A f \in Framebuffers : picture[f] = None

Decided ==
  pc \notin Early =>
    gotConsoleVinfo = (resetFramebuffer \in {"COPY", "ZEROFILL"} /\ setup.vinfo)

Copies == resetFramebuffer = "COPY" /\ gotConsoleVinfo

\* The boot image is copied before the driver writes to the screen, and
\* there is no second copy.
CopiedOnce ==
  /\ consoleBuffer \in {None, "boot image"}
  /\ consoleBuffer # None => Copies /\ ~baseAddr
  /\ Copies /\ baseAddr => screenMemory = "boot image"
  /\ screenMemory \in {"boot image", "driver"}

\* The initialisation in progress keeps to what it has found out.
CallRight ==
  /\ call \in Calls \cup {None}
  /\ call = None => verboseBoot = setup.verbose
  /\ call # None =>
       LET same == setup.mode[call.fb] = "same"
       IN  /\ call.verboseBoot = setup.verbose
           /\ verboseBoot = (setup.verbose \/ ~call.backCopy)
           /\ call.backCopy = (Copies /\ consoleBuffer # None /\ ~setup.verbose /\ same)
           /\ call.zeroFill = (resetFramebuffer = "ZEROFILL" /\ gotConsoleVinfo /\ same)
           /\ Copies => ~baseAddr
           /\ call.done => picture[call.fb] = IF verboseBoot THEN "console" ELSE "garbage"

InProgress(f) == call # None /\ call.fb = f /\ call.done

ShownRight ==
  /\ picture \in [Framebuffers -> Pictures \cup {None}]
  /\ \A f \in Framebuffers :
       /\ picture[f] # None /\ Copies => ~baseAddr
       /\ setup.vram[f] /\ picture[f] # None /\ ~InProgress(f) => Shown(f)

ScreenTypes == setup \in Setups /\ verboseBoot \in BOOLEAN /\ setup.verbose \in BOOLEAN

SInv == ScreenTypes /\ Untouched /\ Decided /\ CopiedOnce /\ CallRight /\ ShownRight

\* No framebuffer is initialised before the boot.
LEMMA InitSInv == Init => SInv
<1> SUFFICES ASSUME Init PROVE SInv
  OBVIOUS
<1>1. ScreenTypes
  BY SetupAssumption DEF Init, ScreenTypes, SetupType
<1>2. ShownRight
  BY DEF Init, ShownRight
<1> QED
  BY <1>1, <1>2 DEF Init, SInv, Untouched, Decided, CopiedOnce, CallRight, Early, Copies

\* A step that does nothing to the screens, once WEG has decided.
LEMMA ScreenQuiet ==
  ASSUME SInv, UNCHANGED <<setup, resetFramebuffer, gotConsoleVinfo, screen>>,
         pc' \in Early => pc \in Early, pc \in Early => pc' \in Early
  PROVE  SInv'
BY DEF SInv, ScreenTypes, Untouched, Decided, CopiedOnce, CallRight, ShownRight, Copies,
       InProgress, Shown, screen

\* A decision, while the screens are untouched.
LEMMA ScreenDecision ==
  ASSUME SInv, pc \in Early,
         UNCHANGED <<setup, consoleBuffer, verboseBoot, call, screenMemory, picture>>,
         Decided'
  PROVE  SInv'
BY DEF SInv, ScreenTypes, Untouched, CopiedOnce, CallRight, ShownRight, Copies

\* No step leaves the invariant.
LEMMA NextSInv == SInv /\ [Next]_vars => SInv'
<1> SUFFICES ASSUME SInv, [Next]_vars PROVE SInv'
  OBVIOUS
<1> USE NoneAssumption
<1>1. CASE WEGInit
  BY <1>1, ScreenDecision DEF WEGInit, Early, Decided, screen
<1>2. CASE ProcessPolicy
  BY <1>2, ScreenQuiet DEF ProcessPolicy, Early
<1>3. CASE ProcessBuiltin
  BY <1>3, ScreenDecision DEF ProcessBuiltin, Early, Decided, screen
<1>4. CASE ProcessExternal
  BY <1>4, ScreenDecision DEF ProcessExternal, Early, Decided, screen
<1>5. CASE Route
  BY <1>5, ScreenQuiet DEF Route, RouteConfigRead, Early, choices
<1>6. CASE DevicesDone
  BY <1>6, ScreenQuiet DEF DevicesDone, Early, choices
<1>7. CASE Decide
  BY <1>7, ScreenDecision DEF Decide, Early, Decided
<1>8. CASE \E w \in Widths, d \in Devices : ConfigRead(w, d)
  BY <1>8, ScreenQuiet DEF ConfigRead, choices
<1>9. CASE \E k \in Kexts : LoadKext(k)
  BY <1>9, ScreenQuiet DEF LoadKext, choices, Early
<1>10. CASE \E f \in Framebuffers : FramebufferInit(f)
  <2> PICK f \in Framebuffers : FramebufferInit(f)
    BY <1>10
  <2>1. /\ UNCHANGED <<setup, pc, resetFramebuffer, gotConsoleVinfo, screenMemory, picture>>
        /\ pc = "running" /\ call = None
    BY DEF FramebufferInit, choices
  <2>2. /\ verboseBoot = setup.verbose /\ setup.verbose \in BOOLEAN
        /\ gotConsoleVinfo \in BOOLEAN
    BY <2>1 DEF SInv, CallRight, ScreenTypes, Decided, Early
  <2>3. \/ /\ Copies /\ baseAddr /\ ~baseAddr'
           /\ consoleBuffer' \in {screenMemory, None}
        \/ ~(Copies /\ baseAddr) /\ UNCHANGED <<consoleBuffer, baseAddr>>
    BY DEF FramebufferInit, CaptureConsole, Copies
  <2>4. Copies' = Copies
    BY <2>1 DEF Copies
  <2>5. /\ call'.fb = f /\ call'.done = FALSE /\ call'.verboseBoot = verboseBoot
        /\ call'.backCopy = (/\ Copies /\ consoleBuffer' # None /\ ~verboseBoot
                             /\ setup.mode[f] = "same")
        /\ call'.zeroFill = (/\ resetFramebuffer = "ZEROFILL" /\ gotConsoleVinfo
                             /\ setup.mode[f] = "same")
        /\ verboseBoot' = (verboseBoot \/ ~call'.backCopy)
        /\ call' \in Calls
    BY <2>2, Zenon DEF FramebufferInit, Copies, Calls
  <2>6. CopiedOnce'
    <3>1. CopiedOnce
      BY DEF SInv
    <3>2. consoleBuffer' \in {None, "boot image"}
      BY <2>3, <3>1 DEF CopiedOnce
    <3>3. consoleBuffer' # None => Copies' /\ ~baseAddr'
      BY <2>3, <2>4, <3>1 DEF CopiedOnce
    <3>4. Copies' /\ baseAddr' => screenMemory' = "boot image"
      BY <2>1, <2>3, <2>4, <3>1 DEF CopiedOnce
    <3> QED
      BY <2>1, <3>1, <3>2, <3>3, <3>4 DEF CopiedOnce
  <2>7. CallRight'
    <3>1. call' \in Calls /\ call' # None
      BY <2>5
    <3>2. setup'.mode = setup.mode /\ setup'.verbose = setup.verbose
      BY <2>1
    <3>3. call'.backCopy = (Copies' /\ consoleBuffer' # None /\ ~setup'.verbose
                            /\ setup'.mode[call'.fb] = "same")
      BY <2>2, <2>4, <2>5, <3>2
    <3>4. call'.zeroFill = (/\ resetFramebuffer' = "ZEROFILL" /\ gotConsoleVinfo'
                            /\ setup'.mode[call'.fb] = "same")
      BY <2>1, <2>5, <3>2
    <3>5. Copies' => ~baseAddr'
      BY <2>3, <2>4
    <3>6. verboseBoot' = (setup'.verbose \/ ~call'.backCopy)
      BY <2>2, <2>5, <3>2
    <3>7. call'.verboseBoot = setup'.verbose /\ ~call'.done
      BY <2>2, <2>5, <3>2
    <3> QED
      BY <3>1, <3>3, <3>4, <3>5, <3>6, <3>7 DEF CallRight
  <2>8. ShownRight'
    <3>1. \A g \in Framebuffers : picture[g] # None =>
            consoleBuffer' = consoleBuffer /\ (Copies' => ~baseAddr')
      BY <2>3, <2>4 DEF SInv, ShownRight
    <3>2. \A g \in Framebuffers : ~InProgress(g)
      BY <2>1 DEF InProgress
    <3> QED
      BY <2>1, <3>1, <3>2 DEF SInv, ShownRight, Shown
  <2>9. ScreenTypes'
    BY <2>1, <2>2, <2>5 DEF SInv, ScreenTypes
  <2> QED
    BY <2>1, <2>6, <2>7, <2>8, <2>9 DEF SInv, Untouched, Decided, Early
<1>11. CASE OriginalInit
  <2>1. /\ UNCHANGED <<setup, pc, resetFramebuffer, gotConsoleVinfo, baseAddr,
                      consoleBuffer, verboseBoot>>
        /\ pc = "running" /\ call # None /\ ~call.done
        /\ call' = [call EXCEPT !.done = TRUE]
        /\ picture' = [picture EXCEPT ![call.fb] =
                         IF verboseBoot THEN "console" ELSE "garbage"]
        /\ screenMemory' = "driver"
    BY <1>11 DEF OriginalInit, choices
  <2>2. /\ call \in Calls /\ call' \in Calls /\ call'.fb = call.fb /\ call'.done
        /\ call'.backCopy = call.backCopy /\ call'.zeroFill = call.zeroFill
        /\ call'.verboseBoot = call.verboseBoot
    BY <2>1 DEF SInv, CallRight, Calls
  <2>3. picture' \in [Framebuffers -> Pictures \cup {None}]
    BY <2>1 DEF SInv, ShownRight, Pictures
  <2>4. \A f \in Framebuffers :
          picture'[f] = IF f = call.fb THEN (IF verboseBoot THEN "console" ELSE "garbage")
                        ELSE picture[f]
    BY <2>1, <2>2 DEF SInv, ShownRight
  <2>5. Copies' = Copies /\ (Copies => ~baseAddr)
    BY <2>1 DEF SInv, CallRight, Copies
  <2>6. CopiedOnce'
    BY <2>1, <2>5 DEF SInv, CopiedOnce, Early
  <2>7. CallRight'
    <3>1. call.fb \in Framebuffers
      BY <2>2 DEF Calls
    <3> QED
      BY <2>1, <2>2, <2>4, <2>5, <3>1 DEF SInv, CallRight
  <2>8. ShownRight'
    BY <2>1, <2>2, <2>3, <2>4, <2>5 DEF SInv, ShownRight, InProgress, Shown
  <2> QED
    BY <2>1, <2>6, <2>7, <2>8 DEF SInv, ScreenTypes, Untouched, Decided, Early
<1>12. CASE FramebufferDone
  <2>1. /\ UNCHANGED <<setup, pc, resetFramebuffer, gotConsoleVinfo, baseAddr,
                      consoleBuffer, screenMemory>>
        /\ pc = "running" /\ call # None /\ call.done /\ call' = None
        /\ verboseBoot' = IF call.backCopy THEN verboseBoot ELSE call.verboseBoot
    BY <1>12 DEF FramebufferDone, choices, VerboseAfter
  <2>2. call \in Calls /\ call.fb \in Framebuffers
    BY <2>1 DEF SInv, CallRight, Calls
  <2>3. verboseBoot' = setup.verbose
    BY <2>1, <2>2 DEF SInv, CallRight, Calls, ScreenTypes
  <2>4. Copies' = Copies
    BY <2>1 DEF Copies
  <2>5. CallRight'
    BY <2>1, <2>3 DEF CallRight
  <2>6. CopiedOnce'
    BY <2>1, <2>4 DEF SInv, CopiedOnce
  <2> PICK g \in Framebuffers : g = call.fb
    BY <2>2
  <2>7. /\ setup.vram[g] =>
             picture' = [picture EXCEPT ![g] =
                           IF call.backCopy THEN consoleBuffer
                           ELSE IF call.zeroFill THEN "black" ELSE picture[g]]
        /\ ~setup.vram[g] => picture' = picture
    BY <1>12, <2>2 DEF FramebufferDone, SInv, ShownRight
  <2>8. call.backCopy => consoleBuffer = "boot image"
    BY <2>1 DEF SInv, CallRight, CopiedOnce
  <2>9. picture' \in [Framebuffers -> Pictures \cup {None}]
    BY <2>2, <2>7, <2>8 DEF SInv, ShownRight, Pictures
  <2>10. \A f \in Framebuffers \ {g} : picture'[f] = picture[f]
    BY <2>2, <2>7 DEF SInv, ShownRight
  <2>11. \A f \in Framebuffers \ {g} : ~InProgress(f)
    BY <2>1 DEF InProgress
  <2>12. \A f \in Framebuffers \ {g} :
           /\ picture[f] # None /\ Copies => ~baseAddr
           /\ setup.vram[f] /\ picture[f] # None => Shown(f)
    BY <2>11 DEF SInv, ShownRight
  <2>13. Copies => ~baseAddr
    BY <2>1 DEF SInv, CallRight
  <2>14. setup.vram[g] =>
           picture'[g] = IF call.backCopy THEN "boot image"
                               ELSE IF call.zeroFill THEN "black" ELSE "console"
    <3>1. picture[g] = IF verboseBoot THEN "console" ELSE "garbage"
      BY <2>1 DEF SInv, CallRight
    <3>2. ~call.backCopy => verboseBoot
      BY <2>1 DEF SInv, CallRight
    <3> QED
      BY <3>1, <3>2, <2>2, <2>7, <2>8 DEF SInv, ShownRight
  <2>15. setup.vram[g] => Shown(g)'
    <3>1. /\ call.backCopy = (/\ Copies /\ consoleBuffer # None /\ ~setup.verbose
                              /\ setup.mode[g] = "same")
          /\ call.zeroFill = (/\ resetFramebuffer = "ZEROFILL" /\ gotConsoleVinfo
                              /\ setup.mode[g] = "same")
      BY <2>1 DEF SInv, CallRight
    <3>2. resetFramebuffer = "ZEROFILL" /\ setup.vinfo => gotConsoleVinfo
      BY <2>1 DEF SInv, Decided, Early
    <3>3. consoleBuffer # None => Copies
      BY DEF SInv, CopiedOnce
    <3> QED
      BY <3>1, <3>2, <3>3, <2>1, <2>14 DEF Shown, Copies
  <2>16. ShownRight'
    BY <2>1, <2>4, <2>9, <2>10, <2>12, <2>13, <2>15 DEF ShownRight, Shown
  <2> QED
    BY <2>1, <2>3, <2>5, <2>6, <2>16
    DEF SInv, ScreenTypes, Untouched, Decided, Early
<1>13. CASE UNCHANGED vars
  BY <1>13, ScreenQuiet DEF vars, choices
<1> QED
  BY <1>1, <1>2, <1>3, <1>4, <1>5, <1>6, <1>7, <1>8, <1>9, <1>10, <1>11, <1>12, <1>13
  DEF Next, Boot

\* wrapFramebufferInit: however often and in whatever order framebuffers are
\* initialised, each one shows what was chosen for it, and the flag of a
\* verbose boot is the user's again afterwards.
THEOREM ScreensAreAsChosen == Spec => []ScreensAsChosen
<1>1. SInv => ScreensAsChosen
  BY DEF SInv, CallRight, ShownRight, InProgress, ScreensAsChosen
<1> QED
  BY <1>1, InitSInv, NextSInv, PTL DEF Spec
-----------------------------------------------------------------------------
(* The ids that are seen when WEG is ready.                                *)

\* A GPU that has the name of an external GPU, or for which there is one.
Nameable(d) == \/ Gpu(d).name = "GFX"
               \/ /\ ~Gpu(d).preserve
                  /\ Cardinality(NamedBefore(d)) <= MaxExternalGfxIndex

\* External GPUs keep their names until they are processed. Then they have a
\* new one, if there is any.
NamesSoFar ==
  /\ \A d \in Devices : name[d] \in [kind : NameKinds, digit : Nat \cup {None}]
  /\ \A d \in Externals : /\ d >= todo => name[d].kind = Gpu(d).name
                          /\ d < todo /\ Nameable(d) => name[d].kind = "GFX"

\* No more names are used than there were GPUs to be named.
Counted == /\ currentExternalGfxIndex \in Nat
           /\ currentExternalGfxIndex <= Cardinality(NamedBefore(todo))

\* The IGPU has its name once it is processed, and its flag if it is faked.
BuiltinSeen ==
  /\ hasIgpuSpoof => setup.builtin # None /\ SpoofsBuiltin(setup.builtin)
  /\ todo >= 1 /\ setup.builtin # None =>
       /\ name[0].kind = "IGPU"
       /\ SpoofsBuiltin(setup.builtin) => hasIgpuSpoof

\* The flag of external GPUs says that one of those processed is faked.
ExternalsSeen ==
  /\ hasGfxSpoof => todo >= 1 /\ \E e \in Externals : SpoofsExternal(Gpu(e))
  /\ \A d \in Externals : d < todo /\ SpoofsExternal(Gpu(d)) => hasGfxSpoof

\* The functions are replaced before the next GPU is looked at.
FunctionsReplaced ==
  /\ pc = "route32" => 16 \in routed
  /\ hasIgpuSpoof \/ hasGfxSpoof => Widths \subseteq routed
                                    \/ pc \in {"route16", "route32"}

\* WEG is ready when all GPUs have been processed.
AllSeen ==
  /\ pc \in {"decide", "running", "panic"} /\ setup.info
       /\ (~setup.apple \/ setup.rebuildTree) => todo > Len(setup.externals)

IdsInv == NamesSoFar /\ Counted /\ BuiltinSeen /\ ExternalsSeen
            /\ FunctionsReplaced /\ AllSeen

\* The GPUs to be named are counted one by one.
LEMMA NamedBeforeNext ==
  ASSUME setup \in Setups, NEW d \in Nat
  PROVE  /\ IsFiniteSet(NamedBefore(d)) /\ Cardinality(NamedBefore(d)) \in Nat
         /\ Cardinality(NamedBefore(d)) <= Cardinality(NamedBefore(d + 1))
         /\ d \in Externals /\ ~Gpu(d).preserve /\ Gpu(d).name # "GFX" =>
              Cardinality(NamedBefore(d + 1)) = Cardinality(NamedBefore(d)) + 1
<1>1. setup.externals \in Seq(Gpus)
  BY SetupAssumption DEF SetupType
<1>2. Externals = 1..Len(setup.externals) /\ Len(setup.externals) \in Nat
  BY <1>1 DEF Externals
<1>3. IsFiniteSet(1..Len(setup.externals))
  BY <1>2, FS_Interval
<1>4. \A e \in Nat : IsFiniteSet(NamedBefore(e)) /\ Cardinality(NamedBefore(e)) \in Nat
  <2>1. \A e \in Nat : NamedBefore(e) \subseteq 1..Len(setup.externals)
    BY <1>2 DEF NamedBefore
  <2> QED
    BY <1>3, <2>1, FS_Subset, FS_CardinalityType
<1>5. NamedBefore(d) \subseteq NamedBefore(d + 1)
  BY <1>2 DEF NamedBefore
<1>6. Cardinality(NamedBefore(d)) <= Cardinality(NamedBefore(d + 1))
  BY <1>4, <1>5, FS_Subset
<1>7. ASSUME d \in Externals, ~Gpu(d).preserve, Gpu(d).name # "GFX"
      PROVE  Cardinality(NamedBefore(d + 1)) = Cardinality(NamedBefore(d)) + 1
  <2>1. NamedBefore(d + 1) = NamedBefore(d) \cup {d}
    BY <1>2, <1>7 DEF NamedBefore
  <2>2. d \notin NamedBefore(d)
    BY DEF NamedBefore
  <2> QED
    BY <1>4, <2>1, <2>2, FS_AddElement
<1> QED
  BY <1>4, <1>6, <1>7

\* Before the boot no GPU has been looked at.
LEMMA InitIdsInv == Init => IdsInv
<1> SUFFICES ASSUME Init PROVE IdsInv
  OBVIOUS
<1>1. setup \in Setups /\ todo = 0 /\ ~hasIgpuSpoof /\ ~hasGfxSpoof
  BY DEF Init
<1>2. Externals \subseteq Nat \ {0} /\ Externals \subseteq Devices
  BY <1>1, ExternalsPositive DEF Devices
<1>3. NamesSoFar
  <2>1. \A d \in Devices : name[d] = [kind |-> Gpu(d).name, digit |-> None]
    BY DEF Init
  <2>2. \A d \in Devices : Gpu(d).name \in NameKinds
    <3>1. /\ setup.builtin \in Gpus \cup {None}
          /\ \A d \in Externals : setup.externals[d] \in Gpus
      BY <1>1, SetupAssumption DEF SetupType, Externals
    <3>2. \A g \in Gpus : g.name \in NameKinds
      BY DEF Gpus
    <3>3. SUFFICES ASSUME NEW d \in Devices PROVE Gpu(d) \in Gpus
      BY <3>2
    <3>4. CASE d = 0
      BY <1>2, <3>1, <3>4 DEF Devices, Gpu
    <3>5. CASE d # 0
      BY <3>1, <3>5 DEF Devices, Gpu
    <3> QED
      BY <3>4, <3>5
  <2>3. \A d \in Externals : ~(d < 0)
    BY <1>2
  <2>4. \A d \in Devices : name[d] \in [kind : NameKinds, digit : Nat \cup {None}]
    <3>1. SUFFICES ASSUME NEW d \in Devices
                   PROVE  name[d] \in [kind : NameKinds, digit : Nat \cup {None}]
      OBVIOUS
    <3>2. name[d] = [kind |-> Gpu(d).name, digit |-> None] /\ Gpu(d).name \in NameKinds
      BY <2>1, <2>2
    <3> QED
      BY <3>2
  <2>5. \A d \in Externals : name[d].kind = Gpu(d).name
    <3>1. SUFFICES ASSUME NEW d \in Externals PROVE name[d].kind = Gpu(d).name
      OBVIOUS
    <3>2. name[d] = [kind |-> Gpu(d).name, digit |-> None]
      BY <1>2, <2>1
    <3> QED
      BY <3>2
  <2> QED
    BY <1>1, <2>3, <2>4, <2>5 DEF NamesSoFar
<1>4. Counted
  <2>1. Cardinality(NamedBefore(0)) \in Nat
    BY <1>1, NamedBeforeNext
  <2>2. currentExternalGfxIndex = 0
    BY DEF Init
  <2> QED
    BY <1>1, <2>1, <2>2 DEF Counted
<1>5. BuiltinSeen /\ ExternalsSeen
  BY <1>1, <1>2 DEF BuiltinSeen, ExternalsSeen
<1>6. FunctionsReplaced /\ AllSeen
  BY <1>1 DEF Init, FunctionsReplaced, AllSeen
<1> QED
  BY <1>3, <1>4, <1>5, <1>6 DEF IdsInv

\* A step that leaves names, flags and functions alone.
LEMMA IdsQuiet ==
  ASSUME IdsInv, UNCHANGED <<setup, todo, tree, routed>>,
         pc' \notin {"route32"} \/ pc' = pc,
         pc \in {"route16", "route32"} => pc' = pc,
         pc' \in {"decide", "running", "panic"} /\ setup.info
           /\ (~setup.apple \/ setup.rebuildTree) =>
              pc \in {"decide", "running", "panic"} \/ todo > Len(setup.externals)
  PROVE  IdsInv'
<1>1. UNCHANGED <<setup, todo, name, currentExternalGfxIndex, hasIgpuSpoof,
                  hasGfxSpoof, routed>>
  BY DEF tree
<1>2. /\ Externals' = Externals /\ \A d : Gpu(d)' = Gpu(d)
      /\ \A d : NamedBefore(d)' = NamedBefore(d)
  BY <1>1 DEF Externals, Gpu, NamedBefore
<1>3. NamesSoFar' /\ Counted'
  BY <1>1, <1>2 DEF IdsInv, NamesSoFar, Counted, Nameable, NamedBefore, Externals, Gpu,
                    Devices
<1>4. BuiltinSeen' /\ ExternalsSeen'
  BY <1>1, <1>2 DEF IdsInv, BuiltinSeen, ExternalsSeen
<1>5. FunctionsReplaced' /\ AllSeen'
  BY <1>1 DEF IdsInv, FunctionsReplaced, AllSeen
<1> QED
  BY <1>3, <1>4, <1>5 DEF IdsInv

\* Every step keeps it.
LEMMA NextIdsInv == ASSUME IInv, IdsInv, [Next]_vars PROVE IdsInv'
<1>1. Externals \subseteq Nat \ {0} /\ setup \in Setups /\ todo \in Nat
  BY ExternalsPositive DEF IInv, NamesKnown, NothingRouted
<1>2. CASE WEGInit
  BY <1>2, IdsQuiet DEF WEGInit
<1>3. CASE ProcessPolicy
  BY <1>3, IdsQuiet DEF ProcessPolicy
<1>4. CASE ProcessBuiltin
  <2>1. /\ pc = "devices" /\ todo = 0 /\ todo' = 1 /\ setup' = setup /\ routed' = routed
    BY <1>4 DEF ProcessBuiltin
  <2>2. /\ hasGfxSpoof' = hasGfxSpoof
        /\ currentExternalGfxIndex' = currentExternalGfxIndex
        /\ hasIgpuSpoof' <=> \/ hasIgpuSpoof
                             \/ setup.builtin # None /\ SpoofsBuiltin(setup.builtin)
        /\ setup.builtin = None => name' = name /\ pc' = pc
        /\ setup.builtin # None =>
             /\ name' = [name EXCEPT ![0].kind = "IGPU"]
             /\ pc' = IF SpoofsBuiltin(setup.builtin) THEN "route16" ELSE pc
    BY <1>4 DEF ProcessBuiltin, tree
  <2>3. \A d \in Externals : name'[d] = name[d]
    BY <1>1, <2>2 DEF IInv, NamesKnown, Devices
  <2>4. setup.builtin # None =>
          /\ name'[0].kind = "IGPU"
          /\ name'[0] \in [kind : NameKinds, digit : Nat \cup {None}]
    <3>1. SUFFICES ASSUME setup.builtin # None
                   PROVE  /\ name'[0].kind = "IGPU"
                          /\ name'[0] \in [kind : NameKinds, digit : Nat \cup {None}]
      OBVIOUS
    <3>2. 0 \in Devices /\ name[0] \in [kind : NameKinds, digit : Nat \cup {None}]
      BY <3>1 DEF IdsInv, NamesSoFar, Devices
    <3>3. name'[0] = [name[0] EXCEPT !.kind = "IGPU"]
      BY <2>2, <3>1, <3>2 DEF IInv, NamesKnown
    <3> QED
      BY <3>2, <3>3 DEF NameKinds
  <2>5. NamesSoFar'
    <3>1. Devices' = Devices /\ Externals' = Externals /\ \A d : Gpu(d)' = Gpu(d)
      BY <2>1 DEF Devices, Externals, Gpu
    <3>2. \A d \in Devices : name'[d] \in [kind : NameKinds, digit : Nat \cup {None}]
      BY <2>3, <2>4 DEF Devices, IdsInv, NamesSoFar
    <3>3. \A d \in Externals : d >= 0 /\ ~(d < 1)
      BY <1>1
    <3> QED
      BY <2>1, <2>3, <3>1, <3>2, <3>3 DEF IdsInv, NamesSoFar
  <2>6. Counted'
    <3>1. 0 + 1 = 1
      OBVIOUS
    <3>2. Cardinality(NamedBefore(0)) <= Cardinality(NamedBefore(1))
          /\ Cardinality(NamedBefore(0)) \in Nat /\ Cardinality(NamedBefore(1)) \in Nat
      BY <1>1, <3>1, NamedBeforeNext
    <3>3. Counted' <=> /\ currentExternalGfxIndex' \in Nat
                       /\ currentExternalGfxIndex' <= Cardinality(NamedBefore(1))
      BY <2>1 DEF Counted, NamedBefore, Externals, Gpu
    <3> QED
      BY <2>1, <2>2, <3>2, <3>3 DEF IdsInv, Counted
  <2>7. BuiltinSeen'
    BY <2>1, <2>2, <2>4 DEF IdsInv, BuiltinSeen
  <2>8. ExternalsSeen'
    BY <1>1, <2>1, <2>2 DEF IdsInv, ExternalsSeen, Externals, Gpu
  <2>9. FunctionsReplaced' /\ AllSeen'
    BY <2>1, <2>2 DEF IdsInv, FunctionsReplaced, AllSeen
  <2> QED
    BY <2>5, <2>6, <2>7, <2>8, <2>9 DEF IdsInv
<1>5. CASE ProcessExternal
  <2>1. /\ pc = "devices" /\ todo \in Externals /\ todo' = todo + 1
        /\ setup' = setup /\ routed' = routed /\ hasIgpuSpoof' = hasIgpuSpoof
        /\ hasGfxSpoof' = (hasGfxSpoof \/ SpoofsExternal(Gpu(todo)))
        /\ pc' = IF SpoofsExternal(Gpu(todo)) THEN "route16" ELSE pc
    BY <1>1, <1>5, ExternalsPositive DEF ProcessExternal, GfxSpoof
  <2>2. IF NeedsName(todo)
        THEN /\ name' = [name EXCEPT ![todo] = [kind |-> "GFX",
                                                digit |-> currentExternalGfxIndex]]
             /\ currentExternalGfxIndex' = currentExternalGfxIndex + 1
        ELSE name' = name /\ currentExternalGfxIndex' = currentExternalGfxIndex
    BY <1>5 DEF ProcessExternal
  <2>3. todo \in Devices /\ 0 # todo
    BY <1>1, <2>1 DEF Devices
  <2>4. \A d \in Devices : d # todo => name'[d] = name[d]
    BY <2>2 DEF IInv, NamesKnown
  <2>5. NeedsName(todo) => name'[todo].kind = "GFX"
    BY <2>2, <2>3 DEF IInv, NamesKnown
  <2>6. name[todo].kind = Gpu(todo).name
    BY <1>1, <2>1 DEF IdsInv, NamesSoFar
  <2>7. /\ Cardinality(NamedBefore(todo)) \in Nat
        /\ Cardinality(NamedBefore(todo + 1)) \in Nat
        /\ Cardinality(NamedBefore(todo)) <= Cardinality(NamedBefore(todo + 1))
        /\ currentExternalGfxIndex \in Nat
        /\ currentExternalGfxIndex <= Cardinality(NamedBefore(todo))
    BY <1>1, NamedBeforeNext DEF IdsInv, Counted
  <2>8. Nameable(todo) => name'[todo].kind = "GFX"
    <3>1. CASE Gpu(todo).name = "GFX"
      BY <2>2, <2>6, <3>1 DEF NeedsName
    <3>2. CASE Gpu(todo).name # "GFX" /\ Nameable(todo)
      <4>1. currentExternalGfxIndex <= MaxExternalGfxIndex
        BY <2>7, <3>2, IndexAssumption DEF Nameable
      <4> QED
        BY <2>5, <2>6, <3>2, <4>1 DEF NeedsName, Nameable
    <3> QED
      BY <3>1, <3>2
  <2>9. \A d : Nameable(d)' <=> Nameable(d)
    BY <2>1 DEF Nameable, NamedBefore, Externals, Gpu
  <2>10. NamesSoFar'
    <3>0. \A d \in Devices : name'[d] \in [kind : NameKinds, digit : Nat \cup {None}]
      <4>1. NeedsName(todo) =>
              name'[todo] \in [kind : NameKinds, digit : Nat \cup {None}]
        BY <2>2, <2>3, <2>7 DEF IInv, NamesKnown, NameKinds
      <4> QED
        BY <2>2, <2>4, <4>1 DEF IdsInv, NamesSoFar
    <3>1. SUFFICES ASSUME NEW d \in Externals
                   PROVE  /\ d >= todo + 1 => name'[d].kind = Gpu(d).name
                          /\ d < todo + 1 /\ Nameable(d) => name'[d].kind = "GFX"
      BY <2>1, <2>9, <3>0 DEF NamesSoFar, Externals, Gpu, Devices
    <3>2. CASE d = todo
      BY <1>1, <2>8, <3>2
    <3>3. CASE d # todo
      <4>1. name'[d] = name[d]
        BY <2>4, <3>3 DEF Devices
      <4>2. /\ d >= todo + 1 => d >= todo
            /\ d < todo + 1 => d < todo
        BY <1>1, <3>3
      <4> QED
        BY <4>1, <4>2 DEF IdsInv, NamesSoFar
    <3> QED
      BY <3>2, <3>3
  <2>11. Counted'
    <3>1. Counted' <=> /\ currentExternalGfxIndex' \in Nat
                       /\ currentExternalGfxIndex' <= Cardinality(NamedBefore(todo + 1))
      BY <2>1 DEF Counted, NamedBefore, Externals, Gpu
    <3>2. CASE NeedsName(todo)
      <4>1. Cardinality(NamedBefore(todo + 1)) = Cardinality(NamedBefore(todo)) + 1
        BY <1>1, <2>1, <2>6, <3>2, NamedBeforeNext DEF NeedsName
      <4> QED
        BY <2>2, <2>7, <3>1, <3>2, <4>1
    <3>3. CASE ~NeedsName(todo)
      BY <2>2, <2>7, <3>1, <3>3
    <3> QED
      BY <3>2, <3>3
  <2>12. BuiltinSeen'
    <3>1. setup.builtin # None => name'[0] = name[0]
      BY <2>3, <2>4 DEF Devices
    <3>2. todo >= 1
      BY <1>1, <2>1
    <3> QED
      BY <2>1, <3>1, <3>2 DEF IdsInv, BuiltinSeen
  <2>13. ExternalsSeen'
    <3>1. todo + 1 >= 1
      BY <1>1
    <3>2. hasGfxSpoof' => \E e \in Externals : SpoofsExternal(Gpu(e))
      BY <2>1 DEF IdsInv, ExternalsSeen
    <3>3. \A d \in Externals : d < todo + 1 /\ SpoofsExternal(Gpu(d)) => hasGfxSpoof'
      <4>1. SUFFICES ASSUME NEW d \in Externals, d < todo + 1, SpoofsExternal(Gpu(d))
                     PROVE  hasGfxSpoof'
        OBVIOUS
      <4>2. d < todo \/ d = todo
        BY <1>1, <4>1
      <4> QED
        BY <2>1, <4>1, <4>2 DEF IdsInv, ExternalsSeen
    <3> QED
      BY <2>1, <3>1, <3>2, <3>3 DEF ExternalsSeen, Externals, Gpu
  <2>14. FunctionsReplaced' /\ AllSeen'
    BY <2>1 DEF IdsInv, FunctionsReplaced, AllSeen
  <2> QED
    BY <2>10, <2>11, <2>12, <2>13, <2>14 DEF IdsInv
<1>6. CASE Route
  <2>1. /\ UNCHANGED <<setup, todo, name, currentExternalGfxIndex, hasIgpuSpoof, hasGfxSpoof>>
        /\ \/ pc = "route16" /\ pc' = "route32" /\ routed' = routed \cup {16}
           \/ pc = "route32" /\ pc' = "devices" /\ routed' = routed \cup {32}
    BY <1>6 DEF Route, RouteConfigRead, tree
  <2>2. FunctionsReplaced'
    BY <2>1 DEF IdsInv, FunctionsReplaced, Widths
  <2>3. NamesSoFar' /\ Counted'
    BY <2>1 DEF IdsInv, NamesSoFar, Counted, Nameable, NamedBefore, Externals, Gpu,
                Devices
  <2>4. BuiltinSeen' /\ ExternalsSeen' /\ AllSeen'
    BY <2>1 DEF IdsInv, BuiltinSeen, ExternalsSeen, AllSeen, Externals, Gpu
  <2> QED
    BY <2>2, <2>3, <2>4 DEF IdsInv
<1>7. CASE DevicesDone
  BY <1>7, IdsQuiet DEF DevicesDone
<1>8. CASE Decide
  BY <1>8, IdsQuiet DEF Decide
<1>9. CASE \E w \in Widths, d \in Devices : ConfigRead(w, d)
  BY <1>9, IdsQuiet DEF ConfigRead
<1>10. CASE \E k \in Kexts : LoadKext(k)
  BY <1>10, IdsQuiet DEF LoadKext
<1>11. CASE \E f \in Framebuffers : FramebufferInit(f)
  BY <1>11, IdsQuiet DEF FramebufferInit
<1>12. CASE OriginalInit \/ FramebufferDone \/ UNCHANGED vars
  BY <1>12, IdsQuiet DEF OriginalInit, FramebufferDone, vars
<1> QED
  BY <1>2, <1>3, <1>4, <1>5, <1>6, <1>7, <1>8, <1>9, <1>10, <1>11, <1>12 DEF Next, Boot

\* The two halves of the property.
LEMMA InvIdsAsAsked == IInv /\ IdsInv => IdsAsAsked
<1> SUFFICES ASSUME IInv, IdsInv, NEW d \in Devices, NEW w \in Widths
             PROVE
               /\ /\ pc = "running" /\ setup.info /\ (~setup.apple \/ setup.rebuildTree)
                  /\ Asked(d)
                  /\ d = 0 \/ /\ Gpu(d).amd
                              /\ \/ Gpu(d).name = "GFX"
                                 \/ /\ ~Gpu(d).preserve
                                    /\ Cardinality(NamedBefore(d)) <= MaxExternalGfxIndex
                  => wrapConfigRead(w, d) = Gpu(d).acpi
               /\ /\ Gpu(d).optOut
                  /\ d = 0 \/ ~\E e \in Externals : Gpu(e).amd /\ Asked(e)
                  => wrapConfigRead(w, d) = Gpu(d).real
  BY Zenon DEF IdsAsAsked
<1>1. /\ Externals \subseteq Nat \ {0} /\ setup \in Setups /\ todo \in Nat
      /\ \A e \in Externals : name[e].kind # "IGPU"
  BY ExternalsPositive DEF IInv, NamesKnown, NothingRouted
<1>2. /\ d = 0 => setup.builtin # None /\ Gpu(d) = setup.builtin
      /\ d # 0 => d \in Externals
  BY <1>1 DEF Devices, Gpu
<1>3. ASSUME pc = "running", setup.info, ~setup.apple \/ setup.rebuildTree, Asked(d),
             d = 0 \/ (Gpu(d).amd /\ Nameable(d))
      PROVE  wrapConfigRead(w, d) = Gpu(d).acpi
  <2>1. todo > Len(setup.externals) /\ Len(setup.externals) \in Nat
    BY <1>1, <1>3, SetupAssumption DEF IdsInv, AllSeen, SetupType
  <2>2. Spoofed(d)
    <3>1. CASE d = 0
      <4>1. SpoofsBuiltin(Gpu(d))
        BY <1>3 DEF Asked, SpoofsBuiltin, fakeDevice
      <4>2. hasIgpuSpoof /\ name[0].kind = "IGPU"
        <5>1. setup.builtin # None /\ SpoofsBuiltin(setup.builtin)
          BY <1>2, <3>1, <4>1
        <5>2. todo >= 1
          BY <1>1, <2>1
        <5> QED
          BY <5>1, <5>2 DEF IdsInv, BuiltinSeen
      <4> QED
        BY <3>1, <4>2 DEF Spoofed
    <3>2. CASE d # 0
      <4>1. d < todo
        BY <1>1, <1>2, <2>1, <3>2, SetupAssumption DEF Externals, SetupType
      <4>2. SpoofsExternal(Gpu(d))
        BY <1>3, <3>2 DEF Asked, SpoofsExternal
      <4> QED
        BY <1>2, <1>3, <3>2, <4>1, <4>2 DEF IdsInv, ExternalsSeen, NamesSoFar, Spoofed
    <3> QED
      BY <3>1, <3>2
  <2>3. w \in routed
    BY <1>3, <2>2 DEF IdsInv, FunctionsReplaced, Spoofed
  <2> QED
    BY <1>3, <2>2, <2>3 DEF wrapConfigRead, Asked
<1>4. ASSUME Gpu(d).optOut, d = 0 \/ ~\E e \in Externals : Gpu(e).amd /\ Asked(e)
      PROVE  wrapConfigRead(w, d) = Gpu(d).real
  <2>1. CASE d = 0
    <3>1. ~hasIgpuSpoof
      BY <1>2, <1>4, <2>1 DEF IdsInv, BuiltinSeen, SpoofsBuiltin
    <3>2. hasGfxSpoof => name[d].kind = "IGPU"
      BY <1>2, <2>1 DEF IdsInv, BuiltinSeen, ExternalsSeen
    <3> QED
      BY <3>1, <3>2 DEF wrapConfigRead, Spoofed
  <2>2. CASE d # 0
    <3>1. ~hasGfxSpoof
      BY <1>4, <2>2 DEF IdsInv, ExternalsSeen, SpoofsExternal, Asked
    <3> QED
      BY <1>1, <1>2, <2>2, <3>1 DEF wrapConfigRead, Spoofed
  <2> QED
    BY <2>1, <2>2
<1>5. /\ pc = "running" /\ setup.info /\ (~setup.apple \/ setup.rebuildTree) /\ Asked(d)
      /\ d = 0 \/ (Gpu(d).amd /\ Nameable(d))
      => wrapConfigRead(w, d) = Gpu(d).acpi
  BY <1>3
<1>6. /\ Gpu(d).optOut
      /\ d = 0 \/ ~\E e \in Externals : Gpu(e).amd /\ Asked(e)
      => wrapConfigRead(w, d) = Gpu(d).real
  BY <1>4
<1> QED
  BY <1>5, <1>6, Zenon DEF Nameable

\* processBuiltinProperties and processExternalProperties: on every machine,
\* whenever drivers read the configuration, a GPU is seen under the id that was
\* asked for once WEG is ready, and one that has opted out under its own,
\* unless another of its kind is faked.
THEOREM IdsAreAsAsked == Spec => []IdsAsAsked
<1>1. Init => IInv /\ IdsInv
  BY InitIInv, InitIdsInv
<1>2. IInv /\ IdsInv /\ [Next]_vars => IInv' /\ IdsInv'
  BY NextIInv, NextIdsInv
<1> QED
  BY <1>1, <1>2, InvIdsAsAsked, PTL DEF Spec
-----------------------------------------------------------------------------
(* The graphics policy.                                                    *)

\* A non-empty set of numbers has a least element.
LEMMA LeastIndex ==
  ASSUME NEW S, S \subseteq Nat, S # {}
  PROVE  \E m \in S : \A n \in S : m <= n
<1> DEFINE Less == {ss \in Nat \X Nat : ss[1] < ss[2]}
<1>1. IsWellFoundedOn(Less, Nat)
  <2>1. Less = OpToRel(<, Nat)
    BY Zenon DEF OpToRel
  <2> QED
    BY <2>1, NatLessThanWellFounded, Zenon
<1>2. PICK m \in S : \A n \in S : <<n, m>> \notin Less
  BY <1>1, WFMin, Zenon
<1>3. \A n \in S : n \in Nat /\ m \in Nat /\ ~(n < m)
  BY <1>2
<1> QED
  BY <1>2, <1>3

\* What the user asked for with the boot argument, else with a property.
PolicyChosen ==
  IF setup.agdpmod # None THEN processGraphicsPolicyStr(setup.agdpmod)
  ELSE IF setup.info /\ PolicySources # {} THEN processGraphicsPolicyStr(FirstPolicy)
  ELSE {"DETECT"}

PolicyInv ==
  /\ setup \in Setups
  /\ pc \in {"boot", "policy", "devices", "route16", "route32", "decide", "running", "panic"}
  /\ pc = "policy" =>
       graphicsDisplayPolicyMod = IF setup.agdpmod = None THEN {"DETECT"}
                                  ELSE processGraphicsPolicyStr(setup.agdpmod)
  /\ pc \in {"devices", "route16", "route32", "decide"} =>
       graphicsDisplayPolicyMod = PolicyChosen
  /\ pc \in {"running", "panic"} =>
       graphicsDisplayPolicyMod =
         IF "DETECT" \notin PolicyChosen THEN PolicyChosen
         ELSE IF setup.info /\ isGraphicsPolicyModRequired
              THEN {"SET", "vit9696", "pikera"} ELSE {"SET"}

\* A choice of the user always has the bit that tells it from the default.
LEMMA PolicyShape ==
  ASSUME NEW ws
  PROVE  /\ "SET" \in processGraphicsPolicyStr(ws)
         /\ processGraphicsPolicyStr(ws) # {"DETECT"}
         /\ processGraphicsPolicyStr(ws) \subseteq Patches \cup {"SET", "DETECT"}
         /\ "DETECT" \in processGraphicsPolicyStr(ws) <=> "detect" \in ws
         /\ "detect" \notin ws =>
              processGraphicsPolicyStr(ws) \ {"SET"} =
                {p \in Patches : p \in ws /\ "ignore" \notin ws}
<1>1. "SET" \notin Patches /\ "DETECT" \notin Patches /\ "detect" \notin Patches
  BY DEF Patches
<1>2. CASE "detect" \in ws
  BY <1>2 DEF processGraphicsPolicyStr
<1>3. CASE "detect" \notin ws
  <2>1. processGraphicsPolicyStr(ws) =
          {"SET"} \cup (IF "ignore" \in ws THEN {} ELSE ws \cap Patches)
    BY <1>3 DEF processGraphicsPolicyStr
  <2> QED
    BY <1>1, <1>3, <2>1
<1> QED
  BY <1>2, <1>3

\* Only three steps change the policy, each once.
LEMMA NextPolicyInv == PolicyInv /\ [Next]_vars => PolicyInv'
<1> SUFFICES ASSUME PolicyInv, [Next]_vars PROVE PolicyInv'
  OBVIOUS
<1>1. setup' = setup
  BY DEF Next, Boot, WEGInit, ProcessPolicy, ProcessBuiltin, ProcessExternal, Route,
         RouteConfigRead, DevicesDone, Decide, ConfigRead, LoadKext, FramebufferInit,
         OriginalInit, FramebufferDone, vars
<1>2. PolicyChosen' = PolicyChosen
      /\ isGraphicsPolicyModRequired' = isGraphicsPolicyModRequired
  BY <1>1 DEF PolicyChosen, PolicySources, FirstPolicy, PolicyGpus,
              isGraphicsPolicyModRequired
<1>3. CASE WEGInit
  BY <1>1, <1>3 DEF WEGInit, PolicyInv
<1>4. CASE ProcessPolicy
  <2>1. pc = "policy" /\ pc' \in {"devices", "decide"}
    BY <1>4 DEF ProcessPolicy
  <2>2. graphicsDisplayPolicyMod' =
          IF setup.info /\ UsesProperties /\ PolicySources # {}
          THEN processGraphicsPolicyStr(FirstPolicy)
          ELSE graphicsDisplayPolicyMod
    BY <1>4 DEF ProcessPolicy
  <2>3. UsesProperties <=> setup.agdpmod = None
    BY <2>1, PolicyShape DEF PolicyInv, UsesProperties
  <2>4. graphicsDisplayPolicyMod' = PolicyChosen
    BY <2>1, <2>2, <2>3 DEF PolicyInv, PolicyChosen
  <2> QED
    BY <1>1, <1>2, <2>1, <2>4 DEF PolicyInv
<1>5. CASE ProcessBuiltin \/ ProcessExternal \/ Route \/ DevicesDone
  <2>1. /\ graphicsDisplayPolicyMod' = graphicsDisplayPolicyMod
        /\ pc \in {"devices", "route16", "route32", "decide"}
        /\ pc' \in {"devices", "route16", "route32", "decide"}
    BY <1>5 DEF ProcessBuiltin, ProcessExternal, Route, RouteConfigRead, DevicesDone,
                choices
  <2> QED
    BY <1>1, <1>2, <2>1 DEF PolicyInv
<1>6. CASE Decide
  <2>1. pc = "decide" /\ pc' = "running"
    BY <1>6 DEF Decide
  <2>2. graphicsDisplayPolicyMod' =
          IF "DETECT" \notin graphicsDisplayPolicyMod THEN graphicsDisplayPolicyMod
          ELSE IF setup.info /\ isGraphicsPolicyModRequired
               THEN {"SET", "vit9696", "pikera"} ELSE {"SET"}
    BY <1>6 DEF Decide
  <2> QED
    BY <1>1, <1>2, <2>1, <2>2 DEF PolicyInv
<1>7. CASE \/ \E w \in Widths, d \in Devices : ConfigRead(w, d)
           \/ \E k \in Kexts : LoadKext(k)
           \/ \E f \in Framebuffers : FramebufferInit(f)
           \/ OriginalInit \/ FramebufferDone \/ UNCHANGED vars
  <2>1. /\ graphicsDisplayPolicyMod' = graphicsDisplayPolicyMod
        /\ \/ pc' = pc
           \/ pc = "running" /\ pc' = "panic"
    BY <1>7 DEF ConfigRead, LoadKext, FramebufferInit, OriginalInit, FramebufferDone,
                vars, choices
  <2> QED
    BY <1>1, <1>2, <2>1 DEF PolicyInv
<1> QED
  BY <1>3, <1>4, <1>5, <1>6, <1>7 DEF Next, Boot

\* Whoever asks first is heard.
LEMMA InvPolicyAsPromised == PolicyInv => PolicyAsPromised
<1> SUFFICES ASSUME PolicyInv, pc = "running" PROVE PolicyAsPromised
  BY DEF PolicyAsPromised
<1> DEFINE asked == [k \in DOMAIN PolicyGpus |-> PolicyGpus[k].agdp]
           said == <<setup.agdpmod>> \o (IF setup.info THEN asked ELSE <<>>)
           first == {said[k] : k \in {k \in DOMAIN said :
                       said[k] # None /\ \A l \in 1..(k - 1) : said[l] = None}}
           detects == first = {} \/ \E ws \in first : "detect" \in ws
           named == {p \in Patches : \E ws \in first : p \in ws /\ "ignore" \notin ws}
           needed == setup.info /\ isGraphicsPolicyModRequired
<1>1. /\ setup.externals \in Seq(Gpus) /\ setup.agdpmod \in SUBSET Words \cup {None}
      /\ setup.builtin \in Gpus \cup {None}
  BY SetupAssumption DEF PolicyInv, SetupType
<1>2. PolicyGpus \in Seq(Gpus)
  BY <1>1 DEF PolicyGpus
<1>3. /\ Len(PolicyGpus) \in Nat /\ DOMAIN PolicyGpus = 1..Len(PolicyGpus)
      /\ \A k \in 1..Len(PolicyGpus) : PolicyGpus[k].agdp \in SUBSET Words \cup {None}
  <2>1. \A g \in Gpus : g.agdp \in SUBSET Words \cup {None}
    BY DEF Gpus
  <2>2. \A k \in 1..Len(PolicyGpus) : PolicyGpus[k] \in Gpus
    BY <1>2
  <2> QED
    BY <1>2, <2>1, <2>2
<1>4. /\ asked \in Seq(SUBSET Words \cup {None}) /\ Len(asked) = Len(PolicyGpus)
      /\ \A k \in 1..Len(PolicyGpus) : asked[k] = PolicyGpus[k].agdp
  BY <1>3
<1>5. /\ DOMAIN said = 1..(IF setup.info THEN Len(PolicyGpus) + 1 ELSE 1)
      /\ said[1] = setup.agdpmod
      /\ setup.info => \A k \in 1..Len(PolicyGpus) : said[k + 1] = PolicyGpus[k].agdp
  BY <1>1, <1>3, <1>4
<1> HIDE DEF asked, said
<1>6. graphicsDisplayPolicyMod =
         IF "DETECT" \notin PolicyChosen THEN PolicyChosen
         ELSE IF needed THEN {"SET", "vit9696", "pikera"} ELSE {"SET"}
  BY DEF PolicyInv
<1>7. IF setup.agdpmod # None THEN first = {setup.agdpmod}
      ELSE IF setup.info /\ PolicySources # {} THEN first = {FirstPolicy}
      ELSE first = {}
  <2>1. CASE setup.agdpmod # None
    <3>1. 1 \in DOMAIN said /\ \A k \in DOMAIN said : k \in Nat /\ k >= 1
      BY <1>3, <1>5
    <3>2. said[1] # None /\ \A l \in 1..(1 - 1) : said[l] = None
      BY <1>5, <2>1
    <3>3. \A k \in DOMAIN said : (\A l \in 1..(k - 1) : said[l] = None) => k = 1
      BY <3>1, <3>2
    <3>4. first = {said[1]}
      BY <3>1, <3>2, <3>3
    <3> HIDE DEF first
    <3> QED
      BY <1>5, <2>1, <3>4
  <2>2. CASE setup.agdpmod = None /\ setup.info /\ PolicySources # {}
    <3>1. PolicySources \subseteq 1..Len(PolicyGpus) /\ PolicySources \subseteq Nat
      BY <1>3 DEF PolicySources
    <3>2. PICK m \in PolicySources : \A l \in PolicySources : m <= l
      BY <2>2, <3>1, LeastIndex
    <3>3. FirstPolicy = PolicyGpus[m].agdp
      <4>1. \A k \in PolicySources : (\A l \in PolicySources : k <= l) => k = m
        BY <3>1, <3>2
      <4>2. (CHOOSE k \in PolicySources : \A l \in PolicySources : k <= l) = m
        BY <3>2, <4>1
      <4> QED
        BY <4>2 DEF FirstPolicy
    <3>4. /\ m \in 1..Len(PolicyGpus) /\ PolicyGpus[m].agdp # None
          /\ \A k \in 1..Len(PolicyGpus) : k < m => PolicyGpus[k].agdp = None
      BY <1>3, <3>1, <3>2 DEF PolicySources
    <3>5. /\ m + 1 \in DOMAIN said /\ said[m + 1] = FirstPolicy /\ said[m + 1] # None
      BY <1>3, <1>5, <2>2, <3>3, <3>4
    <3>6. \A l \in 1..m : said[l] = None
      <4>1. SUFFICES ASSUME NEW l \in 1..m PROVE said[l] = None
        OBVIOUS
      <4>2. CASE l = 1
        BY <1>5, <2>2, <4>2
      <4>3. CASE l # 1
        <5>1. /\ l - 1 \in 1..Len(PolicyGpus) /\ l - 1 < m /\ (l - 1) + 1 = l
          BY <1>3, <3>4, <4>3
        <5>2. said[(l - 1) + 1] = PolicyGpus[l - 1].agdp
          BY <1>5, <2>2, <5>1
        <5> QED
          BY <3>4, <5>1, <5>2
      <4> QED
        BY <4>2, <4>3
    <3>7. ASSUME NEW k \in DOMAIN said, said[k] # None,
                 \A l \in 1..(k - 1) : said[l] = None
          PROVE  k = m + 1
      <4>1. k \in Nat /\ k >= 1 /\ m \in Nat /\ m >= 1
        BY <1>3, <1>5, <3>4
      <4>2. k \notin 1..m
        BY <3>6, <3>7
      <4>3. ~(m + 1 \in 1..(k - 1))
        BY <3>5, <3>7
      <4> QED
        BY <4>1, <4>2, <4>3
    <3>8. \A l \in 1..((m + 1) - 1) : said[l] = None
      BY <3>1, <3>2, <3>6
    <3>9. first = {said[m + 1]}
      BY <3>5, <3>7, <3>8
    <3> HIDE DEF first
    <3> QED
      BY <2>2, <3>5, <3>9
  <2>3. CASE setup.agdpmod = None /\ ~(setup.info /\ PolicySources # {})
    <3>1. \A k \in DOMAIN said : said[k] = None
      <4>1. SUFFICES ASSUME NEW k \in DOMAIN said PROVE said[k] = None
        OBVIOUS
      <4>2. CASE k = 1
        BY <1>5, <2>3, <4>2
      <4>3. CASE k # 1
        <5>1. setup.info /\ k - 1 \in 1..Len(PolicyGpus) /\ (k - 1) + 1 = k
          BY <1>3, <1>5, <4>3
        <5>2. said[(k - 1) + 1] = PolicyGpus[k - 1].agdp
          BY <1>5, <5>1
        <5> QED
          BY <1>3, <2>3, <5>1, <5>2 DEF PolicySources
      <4> QED
        BY <4>2, <4>3
    <3>2. first = {}
      BY <3>1
    <3> HIDE DEF first
    <3> QED
      BY <2>3, <3>2
  <2> QED
    BY <2>1, <2>2, <2>3
<1>8. \/ first = {} /\ PolicyChosen = {"DETECT"}
      \/ \E ws : first = {ws} /\ PolicyChosen = processGraphicsPolicyStr(ws)
  BY <1>7 DEF PolicyChosen
<1>9. graphicsDisplayPolicyMod \ {"SET"} =
        IF detects THEN (IF needed THEN {"vit9696", "pikera"} ELSE {}) ELSE named
  <2>1. CASE first = {} /\ PolicyChosen = {"DETECT"}
    BY <1>6, <2>1
  <2>2. ASSUME NEW ws, first = {ws}, PolicyChosen = processGraphicsPolicyStr(ws)
        PROVE  graphicsDisplayPolicyMod \ {"SET"} =
                 IF detects THEN (IF needed THEN {"vit9696", "pikera"} ELSE {}) ELSE named
    <3>1. detects <=> "detect" \in ws
      BY <2>2
    <3>2. named = {p \in Patches : p \in ws /\ "ignore" \notin ws}
      BY <2>2
    <3> HIDE DEF first, detects, named, needed
    <3> QED
      BY <1>6, <2>2, <3>1, <3>2, PolicyShape
  <2> QED
    BY <1>8, <2>1, <2>2
<1> QED
  BY <1>9 DEF PolicyAsPromised, PolicyGpus, said, asked

\* processKernel and processGraphicsPolicyStr: on every machine the patches of
\* the graphics policy are those that the first one to be heard names, or the
\* default if none names any or detection is asked for.
THEOREM PolicyIsAsPromised == Spec => []PolicyAsPromised
<1>1. Init => PolicyInv
  BY DEF Init, PolicyInv
<1> QED
  BY <1>1, NextPolicyInv, InvPolicyAsPromised, PTL DEF Spec
-----------------------------------------------------------------------------
(* The choices and the kexts.                                              *)

Deciding == {"policy", "devices", "route16", "route32", "decide"}
Late == {"running", "panic"}

\* The boot argument of the backlight, and the GPUs that say something else
\* than "detect".
BootBacklight == IF setup.applbkl = None THEN "DETECT" ELSE setup.applbkl
Says(d) == Gpu(d).applbkl \notin {None, "DETECT"}

\* The first of the GPUs seen so far that says something is heard.
BacklightSoFar ==
  IF setup.apple \/ BootBacklight # "DETECT" THEN appleBacklightPatch = BootBacklight
  ELSE \/ /\ appleBacklightPatch = "DETECT"
          /\ \A d \in Devices : d < todo => ~Says(d)
       \/ \E d \in Devices : /\ d < todo /\ Says(d)
                             /\ appleBacklightPatch = Gpu(d).applbkl
                             /\ \A e \in Devices : Says(e) => d <= e

\* Kexts are registered for what may still be chosen, and let go in the end.
Registered ==
  /\ patched \subseteq watched /\ (pc \notin Late => patched = {})
  /\ pc # "boot" => ("IOGraphics" \in watched <=> resetFramebuffer # "NONE")
  /\ pc \in Deciding => "AGDPolicy" \in watched \/ graphicsDisplayPolicyMod = {"SET"}
  /\ pc \in Late => ("AGDPolicy" \in watched <=> graphicsDisplayPolicyMod # {"SET"})
  /\ pc \in Deciding => ("Backlight" \in watched <=> BootBacklight # "OFF")
  /\ pc \in Late /\ setup.info => ("Backlight" \in watched <=> BacklightWanted)

ChoiceInv == /\ pc \in {"boot", "policy"} => todo = 0
             /\ pc \in Deciding => BacklightSoFar
             /\ Registered

\* GPUs are numbered from 0.
LEMMA DevicesAreNumbers ==
  ASSUME setup \in Setups
  PROVE  /\ Devices \subseteq Nat /\ Externals \subseteq Devices
         /\ Externals = 1..Len(setup.externals) /\ Len(setup.externals) \in Nat
         /\ 0 \in Devices <=> setup.builtin # None
         /\ \A d \in Devices : d = 0 \/ d \in Externals
<1>1. setup.externals \in Seq(Gpus)
  BY SetupAssumption DEF SetupType
<1>2. Externals = 1..Len(setup.externals) /\ Len(setup.externals) \in Nat
  BY <1>1 DEF Externals
<1>3. 0 \notin Externals /\ Externals \subseteq Nat
  BY <1>2
<1> QED
  BY <1>2, <1>3 DEF Devices

\* One GPU after the other is heard.
LEMMA BacklightNext ==
  ASSUME setup \in Setups, todo \in Nat, BacklightSoFar, setup' = setup, todo' = todo + 1,
         todo \in Devices => appleBacklightPatch' = BacklightAfter(Gpu(todo)),
         todo \notin Devices => appleBacklightPatch' = appleBacklightPatch
  PROVE  BacklightSoFar'
<1>1. /\ Devices' = Devices /\ BootBacklight' = BootBacklight /\ Devices \subseteq Nat
      /\ \A d : Gpu(d)' = Gpu(d) /\ Says(d)' = Says(d)
  BY DevicesAreNumbers DEF Devices, Externals, BootBacklight, Gpu, Says
<1>2. CASE setup.apple \/ BootBacklight # "DETECT"
  BY <1>1, <1>2 DEF BacklightSoFar, BacklightAfter
<1>3. CASE ~setup.apple /\ BootBacklight = "DETECT"
  <2>1. \A d \in Devices : d < todo + 1 <=> d < todo \/ d = todo
    BY <1>1
  <2>2. CASE /\ appleBacklightPatch = "DETECT"
             /\ \A d \in Devices : d < todo => ~Says(d)
    <3>1. CASE todo \in Devices /\ Says(todo)
      <4>1. appleBacklightPatch' = Gpu(todo).applbkl
        BY <1>3, <2>2, <3>1 DEF BacklightAfter, Says
      <4>2. \A e \in Devices : Says(e) => todo <= e
        BY <1>1, <2>2
      <4> QED
        BY <1>1, <1>3, <2>1, <3>1, <4>1, <4>2 DEF BacklightSoFar
    <3>2. CASE ~(todo \in Devices /\ Says(todo))
      <4>1. appleBacklightPatch' = "DETECT"
        BY <1>3, <2>2, <3>2 DEF BacklightAfter, Says
      <4> QED
        BY <1>1, <1>3, <2>1, <2>2, <3>2, <4>1 DEF BacklightSoFar
    <3> QED
      BY <3>1, <3>2
  <2>3. CASE \E d \in Devices : /\ d < todo /\ Says(d)
                                /\ appleBacklightPatch = Gpu(d).applbkl
                                /\ \A e \in Devices : Says(e) => d <= e
    <3>1. appleBacklightPatch' = appleBacklightPatch
      BY <2>3 DEF BacklightAfter, Says
    <3> QED
      BY <1>1, <1>3, <2>1, <2>3, <3>1 DEF BacklightSoFar
  <2> QED
    BY <1>3, <2>2, <2>3 DEF BacklightSoFar
<1> QED
  BY <1>2, <1>3

\* When all GPUs have been heard, the backlight is let go if it is not wanted.
LEMMA BacklightDecided ==
  ASSUME setup \in Setups, BacklightSoFar, setup.info, todo \in Nat,
         ~setup.apple => todo > Len(setup.externals)
  PROVE  BacklightWanted <=> BootBacklight # "OFF" /\ ~BacklightUnused
<1>1. /\ Devices \subseteq Nat /\ Len(setup.externals) \in Nat
      /\ Externals = 1..Len(setup.externals)
      /\ \A d \in Devices : d = 0 \/ d \in Externals
  BY DevicesAreNumbers
<1>2. None # "ON" /\ None # "DETECT" /\ None # "OFF"
  BY NoneAssumption DEF BacklightModes
<1>3. CASE setup.apple
  BY <1>2, <1>3 DEF BacklightSoFar, BacklightWanted, BacklightUnused, BootBacklight
<1>4. CASE ~setup.apple /\ BootBacklight # "DETECT"
  BY <1>2, <1>4 DEF BacklightSoFar, BacklightWanted, BacklightUnused, BootBacklight
<1>5. CASE ~setup.apple /\ BootBacklight = "DETECT"
  <2>1. setup.applbkl \in {None, "DETECT"}
    BY <1>5 DEF BootBacklight
  <2>2. \A d \in Devices : d < todo
    BY <1>1, <1>5
  <2> DEFINE decided == {d \in Devices : Gpu(d).applbkl \notin {None, "DETECT"}}
  <2>3. decided = {d \in Devices : Says(d)}
    BY DEF Says
  <2>4. BacklightWanted =
          IF decided = {} THEN setup.builtin # None /\ setup.externals = <<>>
          ELSE \E d \in decided : /\ \A e \in decided : d <= e
                                  /\ Gpu(d).applbkl # "OFF"
    BY <1>5, <2>1 DEF BacklightWanted
  <2> HIDE DEF decided
  <2>5. CASE appleBacklightPatch = "DETECT" /\ decided = {}
    BY <1>5, <2>4, <2>5 DEF BacklightUnused
  <2>6. ASSUME NEW d \in decided, appleBacklightPatch = Gpu(d).applbkl,
               \A e \in decided : d <= e
        PROVE  BacklightWanted <=> BootBacklight # "OFF" /\ ~BacklightUnused
    <3>1. appleBacklightPatch # "DETECT"
      BY <2>3, <2>6 DEF Says
    <3>2. \A x \in decided : (\A e \in decided : x <= e) => x = d
      BY <1>1, <2>3, <2>6
    <3>3. BacklightWanted <=> Gpu(d).applbkl # "OFF"
      BY <2>4, <2>6, <3>2
    <3>4. BacklightUnused <=> Gpu(d).applbkl = "OFF"
      BY <1>5, <2>6, <3>1 DEF BacklightUnused
    <3> QED
      BY <1>5, <3>3, <3>4
  <2>7. \/ appleBacklightPatch = "DETECT" /\ decided = {}
        \/ \E d \in decided : /\ appleBacklightPatch = Gpu(d).applbkl
                              /\ \A e \in decided : d <= e
    BY <1>5, <2>2, <2>3 DEF BacklightSoFar
  <2> QED
    BY <2>5, <2>6, <2>7
<1> QED
  BY <1>3, <1>4, <1>5

\* Nothing is registered before the boot.
LEMMA InitChoiceInv == Init => ChoiceInv
BY DEF Init, ChoiceInv, Registered, Deciding, Late

\* A step after which the choices and the kexts are the same.
LEMMA ChoiceQuiet ==
  ASSUME ChoiceInv, UNCHANGED <<setup, todo, choices, watched, patched>>,
         pc # "boot", pc' \notin {"boot", "policy"},
         pc' \in Late <=> pc \in Late, pc' \in Deciding => pc \in Deciding
  PROVE  ChoiceInv'
<1>1. /\ UNCHANGED <<setup, todo, watched, patched, resetFramebuffer,
                    graphicsDisplayPolicyMod, appleBacklightPatch>>
      /\ BacklightWanted' = BacklightWanted /\ BootBacklight' = BootBacklight
      /\ BacklightSoFar' = BacklightSoFar
  BY DEF choices, BacklightWanted, BootBacklight, BacklightSoFar, Devices, Externals, Gpu,
         Says
<1> QED
  BY <1>1 DEF ChoiceInv, Registered

\* Every step keeps the invariant.
LEMMA NextChoiceInv ==
  ASSUME PolicyInv, IInv, IdsInv, ChoiceInv, [Next]_vars PROVE ChoiceInv'
<1>1. /\ setup \in Setups /\ todo \in Nat
      /\ pc \in {"boot"} \cup Deciding \cup Late
  BY DEF PolicyInv, IInv, NothingRouted, Deciding, Late
<1>2. setup' = setup
  BY DEF Next, Boot, WEGInit, ProcessPolicy, ProcessBuiltin, ProcessExternal, Route,
         RouteConfigRead, DevicesDone, Decide, ConfigRead, LoadKext, FramebufferInit,
         OriginalInit, FramebufferDone, vars
<1>3. BacklightWanted' = BacklightWanted /\ BootBacklight' = BootBacklight
  BY <1>2 DEF BacklightWanted, BootBacklight, Devices, Externals, Gpu
<1>4. CASE WEGInit
  <2>1. /\ pc = "boot" /\ pc' = "policy" /\ todo' = todo /\ patched' = patched
        /\ appleBacklightPatch' = BootBacklight
        /\ "IOGraphics" \in watched' <=> resetFramebuffer' # "NONE"
        /\ "AGDPolicy" \in watched' <=> graphicsDisplayPolicyMod' # {"SET"}
        /\ "Backlight" \in watched' <=> appleBacklightPatch' # "OFF"
    BY <1>4 DEF WEGInit, BootBacklight, Kexts
  <2>2. todo = 0 /\ patched = {}
    BY <2>1 DEF ChoiceInv, Registered, Late
  <2>3. \A d \in Devices' : ~(d < 0)
    BY <1>1, <1>2, DevicesAreNumbers DEF Devices, Externals
  <2>4. BacklightSoFar'
    BY <1>3, <2>1, <2>2, <2>3 DEF BacklightSoFar
  <2> QED
    BY <1>3, <2>1, <2>2, <2>4 DEF ChoiceInv, Registered, Deciding, Late
<1>5. CASE ProcessPolicy
  <2>1. /\ pc = "policy" /\ pc' \in {"devices", "decide"}
        /\ UNCHANGED <<todo, patched, watched, resetFramebuffer, appleBacklightPatch>>
        /\ \/ graphicsDisplayPolicyMod' = graphicsDisplayPolicyMod
           \/ graphicsDisplayPolicyMod = {"DETECT"}
    BY <1>5 DEF ProcessPolicy, UsesProperties
  <2>2. BacklightSoFar' = BacklightSoFar
    BY <1>2, <2>1 DEF BacklightSoFar, BootBacklight, Devices, Externals, Gpu, Says
  <2>3. {"DETECT"} # {"SET"}
    OBVIOUS
  <2> QED
    BY <1>3, <2>1, <2>2, <2>3 DEF ChoiceInv, Registered, Deciding, Late
<1>6. CASE ProcessBuiltin
  <2>1. /\ pc = "devices" /\ todo = 0 /\ todo' = 0 + 1 /\ pc' \in {"devices", "route16"}
        /\ UNCHANGED <<patched, watched, graphicsDisplayPolicyMod>>
        /\ \/ resetFramebuffer' = resetFramebuffer
           \/ resetFramebuffer = "DETECT" /\ resetFramebuffer' = "COPY"
        /\ 0 \in Devices => appleBacklightPatch' = BacklightAfter(Gpu(0))
        /\ 0 \notin Devices => appleBacklightPatch' = appleBacklightPatch
    BY <1>1, <1>6, DevicesAreNumbers DEF ProcessBuiltin, choices, ResetAfter, Gpu
  <2>2. BacklightSoFar'
    BY <1>1, <1>2, <2>1, BacklightNext DEF ChoiceInv, Deciding
  <2> QED
    BY <1>3, <2>1, <2>2 DEF ChoiceInv, Registered, Deciding, Late
<1>7. CASE ProcessExternal
  <2>1. /\ pc = "devices" /\ todo \in Externals /\ todo' = todo + 1
        /\ pc' \in {"devices", "route16"}
        /\ UNCHANGED <<patched, watched, graphicsDisplayPolicyMod>>
        /\ \/ resetFramebuffer' = resetFramebuffer
           \/ resetFramebuffer = "DETECT" /\ resetFramebuffer' = "ZEROFILL"
        /\ appleBacklightPatch' = BacklightAfter(Gpu(todo))
    BY <1>1, <1>7, ExternalsPositive DEF ProcessExternal, ResetAfter
  <2>2. BacklightSoFar'
    BY <1>1, <1>2, <2>1, BacklightNext, DevicesAreNumbers DEF ChoiceInv, Deciding
  <2> QED
    BY <1>3, <2>1, <2>2 DEF ChoiceInv, Registered, Deciding, Late
<1>8. CASE Route \/ DevicesDone
  BY <1>8, ChoiceQuiet DEF Route, RouteConfigRead, DevicesDone, Deciding, Late
<1>9. CASE Decide
  <2>1. /\ pc = "decide" /\ pc' = "running" /\ patched' = patched
        /\ resetFramebuffer' = IF resetFramebuffer = "DETECT" THEN "NONE"
                               ELSE resetFramebuffer
        /\ watched' = watched \
             ((IF setup.info /\ BacklightUnused THEN {"Backlight"} ELSE {})
              \cup (IF resetFramebuffer = "DETECT" THEN {"IOGraphics"} ELSE {})
              \cup (IF graphicsDisplayPolicyMod' = {"SET"} THEN {"AGDPolicy"} ELSE {}))
    BY <1>9 DEF Decide
  <2>2. /\ patched = {} /\ BacklightSoFar
        /\ "IOGraphics" \in watched <=> resetFramebuffer # "NONE"
        /\ "AGDPolicy" \in watched \/ graphicsDisplayPolicyMod = {"SET"}
        /\ "Backlight" \in watched <=> BootBacklight # "OFF"
    BY <2>1 DEF ChoiceInv, Registered, Deciding, Late
  <2>3. graphicsDisplayPolicyMod = {"SET"} => graphicsDisplayPolicyMod' = {"SET"}
    BY <1>9 DEF Decide
  <2>4. "AGDPolicy" \in watched' <=> graphicsDisplayPolicyMod' # {"SET"}
    BY <2>1, <2>2, <2>3
  <2>5. "IOGraphics" \in watched' <=> resetFramebuffer' # "NONE"
    BY <2>1, <2>2
  <2>6. setup.info => ("Backlight" \in watched' <=> BacklightWanted)
    <3>1. SUFFICES ASSUME setup.info PROVE "Backlight" \in watched' <=> BacklightWanted
      OBVIOUS
    <3>2. ~setup.apple => todo > Len(setup.externals)
      BY <2>1, <3>1 DEF IdsInv, AllSeen
    <3>3. BacklightWanted <=> BootBacklight # "OFF" /\ ~BacklightUnused
      BY <1>1, <2>2, <3>1, <3>2, BacklightDecided
    <3> QED
      BY <2>1, <2>2, <3>1, <3>3
  <2> QED
    BY <1>2, <1>3, <2>1, <2>2, <2>4, <2>5, <2>6 DEF ChoiceInv, Registered, Deciding, Late
<1>10. CASE \E k \in Kexts : LoadKext(k)
  <2>1. /\ UNCHANGED <<todo, choices, watched>> /\ pc = "running"
        /\ pc' \in Late /\ patched' \subseteq watched
    BY <1>10 DEF LoadKext, ChoiceInv, Registered, Late
  <2> QED
    BY <1>2, <1>3, <2>1 DEF ChoiceInv, Registered, Deciding, Late, choices
<1>11. CASE \/ \E w \in Widths, d \in Devices : ConfigRead(w, d)
            \/ \E f \in Framebuffers : FramebufferInit(f)
            \/ OriginalInit \/ FramebufferDone \/ UNCHANGED vars
  <2>1. UNCHANGED <<todo, choices, watched, patched, pc>>
    BY <1>11 DEF ConfigRead, FramebufferInit, OriginalInit, FramebufferDone, vars
  <2>2. BacklightSoFar' = BacklightSoFar
    BY <1>2, <2>1 DEF BacklightSoFar, BootBacklight, Devices, Externals, Gpu, Says, choices
  <2> QED
    BY <1>2, <1>3, <2>1, <2>2 DEF ChoiceInv, Registered, Deciding, Late, choices
<1> QED
  BY <1>4, <1>5, <1>6, <1>7, <1>8, <1>9, <1>10, <1>11 DEF Next, Boot

\* A policy that does more than nothing names a patch.
LEMMA InvChoicesReachKexts == PolicyInv /\ ChoiceInv => ChoicesReachKexts
<1> SUFFICES ASSUME PolicyInv, ChoiceInv, pc = "running", setup.info
             PROVE  ChoicesReachKexts
  BY DEF ChoicesReachKexts
<1>1. graphicsDisplayPolicyMod # {"SET"} <=> graphicsDisplayPolicyMod \cap Patches # {}
  <2>1. \/ PolicyChosen = {"DETECT"}
        \/ \E ws : PolicyChosen = processGraphicsPolicyStr(ws)
    BY DEF PolicyChosen
  <2>2. "DETECT" \notin PolicyChosen =>
          "SET" \in PolicyChosen /\ PolicyChosen \subseteq Patches \cup {"SET"}
    BY <2>1, PolicyShape
  <2>3. graphicsDisplayPolicyMod =
          IF "DETECT" \notin PolicyChosen THEN PolicyChosen
          ELSE IF setup.info /\ isGraphicsPolicyModRequired
               THEN {"SET", "vit9696", "pikera"} ELSE {"SET"}
    BY DEF PolicyInv
  <2>4. /\ "SET" \in graphicsDisplayPolicyMod
        /\ graphicsDisplayPolicyMod \subseteq Patches \cup {"SET"}
    BY <2>2, <2>3 DEF Patches
  <2>5. "SET" \notin Patches
    BY DEF Patches
  <2> QED
    BY <2>4, <2>5
<1>2. /\ patched \subseteq watched
      /\ "IOGraphics" \in watched <=> resetFramebuffer # "NONE"
      /\ "AGDPolicy" \in watched <=> graphicsDisplayPolicyMod # {"SET"}
      /\ "Backlight" \in watched <=> BacklightWanted
  BY DEF ChoiceInv, Registered, Late
<1> QED
  BY <1>1, <1>2 DEF ChoicesReachKexts

\* WEG::init and processKernel: on every machine, when WEG is ready exactly the
\* kexts are registered for which the decision was in favour, although they
\* were registered before the properties were read, and no other is patched.
THEOREM ChoicesReachTheKexts == Spec => []ChoicesReachKexts
<1>1. Init => PolicyInv /\ IInv /\ IdsInv /\ ChoiceInv
  BY InitIInv, InitIdsInv, InitChoiceInv DEF Init, PolicyInv
<1>2. PolicyInv /\ IInv /\ IdsInv /\ ChoiceInv /\ [Next]_vars =>
        PolicyInv' /\ IInv' /\ IdsInv' /\ ChoiceInv'
  BY NextPolicyInv, NextIInv, NextIdsInv, NextChoiceInv
<1> QED
  BY <1>1, <1>2, InvChoicesReachKexts, PTL DEF Spec
=============================================================================
