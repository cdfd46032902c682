----------------------- MODULE BacklightRegistersAlt -----------------------
(***************************************************************************)
(* The alternative backlight registers fix (BLT) for KBL and CFL drivers   *)
(* of macOS 13.4 and later, whose compiler inlined hwSetBacklight().  When *)
(* the framebuffer kext is loaded each function that contains an inlined   *)
(* copy is patched to call hwSetBacklight() instead; when all of them are, *)
(* hwSetBacklight() is replaced by a wrapper that programs the frequency   *)
(* of the firmware and a duty cycle in its scale.                          *)
(*                                                                         *)
(* While the code has not taken over, Apple's driver does what it always   *)
(* did, which is not modelled.  The driver calls its functions in any      *)
(* order; the machine may sleep, and its registers do not survive that.    *)
(***************************************************************************)
EXTENDS BacklightHardware, Sequences

CONSTANTS Supported,     \* does the macOS release inline hwSetBacklight()?
          Regions,       \* lengths of the inlined copies in bytes
          Registers,     \* registers that may hold the controller
          Divider,       \* Apple's frequency divider, the largest level
          ZeroByUser     \* drivers whose user may choose level 0

ASSUME SupportedAssumption == Supported \in BOOLEAN
ASSUME RegionAssumption == Regions \subseteq Nat /\ Registers \subseteq 0..15
ASSUME DividerAssumption == Divider \in Nat \ {0} /\ ZeroByUser \subseteq Platforms

Levels == 0..Divider

VARIABLES pc,            \* where the patching is
          index,         \* function that is being patched
          context,       \* context[k]: length and register of the copy in k
          jump,          \* jump[k]: where function k goes on after its call
          firmwareBacklightFrequency,
          firmwareBacklightControl,
          level,         \* the level stored in the controller
          asked,         \* the level the user wants
          lit            \* has the driver lit the panel?

\* getFunctionDescriptors()
Functions == IF platform = "KBL"
             THEN <<"LightUpEDP", "DisableDisplay", "hwSetPanelPower">>
             ELSE <<"LightUpEDP", "hwSetPanelPower">>
Indices == 1..Len(Functions)
UsesCurrentLevel(k) == Functions[k] # "DisableDisplay"

patching == <<pc, index, context, jump>>
firmware == <<firmwareBacklightFrequency, firmwareBacklightControl>>
altMachine == <<platform, boot, smoother>>
altVars == <<platform, pc, index, context, jump, freq, duty, ctl,
             firmwareBacklightFrequency, firmwareBacklightControl, boot, smoother,
             goal, pending, dest, ranged, level, asked, lit>>

Contexts == [size : Regions, register : Registers]
\* No patched function goes on so far before its copy.
Unpatched == -128

AltInit == /\ HardwareInit
           /\ pc = "version" /\ index = 1
           /\ context \in [Indices -> Contexts]
           /\ jump = [k \in Indices |-> Unpatched]
           /\ firmwareBacklightFrequency = 0 /\ firmwareBacklightControl = 0
           /\ level \in Levels \ {0}
           /\ asked = level
           /\ lit = FALSE

-----------------------------------------------------------------------------
\* The patches

\* Bytes of the templates: save the registers, load the level, pass the
\* controller, call, restore the registers, jump to the end of the copy.
PreserveLength == 13
RestoreLength == 13
LevelLength(r, current) ==
  IF ~current THEN 2 ELSE IF r < 8 THEN 6 ELSE IF r = 12 THEN 8 ELSE 7
PatchLength(r, current) ==
  PreserveLength + LevelLength(r, current) + 3 + 5 + RestoreLength + 2
MaxPatchSize == PreserveLength + 8 + 3 + 5 + RestoreLength + 2

\* The operand of a short jump is a signed byte.
Signed8(b) == IF b < 128 THEN b ELSE b - 256

\* The operand of the jump that is written.
JumpOffset(k) ==
  context[k].size - PatchLength(context[k].register, UsesCurrentLevel(k))

\* isValid(): register 0 counts as "not found".
Found(k) == context[k].register # 0

\* The guards before the functions: the release, the symbol of
\* hwSetBacklight() and the offsets of its members.
Prepare ==
  /\ pc = "version"
  /\ \/ Supported /\ pc' = "functions"
     \/ pc' = "aborted"
  /\ UNCHANGED <<index, context, jump, hardware, firmware, altMachine, smooth,
                 level, asked, lit>>

\* Mutated form of Abort: a function that cannot be patched is left out.
AbortSkips ==
  /\ pc = "functions" /\ index \in Indices
  /\ index' = index + 1
  /\ UNCHANGED <<pc, context, jump, hardware, firmware, altMachine, smooth,
                 level, asked, lit>>

\* Solving the symbol of a function, finding the copy, or writing the patch
\* fails: the functions before stay patched.
Abort ==
  /\ pc = "functions" /\ index \in Indices
  /\ pc' = "aborted"
  /\ UNCHANGED <<index, context, jump, hardware, firmware, altMachine, smooth,
                 level, asked, lit>>

\* Mutated form of Revert: the space is compared with the bytes of this patch
\* less the jump.
RevertTight ==
  /\ pc = "functions" /\ index \in Indices
  /\ Found(index)
  /\ JumpOffset(index) >= -2
  /\ jump' = [jump EXCEPT ![index] = context[index].size - JumpOffset(index)
                                     + Signed8(JumpOffset(index) % 256)]
  /\ pc' = pc
  /\ index' = index + 1
  /\ UNCHANGED <<context, hardware, firmware, altMachine, smooth, level, asked, lit>>

\* revertInlinedInvocation: there is room for the longest patch; a jump that
\* does not fit into a byte stops the machine.
Revert ==
  /\ pc = "functions" /\ index \in Indices
  /\ Found(index)
  /\ context[index].size >= MaxPatchSize
  /\ IF JumpOffset(index) > 255
     THEN pc' = "panic" /\ UNCHANGED <<jump, index>>
     ELSE /\ jump' = [jump EXCEPT ![index] =
                        PatchLength(context[index].register,
                                    UsesCurrentLevel(index))
                        + Signed8(JumpOffset(index))]
          /\ pc' = pc
          /\ index' = index + 1
  /\ UNCHANGED <<context, hardware, firmware, altMachine, smooth, level, asked, lit>>

\* hwSetBacklight() is replaced by the wrapper, or that fails.
Route ==
  /\ pc = "functions" /\ index \notin Indices
  /\ pc' \in {"routed", "aborted"}
  /\ UNCHANGED <<index, context, jump, hardware, firmware, altMachine, smooth,
                 level, asked, lit>>

-----------------------------------------------------------------------------
\* The wrapper

\* fetchFirmwareBacklightFrequencyIfNecessary
Fetched == IF firmwareBacklightFrequency # 0 THEN firmwareBacklightFrequency
           ELSE IF freq # 0 THEN freq ELSE Fallback

calcDutyCycle(frequency, brightness) == (frequency * brightness) \div Divider

writeDutyCycle(v) == WriteDuty(v)

\* [KBL] Level 0 turns the PWM off and is not stored.
wrapHwSetBacklightKBL(brightness) ==
  /\ firmwareBacklightControl' =
       IF firmwareBacklightControl = 0 THEN ctl ELSE firmwareBacklightControl
  /\ firmwareBacklightFrequency' = Fetched
  /\ freq' = IF brightness = 0 THEN 0 ELSE Fetched
  /\ writeDutyCycle(calcDutyCycle(Fetched, brightness))
  /\ level' = IF brightness # 0 THEN brightness ELSE level
  /\ ctl' = IF brightness = 0 THEN 0 ELSE firmwareBacklightControl'

\* [CFL]
wrapHwSetBacklightCFL(brightness) ==
  /\ firmwareBacklightFrequency' = Fetched
  /\ writeDutyCycle(calcDutyCycle(Fetched, brightness))
  /\ freq' = Fetched
  /\ level' = brightness
  /\ UNCHANGED <<ctl, firmwareBacklightControl>>

\* Mutated form of wrapHwSetBacklight: the level is stored whatever it is.
wrapHwSetBacklightStores(brightness) ==
  /\ pc = "routed"
  /\ firmwareBacklightControl' =
       IF firmwareBacklightControl = 0 THEN ctl ELSE firmwareBacklightControl
  /\ firmwareBacklightFrequency' = Fetched
  /\ freq' = IF brightness = 0 THEN 0 ELSE Fetched
  /\ writeDutyCycle(calcDutyCycle(Fetched, brightness))
  /\ level' = brightness
  /\ ctl' = IF brightness = 0 THEN 0 ELSE firmwareBacklightControl'
  /\ UNCHANGED <<patching, altMachine>>

wrapHwSetBacklight(brightness) ==
  /\ pc = "routed"
  /\ IF platform = "KBL" THEN wrapHwSetBacklightKBL(brightness)
                         ELSE wrapHwSetBacklightCFL(brightness)
  /\ UNCHANGED <<patching, altMachine>>

\* The user chooses a level.
SetLevel(b) == /\ wrapHwSetBacklight(b)
               /\ asked' = b
               /\ lit' = (b # 0 \/ platform = "CFL")

\* LightUpEDP and hwSetPanelPower call it with the stored level.
LightUp == wrapHwSetBacklight(level) /\ lit' = TRUE /\ UNCHANGED asked

\* [KBL] DisableDisplay calls it with level 0.
DisableDisplay == /\ platform = "KBL"
                  /\ wrapHwSetBacklight(0)
                  /\ lit' = FALSE
                  /\ UNCHANGED asked

AltSmooth == SmootherStep /\ UNCHANGED <<patching, firmware, level, asked, lit>>

\* The machine sleeps and wakes after its panel was used (and, with KBL
\* drivers, put out): the registers are cleared.
AltSleepAndWake ==
  /\ firmwareBacklightFrequency # 0
  /\ platform = "KBL" => ~lit
  /\ DutyLost /\ ctl' = (IF platform = "KBL" THEN 0 ELSE ctl)
  /\ lit' = FALSE
  /\ UNCHANGED <<patching, firmware, altMachine, level, asked>>

processFramebufferKext == Prepare \/ Abort \/ Revert \/ Route

AltDriver == \/ \E b \in Levels : (b # 0 \/ platform \in ZeroByUser) /\ SetLevel(b)
             \/ LightUp
             \/ DisableDisplay

AltNext == processFramebufferKext \/ AltDriver \/ AltSmooth \/ AltSleepAndWake

AltSpec == AltInit /\ [][AltNext]_altVars

-----------------------------------------------------------------------------
\* Properties

\* The frequency the panel has to run with.
AltWanted == IF boot # 0 THEN boot ELSE Fallback
AltFrequencies == {0, boot, Fallback}

\* Frequencies, duty cycles and control values are the ones of this machine: no
\* product or rescaling leaves the scale.
AltTypeOK ==
  /\ platform \in Platforms
  /\ pc \in {"version", "functions", "routed", "aborted", "panic"}
  /\ index \in 1..(Len(Functions) + 1)
  /\ context \in [Indices -> Contexts]
  /\ jump \in [Indices -> Int]
  /\ boot \in BootValues /\ smoother \in BOOLEAN
  /\ freq \in AltFrequencies
  /\ duty \in Values32
  /\ goal \in Nat /\ \E f \in AltFrequencies : goal <= f
  /\ InRange(dest) /\ dest \in Nat /\ ranged \in BOOLEAN
  /\ ctl \in {0, Control}
  /\ firmwareBacklightFrequency \in AltFrequencies
  /\ firmwareBacklightControl \in {0, Control}
  /\ pending \in BOOLEAN
  /\ level \in Levels /\ asked \in Levels
  /\ lit \in BOOLEAN

\* Whenever the panel is lit and the smoother at rest, it shows the level the
\* user chose, in the scale of the wanted frequency and within the range that
\* the smoother is configured to: also after the display was disabled, and
\* after sleeps.  It holds because the wrappers store the level that the driver
\* lights the panel with later (lines 956 and 1210).  The KBL one stores every
\* level but 0 (line 955), although line 907 says that it stores the given one:
\* the property is about KBL users who cannot choose 0 (ZeroByUser).
ShowsLevel ==
  lit /\ ~pending =>
    /\ freq = AltWanted
    /\ platform = "KBL" => ctl = Control
    /\ \E l \in Values32 : /\ l * Divider <= asked * freq
                           /\ asked * freq < (l + 1) * Divider
                           /\ Reached(l)

\* No patch writes beyond the inlined copy, and a patched function goes on at
\* its end ("Jump to the first instruction after the inlined invocation of
\* hwSetBacklight() returns", line 546).
GoesOnAtEnd ==
  \A k \in Indices : jump[k] # Unpatched =>
    /\ PatchLength(context[k].register, UsesCurrentLevel(k)) <= context[k].size
    /\ jump[k] = context[k].size

\* The wrapper only takes over when every function calls it.
AllOrNothing == pc = "routed" => \A k \in Indices : jump[k] # Unpatched
=============================================================================
