------------------------- MODULE BacklightRegisters -------------------------
(***************************************************************************)
(* The backlight registers fix (BLR).  Apple's driver writes the PWM       *)
(* registers in a scale of its own; the injected functions remember the    *)
(* frequency the firmware had programmed, restore it whenever the driver   *)
(* writes another one, and rescale the duty cycle to it.  On a KBL driver  *)
(* one register carries frequency and duty cycle and another one turns the *)
(* PWM on; on CFL+ drivers each has a register.                            *)
(*                                                                         *)
(* The driver is the environment: it may write its registers in any order, *)
(* and turns the PWM off before the machine sleeps; the registers do not   *)
(* survive the sleep.                                                      *)
(***************************************************************************)
EXTENDS BacklightHardware

CONSTANTS Scales,        \* frequencies a driver may use
          Presets,       \* max-backlight-freq, 0 when it is not given
          ControlFirst   \* may the driver turn the PWM on before it has
                         \* written a frequency?

ASSUME ScalesAssumption == Scales \subseteq Nat \ {0} /\ Scales # {}
ASSUME PresetsAssumption == Presets \subseteq Values32
ASSUME DriverAssumption == ControlFirst \in BOOLEAN

VARIABLES scale,                      \* the driver's frequency
          preset,                     \* the user's
          targetBacklightFrequency,
          targetPwmControl,
          driverBacklightFrequency,
          want,                       \* the driver's last duty cycle, -1: none
          lastFreq, lastCtl           \* what the driver last asked of FREQ1 and
                                      \* CTL1 (turning CTL1 on asks for both)

machine == <<platform, scale, boot, preset, smoother>>    \* fixed while it runs
last == <<lastFreq, lastCtl>>

target == targetBacklightFrequency
vars == <<platform, scale, boot, preset, smoother, freq, duty, ctl,
          targetBacklightFrequency, targetPwmControl, driverBacklightFrequency,
          goal, pending, dest, ranged, want, lastFreq, lastCtl>>

\* The frequency the panel has to run with.
Wanted == IF preset # 0 THEN preset
          ELSE IF boot # 0 THEN boot ELSE Fallback

Init == /\ HardwareInit
        /\ scale \in Scales /\ preset \in Presets
        /\ targetBacklightFrequency = preset
        /\ targetPwmControl = 0
        /\ driverBacklightFrequency = 0
        /\ want = -1
        /\ lastFreq = "none" /\ lastCtl = "none"

\* Mutated form of Captured: the register is read again at every write.
CapturedAgain == IF freq # 0 THEN freq ELSE Fallback

\* The target, captured from the hardware at the first write.
Captured == IF target # 0 THEN target
            ELSE IF freq # 0 THEN freq ELSE Fallback

\* Mutated form of Rescale: the two scales are swapped.
RescaleSwapped(v, f, t) == (v * f) \div t

\* The duty cycle v of the driver's frequency f in units of t.
Rescale(v, f, t) == (v * t) \div f

\* [KBL] FREQ1 with frequency f in its upper and duty cycle v in its lower half.
wrapKBLWriteRegisterPWMFreq1(f, v) ==
  /\ targetBacklightFrequency' = Captured
  /\ freq' = IF f # 0 THEN Captured ELSE 0
  /\ WriteDuty(IF f = 0 THEN 0 ELSE Rescale(v, f, Captured))
  /\ want' = IF f = 0 THEN 0 ELSE v
  /\ lastFreq' = IF f # 0 THEN "on" ELSE "off"
  /\ UNCHANGED <<machine, lastCtl, ctl, targetPwmControl, driverBacklightFrequency>>

\* Mutated forms of wrapKBLWriteRegisterPWMCtrl1: the frequency is not set
\* before the PWM is turned on; the driver's value is written as it is.
wrapKBLWriteRegisterPWMCtrl1NoFrequency(v) ==
  /\ targetPwmControl' = IF targetPwmControl = 0 THEN ctl ELSE targetPwmControl
  /\ ctl' = IF v # 0 THEN targetPwmControl' ELSE 0
  /\ lastCtl' = IF v # 0 THEN "on" ELSE "off"
  /\ lastFreq' = IF v # 0 THEN "on" ELSE lastFreq
  /\ UNCHANGED <<machine, freq, duty, targetBacklightFrequency,
                 driverBacklightFrequency, smooth, want>>

wrapKBLWriteRegisterPWMCtrl1Driver(v) ==
  /\ targetPwmControl' = IF targetPwmControl = 0 THEN ctl ELSE targetPwmControl
  /\ freq' = IF v # 0 THEN target ELSE freq
  /\ ctl' = v
  /\ lastCtl' = IF v # 0 THEN "on" ELSE "off"
  /\ lastFreq' = IF v # 0 THEN "on" ELSE lastFreq
  /\ UNCHANGED <<machine, duty, targetBacklightFrequency,
                 driverBacklightFrequency, smooth, want>>

\* [KBL] CTL1: the firmware's value instead of any non-zero one.
wrapKBLWriteRegisterPWMCtrl1(v) ==
  /\ targetPwmControl' = IF targetPwmControl = 0 THEN ctl ELSE targetPwmControl
  /\ freq' = IF v # 0 THEN target ELSE freq
  /\ ctl' = IF v # 0 THEN targetPwmControl' ELSE 0
  /\ lastCtl' = IF v # 0 THEN "on" ELSE "off"
  /\ lastFreq' = IF v # 0 THEN "on" ELSE lastFreq
  /\ UNCHANGED <<machine, duty, targetBacklightFrequency,
                 driverBacklightFrequency, smooth, want>>

\* [CFL+] The part of FREQ1's function that the duty cycle's one also calls.
SetFrequency(f) ==
  /\ driverBacklightFrequency' = IF f # 0 THEN f ELSE driverBacklightFrequency
  /\ targetBacklightFrequency' = Captured
  /\ freq' = IF f # 0 THEN Captured ELSE 0

\* [CFL+] FREQ1
wrapCFLWriteRegisterPWMFreq1(f) ==
  /\ SetFrequency(f)
  /\ lastFreq' = IF f # 0 THEN "on" ELSE "off"
  /\ UNCHANGED <<machine, duty, ctl, targetPwmControl, smooth, want, lastCtl>>

\* [CFL+] DUTY1.  A driver that has not written a frequency yet uses the one
\* that SFUSE_STRAP selects.
wrapCFLWriteRegisterPWMDuty1(v) ==
  /\ IF v # 0 /\ driverBacklightFrequency = 0
     THEN SetFrequency(scale)
     ELSE UNCHANGED <<freq, driverBacklightFrequency, targetBacklightFrequency>>
  /\ WriteDuty(IF driverBacklightFrequency' # 0 /\ targetBacklightFrequency' # 0
               THEN Rescale(v, driverBacklightFrequency',
                            targetBacklightFrequency')
               ELSE v)
  /\ want' = v
  /\ lastFreq' = IF v # 0 /\ driverBacklightFrequency = 0 THEN "on" ELSE lastFreq
  /\ UNCHANGED <<machine, ctl, targetPwmControl, lastCtl>>

Smooth == /\ SmootherStep
          /\ UNCHANGED <<scale, preset, targetBacklightFrequency,
                         targetPwmControl, driverBacklightFrequency, want, last>>

\* The machine sleeps and wakes: the registers are cleared.  The driver has
\* turned the PWM off before.
SleepAndWake ==
  /\ lastFreq = "off"
  /\ platform = "KBL" => lastCtl = "off"
  /\ DutyLost /\ ctl' = 0
  /\ want' = -1
  /\ UNCHANGED <<machine, targetBacklightFrequency, targetPwmControl,
                 driverBacklightFrequency, last>>

KBLDriver ==
  \/ \E v \in 0..scale : wrapKBLWriteRegisterPWMFreq1(scale, v)
  \/ wrapKBLWriteRegisterPWMFreq1(0, 0)
  \/ wrapKBLWriteRegisterPWMCtrl1(0)
  \/ /\ ControlFirst \/ lastFreq # "none"
     /\ wrapKBLWriteRegisterPWMCtrl1(Control + 1)

CFLDriver ==
  \/ wrapCFLWriteRegisterPWMFreq1(scale)
  \/ wrapCFLWriteRegisterPWMFreq1(0)
  \/ \E v \in 0..scale : wrapCFLWriteRegisterPWMDuty1(v)

Next == \/ platform = "KBL" /\ KBLDriver
        \/ platform = "CFL" /\ CFLDriver
        \/ Smooth
        \/ SleepAndWake

Spec == Init /\ [][Next]_vars

-----------------------------------------------------------------------------
\* Properties

\* The values the frequency register can have on this machine.
Frequencies == {0, boot, preset, Fallback}

\* Frequencies, duty cycles and control values are the ones of this machine: no
\* product or rescaling leaves the scale.
TypeOK ==
  /\ platform \in Platforms
  /\ scale \in Scales /\ boot \in BootValues /\ preset \in Presets
  /\ smoother \in BOOLEAN
  /\ freq \in Frequencies
  /\ duty \in Values32
  /\ goal \in Nat /\ \E f \in Frequencies : goal <= f
  /\ pending \in BOOLEAN /\ InRange(dest) /\ dest \in Nat /\ ranged \in BOOLEAN
  /\ ctl \in {0, Control}
  /\ targetBacklightFrequency \in Frequencies
  /\ targetPwmControl \in {0, Control}
  /\ driverBacklightFrequency \in {0, scale}
  /\ want \in (-1)..scale
  /\ lastFreq \in {"none", "on", "off"} /\ lastCtl \in {"none", "on", "off"}

\* When the driver has set a level and the smoother is at rest, the panel
\* shows the fraction of its range that the driver asked for, in the scale of
\* the frequency that is programmed, and within the range that the smoother is
\* configured to: through sleeps, and in whatever order the registers were
\* written (the rescaling of lines 119 and 215, the range of 1255).
LevelIsRight ==
  want # -1 /\ freq # 0 /\ ~pending =>
    \E l \in Values32 : /\ l * scale <= want * freq
                        /\ want * freq < (l + 1) * scale
                        /\ Reached(l)

\* "Preserve the hardware PWM frequency set by the system firmware on boot"
\* (lines 98 and 174): once the driver has written the frequency, the PWM runs
\* with the firmware's, the user's or the fallback one or not at all, also
\* after sleeps that lost it.
FrequencyRestored == lastFreq # "none" => freq \in {0, Wanted}

\* The PWM is on with the control value of the firmware, also after a sleep
\* (line 157).
ControlRestored == lastCtl = "on" => ctl = Control

\* "Set the PWM frequency before turning it on to avoid the 3 minute blackout
\* bug" (line 153): while the driver has the PWM on, a frequency is programmed.
FrequencyBeforeOn == lastCtl = "on" /\ lastFreq = "on" => freq # 0
=============================================================================
