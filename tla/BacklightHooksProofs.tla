------------------------ MODULE BacklightHooksProofs ------------------------
(***************************************************************************)
(* Proofs about the ways into the backlight: the registers fix, for every  *)
(* driver, firmware, user and fallback frequency, on a machine whose       *)
(* driver writes a frequency before it turns the PWM on; the alternative   *)
(* fix, for all copies that are patched, frequencies and levels; and the   *)
(* setup of the smoother.                                                  *)
(***************************************************************************)
EXTENDS BacklightRegisters, BacklightRegistersAlt, BacklightSmootherSetup, TLAPS

\* Abbreviations that every step sees through.
USE DEF target, machine, last, smooth

-----------------------------------------------------------------------------
(* The registers and the smoother, which both fixes share.                 *)

\* The duty cycle that was asked for last.
DutyToCome == IF smoother THEN goal ELSE duty

\* The smoother moves the register to places in its range only, and keeps it
\* there; without the smoother nothing is pending.
SmootherRight ==
  /\ smoother \in BOOLEAN /\ pending \in BOOLEAN /\ ranged \in BOOLEAN
  /\ duty \in Values32 /\ goal \in Values32
  /\ dest \in Nat /\ InRange(dest)
  /\ pending => smoother
  /\ ranged => smoother /\ InRange(duty)

\* At rest, the panel shows what was asked for last.
AtRestReached == ~pending => Reached(DutyToCome)

\* A register holds a natural number.
LEMMA BoundTypes == /\ MaxLevel \in Nat /\ LowerBound \in Nat /\ UpperBound \in Nat
                    /\ LowerBound <= UpperBound
BY FrequencyAssumption, BoundsAssumption DEF Values32

\* What is moved into the range is in it, and what is in it stays where it is.
LEMMA ClampInRange ==
  ASSUME NEW l \in Nat
  PROVE  /\ Promise!Clamp(l) \in Nat /\ InRange(Promise!Clamp(l))
         /\ InRange(l) => Promise!Clamp(l) = l
BY BoundTypes DEF Promise!Clamp, InRange

\* As the firmware leaves the machine.
LEMMA SmootherStart == ASSUME HardwareInit PROVE SmootherRight
<1>1. boot \in Values32 /\ duty \in 0..boot /\ goal = 0 /\ dest = Promise!Clamp(0)
  BY FrequencyAssumption DEF HardwareInit
<1>2. duty \in Values32 /\ goal \in Values32
  BY <1>1, BoundTypes DEF Values32
<1>3. dest \in Nat /\ InRange(dest)
  BY <1>1, ClampInRange
<1>4. QED
  BY <1>2, <1>3 DEF HardwareInit, SmootherRight, InRange

\* What becomes of the duty cycle v that is written.
LEMMA WriteDutyEffect ==
  ASSUME SmootherRight, NEW v \in Values32, WriteDuty(v), UNCHANGED smoother
  PROVE  /\ SmootherRight' /\ AtRestReached'
         /\ DutyToCome' = v /\ (goal' = goal \/ goal' = v)
<1>1. CASE smoother
  BY <1>1 DEF WriteDuty, DutyToCome, SmootherRight, AtRestReached, InRange
<1>2. CASE ~smoother
  BY <1>2 DEF WriteDuty, DutyToCome, SmootherRight, AtRestReached, Reached, InRange
<1>3. QED
  BY <1>1, <1>2 DEF SmootherRight

\* A step of the smoother stays on the way to the range, or within it; when it
\* comes to rest, the request is shown.
LEMMA SmootherStepEffect ==
  ASSUME SmootherRight, SmootherStep
  PROVE  /\ SmootherRight' /\ AtRestReached'
         /\ DutyToCome' = DutyToCome /\ goal' = goal
<1>1. /\ smoother /\ pending /\ smoother' = smoother /\ goal' = goal
      /\ duty \in Nat /\ goal \in Nat /\ goal' \in Values32
      /\ ranged' = (ranged \/ InRange(duty'))
  <2>1. smoother /\ pending /\ smoother' = smoother
        /\ ranged' = (ranged \/ InRange(duty'))
    BY DEF SmootherStep, SmootherRight
  <2>2. goal' = goal
    BY DEF SmootherStep, Settle, Promise!Retarget, Promise!Move
  <2>3. duty \in Nat /\ goal \in Values32 /\ goal \in Nat
    BY BoundTypes DEF SmootherRight, Values32
  <2>4. QED
    BY <2>1, <2>2, <2>3
<1>2. Promise!Clamp(goal) \in Nat /\ InRange(Promise!Clamp(goal))
      /\ (InRange(goal) => Promise!Clamp(goal) = goal)
  BY <1>1, ClampInRange
<1>3. DutyToCome' = DutyToCome /\ DutyToCome' = goal
  BY <1>1 DEF DutyToCome
<1>4. CASE Promise!Retarget /\ UNCHANGED pending
  <2>1. duty' = duty /\ dest' = Promise!Clamp(goal) /\ pending'
    BY <1>1, <1>4 DEF Promise!Retarget
  <2>2. QED
    BY <1>1, <1>2, <1>3, <2>1 DEF SmootherRight, AtRestReached, InRange
<1>5. CASE Promise!Move /\ UNCHANGED pending
  <2>1. /\ dest' = dest /\ pending' /\ duty' \in Values32
        /\ Promise!Between(duty', duty, dest)
    BY <1>1, <1>5 DEF Promise!Move, Promise!Levels, Values32
  <2>2. InRange(duty) => InRange(duty')
    BY <1>1, <2>1, BoundTypes DEF SmootherRight, InRange, Promise!Between, Values32
  <2>3. QED
    BY <1>1, <1>3, <2>1, <2>2 DEF SmootherRight, AtRestReached, InRange
<1>6. CASE Settle
  <2>1. /\ duty' = duty /\ dest' = Promise!Clamp(goal) /\ pending' = FALSE
        /\ duty = goal \/ duty = Promise!Clamp(goal)
    BY <1>6 DEF Settle
  <2>2. SmootherRight'
    BY <1>1, <1>2, <2>1 DEF SmootherRight, InRange
  <2>3. duty = Promise!Clamp(goal) \/ (duty = goal /\ ~ranged')
    BY <1>1, <1>2, <2>1 DEF SmootherRight, InRange
  <2>4. Reached(DutyToCome)'
    BY <1>1, <1>3, <2>1, <2>3 DEF Reached, Promise!Clamp
  <2>5. QED
    BY <1>1, <1>3, <2>2, <2>4 DEF AtRestReached
<1>7. QED
  BY <1>4, <1>5, <1>6 DEF SmootherStep

\* The register is lost when the machine sleeps.
LEMMA DutyLostEffect ==
  ASSUME SmootherRight, DutyLost, UNCHANGED smoother PROVE SmootherRight'
<1>1. /\ duty' = 0 /\ 0 \in Values32 /\ goal' = goal /\ dest' = dest /\ pending' = pending
      /\ smoother' = smoother /\ ranged' = (smoother /\ InRange(duty'))
  BY BoundTypes DEF DutyLost, Values32
<1>2. CASE smoother /\ InRange(duty')
  <2>1. ranged' = TRUE
    BY <1>1, <1>2
  <2>2. QED
    BY <1>1, <1>2, <2>1 DEF SmootherRight
<1>3. CASE ~(smoother /\ InRange(duty'))
  <2>1. ranged' = FALSE
    BY <1>1, <1>3
  <2>2. QED
    BY <1>1, <2>1 DEF SmootherRight
<1>4. QED
  BY <1>2, <1>3

\* Everything else leaves register and smoother alone.
LEMMA SmootherFrame ==
  ASSUME UNCHANGED <<smoother, duty, smooth>>
  PROVE  /\ SmootherRight => SmootherRight'
         /\ AtRestReached => AtRestReached'
         /\ DutyToCome' = DutyToCome
BY DEF SmootherRight, AtRestReached, Reached, DutyToCome, InRange, Promise!Clamp

\* Division rounds down.
LEMMA DivisionBounds ==
  ASSUME NEW n \in Nat, NEW f \in Nat \ {0}
  PROVE  /\ n \div f \in Nat
         /\ (n \div f) * f <= n
         /\ n < (n \div f + 1) * f
  OBVIOUS

\* A fraction of w, rounded down, is at most w.
LEMMA FractionFits ==
  ASSUME NEW s \in Nat \ {0}, NEW w \in Nat, NEW v \in 0..s
  PROVE  LET q == (v * w) \div s
         IN  /\ q \in 0..w
             /\ q * s <= v * w
             /\ v * w < (q + 1) * s
<1> DEFINE n == v * w
           q == n \div s
<1>1. n \in Nat /\ v \in Nat /\ n <= s * w
  BY DEF n
<1>2. q \in Nat /\ q * s <= n /\ n < (q + 1) * s
  <2> HIDE DEF n
  <2>1. QED
    BY <1>1, DivisionBounds DEF q
<1>3. q <= w
  <2>1. SUFFICES ASSUME q > w PROVE FALSE
    BY <1>2
  <2>2. q * s >= (w + 1) * s
    <3> HIDE DEF q
    <3>1. QED
      BY <1>2, <2>1
  <2>3. (w + 1) * s = s * w + s
    OBVIOUS
  <2>4. QED
    <3> HIDE DEF q, n
    <3>1. QED
      BY <1>1, <1>2, <2>2, <2>3
<1>4. QED
  BY <1>2, <1>3

-----------------------------------------------------------------------------
(* The registers fix.                                                      *)

\* d shows v of the driver's units in the scale of the wanted frequency.
Shows(d, v) == /\ d * scale <= v * Wanted
               /\ v * Wanted < (d + 1) * scale

\* The target is the wanted frequency once the driver has written one.
TargetKnown ==
  /\ target \in {0, Wanted}
  /\ lastFreq # "none" => target = Wanted
  /\ target = 0 => preset = 0

\* What the frequency register holds after each of the driver's writes.
FrequencyKnown ==
  /\ lastFreq = "none" => freq = boot
  /\ lastFreq = "off" => freq = 0
  /\ lastFreq = "on" => freq = Wanted

\* The control register is the firmware's until it has been saved.
ControlKnown ==
  platform = "KBL" =>
    /\ targetPwmControl = 0 => ctl = Control /\ lastCtl = "none"
    /\ lastCtl = "on" => ctl = Control

\* A CFL+ driver's scale is known when it has asked for any light.
ScaleKnown ==
  platform = "CFL" =>
    /\ lastCtl = "none"
    /\ driverBacklightFrequency = 0 => want \in {-1, 0}
    /\ driverBacklightFrequency # 0 => lastFreq # "none"

\* The register shows, or is about to show, what the driver asked for.
LevelKnown ==
  /\ SmootherRight
  /\ want # -1 => /\ Shows(DutyToCome, want) /\ AtRestReached
                  /\ lastFreq = "none" => want = 0 /\ DutyToCome = 0

IInv == /\ TypeOK /\ TargetKnown /\ FrequencyKnown /\ ControlKnown
        /\ ScaleKnown /\ LevelKnown

\* What the invariant says of the machine's frequencies.
LEMMA MachineTypes ==
  ASSUME TypeOK
  PROVE  /\ scale \in Nat \ {0} /\ boot \in Nat
         /\ preset \in Nat /\ smoother \in BOOLEAN
         /\ Wanted \in Nat \ {0} /\ Wanted \in Frequencies
         /\ Frequencies \subseteq Values32 /\ Values32 \subseteq Nat
         /\ 0..Wanted \subseteq Values32
<1>1. Values32 \subseteq Nat /\ 0 \in Values32
  BY BoundTypes DEF Values32
<1>2. /\ scale \in Nat \ {0} /\ smoother \in BOOLEAN
      /\ boot \in Values32 /\ preset \in Values32 /\ Fallback \in Values32 \ {0}
  BY ScalesAssumption, FrequencyAssumption, PresetsAssumption DEF TypeOK
<1>3. Wanted \in Values32 \ {0} /\ Wanted \in Frequencies /\ Frequencies \subseteq Values32
  BY <1>1, <1>2 DEF Wanted, Frequencies
<1>4. 0..Wanted \subseteq Values32
  BY <1>1, <1>3, BoundTypes DEF Values32
<1>5. QED
  BY <1>1, <1>2, <1>3, <1>4

\* A rescaled duty cycle shows the driver's one and fits the frequency.
LEMMA RescaleShows ==
  ASSUME TypeOK, NEW v \in 0..scale
  PROVE  /\ Rescale(v, scale, Wanted) \in 0..Wanted
         /\ Shows(Rescale(v, scale, Wanted), v)
<1>1. scale \in Nat \ {0} /\ Wanted \in Nat
  BY MachineTypes
<1>2. QED
  BY <1>1, FractionFits DEF Rescale, Shows

\* No light shows no light.
LEMMA ZeroShows == ASSUME TypeOK PROVE Shows(0, 0)
  BY MachineTypes DEF Shows

\* The invariant holds when the driver starts.
LEMMA InitInv == Init => IInv
<1> SUFFICES ASSUME Init PROVE IInv
  OBVIOUS
<1>1. TypeOK
  <2>1. boot \in Nat
    BY FrequencyAssumption, BoundTypes DEF Init, HardwareInit, Values32
  <2>2. goal = 0 /\ goal <= boot /\ boot \in Frequencies
    BY <2>1 DEF Init, HardwareInit, Frequencies
  <2>3. /\ goal \in Nat /\ \E f \in Frequencies : goal <= f
        /\ duty \in Values32 /\ pending \in BOOLEAN
        /\ InRange(dest) /\ dest \in Nat /\ ranged \in BOOLEAN
    BY <2>2, SmootherStart DEF Init, SmootherRight
  <2>4. 0 \in Frequencies /\ preset \in Frequencies /\ boot \in Frequencies
    BY DEF Frequencies
  <2>5. -1 \in (-1)..scale
    BY ScalesAssumption DEF Init, HardwareInit
  <2>6. QED
    BY <2>1, <2>2, <2>3, <2>4, <2>5, ScalesAssumption, ControlAssumption
       DEF Init, HardwareInit, TypeOK
<1>2. TargetKnown /\ FrequencyKnown /\ ControlKnown /\ ScaleKnown /\ LevelKnown
  BY <1>1, MachineTypes, SmootherStart
     DEF Init, HardwareInit, TargetKnown, FrequencyKnown, ControlKnown, ScaleKnown,
         LevelKnown, Wanted
<1>3. QED
  BY <1>1, <1>2 DEF IInv

\* When the driver writes its frequency, the target is the wanted frequency.
LEMMA CapturedWanted ==
  ASSUME IInv PROVE Captured = Wanted
<1>1. CASE target # 0
  BY <1>1 DEF IInv, TargetKnown, Captured
<1>2. CASE target = 0
  <2>1. lastFreq = "none" /\ preset = 0
    BY <1>2, MachineTypes DEF IInv, TargetKnown
  <2>2. QED
    BY <1>2, <2>1 DEF IInv, FrequencyKnown, Captured, Wanted
<1>3. QED
  BY <1>1, <1>2

\* A rescaled duty cycle that is written leaves smoother and register right.
LEMMA DutyWritten ==
  ASSUME IInv, NEW d \in 0..Wanted, WriteDuty(d), UNCHANGED machine
  PROVE  /\ SmootherRight' /\ AtRestReached' /\ DutyToCome' = d
         /\ goal' \in Nat /\ \E f \in Frequencies : goal' <= f
<1>1. SmootherRight /\ d \in Values32 /\ d \in Nat /\ d <= Wanted /\ smoother' = smoother
  BY MachineTypes DEF IInv, LevelKnown
<1>2. SmootherRight' /\ AtRestReached' /\ DutyToCome' = d /\ (goal' = goal \/ goal' = d)
  BY <1>1, WriteDutyEffect
<1>3. QED
  BY <1>1, <1>2, MachineTypes DEF IInv, TypeOK

\* The KBL frequency function captures and restores the frequency and
\* rescales the duty cycle.
LEMMA KBLFreq1Inv ==
  ASSUME IInv, platform = "KBL", NEW f \in {0, scale},
         NEW v \in 0..scale, f = 0 => v = 0,
         wrapKBLWriteRegisterPWMFreq1(f, v)
  PROVE  IInv'
<1> DEFINE d == IF f = 0 THEN 0 ELSE Rescale(v, f, Captured)
<1>1. Captured = Wanted /\ Wanted' = Wanted /\ UNCHANGED machine
      /\ Frequencies' = Frequencies
  BY CapturedWanted DEF wrapKBLWriteRegisterPWMFreq1, Wanted, Frequencies
<1>2. d \in 0..Wanted /\ Shows(d, v)
  BY <1>1, RescaleShows, ZeroShows, MachineTypes DEF IInv
<1>3. /\ SmootherRight' /\ AtRestReached' /\ DutyToCome' = d
      /\ goal' \in Nat /\ \E g \in Frequencies : goal' <= g
  <2>1. WriteDuty(d)
    BY DEF wrapKBLWriteRegisterPWMFreq1
  <2> HIDE DEF d
  <2>2. QED
    BY <1>1, <1>2, <2>1, DutyWritten
<1> HIDE DEF d
<1>4. TypeOK'
  <2>1. 0 \in Frequencies /\ want' \in (-1)..scale
    BY MachineTypes DEF IInv, Frequencies, wrapKBLWriteRegisterPWMFreq1
  <2>2. QED
    BY <1>1, <1>3, <2>1, MachineTypes
       DEF IInv, TypeOK, wrapKBLWriteRegisterPWMFreq1, SmootherRight
<1>5. TargetKnown' /\ FrequencyKnown' /\ ControlKnown' /\ ScaleKnown'
  BY <1>1, MachineTypes
     DEF IInv, TargetKnown, FrequencyKnown, ControlKnown, ScaleKnown,
         wrapKBLWriteRegisterPWMFreq1, TypeOK
<1>6. LevelKnown'
  BY <1>1, <1>2, <1>3 DEF LevelKnown, Shows, wrapKBLWriteRegisterPWMFreq1, IInv, TypeOK
<1>7. QED
  BY <1>4, <1>5, <1>6 DEF IInv

\* The KBL control function only uses a frequency that is known.
LEMMA KBLCtrl1Inv ==
  ASSUME IInv, platform = "KBL", NEW v \in {0, Control + 1},
         v # 0 => lastFreq # "none", wrapKBLWriteRegisterPWMCtrl1(v)
  PROVE  IInv'
<1>1. /\ Wanted' = Wanted /\ Frequencies' = Frequencies
      /\ DutyToCome' = DutyToCome /\ (SmootherRight => SmootherRight')
      /\ (AtRestReached => AtRestReached')
  BY SmootherFrame DEF wrapKBLWriteRegisterPWMCtrl1, Wanted, Frequencies
<1>2. TypeOK'
  BY <1>1 DEF IInv, TypeOK, LevelKnown, SmootherRight, wrapKBLWriteRegisterPWMCtrl1
<1>3. ControlKnown'
  BY ControlAssumption DEF IInv, TypeOK, ControlKnown, wrapKBLWriteRegisterPWMCtrl1
<1>4. TargetKnown' /\ FrequencyKnown' /\ ScaleKnown'
  BY <1>1, MachineTypes
     DEF IInv, TypeOK, TargetKnown, FrequencyKnown, ScaleKnown,
         wrapKBLWriteRegisterPWMCtrl1
<1>5. LevelKnown'
  BY <1>1 DEF IInv, TypeOK, LevelKnown, Shows, wrapKBLWriteRegisterPWMCtrl1
<1>6. QED
  BY <1>2, <1>3, <1>4, <1>5 DEF IInv

\* The CFL frequency function captures and restores the frequency.
LEMMA CFLFreq1Inv ==
  ASSUME IInv, platform = "CFL", NEW f \in {0, scale},
         wrapCFLWriteRegisterPWMFreq1(f)
  PROVE  IInv'
<1>1. /\ Captured = Wanted /\ Wanted' = Wanted /\ Frequencies' = Frequencies
      /\ DutyToCome' = DutyToCome /\ (SmootherRight => SmootherRight')
      /\ (AtRestReached => AtRestReached')
  BY CapturedWanted, SmootherFrame
     DEF wrapCFLWriteRegisterPWMFreq1, Wanted, Frequencies
<1>2. TypeOK'
  <2>1. 0 \in Frequencies
    BY DEF Frequencies
  <2>2. QED
    BY <1>1, <2>1, MachineTypes
       DEF IInv, TypeOK, LevelKnown, SmootherRight, wrapCFLWriteRegisterPWMFreq1,
           SetFrequency
<1>3. TargetKnown' /\ FrequencyKnown' /\ ControlKnown' /\ ScaleKnown'
  BY <1>1, MachineTypes
     DEF IInv, TypeOK, TargetKnown, FrequencyKnown, ControlKnown, ScaleKnown,
         wrapCFLWriteRegisterPWMFreq1, SetFrequency
<1>4. LevelKnown'
  BY <1>1 DEF IInv, TypeOK, LevelKnown, Shows, wrapCFLWriteRegisterPWMFreq1
<1>5. QED
  BY <1>2, <1>3, <1>4 DEF IInv

\* The CFL duty cycle function rescales, and writes the frequency first if
\* it has to.
LEMMA CFLDuty1Inv ==
  ASSUME IInv, platform = "CFL", NEW v \in 0..scale,
         wrapCFLWriteRegisterPWMDuty1(v)
  PROVE  IInv'
<1> DEFINE known == driverBacklightFrequency' # 0 /\ targetBacklightFrequency' # 0
           d == IF known THEN Rescale(v, driverBacklightFrequency',
                                      targetBacklightFrequency')
                ELSE v
<1>1. /\ Captured = Wanted /\ Wanted' = Wanted /\ UNCHANGED machine
      /\ Frequencies' = Frequencies
  BY CapturedWanted DEF wrapCFLWriteRegisterPWMDuty1, Wanted, Frequencies
<1>2. /\ known => /\ driverBacklightFrequency' = scale
                  /\ targetBacklightFrequency' = Wanted
      /\ ~known => v = 0
  BY <1>1, MachineTypes
     DEF IInv, TypeOK, TargetKnown, ScaleKnown, wrapCFLWriteRegisterPWMDuty1,
         SetFrequency
<1>3. d \in 0..Wanted /\ Shows(d, v) /\ (v = 0 => d = 0)
  <2>1. CASE known
    <3>1. d = Rescale(v, scale, Wanted)
      BY <1>2, <2>1
    <3>2. Rescale(0, scale, Wanted) = 0
      BY MachineTypes DEF IInv, Rescale
    <3>3. QED
      BY <3>1, <3>2, RescaleShows DEF IInv
  <2>2. CASE ~known
    BY <1>2, <2>2, ZeroShows, MachineTypes DEF IInv
  <2>3. QED
    BY <2>1, <2>2
<1>4. /\ SmootherRight' /\ AtRestReached' /\ DutyToCome' = d
      /\ goal' \in Nat /\ \E g \in Frequencies : goal' <= g
  <2>1. WriteDuty(d)
    BY DEF wrapCFLWriteRegisterPWMDuty1
  <2> HIDE DEF d
  <2>2. QED
    BY <1>1, <1>3, <2>1, DutyWritten
<1> HIDE DEF d, known
<1>5. TypeOK'
  BY <1>1, <1>4, MachineTypes
     DEF IInv, TypeOK, wrapCFLWriteRegisterPWMDuty1, SetFrequency, SmootherRight
<1>6. TargetKnown' /\ FrequencyKnown' /\ ControlKnown' /\ ScaleKnown'
  BY <1>1, MachineTypes
     DEF IInv, TypeOK, TargetKnown, FrequencyKnown, ControlKnown, ScaleKnown,
         wrapCFLWriteRegisterPWMDuty1, SetFrequency
<1>7. lastFreq' = "none" => v = 0
  <2>1. CASE v # 0 /\ driverBacklightFrequency = 0
    BY <2>1 DEF wrapCFLWriteRegisterPWMDuty1, IInv, TypeOK
  <2>2. CASE v # 0 /\ driverBacklightFrequency # 0
    BY <2>2 DEF wrapCFLWriteRegisterPWMDuty1, IInv, ScaleKnown
  <2>3. QED
    BY <2>1, <2>2
<1>8. LevelKnown'
  BY <1>1, <1>3, <1>4, <1>7
     DEF LevelKnown, Shows, wrapCFLWriteRegisterPWMDuty1, IInv, TypeOK
<1>9. QED
  BY <1>5, <1>6, <1>8 DEF IInv

\* The smoother's steps change nothing but the duty cycle, which ends at its
\* request, moved into the range.
LEMMA SmoothInv == ASSUME IInv, Smooth PROVE IInv'
<1>1. /\ Wanted' = Wanted /\ Frequencies' = Frequencies
      /\ UNCHANGED <<machine, freq, ctl, targetBacklightFrequency, targetPwmControl,
                     driverBacklightFrequency, want, last>>
  BY DEF Smooth, SmootherStep, Wanted, Frequencies
<1>2. SmootherRight' /\ AtRestReached' /\ DutyToCome' = DutyToCome /\ goal' = goal
  BY SmootherStepEffect DEF IInv, LevelKnown, Smooth
<1>3. TypeOK'
  BY <1>1, <1>2 DEF IInv, TypeOK, SmootherRight
<1>4. TargetKnown' /\ FrequencyKnown' /\ ControlKnown' /\ ScaleKnown'
  BY <1>1 DEF IInv, TargetKnown, FrequencyKnown, ControlKnown, ScaleKnown
<1>5. LevelKnown'
  BY <1>1, <1>2 DEF IInv, LevelKnown, Shows
<1>6. QED
  BY <1>3, <1>4, <1>5 DEF IInv

\* A sleep loses the registers, not what is remembered.
LEMMA SleepInv == ASSUME IInv, SleepAndWake PROVE IInv'
<1>1. Wanted' = Wanted /\ Frequencies' = Frequencies /\ UNCHANGED machine
      /\ freq' = 0 /\ UNCHANGED <<goal, pending, dest>>
  BY DEF SleepAndWake, DutyLost, Wanted, Frequencies
<1>2. SmootherRight'
  BY <1>1, DutyLostEffect DEF IInv, LevelKnown, SleepAndWake
<1>3. TypeOK'
  BY <1>1, <1>2, MachineTypes DEF IInv, TypeOK, SleepAndWake, Frequencies, SmootherRight
<1>4. TargetKnown' /\ FrequencyKnown' /\ ControlKnown' /\ ScaleKnown' /\ LevelKnown'
  BY <1>1, <1>2, PlatformAssumption
     DEF IInv, TypeOK, TargetKnown, FrequencyKnown, ControlKnown, ScaleKnown,
         LevelKnown, SleepAndWake
<1>5. QED
  BY <1>3, <1>4 DEF IInv

\* No step leaves the invariant.
LEMMA NextInv == ASSUME ~ControlFirst, IInv, [Next]_vars PROVE IInv'
<1>1. CASE platform = "KBL" /\ KBLDriver
  <2>1. 0 \in 0..scale /\ 0 # scale
    BY MachineTypes DEF IInv
  <2>2. QED
    BY <1>1, <2>1, KBLFreq1Inv, KBLCtrl1Inv DEF KBLDriver
<1>2. CASE platform = "CFL" /\ CFLDriver
  BY <1>2, CFLFreq1Inv, CFLDuty1Inv DEF CFLDriver
<1>3. CASE Smooth
  BY <1>3, SmoothInv
<1>4. CASE SleepAndWake
  BY <1>4, SleepInv
<1>5. CASE UNCHANGED vars
  <2>1. /\ SmootherRight => SmootherRight'
        /\ AtRestReached => AtRestReached'
        /\ DutyToCome' = DutyToCome
    BY <1>5, SmootherFrame DEF vars
  <2>2. QED
    BY <1>5, <2>1 DEF vars, IInv, TypeOK, TargetKnown, FrequencyKnown, ControlKnown,
                      ScaleKnown, LevelKnown, Shows, Wanted, Frequencies, InRange
<1>6. QED
  BY <1>1, <1>2, <1>3, <1>4, <1>5 DEF Next

\* For all constants, if the driver writes a frequency before it turns the
\* PWM on.
THEOREM InductiveInvariant == ASSUME ~ControlFirst PROVE Spec => []IInv
<1>1. Init => IInv
  BY InitInv
<1>2. IInv /\ [Next]_vars => IInv'
  BY NextInv
<1>3. QED
  BY <1>1, <1>2, PTL DEF Spec

\* The properties follow from the invariant.
LEMMA InvProperties ==
  IInv => /\ LevelIsRight /\ FrequencyRestored /\ FrequencyBeforeOn
          /\ ControlRestored
<1> SUFFICES ASSUME IInv
             PROVE  /\ LevelIsRight /\ FrequencyRestored /\ FrequencyBeforeOn
                    /\ ControlRestored
  OBVIOUS
<1>1. LevelIsRight
  <2>1. SUFFICES ASSUME want # -1, freq # 0, ~pending
                 PROVE  \E l \in Values32 : /\ l * scale <= want * freq
                                            /\ want * freq < (l + 1) * scale
                                            /\ Reached(l)
    BY DEF LevelIsRight
  <2>2. DutyToCome \in Values32 /\ Reached(DutyToCome)
    BY <2>1 DEF IInv, LevelKnown, SmootherRight, DutyToCome, AtRestReached
  <2>3. DutyToCome * scale <= want * freq /\ want * freq < (DutyToCome + 1) * scale
    <3>1. CASE lastFreq = "none"
      <4>1. want = 0 /\ DutyToCome = 0 /\ freq \in Nat /\ scale \in Nat \ {0}
        BY <2>1, <3>1, MachineTypes DEF IInv, LevelKnown, TypeOK
      <4>2. QED
        BY <4>1
    <3>2. CASE lastFreq # "none"
      <4>1. freq = Wanted
        BY <2>1, <3>2 DEF IInv, FrequencyKnown, TypeOK
      <4>2. QED
        BY <2>1, <4>1 DEF IInv, LevelKnown, Shows
    <3>3. QED
      BY <3>1, <3>2
  <2>4. QED
    BY <2>2, <2>3
<1>2. FrequencyRestored /\ FrequencyBeforeOn
  BY MachineTypes
     DEF IInv, TypeOK, FrequencyKnown, FrequencyRestored, FrequencyBeforeOn
<1>3. ControlRestored
  BY PlatformAssumption DEF IInv, TypeOK, ControlKnown, ScaleKnown, ControlRestored
<1>4. QED
  BY <1>1, <1>2, <1>3

\* The firmware's (or the user's, or the fallback) frequency is restored
\* whenever the PWM runs, on every machine and after every sleep.
THEOREM FrequencyIsRestored ==
  ASSUME ~ControlFirst PROVE Spec => []FrequencyRestored
<1>1. Spec => []IInv
  BY InductiveInvariant
<1>2. IInv => FrequencyRestored
  BY InvProperties
<1>3. QED
  BY <1>1, <1>2, PTL

\* The panel shows the fraction of its range the driver asked for, whatever
\* the scales of the driver and of the hardware are.
THEOREM LevelStaysRight ==
  ASSUME ~ControlFirst PROVE Spec => []LevelIsRight
<1>1. Spec => []IInv
  BY InductiveInvariant
<1>2. IInv => LevelIsRight
  BY InvProperties
<1>3. QED
  BY <1>1, <1>2, PTL

\* The PWM is never on without a frequency.
THEOREM NoBlackout ==
  ASSUME ~ControlFirst PROVE Spec => []FrequencyBeforeOn
<1>1. Spec => []IInv
  BY InductiveInvariant
<1>2. IInv => FrequencyBeforeOn
  BY InvProperties
<1>3. QED
  BY <1>1, <1>2, PTL

\* When the PWM is on, its control register has the firmware's value.
THEOREM ControlIsRestored ==
  ASSUME ~ControlFirst PROVE Spec => []ControlRestored
<1>1. Spec => []IInv
  BY InductiveInvariant
<1>2. IInv => ControlRestored
  BY InvProperties
<1>3. QED
  BY <1>1, <1>2, PTL
-----------------------------------------------------------------------------
(* The alternative fix, while its patches are written.                     *)

\* The functions before the one at work, and no other, have been patched.
PatchedSoFar ==
  /\ platform \in {"KBL", "CFL"}
  /\ index \in Nat \ {0}
  /\ context \in [Indices -> Contexts]
  /\ jump \in [Indices -> Int]
  /\ \A k \in Indices : jump[k] # Unpatched => context[k].size >= MaxPatchSize
  /\ \A k \in Indices : k < index => jump[k] # Unpatched
  /\ pc = "routed" => index \notin Indices

\* A patch is at least 38 bytes long, and no longer than the longest one.
LEMMA PatchLengths ==
  ASSUME NEW r \in 0..15, NEW current \in BOOLEAN
  PROVE  PatchLength(r, current) \in 38..MaxPatchSize
BY DEF PatchLength, LevelLength, MaxPatchSize, PreserveLength, RestoreLength

LEMMA MaxPatch == MaxPatchSize = 44
BY DEF MaxPatchSize, PreserveLength, RestoreLength

\* What is known of the copy in function k.
LEMMA CopyTypes ==
  ASSUME context \in [Indices -> Contexts], NEW k \in Indices
  PROVE  /\ context[k].size \in Regions /\ context[k].size \in Nat
         /\ PatchLength(context[k].register, UsesCurrentLevel(k)) \in 38..44
<1>1. /\ context[k].size \in Regions /\ context[k].register \in 0..15
  BY RegionAssumption DEF Contexts
<1>2. UsesCurrentLevel(k) \in BOOLEAN
  BY DEF UsesCurrentLevel
<1>3. QED
  BY <1>1, <1>2, PatchLengths, MaxPatch, RegionAssumption

\* Functions are patched in their order, and one that cannot be patched stops it.
LEMMA PatchedNext == ASSUME PatchedSoFar, [AltNext]_altVars PROVE PatchedSoFar'
<1>1. CASE Revert
  <2>1. Indices' = Indices /\ context' = context /\ pc # "routed" /\ index \in Indices
    BY <1>1 DEF Revert, altMachine, Indices, Functions
  <2>2. CASE JumpOffset(index) > 255
    <3>1. UNCHANGED <<platform, index, jump>> /\ pc' = "panic"
      BY <1>1, <2>2 DEF Revert, altMachine
    <3>2. QED
      BY <2>1, <3>1 DEF PatchedSoFar
  <2>3. CASE ~(JumpOffset(index) > 255)
    <3> DEFINE length == PatchLength(context[index].register, UsesCurrentLevel(index))
               end == length + Signed8(JumpOffset(index))
    <3>1. length \in 38..44 /\ context[index].size \in Nat
      BY <2>1, CopyTypes DEF PatchedSoFar
    <3>2. context[index].size >= MaxPatchSize /\ MaxPatchSize = 44
      BY <1>1, MaxPatch DEF Revert
    <3>3. JumpOffset(index) = context[index].size - length
      BY DEF JumpOffset
    <3> HIDE DEF length
    <3>4. JumpOffset(index) \in 0..255
      <4>1. JumpOffset(index) \in Nat
        BY <3>1, <3>2, <3>3
      <4>2. QED
        BY <2>3, <4>1
    <3>5. end \in Int /\ end # Unpatched
      BY <3>1, <3>4 DEF Signed8, Unpatched
    <3>6. /\ jump' = [jump EXCEPT ![index] = end] /\ index' = index + 1
          /\ pc' = pc /\ platform' = platform
      BY <1>1, <2>3 DEF Revert, altMachine, length
    <3> HIDE DEF end
    <3>7. jump' \in [Indices -> Int]
      BY <2>1, <3>5, <3>6 DEF PatchedSoFar
    <3>8. \A k \in Indices : jump'[k] # Unpatched => context[k].size >= MaxPatchSize
      BY <2>1, <3>2, <3>6 DEF PatchedSoFar
    <3>9. \A k \in Indices : k < index' => jump'[k] # Unpatched
      BY <2>1, <3>5, <3>6 DEF PatchedSoFar, Indices
    <3>10. index' \in Nat \ {0}
      BY <3>6 DEF PatchedSoFar
    <3>11. QED
      BY <2>1, <3>6, <3>7, <3>8, <3>9, <3>10 DEF PatchedSoFar, Unpatched, MaxPatchSize
  <2>4. QED
    BY <2>2, <2>3
<1>2. CASE Prepare \/ Abort
  <2>1. UNCHANGED <<platform, index, context, jump>> /\ pc' \in {"functions", "aborted"}
    BY <1>2 DEF Prepare, Abort, altMachine
  <2>2. Indices' = Indices
    BY <2>1 DEF Indices, Functions
  <2>3. QED
    BY <2>1, <2>2 DEF PatchedSoFar
<1>3. CASE Route
  <2>1. UNCHANGED <<platform, index, context, jump>> /\ index \notin Indices
    BY <1>3 DEF Route, altMachine
  <2>2. Indices' = Indices
    BY <2>1 DEF Indices, Functions
  <2>3. QED
    BY <2>1, <2>2 DEF PatchedSoFar
<1>4. CASE AltDriver \/ AltSmooth \/ AltSleepAndWake \/ UNCHANGED altVars
  <2>1. UNCHANGED <<platform, pc, index, context, jump>>
    BY <1>4 DEF AltDriver, SetLevel, LightUp, DisableDisplay, wrapHwSetBacklight,
                AltSmooth, SmootherStep, AltSleepAndWake, altVars, patching, altMachine
  <2>2. Indices' = Indices
    BY <2>1 DEF Indices, Functions
  <2>3. QED
    BY <2>1, <2>2 DEF PatchedSoFar
<1>5. QED
  BY <1>1, <1>2, <1>3, <1>4 DEF AltNext, processFramebufferKext

\* The machine starts with no function patched.
LEMMA PatchedInit == AltInit => PatchedSoFar
<1> SUFFICES ASSUME AltInit PROVE PatchedSoFar
  OBVIOUS
<1>1. platform \in {"KBL", "CFL"} /\ index = 1 /\ pc = "version"
  BY PlatformAssumption DEF AltInit, HardwareInit
<1>2. \A k \in Indices : jump[k] = Unpatched /\ ~(k < 1)
  BY DEF AltInit, Indices
<1>3. QED
  BY <1>1, <1>2 DEF AltInit, PatchedSoFar, Unpatched

\* Whatever the driver's functions look like and whichever of them cannot be
\* patched, the wrapper only takes over when all of them call it.
THEOREM PatchingIsAllOrNothing == AltSpec => []AllOrNothing
<1>1. PatchedSoFar => AllOrNothing
  <2> SUFFICES ASSUME PatchedSoFar, pc = "routed", NEW k \in Indices
               PROVE  jump[k] # Unpatched
    BY DEF AllOrNothing
  <2>1. Len(Functions) \in Nat
    BY DEF Functions
  <2>2. k < index
    BY <2>1 DEF PatchedSoFar, Indices
  <2>3. QED
    BY <2>2 DEF PatchedSoFar
<1>2. PatchedSoFar /\ [AltNext]_altVars => PatchedSoFar'
  BY PatchedNext
<1>3. QED
  BY <1>1, <1>2, PatchedInit, PTL DEF AltSpec

\* Where a patched function goes on, if no copy is longer than a short jump
\* forward reaches from the end of the shortest patch.
ShortCopies == \A size \in Regions : size <= 38 + 127

GoesOnSoFar == \A k \in Indices : jump[k] # Unpatched => jump[k] = context[k].size

\* A step that patches a function makes it go on at the end of its copy.
LEMMA GoesOnNext ==
  ASSUME ShortCopies, PatchedSoFar, GoesOnSoFar, [AltNext]_altVars
  PROVE  GoesOnSoFar'
<1>1. CASE Revert /\ ~(JumpOffset(index) > 255)
  <2> DEFINE length == PatchLength(context[index].register, UsesCurrentLevel(index))
             size == context[index].size
  <2>1. /\ Indices' = Indices /\ context' = context /\ index \in Indices
        /\ size >= MaxPatchSize
        /\ jump' = [jump EXCEPT ![index] = length + Signed8(JumpOffset(index))]
    BY <1>1 DEF Revert, altMachine, Indices, Functions
  <2>2. length \in 38..44 /\ size \in Nat /\ size <= 38 + 127
    BY <2>1, CopyTypes DEF PatchedSoFar, ShortCopies
  <2>3. JumpOffset(index) = size - length
    BY DEF JumpOffset
  <2>4. MaxPatchSize = 44
    BY MaxPatch
  <2> HIDE DEF length, size
  <2>5. length + Signed8(JumpOffset(index)) = size
    BY <2>1, <2>2, <2>3, <2>4 DEF Signed8
  <2>6. jump' = [jump EXCEPT ![index] = context[index].size]
    BY <2>1, <2>5 DEF size
  <2>7. QED
    BY <2>1, <2>6 DEF GoesOnSoFar, PatchedSoFar, Unpatched
<1>2. CASE ~(Revert /\ ~(JumpOffset(index) > 255))
  <2>1. UNCHANGED <<platform, context, jump>>
    BY <1>2 DEF AltNext, processFramebufferKext, Prepare, Abort, Revert, Route,
                AltDriver, SetLevel, LightUp, DisableDisplay, wrapHwSetBacklight,
                AltSmooth, SmootherStep, AltSleepAndWake, altVars, patching, altMachine
  <2>2. Indices' = Indices
    BY <2>1 DEF Indices, Functions
  <2>3. QED
    BY <2>1, <2>2 DEF GoesOnSoFar, Unpatched
<1>3. QED
  BY <1>1, <1>2

\* In copies that a short jump can cross, for all lengths and registers, every
\* patch stays within its copy and the function goes on at the end of it.
THEOREM PatchedFunctionsGoOn == ASSUME ShortCopies PROVE AltSpec => []GoesOnAtEnd
<1>1. PatchedSoFar /\ GoesOnSoFar => GoesOnAtEnd
  <2> SUFFICES ASSUME PatchedSoFar, GoesOnSoFar,
                      NEW k \in Indices, jump[k] # Unpatched
               PROVE  /\ PatchLength(context[k].register, UsesCurrentLevel(k))
                           <= context[k].size
                      /\ jump[k] = context[k].size
    BY DEF GoesOnAtEnd
  <2>1. /\ PatchLength(context[k].register, UsesCurrentLevel(k)) \in 38..44
        /\ context[k].size \in Nat
    BY CopyTypes DEF PatchedSoFar
  <2>2. context[k].size >= 44
    BY MaxPatch DEF PatchedSoFar
  <2>3. jump[k] = context[k].size
    BY DEF GoesOnSoFar
  <2>4. QED
    BY <2>1, <2>2, <2>3
<1>2. AltInit => GoesOnSoFar
  BY DEF AltInit, GoesOnSoFar
<1>3. PatchedSoFar /\ GoesOnSoFar /\ [AltNext]_altVars => PatchedSoFar' /\ GoesOnSoFar'
  BY PatchedNext, GoesOnNext
<1>4. QED
  BY <1>1, <1>2, <1>3, PatchedInit, PTL DEF AltSpec
-----------------------------------------------------------------------------
(* The alternative fix, once it has taken over.                            *)

\* d shows the level v in the scale of the frequency of the firmware.
AltShows(d, v) == /\ d * Divider <= v * AltWanted
                  /\ v * AltWanted < (d + 1) * Divider

\* The machine, and the level that is stored: with KBL drivers never 0.
LevelStored ==
  /\ platform \in {"KBL", "CFL"} /\ boot \in Values32
  /\ level \in Levels /\ asked = level
  /\ platform = "KBL" => level # 0

\* The values of the firmware are remembered from the first call on, and until
\* then they are in the registers.
FirmwareRemembered ==
  /\ firmwareBacklightFrequency \in {0, AltWanted}
  /\ firmwareBacklightFrequency = 0 => freq = boot /\ ~lit
  /\ platform = "KBL" =>
       /\ firmwareBacklightFrequency = 0 => firmwareBacklightControl = 0 /\ ctl = Control
       /\ firmwareBacklightFrequency # 0 => firmwareBacklightControl = Control

\* A panel that is lit shows the level, moved into the range, or is about to.
PanelRight ==
  /\ SmootherRight
  /\ lit => /\ freq = AltWanted
            /\ platform = "KBL" => ctl = Control
            /\ AltShows(DutyToCome, level) /\ AtRestReached

AltInv == LevelStored /\ FirmwareRemembered /\ PanelRight

\* The frequency the panel has to run with is one.
LEMMA AltWantedType ==
  ASSUME LevelStored
  PROVE  AltWanted \in Nat \ {0} /\ 0..AltWanted \subseteq Values32
BY FrequencyAssumption, BoundTypes DEF LevelStored, AltWanted, Values32

\* The frequency of the firmware is fetched before it is overwritten.
LEMMA FetchedWanted == ASSUME LevelStored, FirmwareRemembered PROVE Fetched = AltWanted
BY AltWantedType DEF FirmwareRemembered, Fetched, AltWanted

\* The duty cycle that is written shows the level.
LEMMA DutyCycleShows ==
  ASSUME LevelStored, NEW b \in Levels
  PROVE  /\ calcDutyCycle(AltWanted, b) \in Values32
         /\ AltShows(calcDutyCycle(AltWanted, b), b)
<1>1. AltWanted \in Nat /\ b \in 0..Divider /\ Divider \in Nat \ {0}
  BY AltWantedType, DividerAssumption DEF Levels
<1>2. calcDutyCycle(AltWanted, b) = (b * AltWanted) \div Divider
  <2>1. AltWanted * b = b * AltWanted
    BY <1>1
  <2>2. QED
    BY <2>1 DEF calcDutyCycle
<1>3. QED
  BY <1>1, <1>2, FractionFits, AltWantedType DEF AltShows

\* A call of the wrapper with a level leaves the registers right: the frequency of
\* the firmware, its control value, and the duty cycle, at once or when the
\* smoother is done.  With level 0 a KBL driver only turns the PWM off.
LEMMA WrapperEffect ==
  ASSUME LevelStored, FirmwareRemembered, PanelRight, NEW b \in Levels,
         wrapHwSetBacklight(b)
  PROVE  /\ UNCHANGED <<platform, boot, smoother>> /\ AltWanted' = AltWanted
         /\ firmwareBacklightFrequency' = AltWanted
         /\ platform = "KBL" => firmwareBacklightControl' = Control
         /\ platform = "KBL" => level' = IF b # 0 THEN b ELSE level
         /\ platform = "CFL" => level' = b
         /\ platform = "KBL" /\ b # 0 => ctl' = Control
         /\ platform = "CFL" \/ b # 0 => freq' = AltWanted
         /\ AltShows(DutyToCome, b)'
         /\ SmootherRight' /\ AtRestReached'
<1>1. UNCHANGED <<platform, boot, smoother>> /\ AltWanted' = AltWanted
  BY DEF wrapHwSetBacklight, altMachine, AltWanted
<1>2. Fetched = AltWanted /\ AltWanted # 0 /\ Control # 0
  BY FetchedWanted, AltWantedType, ControlAssumption
<1>3. WriteDuty(calcDutyCycle(AltWanted, b)) /\ firmwareBacklightFrequency' = AltWanted
  BY <1>2 DEF wrapHwSetBacklight, wrapHwSetBacklightKBL, wrapHwSetBacklightCFL,
              writeDutyCycle
<1>4. DutyToCome' = calcDutyCycle(AltWanted, b) /\ SmootherRight' /\ AtRestReached'
  BY <1>1, <1>3, DutyCycleShows, WriteDutyEffect DEF PanelRight
<1>5. AltShows(DutyToCome, b)'
  BY <1>1, <1>4, DutyCycleShows DEF AltShows
<1>6. CASE platform = "KBL"
  <2>1. wrapHwSetBacklightKBL(b)
    BY <1>6 DEF wrapHwSetBacklight
  <2>2. firmwareBacklightControl' = Control
    BY <1>2, <1>6, <2>1 DEF wrapHwSetBacklightKBL, FirmwareRemembered
  <2>3. QED
    BY <1>1, <1>2, <1>3, <1>4, <1>5, <1>6, <2>1, <2>2 DEF wrapHwSetBacklightKBL
<1>7. CASE platform = "CFL"
  <2>1. wrapHwSetBacklightCFL(b)
    BY <1>7 DEF wrapHwSetBacklight
  <2>2. QED
    BY <1>1, <1>2, <1>3, <1>4, <1>5, <1>7, <2>1 DEF wrapHwSetBacklightCFL
<1>8. QED
  BY <1>6, <1>7 DEF LevelStored

\* If only the users of CFL drivers can choose level 0, no step leaves the invariant.
LEMMA AltNextInv ==
  ASSUME "KBL" \notin ZeroByUser, AltInv, [AltNext]_altVars
  PROVE  AltInv'
<1> USE DEF AltInv
<1>1. ASSUME NEW b \in Levels, b # 0 \/ platform \in ZeroByUser, SetLevel(b)
      PROVE  AltInv'
  <2>1. /\ wrapHwSetBacklight(b) /\ asked' = b
        /\ platform = "KBL" => b # 0
        /\ lit' = (b # 0 \/ platform = "CFL")
    BY <1>1 DEF SetLevel
  <2>2. level' = b
    BY <1>1, <2>1, WrapperEffect DEF LevelStored
  <2>3. LevelStored'
    BY <1>1, <2>1, <2>2, WrapperEffect DEF LevelStored, Levels
  <2>4. FirmwareRemembered'
    BY <1>1, <2>1, WrapperEffect, AltWantedType DEF FirmwareRemembered
  <2>5. PanelRight'
    BY <1>1, <2>1, <2>2, WrapperEffect DEF PanelRight, LevelStored
  <2>6. QED
    BY <2>3, <2>4, <2>5
<1>2. CASE LightUp
  <2>1. wrapHwSetBacklight(level) /\ level \in Levels /\ lit' /\ asked' = asked
    BY <1>2 DEF LightUp, LevelStored
  <2>2. level' = level
    BY <2>1, WrapperEffect DEF LevelStored
  <2>3. LevelStored'
    BY <2>1, <2>2, WrapperEffect DEF LevelStored, Levels
  <2>4. FirmwareRemembered'
    BY <2>1, WrapperEffect, AltWantedType DEF FirmwareRemembered
  <2>5. PanelRight'
    BY <2>1, <2>2, WrapperEffect DEF PanelRight, LevelStored
  <2>6. QED
    BY <2>3, <2>4, <2>5
<1>3. CASE DisableDisplay
  <2>1. /\ wrapHwSetBacklight(0) /\ 0 \in Levels /\ ~lit' /\ asked' = asked
        /\ platform = "KBL"
    BY <1>3, DividerAssumption DEF DisableDisplay, Levels
  <2>2. level' = level
    BY <2>1, WrapperEffect DEF LevelStored
  <2>3. LevelStored'
    BY <2>1, <2>2, WrapperEffect DEF LevelStored, Levels
  <2>4. FirmwareRemembered'
    BY <2>1, WrapperEffect, AltWantedType DEF FirmwareRemembered
  <2>5. PanelRight'
    BY <2>1, WrapperEffect DEF PanelRight
  <2>6. QED
    BY <2>3, <2>4, <2>5
<1>4. CASE AltSmooth
  <2>1. UNCHANGED <<platform, boot, smoother, freq, ctl, firmware, level, asked, lit>>
    BY <1>4 DEF AltSmooth, SmootherStep
  <2>2. /\ SmootherRight' /\ AtRestReached'
        /\ DutyToCome' = DutyToCome /\ AltWanted' = AltWanted
    BY <1>4, <2>1, SmootherStepEffect DEF AltSmooth, PanelRight, AltWanted
  <2>3. LevelStored' /\ FirmwareRemembered'
    BY <2>1, <2>2 DEF LevelStored, FirmwareRemembered, Levels, firmware
  <2>4. PanelRight'
    BY <2>1, <2>2 DEF PanelRight, AltShows
  <2>5. QED
    BY <2>3, <2>4
<1>5. CASE AltSleepAndWake
  <2>1. /\ UNCHANGED <<platform, boot, smoother, firmware, level, asked>>
        /\ ~lit' /\ firmwareBacklightFrequency # 0
    BY <1>5 DEF AltSleepAndWake, altMachine
  <2>2. AltWanted' = AltWanted /\ SmootherRight'
    BY <1>5, <2>1, DutyLostEffect DEF AltWanted, AltSleepAndWake, PanelRight
  <2>3. QED
    BY <2>1, <2>2 DEF LevelStored, FirmwareRemembered, PanelRight, Levels, firmware
<1>6. CASE processFramebufferKext \/ UNCHANGED altVars
  <2>1. UNCHANGED <<platform, boot, smoother, freq, duty, ctl, firmware, smooth,
                    level, asked, lit>>
    BY <1>6 DEF processFramebufferKext, Prepare, Abort, Revert, Route, hardware,
                firmware, altMachine, altVars
  <2>2. /\ SmootherRight => SmootherRight'
        /\ AtRestReached => AtRestReached'
        /\ DutyToCome' = DutyToCome /\ AltWanted' = AltWanted
    BY <2>1, SmootherFrame DEF AltWanted
  <2>3. QED
    BY <2>1, <2>2 DEF LevelStored, FirmwareRemembered, PanelRight, Levels, AltShows,
                      firmware
<1>7. QED
  BY <1>1, <1>2, <1>3, <1>4, <1>5, <1>6 DEF AltNext, AltDriver

\* For all frequencies, control values and numbers of levels: a lit panel shows the
\* level that the user has chosen, through sleeps and after the display was disabled,
\* unless the user of a KBL driver can choose level 0.
THEOREM PanelShowsLevel == ASSUME "KBL" \notin ZeroByUser PROVE AltSpec => []ShowsLevel
<1>1. AltInit => AltInv
  <2> SUFFICES ASSUME AltInit PROVE AltInv
    OBVIOUS
  <2>1. boot \in Values32 /\ platform \in {"KBL", "CFL"} /\ level \in Levels \ {0}
    BY FrequencyAssumption, PlatformAssumption DEF AltInit, HardwareInit
  <2>2. QED
    BY <2>1, SmootherStart
       DEF AltInit, HardwareInit, AltInv, LevelStored, FirmwareRemembered, PanelRight
<1>2. AltInv /\ [AltNext]_altVars => AltInv'
  BY AltNextInv
<1>3. AltInv => ShowsLevel
  <2> SUFFICES ASSUME AltInv, lit, ~pending
               PROVE  /\ freq = AltWanted
                      /\ platform = "KBL" => ctl = Control
                      /\ \E l \in Values32 : /\ l * Divider <= asked * freq
                                             /\ asked * freq < (l + 1) * Divider
                                             /\ Reached(l)
    BY DEF ShowsLevel
  <2>1. /\ freq = AltWanted /\ asked = level
        /\ platform = "KBL" => ctl = Control
        /\ AltShows(DutyToCome, level)
        /\ DutyToCome \in Values32 /\ Reached(DutyToCome)
    BY DEF AltInv, PanelRight, LevelStored, DutyToCome, SmootherRight, AtRestReached
  <2>2. QED
    BY <2>1 DEF AltShows
<1>4. QED
  BY <1>1, <1>2, <1>3, PTL DEF AltSpec
-----------------------------------------------------------------------------
(* The setup of the smoother.                                              *)

Phases == {"enable", "fetch", "sanitize", "owner", "workloop", "eventSource",
           "register", "done", "released"}

\* The objects that exist at a time, while nothing has failed.
Built == CASE setupPc = "workloop" -> {"owner"}
           [] setupPc = "eventSource" -> {"owner", "workloop"}
           [] setupPc = "register" -> Objects
           [] setupPc = "done" /\ enabled -> Objects
           [] OTHER -> {}

\* What exists is what has been created, and its pointers are there.
ResourcesRight ==
  /\ setupPc \in Phases /\ enabled \in BOOLEAN /\ registered \in BOOLEAN
  /\ alive = pointers /\ pointers = Built
  /\ setupPc \in Phases \ {"enable", "done", "released"} => enabled
  /\ setupPc = "done" /\ enabled => registered

\* The configuration has types, and is right once it has been corrected.
ConfigurationRight ==
  /\ user \in [Properties -> Values \cup {Absent}]
  /\ steps \in Nat /\ queueSize \in Nat /\ first \in Nat /\ second \in Nat
  /\ setupPc \notin {"enable", "fetch", "sanitize"} /\ enabled =>
       steps > 0 /\ queueSize >= MinimumQueueSize /\ first <= second

SetupInv == ResourcesRight /\ ConfigurationRight

\* Whatever the user has given, what is fetched is a number.
LEMMA FetchType ==
  ASSUME user \in [Properties -> Values \cup {Absent}], NEW p \in Properties,
         NEW default \in Nat
  PROVE  Fetch(p, default) \in Nat
<1>1. user[p] \in Values \cup {Absent} /\ Values \subseteq Nat
  BY ValuesAssumption
<1>2. QED
  BY <1>1 DEF Fetch

\* A failure releases what has been created: before there is a workloop that is the
\* owner alone, and there is no event source yet.
LEMMA FailReleases ==
  ASSUME ResourcesRight, Fail
  PROVE  /\ alive' = {} /\ pointers' = {} /\ registered' \in BOOLEAN
         /\ enabled' = FALSE /\ setupPc' = "done"
BY DEF ResourcesRight, Fail, Released, Built, Objects

\* No step of the setup leaves the invariant.
LEMMA SetupNextInv == ASSUME SetupInv, [SetupNext]_setupVars PROVE SetupInv'
<1> USE DEF SetupInv
<1>1. CASE Enable
  BY <1>1 DEF Enable, ResourcesRight, ConfigurationRight, Built, Phases, config, resources
<1>2. CASE FetchConfiguration
  <2>1. ResourcesRight'
    BY <1>2 DEF FetchConfiguration, ResourcesRight, Built, Phases, resources
  <2>2. {"steps", "queueSize", "lowerbound", "upperbound"} \subseteq Properties
    BY DEF Properties
  <2>3. ConfigurationRight'
    BY <1>2, <2>2, FetchType DEF FetchConfiguration, ConfigurationRight
  <2>4. QED
    BY <2>1, <2>3
<1>3. CASE Sanitize
  <2>1. ResourcesRight'
    BY <1>3 DEF Sanitize, ResourcesRight, Built, Phases, resources
  <2>2. ConfigurationRight'
    BY <1>3, DefaultsAssumption, ValuesAssumption DEF Sanitize, ConfigurationRight
  <2>3. QED
    BY <2>1, <2>2
<1>4. ASSUME NEW o \in Objects, NEW next,
             <<o, next>> \in {<<"owner", "workloop">>, <<"workloop", "eventSource">>,
                              <<"eventSource", "register">>},
             Create(o, next)
      PROVE  SetupInv'
  <2>1. UNCHANGED <<user, steps, queueSize, first, second>> /\ setupPc = o
    BY <1>4 DEF Create, config
  <2>2. CASE Fail
    <3>1. ResourcesRight'
      BY <2>2, FailReleases DEF ResourcesRight, Built, Phases
    <3>2. QED
      BY <2>1, <2>2, <3>1 DEF ConfigurationRight, Fail
  <2>3. CASE ~Fail
    <3>1. /\ alive' = alive \cup {o} /\ pointers' = pointers \cup {o} /\ setupPc' = next
          /\ UNCHANGED <<enabled, registered>>
      BY <1>4, <2>3 DEF Create
    <3>2. ResourcesRight'
      BY <1>4, <2>1, <3>1 DEF ResourcesRight, Built, Phases, Objects
    <3>3. QED
      BY <1>4, <2>1, <3>1, <3>2 DEF ConfigurationRight
  <2>4. QED
    BY <2>2, <2>3
<1>5. CASE Register
  <2>1. UNCHANGED <<user, steps, queueSize, first, second>> /\ setupPc = "register"
    BY <1>5 DEF Register, config
  <2>2. CASE Fail
    <3>1. ResourcesRight'
      BY <2>2, FailReleases DEF ResourcesRight, Built, Phases
    <3>2. QED
      BY <2>1, <2>2, <3>1 DEF ConfigurationRight, Fail
  <2>3. CASE ~Fail
    BY <1>5, <2>1, <2>3 DEF Register, ResourcesRight, ConfigurationRight, Built, Phases
  <2>4. QED
    BY <2>2, <2>3
<1>6. CASE deinit
  <2>1. pointers' = {} /\ alive' = {}
    BY <1>6 DEF deinit, Released, ResourcesRight, Built, Objects
  <2>2. QED
    BY <1>6, <2>1 DEF deinit, ResourcesRight, ConfigurationRight, Built, Phases, config
<1>7. CASE UNCHANGED setupVars
  BY <1>7 DEF setupVars, ResourcesRight, ConfigurationRight, Built
<1>8. QED
  BY <1>1, <1>2, <1>3, <1>4, <1>5, <1>6, <1>7 DEF SetupNext, processKernel, Objects

\* Whatever the user has configured and whichever creation fails, an enabled
\* smoother has everything it relies on, another one keeps nothing.
THEOREM SetupIsAllOrNothing == SetupSpec => []SetupAllOrNothing
<1>1. SetupInit => SetupInv
  <2>1. SetupInit => ResourcesRight
    BY DEF SetupInit, ResourcesRight, Built, Phases
  <2>2. SetupInit => ConfigurationRight
    BY DefaultsAssumption, ValuesAssumption DEF SetupInit, ConfigurationRight
  <2>3. QED
    BY <2>1, <2>2 DEF SetupInv
<1>2. SetupInv /\ [SetupNext]_setupVars => SetupInv'
  BY SetupNextInv
<1>3. SetupInv => SetupAllOrNothing
  BY DEF SetupInv, ResourcesRight, ConfigurationRight, Built, SetupAllOrNothing,
         EnabledMeansServed, FailureLeavesNothing
<1>4. QED
  BY <1>1, <1>2, <1>3, PTL DEF SetupSpec
=============================================================================
