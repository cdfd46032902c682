------------------------- MODULE BacklightHardware -------------------------
(***************************************************************************)
(* What the registers fix (BLR) and the alternative one (BLT) share: the   *)
(* machine, the PWM registers, and the smoother (BLS), which receives a    *)
(* duty cycle when it is enabled and moves the register to it later.  Here *)
(* it does what BrightnessPromise states: it moves the register to a       *)
(* requested duty cycle, once that is clamped into the configured range.   *)
(***************************************************************************)
EXTENDS Integers

CONSTANTS Platforms,     \* the drivers: "KBL", "CFL" or both
          BootValues,    \* frequencies the firmware may have programmed
          Fallback,      \* kFallbackTargetBacklightFrequency (120000)
          Control,       \* BXT_BLC_PWM_CTL1 as the firmware left it
          MaxLevel,      \* largest value of a register (2^32 - 1)
          LowerBound,    \* brightnessRange.first
          UpperBound     \* brightnessRange.second

Values32 == 0..MaxLevel

ASSUME PlatformAssumption == Platforms \subseteq {"KBL", "CFL"} /\ Platforms # {}
ASSUME FrequencyAssumption == /\ MaxLevel \in Nat
                              /\ BootValues \subseteq Values32
                              /\ Fallback \in Values32 \ {0}
ASSUME ControlAssumption == Control \in Nat \ {0}
ASSUME BoundsAssumption == /\ LowerBound \in Values32 /\ UpperBound \in Values32
                           /\ LowerBound <= UpperBound

VARIABLES platform,          \* the driver that is loaded
          boot,              \* the frequency the firmware has programmed
          smoother,          \* is BLS enabled?
          freq, duty, ctl,   \* FREQ1, DUTY1 and CTL1
          goal, pending,     \* BLS: its last request, and is it at work?
          dest,              \* BLS: where its pass moves the register to
          ranged             \* history: with BLS, has DUTY1 been in the range
                             \* since the machine was powered up?

Promise == INSTANCE BrightnessPromise WITH level <- duty, asked <- smoother

smooth == <<goal, pending, dest, ranged>>
hardware == <<freq, duty, ctl>>

InRange(d) == LowerBound <= d /\ d <= UpperBound

\* The firmware has programmed the registers and turned the PWM on.
HardwareInit ==
  /\ platform \in Platforms
  /\ boot \in BootValues /\ smoother \in BOOLEAN
  /\ freq = boot /\ duty \in 0..boot /\ ctl = Control
  /\ goal = 0 /\ pending = FALSE /\ dest = Promise!Clamp(0)
  /\ ranged = (smoother /\ InRange(duty))

\* The duty cycle goes to the smoother, or to the register as it is.
WriteDuty(v) == IF smoother
                THEN /\ goal' = v /\ pending' = TRUE
                     /\ UNCHANGED <<duty, dest, ranged>>
                ELSE duty' = v /\ UNCHANGED smooth

\* A pass for the last request ends: the register holds what was requested
\* already, or is where the clamped request leads to.
Settle == /\ duty = goal \/ duty = Promise!Clamp(goal)
          /\ dest' = Promise!Clamp(goal)
          /\ pending' = FALSE
          /\ UNCHANGED <<duty, goal>>

\* The smoother, whose pass may still be one for an earlier request.
SmootherStep ==
  /\ pending
  /\ \/ (Promise!Retarget \/ Promise!Move) /\ UNCHANGED pending
     \/ Settle
  /\ ranged' = (ranged \/ InRange(duty'))
  /\ UNCHANGED <<platform, boot, smoother, freq, ctl>>

\* The registers do not survive the machine's sleep.
DutyLost == /\ freq' = 0 /\ duty' = 0
            /\ ranged' = (smoother /\ InRange(0))
            /\ UNCHANGED <<goal, pending, dest>>

\* The panel shows the duty cycle v that was asked for: the smoother shows it
\* clamped, or left a register alone that held it outside of the range, which
\* it can only have done if nothing has moved that register into the range.
Reached(v) == \/ smoother /\ duty = Promise!Clamp(v)
              \/ ~ranged /\ duty = v
=============================================================================
