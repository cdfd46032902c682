---------------------------- MODULE MCBacklightHooks ----------------------------
(***************************************************************************)
(* The three ways into the backlight of Intel's framebuffer driver for     *)
(* TLC: the registers fix, the alternative fix, and the setup of the       *)
(* smoother.  The two fixes are for different macOS releases, so one       *)
(* machine has one of them, and the setup shares no state with them.  An   *)
(* initial state chooses the subject that moves, and what belongs to the   *)
(* others stays in one initial state.                                      *)
(***************************************************************************)
EXTENDS BacklightRegisters, BacklightRegistersAlt, BacklightSmootherSetup

VARIABLE subject

\* The variables that only one of the subjects has
registers == <<scale, preset, targetBacklightFrequency, targetPwmControl,
               driverBacklightFrequency, want, lastFreq, lastCtl>>
alternative == <<patching, firmware, level, asked, lit>>
fixes == <<altMachine, hardware, smooth, registers, alternative>>

HooksInit ==
  /\ subject \in {"registers", "alternative", "setup"}
  /\ HardwareInit
  /\ IF subject = "setup"
     THEN platform = "KBL" /\ boot = 0 /\ smoother = FALSE
     ELSE user = [p \in Properties |-> Absent]
  /\ IF subject # "registers"
     THEN scale = (CHOOSE s \in Scales : TRUE) /\ preset = 0
     ELSE TRUE
  /\ IF subject # "alternative"
     THEN /\ context = [k \in Indices |-> CHOOSE c \in Contexts : TRUE]
          /\ level = 1
     ELSE TRUE
  /\ Init /\ AltInit /\ SetupInit

HooksNext ==
  /\ UNCHANGED subject
  /\ \/ subject = "registers" /\ Next /\ UNCHANGED <<alternative, setupVars>>
     \/ subject = "alternative" /\ AltNext /\ UNCHANGED <<registers, setupVars>>
     \/ subject = "setup" /\ SetupNext /\ UNCHANGED fixes

HooksSpec == HooksInit /\ [][HooksNext]_<<subject, fixes, setupVars>>
=================================================================================
