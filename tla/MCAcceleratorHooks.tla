-------------------------- MODULE MCAcceleratorHooks --------------------------
(***************************************************************************)
(* The hooks in accelerator drivers for TLC: force wake and GuC firmware   *)
(* for Intel's driver, submission patches for NVIDIA's.  They share no     *)
(* state.  An initial state chooses the subject that moves, and the others *)
(* stay in one initial state of theirs.                                    *)
(***************************************************************************)
EXTENDS GuCFirmware, ForceWake, NGFX

VARIABLE subject

\* Generic firmware is larger than Apple's, and rounds up to more than is asked for.
ImageSizes == [image \in {"apple", "generic"} |-> IF image = "apple" THEN 2 ELSE 6]

HooksInit ==
  /\ subject \in {"force wake", "GuC", "NGFX"}
  /\ IF subject # "GuC" THEN mojave = TRUE ELSE TRUE
  /\ IF subject # "NGFX"
     THEN /\ version = "10.13" /\ fifoSubmit = 0
          /\ siteRegister = [s \in Sites |-> CHOOSE r \in Registers : TRUE]
     ELSE TRUE
  /\ ForceWakeInit /\ Init /\ NgfxInit

HooksNext ==
  /\ UNCHANGED subject
  /\ \/ subject = "force wake" /\ ForceWakeNext /\ UNCHANGED <<vars, ngfxVars>>
     \/ subject = "GuC" /\ Next /\ UNCHANGED <<forceWakeVars, ngfxVars>>
     \/ subject = "NGFX" /\ NgfxNext /\ UNCHANGED <<forceWakeVars, vars>>

HooksSpec == /\ HooksInit
             /\ [][HooksNext]_<<subject, forceWakeVars, vars, ngfxVars>>
             /\ Fairness
===============================================================================
