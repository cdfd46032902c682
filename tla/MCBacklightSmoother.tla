------------------------ MODULE MCBacklightSmoother ------------------------
(* Instances of BacklightSmoother small enough for TLC. *)
EXTENDS BacklightSmoother

\* IVB and CFL+: the whole register is the brightness level.
WholeRegister == {0}
=============================================================================
