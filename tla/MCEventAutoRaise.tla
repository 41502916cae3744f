------------------------- MODULE MCEventAutoRaise -------------------------
(* Instances of EventAutoRaise for TLC: the constants are given in the cfgs. *)
EXTENDS EventAutoRaise
=============================================================================
