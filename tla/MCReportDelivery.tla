------------------------- MODULE MCReportDelivery -------------------------
(* Instances of ReportDelivery for TLC: the constants are given in the cfgs. *)
EXTENDS ReportDelivery, TLC

\* Sound where only invariants and action properties are checked.
Symmetry == Permutations(Recipients) \cup Permutations(Workers)
=============================================================================
