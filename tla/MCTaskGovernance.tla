--------------------------- MODULE MCTaskGovernance ---------------------------
(* Model values and bounds of the TLC runs of TaskGovernance. *)
EXTENDS TaskGovernance, TLC

\* A Low task gets two days, a High one a single day.
TwoPriorities == <<2, 1>>

\* Ids are only compared with each other, sessions are interchangeable.
Symmetry ==
  Permutations(Tasks \ Roots) \cup Permutations(Requests) \cup Permutations(Sessions)
===============================================================================
