----------------------------- MODULE MCTaskEngine -----------------------------
(* Model values and bounds of the TLC runs of TaskEngine. *)
EXTENDS TaskEngine, TLC

\* Task ids are only compared with each other, sessions are interchangeable.
Symmetry == Permutations(Tasks) \cup Permutations(Sessions)
===============================================================================
