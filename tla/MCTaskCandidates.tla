-------------------------- MODULE MCTaskCandidates --------------------------
(* Instances of TaskCandidates for TLC. *)
EXTENDS TaskCandidates, TLC

\* Identities are only compared with each other.
Symmetry == Permutations(Candidates) \cup Permutations(Tasks) \cup Permutations(Sessions)
=============================================================================
