------------------------- MODULE MCScheduledTasks -------------------------
(* Instances of ScheduledTasks for TLC. *)
EXTENDS ScheduledTasks, TLC

CONSTANTS r1, r2

\* One rule has a skipped date and the other an added one from before migration 377.
MCLegacy == {[rule |-> r1, type |-> "Skipped", from |-> 0, to |-> 0],
             [rule |-> r2, type |-> "Added", from |-> 1, to |-> 1]}
=============================================================================
