------------------------- MODULE MCSlaNotifications -------------------------
(* Instances of SlaNotifications for TLC. *)
EXTENDS SlaNotifications, TLC

CONSTANTS r1

\* The role is told of a breach and of the escalation.
MCNotified == [e \in Events |-> IF e = "WARNING" THEN {} ELSE {r1}]
=============================================================================
