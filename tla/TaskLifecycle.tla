---------------------------- MODULE TaskLifecycle ----------------------------
(***************************************************************************)
(* What the task engine promises about a task's status: a task is created  *)
(* Open, or Assigned when its owner is known, and afterwards its status    *)
(* only ever follows an arrow of the transition rule table.                *)
(*                                                                         *)
(* The one compound step is an edit that names an owner and a status       *)
(* together: it takes the task from Open through Assigned in one           *)
(* transaction.                                                            *)
(***************************************************************************)
EXTENDS TaskRules

CONSTANT Tasks

VARIABLE status    \* the status each task shows, NoStatus before creation

Init == status = [t \in Tasks |-> NoStatus]

Create(t) ==
  /\ status[t] = NoStatus
  /\ \E first \in {"Open", "Assigned"} : status' = [status EXCEPT ![t] = first]

Follow(t) ==
  \E to \in Statuses :
    /\ <<status[t], to>> \in Rules
    /\ status' = [status EXCEPT ![t] = to]

TakeAndFollow(t) ==
  /\ status[t] = "Open"
  /\ \E to \in Statuses :
       /\ <<"Assigned", to>> \in Rules
       /\ status' = [status EXCEPT ![t] = to]

Next == \E t \in Tasks : Create(t) \/ Follow(t) \/ TakeAndFollow(t)

Spec == Init /\ [][Next]_status
==============================================================================
