------------------------------ MODULE TaskRules ------------------------------
(***************************************************************************)
(* The Task rows of the state-machine framework: the statuses of           *)
(* entity_status_master, the active rows of entity_state_transition_rule   *)
(* and fn_is_transition_allowed, which every status change of a task goes  *)
(* through (sp_pm_state_transition refuses a move the function refuses).   *)
(*                                                                         *)
(* The rule table is data that migrations 035, 268, 349 and 350 seed; no   *)
(* procedure writes it, so it is a constant here.                          *)
(***************************************************************************)

\* What stands for SQL NULL in a status parameter: the state before creation.
NoStatus == "none"

Statuses ==
  { "Open", "Assigned", "InProgress", "PendingReview", "Closed", "Cancelled",
    "Escalated", "ConfigGatePassed", "AwaitingFirstExecution",
    "OperationalGatePassed" }

\* entity_status_master.is_terminal = 1
Terminal == {"Closed", "Cancelled"}

\* The rows whose actor_role_code is NULL: any caller may take them.
OpenRules ==
  { <<NoStatus, "Open">>,
    <<"Open", "Assigned">>, <<"Open", "Cancelled">>, <<"Open", "Closed">>,
    <<"Assigned", "InProgress">>, <<"Assigned", "Cancelled">>,
    <<"Assigned", "Escalated">>, <<"Assigned", "Closed">>,
    <<"InProgress", "PendingReview">>, <<"InProgress", "ConfigGatePassed">>,
    <<"InProgress", "Cancelled">>, <<"InProgress", "Escalated">>,
    <<"InProgress", "Closed">>,
    <<"PendingReview", "Closed">>, <<"PendingReview", "Escalated">>,
    <<"ConfigGatePassed", "AwaitingFirstExecution">>,
    <<"AwaitingFirstExecution", "OperationalGatePassed">>,
    <<"OperationalGatePassed", "Closed">>,
    <<"Escalated", "Closed">> }

\* The one row restricted to a role.
AdminRules == { <<"Closed", "Open">> }

Rules == OpenRules \cup AdminRules

\* fn_is_transition_allowed: some active rule matches the pair, and its role
\* is NULL or the caller's.
TransitionAllowed(from, to, role) ==
  \/ <<from, to>> \in OpenRules
  \/ role = "Admin" /\ <<from, to>> \in AdminRules

\* requires_reason = 1: sp_pm_state_transition then refuses a NULL or blank
\* reason_code (53521).
ReasonRequired(from, to) ==
  \/ to \in {"Cancelled", "Escalated"}
  \/ <<from, to>> \in AdminRules

\* The whole verdict of sp_pm_state_transition on a call.
TransitionAccepted(from, to, role, reasonGiven) ==
  /\ TransitionAllowed(from, to, role)
  /\ ReasonRequired(from, to) => reasonGiven

\* Statuses sp_task_overdue_sweep selects.
SweepStatuses ==
  { "Assigned", "InProgress", "PendingReview", "ConfigGatePassed",
    "AwaitingFirstExecution", "OperationalGatePassed" }

\* The statuses sp_task_close accepts for an Implementation task (section 12.2.3).
GateStatuses == {"OperationalGatePassed", "PendingReview"}
==============================================================================
