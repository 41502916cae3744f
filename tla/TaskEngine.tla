------------------------------ MODULE TaskEngine ------------------------------
(***************************************************************************)
(* The lifecycle of a practice_task: the stored procedures that create a   *)
(* task, move it through its statuses, close it, complete it against its   *)
(* mandatory children and escalate it when its SLA date has passed.        *)
(*                                                                         *)
(* The procedures run on concurrent database connections (Sessions) under  *)
(* READ COMMITTED.  Each one reads the task it works on with a plain       *)
(* SELECT, usually before its BEGIN TRAN, then writes the transition log   *)
(* through sp_pm_state_transition, then updates the task row without       *)
(* checking that the row still says what it read.  A call is therefore     *)
(* several steps of its session:                                           *)
(*                                                                         *)
(*    Begin...        the reads, the guards and the refusals               *)
(*    LogTransition   the append to entity_state_transition_log            *)
(*    Commit...       the UPDATE of practice_task and the COMMIT           *)
(*                                                                         *)
(* With one session the calls run one after the other; with two they       *)
(* interleave as the server lets them.  Calls that a guard refuses leave   *)
(* no trace and are not steps.                                             *)
(***************************************************************************)
EXTENDS TaskRules, Naturals, Sequences

CONSTANTS
  Tasks,        \* identities a task row may get
  Subjects,     \* source records (gap, risk, practice ...) tasks are raised for
  Sessions,     \* database connections
  NoTask,       \* NULL for a task id
  Calls,        \* the procedures this instance exercises, a subset of CallNames
  Targets,      \* the statuses sp_task_transition and sp_task_update are asked for
  CandidateSources,  \* the subjects with a New or Validated task candidate
  MaxLog        \* bound on the transition log of one task

CallNames ==
  {"assign", "transition", "close", "complete", "sweep", "child", "edit"}

TaskTypes == {"Implementation", "Custom"}

ASSUME NoTaskAssumption == NoTask \notin Tasks
ASSUME SubjectsAssumption == Subjects /= {}
ASSUME CallsAssumption  == Calls \subseteq CallNames
ASSUME TargetsAssumption == Targets \subseteq Statuses
ASSUME MaxLogAssumption == MaxLog \in Nat /\ MaxLog >= 2

VARIABLES
  task,         \* practice_task, by identity
  log,          \* entity_state_transition_log of each task, in insertion order
  late,         \* the tasks whose sla_due_at has passed
  actionState,  \* task_source_action_state.action_status_code, by subject
  sess          \* what each connection is in the middle of

vars == <<task, log, late, actionState, sess>>

-----------------------------------------------------------------------------
\* A row of practice_task.  closed, completed and escalated say whether
\* closed_at, completed_dt and escalated_at are set.
TaskRow ==
  [ status    : Statuses \cup {NoStatus},
    type      : TaskTypes,
    subject   : Subjects,
    parent    : Tasks \cup {NoTask},
    mandatory : BOOLEAN,
    closed    : BOOLEAN,
    completed : BOOLEAN,
    escalated : BOOLEAN ]

LogRow == [from : Statuses \cup {NoStatus}, to : Statuses]

ActionStates == {"None", "NotStarted", "InProgress", "Completed"}

\* The local variables of the procedure a session runs.  to is the target
\* status, batch the table variable @candidates of the sweep, mand and own
\* the optional fields of an edit, seen the action state a sync has computed.
Session ==
  [ call  : CallNames \cup {"none"},
    pc    : {"idle", "close", "log", "update", "sync", "report", "create", "apply",
             "next"},
    task  : Tasks \cup {NoTask},
    from  : Statuses \cup {NoStatus},
    to    : Statuses \cup {NoStatus},
    mand  : {"keep", "yes", "no"},
    own   : BOOLEAN,
    seen  : ActionStates,
    batch : SUBSET (Tasks \X Statuses) ]

Free ==
  [ call |-> "none", pc |-> "idle", task |-> NoTask, from |-> NoStatus,
    to |-> NoStatus, mand |-> "keep", own |-> FALSE, seen |-> "None",
    batch |-> {} ]

Exists(t) == task[t].status /= NoStatus
Children(p) == {c \in Tasks : Exists(c) /\ task[c].parent = p}

\* Mutant of Eligible: a child in a terminal status counts as done.
EligibleByStatus(p) ==
  /\ ~task[p].closed
  /\ \A c \in Children(p) : task[c].mandatory => task[c].status \in Terminal

\* sp_task_completion_eligibility: not closed, and no mandatory child whose
\* closed_at is NULL (a Cancelled child has none).
Eligible(p) ==
  /\ ~task[p].closed
  /\ \A c \in Children(p) : task[c].mandatory => task[c].closed

\* Mutant of TwoGatePassed: work in progress taken for the first gate, since
\* the rule table allows its closure.
TwoGatePassedInProgress(type, from) ==
  type = "Implementation" => from \in GateStatuses \cup {"InProgress"}

\* The guard of sp_task_close on the status and type it has read.
TwoGatePassed(type, from) == type = "Implementation" => from \in GateStatuses

\* Work sp_task_overdue_sweep selects; the batch of 200 is larger than Tasks.
Overdue(t) ==
  /\ t \in late
  /\ ~task[t].closed /\ ~task[t].escalated
  /\ task[t].status \in SweepStatuses

Roles == {"Admin", "Other"}

-----------------------------------------------------------------------------
Init ==
  /\ task = [ t \in Tasks |->
                [ status |-> NoStatus, type |-> "Custom",
                  subject |-> CHOOSE x \in Subjects : TRUE,
                  parent |-> NoTask, mandatory |-> FALSE, closed |-> FALSE,
                  completed |-> FALSE, escalated |-> FALSE ] ]
  /\ log = [t \in Tasks |-> <<>>]
  /\ late = {}
  /\ actionState = [x \in Subjects |-> "None"]
  /\ sess = [s \in Sessions |-> Free]

\* A task as the INSERT of sp_task_open leaves it, and as the second UPDATE
\* does when an owner was named or resolved.
NewTask(type, subject, parent, mandatory, owned) ==
  [ status    |-> IF owned THEN "Assigned" ELSE "Open",
    type      |-> type,
    subject   |-> subject,
    parent    |-> parent,
    mandatory |-> mandatory,
    closed    |-> FALSE,
    completed |-> FALSE,
    escalated |-> FALSE ]

NewTaskLog(owned) ==
  LET opened == [from |-> NoStatus, to |-> "Open"] IN
  IF owned THEN <<opened, [from |-> "Open", to |-> "Assigned"]>>
           ELSE <<opened>>

\* The dedup lookup of sp_task_open: an Implementation task of this subject
\* whose closed_at is NULL.  It takes a key-range lock (UPDLOCK, HOLDLOCK), so
\* lookup and insert are one step; sp_task_open returns the id it found and
\* creates nothing.
OpenImplementation(t, x) ==
  /\ Exists(t) /\ ~task[t].closed
  /\ task[t].type = "Implementation" /\ task[t].subject = x

\* sp_task_open called for a top-level task.
OpenTask(t, type, x, owned) ==
  /\ ~Exists(t)
  /\ type = "Implementation" => ~\E u \in Tasks : OpenImplementation(u, x)
  /\ task' = [task EXCEPT ![t] = NewTask(type, x, NoTask, FALSE, owned)]
  /\ log' = [log EXCEPT ![t] = NewTaskLog(owned)]
  /\ UNCHANGED <<late, actionState, sess>>

\* The clock passes sla_due_at of a task.  Only the sweep looks at it.
FallDue(t) ==
  /\ "sweep" \in Calls
  /\ Exists(t) /\ t \notin late
  /\ late' = late \cup {t}
  /\ UNCHANGED <<task, log, actionState, sess>>

-----------------------------------------------------------------------------
\* A session starts the call c; what it has read goes into its locals.
Start(s, c, locals) ==
  /\ c \in Calls
  /\ sess[s] = Free
  /\ sess' = [sess EXCEPT ![s] = locals]
  /\ UNCHANGED <<task, log, late, actionState>>

\* A call that has read status from and is about to ask for a move to to.
Asking(c, t, from, to) ==
  [Free EXCEPT !.call = c, !.pc = "log", !.task = t, !.from = from, !.to = to]

\* sp_task_assign on an Open task.  On any other status it only changes the
\* owner, which nothing here depends on.
BeginAssign(s, t) ==
  /\ task[t].status = "Open"
  /\ Start(s, "assign", Asking("assign", t, "Open", "Assigned"))

\* sp_task_transition, asked for any target by any role.
BeginTransition(s, t, to, role, reasonGiven) ==
  /\ Exists(t)
  /\ TransitionAccepted(task[t].status, to, role, reasonGiven)
  /\ Start(s, "transition", Asking("transition", t, task[t].status, to))

\* sp_task_close.
BeginClose(s, t) ==
  /\ Exists(t)
  /\ TwoGatePassed(task[t].type, task[t].status)
  /\ TransitionAccepted(task[t].status, "Closed", "Other", TRUE)
  /\ Start(s, "close", Asking("close", t, task[t].status, "Closed"))

\* sp_task_complete up to its BEGIN TRAN: closed_at and the eligibility of
\* the task, read without a lock.
BeginComplete(s, t) ==
  /\ Exists(t)
  /\ Eligible(t)
  /\ Start(s, "complete", [Free EXCEPT !.call = "complete", !.pc = "close", !.task = t])

\* sp_task_child_create up to its BEGIN TRAN: the parent is not completed and
\* is not itself a child.
BeginChild(s, p) ==
  /\ Exists(p)
  /\ ~task[p].closed /\ task[p].parent = NoTask
  /\ Start(s, "child", [Free EXCEPT !.call = "child", !.pc = "create", !.task = p])

\* sp_task_update up to its writes: not closed, and the new status, if one is
\* given, is neither Closed nor Cancelled and is legal from the one read.
BeginEdit(s, t, mand, own, to, role) ==
  /\ Exists(t) /\ ~task[t].closed
  /\ mand /= "keep" => task[t].parent /= NoTask
  /\ \/ to = NoStatus
     \/ /\ to \notin {task[t].status, "Closed", "Cancelled"}
        /\ TransitionAllowed(task[t].status, to, role)
  /\ Start(s, "edit", [Free EXCEPT !.call = "edit", !.pc = "apply", !.task = t,
                                   !.to = to, !.mand = mand, !.own = own])

\* sp_task_overdue_sweep fills @candidates.
BeginSweep(s) ==
  LET found == {t \in Tasks : Overdue(t)} IN
  /\ found /= {}
  /\ Start(s, "sweep",
           [Free EXCEPT !.call = "sweep", !.pc = "next",
                        !.batch = {<<t, task[t].status>> : t \in found}])

-----------------------------------------------------------------------------
\* Inside the transaction of sp_task_complete, sp_task_close reads the status
\* afresh; a refusal rolls the completion back.
CloseRead(s) ==
  LET t == sess[s].task
      from == task[t].status
  IN
  /\ sess[s].pc = "close"
  /\ sess' = [sess EXCEPT ![s] =
                IF /\ TwoGatePassed(task[t].type, from)
                   /\ TransitionAccepted(from, "Closed", "Other", TRUE)
                THEN Asking("complete", t, from, "Closed")
                ELSE Free]
  /\ UNCHANGED <<task, log, late, actionState>>

\* Mutant of SweepFetch: a refused move is recorded and the row updated anyway.
SweepFetchUnchecked(s, t, from) ==
  /\ sess[s].pc = "next"
  /\ <<t, from>> \in sess[s].batch
  /\ sess' = [sess EXCEPT ![s].batch = @ \ {<<t, from>>}, ![s].pc = "log",
                          ![s].task = t, ![s].from = from, ![s].to = "Escalated"]
  /\ UNCHANGED <<task, log, late, actionState>>

\* The sweep's cursor moves to one of the rows left.  A move the rule table
\* refuses is recorded as SWEEP_ERROR and the row is passed over.
SweepFetch(s, t, from) ==
  LET rest == [sess[s] EXCEPT !.batch = @ \ {<<t, from>>}] IN
  /\ sess[s].pc = "next"
  /\ <<t, from>> \in sess[s].batch
  /\ sess' = [sess EXCEPT ![s] =
                IF TransitionAccepted(from, "Escalated", "Other", TRUE)
                THEN [rest EXCEPT !.pc = "log", !.task = t, !.from = from,
                                  !.to = "Escalated"]
                ELSE IF rest.batch = {} THEN Free ELSE rest]
  /\ UNCHANGED <<task, log, late, actionState>>

\* Mutant of LogTransition: no row when the task has moved on since the read.
LogTransitionIfUnmoved(s) ==
  LET t == sess[s].task IN
  /\ sess[s].pc = "log"
  /\ Len(log[t]) < MaxLog
  /\ log' = IF task[t].status /= sess[s].from THEN log
            ELSE [log EXCEPT ![t] = Append(@, [from |-> sess[s].from, to |-> sess[s].to])]
  /\ sess' = [sess EXCEPT ![s].pc = "update"]
  /\ UNCHANGED <<task, late, actionState>>

\* The INSERT of sp_pm_state_transition: the pair the session has read and
\* asked for, whatever the task says by now.
LogTransition(s) ==
  LET t == sess[s].task IN
  /\ sess[s].pc = "log"
  /\ Len(log[t]) < MaxLog
  /\ log' = [log EXCEPT ![t] = Append(@, [from |-> sess[s].from, to |-> sess[s].to])]
  /\ sess' = [sess EXCEPT ![s].pc = "update"]
  /\ UNCHANGED <<task, late, actionState>>

\* Mutant of CommitTransition: leaving Closed clears closed_at.
CommitTransitionClearing(s) ==
  LET t == sess[s].task
      to == sess[s].to
  IN
  /\ sess[s].pc = "update" /\ sess[s].call \in {"assign", "transition"}
  /\ task' = [task EXCEPT ![t].status = to,
                          ![t].escalated = @ \/ to = "Escalated",
                          ![t].closed = @ /\ to /= "Open"]
  /\ sess' = [sess EXCEPT ![s] = Free]
  /\ UNCHANGED <<log, late, actionState>>

\* The UPDATE and COMMIT of sp_task_assign and sp_task_transition.  closed_at
\* is not in the UPDATE, whatever the target.
CommitTransition(s) ==
  LET t == sess[s].task
      to == sess[s].to
  IN
  /\ sess[s].pc = "update" /\ sess[s].call \in {"assign", "transition"}
  /\ task' = [task EXCEPT ![t].status = to,
                          ![t].escalated = @ \/ to = "Escalated"]
  /\ sess' = [sess EXCEPT ![s] = Free]
  /\ UNCHANGED <<log, late, actionState>>

\* The UPDATE and COMMIT of sp_task_close.
CommitClose(s) ==
  LET t == sess[s].task IN
  /\ sess[s].pc = "update" /\ sess[s].call = "close"
  /\ task' = [task EXCEPT ![t].status = "Closed", ![t].closed = TRUE]
  /\ sess' = [sess EXCEPT ![s] = Free]
  /\ UNCHANGED <<log, late, actionState>>

\* The same inside sp_task_complete, with the completion stamp; the upstream
\* sync comes after the COMMIT.
CommitComplete(s) ==
  LET t == sess[s].task IN
  /\ sess[s].pc = "update" /\ sess[s].call = "complete"
  /\ task' = [task EXCEPT ![t].status = "Closed", ![t].closed = TRUE,
                          ![t].completed = TRUE]
  /\ sess' = [sess EXCEPT ![s].pc = "sync"]
  /\ UNCHANGED <<log, late, actionState>>

\* One row of the sweep.
CommitSweep(s) ==
  LET t == sess[s].task IN
  /\ sess[s].pc = "update" /\ sess[s].call = "sweep"
  /\ task' = [task EXCEPT ![t].status = "Escalated", ![t].escalated = TRUE]
  /\ sess' = [sess EXCEPT ![s] =
                IF sess[s].batch = {} THEN Free
                ELSE [Free EXCEPT !.call = "sweep", !.pc = "next",
                                  !.batch = sess[s].batch]]
  /\ UNCHANGED <<log, late, actionState>>

\* The transaction of sp_task_child_create: sp_task_open for a Custom task of
\* the subject TaskChild, then the UPDATE that stamps the inheritance.
CommitChild(s, c, mandatory, owned) ==
  LET p == sess[s].task IN
  /\ sess[s].pc = "create"
  /\ ~Exists(c)
  /\ task' = [task EXCEPT ![c] =
                NewTask("Custom", task[p].subject, p, mandatory, owned)]
  /\ log' = [log EXCEPT ![c] = NewTaskLog(owned)]
  /\ sess' = [sess EXCEPT ![s] = Free]
  /\ UNCHANGED <<late, actionState>>

-----------------------------------------------------------------------------
\* Mutant of EditMoves: the status change leaves the status the edit has read
\* and not the one the assignment made of it.
EditMovesFromRead(from, own, to) ==
  LET taken  == IF own /\ from = "Open" THEN "Assigned" ELSE from
      first  == IF taken /= from THEN <<[from |-> from, to |-> taken]>> ELSE <<>>
      second == IF to /= NoStatus THEN <<[from |-> from, to |-> to]>> ELSE <<>>
  IN  first \o second

\* The transaction of sp_task_update: the mandatory flag, then sp_task_assign
\* (own), then sp_task_transition (to), each reading the status itself.  One
\* refusal rolls all of it back.
EditMoves(from, own, to) ==
  LET taken  == IF own /\ from = "Open" THEN "Assigned" ELSE from
      first  == IF taken /= from THEN <<[from |-> from, to |-> taken]>> ELSE <<>>
      second == IF to /= NoStatus THEN <<[from |-> taken, to |-> to]>> ELSE <<>>
  IN  first \o second

ApplyEdit(s) ==
  LET t == sess[s].task
      moves == EditMoves(task[t].status, sess[s].own, sess[s].to)
  IN
  /\ sess[s].pc = "apply"
  /\ \A i \in DOMAIN moves :
        \E role \in Roles : TransitionAccepted(moves[i].from, moves[i].to, role, TRUE)
  /\ Len(log[t]) + Len(moves) <= MaxLog
  /\ log' = [log EXCEPT ![t] = @ \o moves]
  /\ task' = [task EXCEPT
                ![t].status = IF moves = <<>> THEN @ ELSE moves[Len(moves)].to,
                ![t].escalated = @ \/ sess[s].to = "Escalated",
                ![t].mandatory = IF sess[s].mand = "keep" THEN @ ELSE sess[s].mand = "yes"]
  /\ sess' = [sess EXCEPT ![s] = Free]
  /\ UNCHANGED <<late, actionState>>

RollBackEdit(s) ==
  LET t == sess[s].task
      moves == EditMoves(task[t].status, sess[s].own, sess[s].to)
  IN
  /\ sess[s].pc = "apply"
  /\ \E i \in DOMAIN moves :
        \A role \in Roles : ~TransitionAccepted(moves[i].from, moves[i].to, role, TRUE)
  /\ sess' = [sess EXCEPT ![s] = Free]
  /\ UNCHANGED <<task, log, late, actionState>>

\* sp_task_source_sync: recomputed from the top-level tasks of the subject and
\* its candidates.  "None" is the deleted row.
SourceTasks(x) ==
  {t \in Tasks : Exists(t) /\ task[t].subject = x /\ task[t].parent = NoTask}

\* Mutant of SyncedState: the status of the source's task is copied as it is.
SyncedStateCopied(x) ==
  LET total == SourceTasks(x)
  IN  IF total = {} THEN "None" ELSE task[CHOOSE t \in total : TRUE].status

\* Mutant of SyncedState: closed children count as work done for the source.
SyncedStateWithChildren(x) ==
  LET total == SourceTasks(x)
      done  == {t \in Tasks : Exists(t) /\ task[t].subject = x /\ task[t].closed}
      cand  == x \in CandidateSources
  IN  CASE total = {} /\ ~cand                -> "None"
        [] total /= {} /\ done = total /\ ~cand -> "Completed"
        [] done /= {} /\ (done /= total \/ cand) -> "InProgress"
        [] done = {} /\ (total /= {} \/ cand)    -> "NotStarted"

SyncedState(x) ==
  LET total == SourceTasks(x)
      done  == {t \in total : task[t].closed}
      cand  == x \in CandidateSources
  IN  CASE total = {} /\ ~cand                -> "None"
        [] total /= {} /\ done = total /\ ~cand -> "Completed"
        [] done /= {} /\ (done /= total \/ cand) -> "InProgress"
        [] done = {} /\ (total /= {} \/ cand)    -> "NotStarted"

\* The counts are read first and the row is merged after, with no transaction
\* around the two.
SyncRead(s) ==
  /\ sess[s].pc = "sync"
  /\ sess' = [sess EXCEPT ![s].pc = "report",
                          ![s].seen = SyncedState(task[sess[s].task].subject)]
  /\ UNCHANGED <<task, log, late, actionState>>

SyncWrite(s) ==
  /\ sess[s].pc = "report"
  /\ actionState' = [actionState EXCEPT ![task[sess[s].task].subject] = sess[s].seen]
  /\ sess' = [sess EXCEPT ![s] = Free]
  /\ UNCHANGED <<task, log, late>>

\* The sync fails, or the connection drops after the COMMIT: the completion
\* stands and the state of the source keeps its old value.
SyncLost(s) ==
  /\ sess[s].pc \in {"sync", "report"}
  /\ sess' = [sess EXCEPT ![s] = Free]
  /\ UNCHANGED <<task, log, late, actionState>>

-----------------------------------------------------------------------------
Begin(s) ==
  \/ \E t \in Tasks :
       \/ BeginAssign(s, t) \/ BeginClose(s, t)
       \/ BeginComplete(s, t) \/ BeginChild(s, t)
       \/ \E to \in Targets, role \in Roles, r \in BOOLEAN :
            BeginTransition(s, t, to, role, r)
       \/ \E to \in Targets \cup {NoStatus}, role \in Roles, own \in BOOLEAN,
             mand \in {"keep", "yes", "no"} : BeginEdit(s, t, mand, own, to, role)
  \/ BeginSweep(s)

Continue(s) ==
  \/ CloseRead(s) \/ LogTransition(s)
  \/ CommitTransition(s) \/ CommitClose(s) \/ CommitComplete(s) \/ CommitSweep(s)
  \/ ApplyEdit(s) \/ RollBackEdit(s) \/ SyncRead(s) \/ SyncWrite(s) \/ SyncLost(s)
  \/ \E t \in Tasks :
       \/ \E from \in Statuses : SweepFetch(s, t, from)
       \/ \E mandatory, owned \in BOOLEAN : CommitChild(s, t, mandatory, owned)

Next ==
  \/ \E t \in Tasks : FallDue(t)
  \/ \E t \in Tasks, type \in TaskTypes, x \in Subjects, owned \in BOOLEAN :
       OpenTask(t, type, x, owned)
  \/ \E s \in Sessions : Begin(s) \/ Continue(s)

Spec == Init /\ [][Next]_vars

-----------------------------------------------------------------------------
(* Properties of any interleaving *)

\* The state is well-formed.
TypeOK ==
  /\ task \in [Tasks -> TaskRow]
  /\ log \in [Tasks -> Seq(LogRow)]
  /\ late \subseteq Tasks
  /\ actionState \in [Subjects -> ActionStates]
  /\ sess \in [Sessions -> Session]

\* The statuses the transition log says a task has had.
Logged(t) == {log[t][i].to : i \in DOMAIN log[t]}

\* However calls interleave, a task never shows a status its immutable log
\* does not hold: every UPDATE of current_status_id follows an accepted
\* sp_pm_state_transition for that task and that target.
StatusIsLogged ==
  \A t \in Tasks : Exists(t) => task[t].status \in Logged(t)

\* Two-gate closure (section 12.2.3): an Implementation task that carries
\* closed_at went through the operational gate or through review at some
\* time, even when other calls move it while sp_task_close runs.
TwoGateClosure ==
  \A t \in Tasks :
    task[t].closed /\ task[t].type = "Implementation"
      => Logged(t) \cap GateStatuses /= {}

\* ux_pm_practice_task_impl_dedup: at most one Implementation task of a
\* subject has a NULL closed_at, whatever is reopened, cancelled or edited.
OneOpenImplementation ==
  \A t, u \in Tasks, x \in Subjects :
    OpenImplementation(t, x) /\ OpenImplementation(u, x) => t = u

\* What a source screen reports is never ahead of the work: an action state
\* of InProgress or Completed means some top-level task of that source has
\* been closed, though the row is written after the commit and may be lost,
\* delayed or overtaken.
ReportedProgressIsReal ==
  \A x \in Subjects :
    actionState[x] \in {"InProgress", "Completed"}
      => \E t \in SourceTasks(x) : task[t].closed

-----------------------------------------------------------------------------
(* Properties of calls that run one after the other *)

\* A task whose log row is written and whose UPDATE is not.
Moving(t) == \E s \in Sessions : sess[s].pc = "update" /\ sess[s].task = t

\* The transition log is the history of the task: it starts at creation, each
\* row leaves the status the previous row reached, and the last row is the
\* status the task shows.
LogIsHistory ==
  \A t \in Tasks :
    /\ \A i \in DOMAIN log[t] :
         log[t][i].from = IF i = 1 THEN NoStatus ELSE log[t][i - 1].to
    /\ Exists(t) /\ ~Moving(t) => task[t].status = log[t][Len(log[t])].to

\* The mandatory-child gate of sp_task_complete (section 12): at the commit that
\* stamps a task completed, each of its mandatory children has closed_at.
CompletionGate ==
  [][ \A p \in Tasks :
        ~task[p].completed /\ task'[p].completed
          => \A c \in Children(p) : task[c].mandatory => task[c].closed ]_vars

\* The engine implements the abstract lifecycle.
Lifecycle == INSTANCE TaskLifecycle WITH status <- [t \in Tasks |-> task[t].status]
FollowsLifecycle == Lifecycle!Spec
==============================================================================
