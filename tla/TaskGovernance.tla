---------------------------- MODULE TaskGovernance ----------------------------
(***************************************************************************)
(* What a task promises, and who may change it: its priority, its standard *)
(* due date, the extension approved for it and the due date in force.      *)
(*                                                                         *)
(* A priority may be raised by anyone; lowering it, or extending the due   *)
(* date, files an exception_request that somebody approves or rejects.     *)
(* Dates follow from sp_task_apply_sla, which also copies them to the      *)
(* children.  As in TaskEngine a call reads before its BEGIN TRAN and      *)
(* commits later on what it has read: Begin... and the step named after    *)
(* the transaction.  An UPDATE inside a transaction locks the row, so      *)
(* sp_task_apply_sla, called there, sees what the caller has just written. *)
(***************************************************************************)
EXTENDS Naturals

CONSTANTS
  Tasks,        \* identities a task row may get
  Roots,        \* those sp_task_open draws from; the others are left to children
  Requests,     \* identities a request for a task may get
  Sessions,     \* database connections
  NoTask,       \* NULL for a task id
  NoRequest,    \* NULL for a request id
  Calls,        \* the procedures this instance exercises, a subset of CallNames
  TopPriority,  \* priorities are ranked 1 (Low) .. TopPriority (Critical)
  SlaDays,      \* the days the policy (or the type default) gives a priority
  Starts,       \* days a task may start on
  Entered,      \* the day a task without a start date counts from
  TypeDue,      \* the date the INSERT of sp_task_open puts in sla_due_at
  MaxDate,      \* last day of the calendar
  AskedDates    \* the dates callers ask for

CallNames ==
  {"open", "target", "priority", "extension", "approve", "reject", "record",
   "child", "start", "retarget", "reschedule", "close", "lose"}

Priorities == 1..TopPriority

Dates == 1..MaxDate

\* NULL for a date, and the priority of a row that does not exist.
None == 0

ASSUME NoTaskAssumption == NoTask \notin Tasks
ASSUME RootsAssumption == Roots \subseteq Tasks
ASSUME NoRequestAssumption == NoRequest \notin Requests
ASSUME CallsAssumption == Calls \subseteq CallNames
ASSUME PrioritiesAssumption == TopPriority \in Nat \ {0}
ASSUME StartsAssumption == Starts \subseteq Nat /\ Entered \in Starts
ASSUME CalendarAssumption ==
  /\ MaxDate \in Nat
  /\ TypeDue \in Dates
  /\ AskedDates \subseteq Dates
  /\ SlaDays \in [Priorities -> Nat]
  /\ \A b \in Starts, p \in Priorities : b + SlaDays[p] \in Dates

VARIABLES
  task,      \* the governed columns of practice_task
  request,   \* exception_request rows of the two task types
  sess       \* what each connection is in the middle of

vars == <<task, request, sess>>

-----------------------------------------------------------------------------
\* extStatus is extension_status_code, prioStatus priority_change_status_code.
MarkerStates == {"None", "Pending", "Approved", "Rejected"}

TaskRow ==
  [ parent     : Tasks \cup {NoTask},
    priority   : Priorities \cup {None},
    start      : Starts,                 \* COALESCE(start_date, entered_dt)
    std        : Dates \cup {None},      \* standard_due_at
    ext        : Dates \cup {None},      \* approved_extended_due_at
    due        : Dates \cup {None},      \* sla_due_at, the date in force
    extStatus  : MarkerStates,
    prioStatus : MarkerStates,
    closed     : BOOLEAN ]               \* closed_at is set

NoRow ==
  [ parent |-> NoTask, priority |-> None, start |-> Entered, std |-> None,
    ext |-> None, due |-> None, extStatus |-> "None", prioStatus |-> "None",
    closed |-> FALSE ]

RequestTypes == {"Extension", "Reduction"}

\* wanted is due_at_requested or priority_requested.
RequestRow ==
  [ type   : RequestTypes,
    task   : Tasks \cup {NoTask},
    wanted : Nat,
    status : {"None", "Pending", "Approved", "Rejected"} ]

NoRequestRow ==
  [type |-> "Extension", task |-> NoTask, wanted |-> None, status |-> "None"]

\* The local variables of a procedure: what is left to do, the task or the
\* request it is about, its argument, and the task row it has read.
Session ==
  [ pc   : {"idle", "derive", "store", "stamp", "raise", "Extension",
            "Reduction", "approve", "reject", "record", "child"},
    task : Tasks \cup {NoTask},
    req  : Requests \cup {NoRequest},
    arg  : Nat,
    read : TaskRow ]

Free ==
  [pc |-> "idle", task |-> NoTask, req |-> NoRequest, arg |-> None, read |-> NoRow]

Exists(t) == task[t].priority /= None
Root(t) == Exists(t) /\ task[t].parent = NoTask
OpenChildren(p) == {u \in Tasks : Exists(u) /\ task[u].parent = p /\ ~task[u].closed}
Idle(s, call) == call \in Calls /\ sess[s].pc = "idle"

Goto(s, pc, t, r, arg, read) ==
  sess' = [sess EXCEPT ![s] =
             [pc |-> pc, task |-> t, req |-> r, arg |-> arg, read |-> read]]

Return(s) == sess' = [sess EXCEPT ![s] = Free]

PendingFor(t, type) ==
  \E r \in Requests : /\ request[r].status = "Pending"
                      /\ request[r].type = type
                      /\ request[r].task = t

\* A row with the marker of a request of this type set.
Marked(row, type, state) ==
  IF type = "Extension" THEN [row EXCEPT !.extStatus = state]
                        ELSE [row EXCEPT !.prioStatus = state]

-----------------------------------------------------------------------------
(* sp_task_apply_sla *)

\* Mutant of StandardDue: the days of the policy taken for hours.
StandardDueInHours(row) == row.start + 24 * SlaDays[row.priority]

StandardDue(row) == row.start + SlaDays[row.priority]

\* An approved extension counts only when it pushes the date out.
ExtensionUsed(row) == row.extStatus = "Approved" /\ row.ext > StandardDue(row)

EffectiveDue(row) == IF ExtensionUsed(row) THEN row.ext ELSE StandardDue(row)

\* Mutant of WithSla: the cascade copies the dates and not the priority.
WithSlaDatesOnly(rows, t, read) ==
  IF read.parent /= NoTask THEN rows ELSE
  [ u \in Tasks |->
      IF u = t \/ (rows[u].parent = t /\ ~rows[u].closed)
      THEN [rows[u] EXCEPT !.std = StandardDue(read), !.due = EffectiveDue(read)]
      ELSE rows[u] ]

\* The rows after sp_task_apply_sla on task t, computed from the row it read:
\* a child is left alone, a root is stamped and so are its open children.
WithSla(rows, t, read) ==
  IF read.parent /= NoTask THEN rows ELSE
  [ u \in Tasks |->
      IF u = t
      THEN [rows[u] EXCEPT !.std = StandardDue(read), !.due = EffectiveDue(read)]
      ELSE IF rows[u].parent = t /\ ~rows[u].closed
      THEN [rows[u] EXCEPT !.priority = read.priority,
                           !.std = StandardDue(read),
                           !.ext = IF ExtensionUsed(read) THEN read.ext ELSE None,
                           !.due = EffectiveDue(read)]
      ELSE rows[u] ]

-----------------------------------------------------------------------------
Init ==
  /\ task = [t \in Tasks |-> NoRow]
  /\ request = [r \in Requests |-> NoRequestRow]
  /\ sess = [s \in Sessions |-> Free]

\* sp_task_open, up to its COMMIT.  The standard date comes afterwards, in
\* statements of their own: derived by sp_task_apply_sla, or stamped from the
\* target date of the caller.
OpenTask(s, t, p, b, target) ==
  /\ Idle(s, IF target = None THEN "open" ELSE "target")
  /\ t \in Roots /\ ~Exists(t)
  /\ task' = [task EXCEPT ![t] =
                [NoRow EXCEPT !.priority = p, !.start = b,
                              !.due = IF target = None THEN TypeDue ELSE target]]
  /\ Goto(s, IF target = None THEN "derive" ELSE "stamp", t, NoRequest, target, NoRow)
  /\ UNCHANGED request

ReadSla(s) ==
  /\ sess[s].pc = "derive"
  /\ Goto(s, "store", sess[s].task, NoRequest, None, task[sess[s].task])
  /\ UNCHANGED <<task, request>>

StoreSla(s) ==
  /\ sess[s].pc = "store"
  /\ task' = WithSla(task, sess[s].task, sess[s].read)
  /\ Return(s)
  /\ UNCHANGED request

StampTarget(s) ==
  /\ sess[s].pc = "stamp"
  /\ LET t == sess[s].task IN
     task' = IF task[t].std = None THEN [task EXCEPT ![t].std = sess[s].arg] ELSE task
  /\ Return(s)
  /\ UNCHANGED request

\* The CATCH of sp_task_open, or a connection lost behind its COMMIT: the task
\* keeps the date of its type and has no standard one.
LoseSla(s) ==
  /\ "lose" \in Calls
  /\ sess[s].pc \in {"derive", "store", "stamp"}
  /\ Return(s)
  /\ UNCHANGED <<task, request>>

-----------------------------------------------------------------------------
(* Priority and extension *)

\* Mutant of BeginPriority: every change takes the branch of an increase.
BeginPriorityUngoverned(s, t, p) ==
  /\ Idle(s, "priority")
  /\ Root(t) /\ ~task[t].closed
  /\ p /= task[t].priority
  /\ Goto(s, "raise", t, NoRequest, p, NoRow)
  /\ UNCHANGED <<task, request>>

\* sp_task_priority_change up to BEGIN TRAN: closed tasks and children are
\* refused, an equal rank changes nothing, and a reduction is refused while
\* one is pending.
BeginPriority(s, t, p) ==
  /\ Idle(s, "priority")
  /\ Root(t) /\ ~task[t].closed
  /\ p /= task[t].priority
  /\ p < task[t].priority => task[t].prioStatus /= "Pending"
  /\ Goto(s, IF p > task[t].priority THEN "raise" ELSE "Reduction", t, NoRequest, p, NoRow)
  /\ UNCHANGED <<task, request>>

CommitRaise(s) ==
  /\ sess[s].pc = "raise"
  /\ LET t == sess[s].task
         raised == [task EXCEPT ![t].priority = sess[s].arg]
     IN task' = WithSla(raised, t, raised[t])
  /\ Return(s)
  /\ UNCHANGED request

\* sp_task_sla_extension_request_create up to BEGIN TRAN.
BeginExtension(s, t, d) ==
  /\ Idle(s, "extension")
  /\ Root(t) /\ ~task[t].closed
  /\ task[t].extStatus /= "Pending"
  /\ d > task[t].due
  /\ Goto(s, "Extension", t, NoRequest, d, NoRow)
  /\ UNCHANGED <<task, request>>

\* Mutant of FileRequest: no unique index over the pending requests.
FileRequestUnchecked(s, r) ==
  /\ sess[s].pc \in RequestTypes
  /\ request[r].status = "None"
  /\ request' = [request EXCEPT ![r] =
                   [type |-> sess[s].pc, task |-> sess[s].task,
                    wanted |-> sess[s].arg, status |-> "Pending"]]
  /\ task' = [task EXCEPT ![sess[s].task] = Marked(@, sess[s].pc, "Pending")]
  /\ Return(s)

\* The transaction of both: insert the request, show it on the task.
FileRequest(s, r) ==
  LET t == sess[s].task
      type == sess[s].pc IN
  /\ type \in RequestTypes
  /\ request[r].status = "None"
  /\ ~PendingFor(t, type)
  /\ request' = [request EXCEPT ![r] =
                   [type |-> type, task |-> t, wanted |-> sess[s].arg,
                    status |-> "Pending"]]
  /\ task' = [task EXCEPT ![t] = Marked(task[t], type, "Pending")]
  /\ Return(s)

\* The unique index over the pending requests of a task and type refuses the
\* INSERT: the transaction is rolled back.
RefuseDuplicate(s) ==
  /\ sess[s].pc \in RequestTypes
  /\ PendingFor(sess[s].task, sess[s].pc)
  /\ Return(s)
  /\ UNCHANGED <<task, request>>

-----------------------------------------------------------------------------
(* Decisions *)

\* The read and the guard every decision starts with, outside its transaction.
BeginDecision(s, r, how) ==
  /\ how \in {"approve", "reject", "record"}
  /\ Idle(s, how)
  /\ request[r].status = "Pending"
  /\ Goto(s, how, request[r].task, r, request[r].wanted, NoRow)
  /\ UNCHANGED <<task, request>>

\* The row of the task once its request is granted.
ExtensionGranted(row, d) == [row EXCEPT !.ext = d, !.extStatus = "Approved"]
ReductionGranted(row, p) == [row EXCEPT !.priority = p, !.prioStatus = "Approved"]

Granted(row, type, wanted) ==
  IF type = "Extension" THEN ExtensionGranted(row, wanted)
                        ELSE ReductionGranted(row, wanted)

\* sp_task_sla_extension_approve and sp_task_priority_reduction_approve.
Approve(s) ==
  LET t == sess[s].task
      r == sess[s].req IN
  /\ sess[s].pc = "approve"
  /\ request' = [request EXCEPT ![r].status = "Approved"]
  /\ LET granted == [task EXCEPT ![t] = Granted(task[t], request[r].type, sess[s].arg)]
     IN task' = WithSla(granted, t, granted[t])
  /\ Return(s)

\* Mutant of Reject: it releases both markers of the task.
RejectReleasesBoth(s) ==
  /\ sess[s].pc = "reject"
  /\ request' = [request EXCEPT ![sess[s].req].status = "Rejected"]
  /\ task' = [task EXCEPT ![sess[s].task].extStatus = "Rejected",
                          ![sess[s].task].prioStatus = "Rejected"]
  /\ Return(s)

\* sp_exception_request_reject on a request of a task.
Reject(s) ==
  LET t == sess[s].task
      r == sess[s].req IN
  /\ sess[s].pc = "reject"
  /\ request' = [request EXCEPT ![r].status = "Rejected"]
  /\ task' = [task EXCEPT ![t] = Marked(task[t], request[r].type, "Rejected")]
  /\ Return(s)

\* sp_exception_request_approve on a request of a task: the decision is
\* recorded on the request, the task is not touched.
RecordApproval(s) ==
  /\ sess[s].pc = "record"
  /\ request' = [request EXCEPT ![sess[s].req].status = "Approved"]
  /\ Return(s)
  /\ UNCHANGED task

-----------------------------------------------------------------------------
(* Children, edits, and the two procedures that write a date directly *)

\* sp_task_child_create reads its parent before BEGIN TRAN ...
BeginChild(s, p) ==
  /\ Idle(s, "child")
  /\ Root(p) /\ ~task[p].closed
  /\ Goto(s, "child", p, NoRequest, None, task[p])
  /\ UNCHANGED <<task, request>>

\* ... and stamps the new child with what it has read.
CommitChild(s, u) ==
  /\ sess[s].pc = "child"
  /\ ~Exists(u)
  /\ task' = [task EXCEPT ![u] =
                [NoRow EXCEPT !.parent = sess[s].task,
                              !.priority = sess[s].read.priority,
                              !.std = sess[s].read.std,
                              !.ext = sess[s].read.ext,
                              !.due = sess[s].read.due]]
  /\ Return(s)
  /\ UNCHANGED request

\* sp_task_update with a new start date: no date is derived again.  (On a
\* child the start date has no part in any other column.)
EditStart(t, b) ==
  /\ "start" \in Calls
  /\ Root(t) /\ ~task[t].closed
  /\ b /= task[t].start
  /\ task' = [task EXCEPT ![t].start = b]
  /\ UNCHANGED <<request, sess>>

\* sp_practice_instance_open_implementation_task with a target date, when
\* sp_task_open has returned the open task of the instance.
Retarget(t, d) ==
  /\ "retarget" \in Calls
  /\ Root(t) /\ ~task[t].closed
  /\ task' = [task EXCEPT ![t].due = d]
  /\ UNCHANGED <<request, sess>>

\* sp_asset_activity_disposition_apply, RESCHEDULE.  Its guard is the status of
\* the task, which does not decide whether closed_at is set.
Reschedule(t, d) ==
  /\ "reschedule" \in Calls
  /\ Root(t)
  /\ task' = [task EXCEPT ![t].ext = d, ![t].due = d]
  /\ UNCHANGED <<request, sess>>

\* Closure by the engine: governance only sees closed_at.
CloseTask(t) ==
  /\ "close" \in Calls
  /\ Exists(t) /\ ~task[t].closed
  /\ task' = [task EXCEPT ![t].closed = TRUE]
  /\ UNCHANGED <<request, sess>>

-----------------------------------------------------------------------------
SessionStep(s) ==
  \/ \E t \in Tasks, p \in Priorities, b \in Starts, d \in AskedDates \cup {None} :
        OpenTask(s, t, p, b, d)
  \/ ReadSla(s)
  \/ StoreSla(s)
  \/ StampTarget(s)
  \/ LoseSla(s)
  \/ \E t \in Tasks, p \in Priorities : BeginPriority(s, t, p)
  \/ CommitRaise(s)
  \/ \E t \in Tasks, d \in AskedDates : BeginExtension(s, t, d)
  \/ \E r \in Requests : FileRequest(s, r)
  \/ RefuseDuplicate(s)
  \/ \E r \in Requests, how \in {"approve", "reject", "record"} : BeginDecision(s, r, how)
  \/ Approve(s)
  \/ Reject(s)
  \/ RecordApproval(s)
  \/ \E t \in Tasks : BeginChild(s, t)
  \/ \E t \in Tasks : CommitChild(s, t)

SharedStep ==
  \/ \E t \in Tasks, b \in Starts : EditStart(t, b)
  \/ \E t \in Tasks, d \in AskedDates : Retarget(t, d)
  \/ \E t \in Tasks, d \in AskedDates : Reschedule(t, d)
  \/ \E t \in Tasks : CloseTask(t)

Next == (\E s \in Sessions : SessionStep(s)) \/ SharedStep

Spec == Init /\ [][Next]_vars

-----------------------------------------------------------------------------
(* Properties *)

\* Types of every row, request and session.
TypeOK ==
  /\ task \in [Tasks -> TaskRow]
  /\ request \in [Requests -> RequestRow]
  /\ sess \in [Sessions -> Session]

\* A request that awaits its decision is shown on its task: the marker that
\* guards against a second one is never lost (193, 194, 257).
PendingIsShown ==
  \A t \in Tasks :
    /\ PendingFor(t, "Extension") => task[t].extStatus = "Pending"
    /\ PendingFor(t, "Reduction") => task[t].prioStatus = "Pending"

\* A task never has two requests of one type to decide, however calls
\* interleave: the marker is read too early to see to that, the unique
\* index of 192 does.
OnePendingRequest ==
  \A q, r \in Requests :
    /\ request[q].status = "Pending" /\ request[r].status = "Pending"
    /\ request[q].task = request[r].task
    /\ request[q].type = request[r].type
    => q = r

\* The open children of a task have its priority and its standard date,
\* through every order of creation, priority change, approval and cascade
\* (sp_task_apply_sla, sp_task_child_create).
ChildrenInherit ==
  \A p \in Tasks : \A u \in OpenChildren(p) :
    /\ task[u].priority = task[p].priority
    /\ task[u].std = task[p].std

\* The priority of a task only goes down when a pending reduction, of the task
\* or of its parent, is approved (193: "Nothing on the task changes until
\* approval").
ReductionsAreApproved ==
  [][\A t \in Tasks :
       Exists(t) /\ task'[t].priority < task[t].priority =>
         \E r \in Requests :
           /\ request[r].type = "Reduction"
           /\ request[r].task \in {t, task[t].parent}
           /\ request[r].status = "Pending"
           /\ request'[r].status = "Approved"]_vars

\* The header of sp_task_apply_sla: the due date of a task is its approved
\* extension when that pushes the date out, and its standard date otherwise.
EffectiveDueDate ==
  \A t \in Tasks :
    Root(t) /\ task[t].std /= None =>
      task[t].due = IF task[t].ext > task[t].std THEN task[t].ext ELSE task[t].std
===============================================================================
