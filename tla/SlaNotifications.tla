--------------------------- MODULE SlaNotifications ---------------------------
(***************************************************************************)
(* The SLA notifications: which thresholds of a task have been crossed, who *)
(* is to be told, and the outbox row that records it once.  Several workers *)
(* sweep (sp_task_notification_sweep, migration 202) while users move dates,*)
(* change owners and roles, close tasks and read what they were told.       *)
(*                                                                          *)
(* A sweep takes one snapshot of tasks and crossings, and then works through*)
(* it row by row outside of any transaction: everything else is read late.  *)
(***************************************************************************)
EXTENDS Integers, FiniteSets

CONSTANTS
  Tasks,          \* top-level tasks with an sla_due_at: the sweep leaves others out
  Matched,        \* those with an sla_master_id, hence with notified roles
  Employees,
  Roles,
  Notified,       \* event -> roles of org_sla_config_notify_role
  Workers,        \* processes that run the sweep
  NoOne,          \* a NULL owner, role or recipient
  Starts, Dues,   \* days a start and a due date may fall on
  WarningPct, EscalationPct,   \* org_sla_config
  BatchSize,
  MaxSpan,        \* days whose seconds DATEDIFF can count: 68 years
  MaxClock,       \* bound: the last day
  MaxChanges,     \* bound: changes made by users
  MaxFaults       \* bound: errors and interrupted passes

Events == {"WARNING", "BREACH", "ESCALATION"}

ASSUME ConfigAssumption ==
  /\ IsFiniteSet(Tasks) /\ Matched \subseteq Tasks
  /\ NoOne \notin Employees /\ NoOne \notin Roles
  /\ Notified \in [Events -> SUBSET Roles]
  /\ Starts \subseteq Nat /\ Dues \subseteq Nat

\* The checks of migration 183.
ASSUME PercentAssumption ==
  /\ WarningPct \in 0..100 /\ EscalationPct \in 0..100
  /\ WarningPct <= EscalationPct

ASSUME BoundAssumption ==
  /\ BatchSize \in Nat \ {0} /\ MaxSpan \in Nat
  /\ MaxClock \in Nat /\ MaxChanges \in Nat /\ MaxFaults \in Nat

VARIABLES
  clock,     \* days since the tasks were entered
  task,      \* practice_task: open, start, due, owner
  member,    \* organization_employee.role_id of the active employees
  outbox,    \* task_notification_outbox
  pass,      \* what each worker's sweep has read and has still to do
  changes, faults

vars == <<clock, task, member, outbox, pass, changes, faults>>

-----------------------------------------------------------------------------
(* Rows *)

People == Employees \cup {NoOne}

TaskRow == [open : BOOLEAN, start : Starts, due : Dues, owner : People]

\* (task, event, due date) of a row of @events, with the owner it was read with.
EventRow == [task : Tasks, event : Events, due : Dues, owner : People]

\* reason is "OWNER" or the role a holder is told as.
Reasons == Roles \cup {"OWNER"}

Statuses == {"Pending", "Sent", "Failed", "Suppressed"}

OutboxRow == [task : Tasks, event : Events, due : Dues, to : People,
              reason : Reasons, status : Statuses]

\* Mutant of SameKey: the reason a person is told for is part of the key.
SameKeyAndReason(a, b) ==
  /\ a.task = b.task /\ a.event = b.event /\ a.due = b.due /\ a.to = b.to
  /\ a.reason = b.reason

\* The four columns of ux_pm_task_notification_dedupe.
SameKey(a, b) ==
  a.task = b.task /\ a.event = b.event /\ a.due = b.due /\ a.to = b.to

Recorded(row) == \E old \in outbox : SameKey(old, row)

-----------------------------------------------------------------------------
(* The snapshot *)

\* closed_at IS NULL and no terminal status.
Swept == {t \in Tasks : task[t].open}

\* Elapsed percentage of the window at least pct; a window without length
\* counts as elapsed.
Elapsed(t, pct) ==
  LET window == task[t].due - task[t].start
  IN  IF window > 0 THEN (clock - task[t].start) * 100 >= pct * window ELSE TRUE

Crossed(t, event) ==
  CASE event = "WARNING"    -> Elapsed(t, WarningPct)
    [] event = "ESCALATION" -> Elapsed(t, EscalationPct)
    [] event = "BREACH"     -> clock > task[t].due

\* The SELECT counts the window, and what has elapsed of it, in seconds: past
\* MaxSpan, forwards or backwards, the count overflows, and the statement fails
\* for the whole batch.
Countable(t) ==
  LET window == task[t].due - task[t].start
      span == -MaxSpan..MaxSpan
  IN  window \in span /\ (window > 0 => clock - task[t].start \in span)

\* Mutant of IsBatch: the order of the SELECT is lost.
IsBatchUnordered(B) ==
  /\ B \subseteq Swept
  /\ Cardinality(B) <= BatchSize
  /\ B = Swept \/ Cardinality(B) = BatchSize

\* A TOP (@batch_size) ... ORDER BY sla_due_at, ties in any order.
IsBatch(B) ==
  /\ B \subseteq Swept
  /\ Cardinality(B) <= BatchSize
  /\ B = Swept \/ Cardinality(B) = BatchSize
  /\ \A t \in B, u \in Swept \ B : task[t].due <= task[u].due

\* The rows of @events for a batch.
EventsOf(B) ==
  {ev \in EventRow :
      /\ ev.task \in B /\ ev.due = task[ev.task].due /\ ev.owner = task[ev.task].owner
      /\ Crossed(ev.task, ev.event)}

-----------------------------------------------------------------------------
(* A pass *)

NoEvent == [task |-> NoOne]

Idle == [pc |-> "idle", work |-> {}, cur |-> NoEvent, roles |-> {}, reason |-> "OWNER",
         todo |-> {}, to |-> NoOne, broken |-> FALSE]

PassRow ==
  [pc : {"idle", "next", "each", "insert"}, work : SUBSET EventRow,
   cur : EventRow \cup {NoEvent}, roles : SUBSET Roles, reason : Reasons,
   todo : SUBSET People, to : People, broken : BOOLEAN]

\* After the last recipient of the last role: the next event, or the end.
Settle(x) ==
  IF x.pc = "each" /\ x.todo = {} /\ x.roles = {}
  THEN IF x.work = {} THEN Idle
       ELSE [Idle EXCEPT !.pc = "next", !.work = x.work, !.broken = x.broken]
  ELSE x

Holders(r) == {e \in Employees : member[e] = r}

Step(w, x) == pass' = [pass EXCEPT ![w] = Settle(x)]

\* The one SELECT over the tasks; without crossings the pass is over.
BeginSweep(w) ==
  /\ pass[w].pc = "idle"
  /\ \E B \in SUBSET Swept :
       /\ IsBatch(B)
       /\ \A t \in B : Countable(t)
       /\ EventsOf(B) # {}
       /\ Step(w, [Idle EXCEPT !.pc = "next", !.work = EventsOf(B)])
  /\ UNCHANGED <<clock, task, member, outbox, changes, faults>>

\* FETCH ev_cur.  After an error inside the role cursor that cursor is still
\* open: to DECLARE it again fails, and only owners are told from then on.
Fetch(w) ==
  /\ pass[w].pc = "next"
  /\ \E ev \in pass[w].work :
       Step(w, [Idle EXCEPT
                  !.pc = "each", !.work = pass[w].work \ {ev}, !.cur = ev,
                  !.broken = pass[w].broken,
                  !.todo = {ev.owner} \ {NoOne},
                  !.roles = IF ev.task \in Matched /\ ~pass[w].broken
                            THEN Notified[ev.event] ELSE {}])
  /\ UNCHANGED <<clock, task, member, outbox, changes, faults>>

\* The row sp_task_notification_enqueue records for a recipient, keyed by the due
\* date of the snapshot.
RowFor(x, e) ==
  [task |-> x.cur.task, event |-> x.cur.event, due |-> x.cur.due, to |-> e,
   reason |-> x.reason, status |-> "Pending"]

\* Its lookup.
LookUp(w) ==
  /\ pass[w].pc = "each"
  /\ \E e \in pass[w].todo :
       Step(w, IF Recorded(RowFor(pass[w], e))
               THEN [pass[w] EXCEPT !.todo = @ \ {e}]
               ELSE [pass[w] EXCEPT !.todo = @ \ {e}, !.pc = "insert", !.to = e])
  /\ UNCHANGED <<clock, task, member, outbox, changes, faults>>

\* Mutant of Insert: the due date is read again, and may be an extended one.
InsertCurrentDue(w) ==
  LET row == [RowFor(pass[w], pass[w].to) EXCEPT !.due = task[pass[w].cur.task].due]
  IN  /\ pass[w].pc = "insert"
      /\ outbox' = IF Recorded(row) THEN outbox ELSE outbox \cup {row}
      /\ Step(w, [pass[w] EXCEPT !.pc = "each", !.to = NoOne])
      /\ UNCHANGED <<clock, task, member, changes, faults>>

\* Its INSERT; the error of the unique index is swallowed.
Insert(w) ==
  LET row == RowFor(pass[w], pass[w].to)
  IN  /\ pass[w].pc = "insert"
      /\ outbox' = IF Recorded(row) THEN outbox ELSE outbox \cup {row}
      /\ Step(w, [pass[w] EXCEPT !.pc = "each", !.to = NoOne])
      /\ UNCHANGED <<clock, task, member, changes, faults>>

\* Whom a role stands for: its holders but the owner, or nobody, which is told.
Audience(r, owner) == IF Holders(r) = {} THEN {NoOne} ELSE Holders(r) \ {owner}

\* FETCH role_cur and sp_org_role_holders_list.
NextRole(w) ==
  /\ pass[w].pc = "each" /\ pass[w].todo = {}
  /\ \E r \in pass[w].roles :
       Step(w, [pass[w] EXCEPT !.roles = @ \ {r}, !.reason = r,
                               !.todo = Audience(r, pass[w].cur.owner)])
  /\ UNCHANGED <<clock, task, member, outbox, changes, faults>>

\* The owner has been told, or there is none.
InRoles(x) == \/ x.reason # "OWNER"
              \/ x.pc = "each" /\ x.todo = {}

\* An error in a statement of the TRY: the CATCH goes on with the next event.
Fail(w) ==
  /\ faults < MaxFaults
  /\ pass[w].pc \in {"each", "insert"}
  /\ Step(w, [pass[w] EXCEPT !.pc = "each", !.todo = {}, !.roles = {}, !.to = NoOne,
                             !.broken = @ \/ InRoles(pass[w])])
  /\ faults' = faults + 1
  /\ UNCHANGED <<clock, task, member, outbox, changes>>

\* A timeout of the command, a stop of the process: what is recorded stays.
Interrupt(w) ==
  /\ faults < MaxFaults
  /\ pass[w].pc # "idle"
  /\ pass' = [pass EXCEPT ![w] = Idle]
  /\ faults' = faults + 1
  /\ UNCHANGED <<clock, task, member, outbox, changes>>

-----------------------------------------------------------------------------
(* The others *)

Change == changes < MaxChanges /\ changes' = changes + 1

\* Closed, cancelled, or back from a terminal status without closed_at.
CloseOrReopen(t) ==
  /\ Change
  /\ task' = [task EXCEPT ![t].open = ~@]
  /\ UNCHANGED <<clock, member, outbox, pass, faults>>

\* A decision on an extension, a priority, a start or a target date.
Reschedule(t, start, due) ==
  /\ Change
  /\ <<start, due>> # <<task[t].start, task[t].due>>
  /\ task' = [task EXCEPT ![t].start = start, ![t].due = due]
  /\ UNCHANGED <<clock, member, outbox, pass, faults>>

Assign(t, owner) ==
  /\ Change
  /\ owner # task[t].owner
  /\ task' = [task EXCEPT ![t].owner = owner]
  /\ UNCHANGED <<clock, member, outbox, pass, faults>>

\* An employee gets another role, or leaves.
ChangeRole(e, r) ==
  /\ Change
  /\ r # member[e]
  /\ member' = [member EXCEPT ![e] = r]
  /\ UNCHANGED <<clock, task, outbox, pass, faults>>

\* What waits for a recipient, of some events.
Waiting(e, scope) ==
  {row \in outbox : row.to = e /\ row.event \in scope /\ row.status = "Pending"}

\* The rows of S get another status.
SetStatus(S, status) ==
  outbox' = {IF row \in S THEN [row EXCEPT !.status = status] ELSE row : row \in outbox}

\* Mutant of MarkAll: a status the CHECK constraint does not know.
MarkAllRead(e, scope) ==
  /\ Change
  /\ Waiting(e, scope) # {}
  /\ SetStatus(Waiting(e, scope), "Read")
  /\ UNCHANGED <<clock, task, member, pass, faults>>

\* sp_task_notification_mark_all, for one event or for all: the rows of the
\* recipient that are Pending by now, listed on the screen or not.
MarkAll(e, scope) ==
  /\ Change
  /\ Waiting(e, scope) # {}
  /\ SetStatus(Waiting(e, scope), "Sent")
  /\ UNCHANGED <<clock, task, member, pass, faults>>

\* sp_task_notification_mark: the outcome of one row, whatever it was before.
Mark(old, status) ==
  /\ Change
  /\ old.status # status
  /\ SetStatus({old}, status)
  /\ UNCHANGED <<clock, task, member, pass, faults>>

Tick ==
  /\ clock < MaxClock
  /\ clock' = clock + 1
  /\ UNCHANGED <<task, member, outbox, pass, changes, faults>>

-----------------------------------------------------------------------------
Init ==
  /\ clock = 0
  /\ task \in [Tasks -> {row \in TaskRow : row.open}]
  /\ member \in [Employees -> Roles \cup {NoOne}]
  /\ outbox = {}
  /\ pass = [w \in Workers |-> Idle]
  /\ changes = 0 /\ faults = 0

\* The steps of the sweep itself.
Sweep(w) == BeginSweep(w) \/ Fetch(w) \/ LookUp(w) \/ Insert(w) \/ NextRole(w)

Next ==
  \/ Tick
  \/ \E w \in Workers : Sweep(w) \/ Fail(w) \/ Interrupt(w)
  \/ \E t \in Tasks : CloseOrReopen(t)
  \/ \E t \in Tasks, start \in Starts, due \in Dues : Reschedule(t, start, due)
  \/ \E t \in Tasks, owner \in Employees : Assign(t, owner)
  \/ \E e \in Employees, r \in Roles \cup {NoOne} : ChangeRole(e, r)
  \/ \E e \in Employees, scope \in {Events} \cup {{ev} : ev \in Events} : MarkAll(e, scope)
  \/ \E row \in outbox, status \in Statuses : Mark(row, status)

Spec == Init /\ [][Next]_vars

\* TaskNotificationWorker starts a pass on every interval and survives its
\* failures; a statement that has been sent is carried out.
FairSpec == Spec /\ \A w \in Workers : WF_vars(Sweep(w))

-----------------------------------------------------------------------------
(* Properties *)

\* Every row, pass and outbox entry has its type; a pass at work has an event.
TypeOK ==
  /\ clock \in 0..MaxClock
  /\ task \in [Tasks -> TaskRow]
  /\ member \in [Employees -> Roles \cup {NoOne}]
  /\ outbox \subseteq OutboxRow
  /\ pass \in [Workers -> PassRow]
  /\ \A w \in Workers : pass[w].pc \in {"each", "insert"} => pass[w].cur \in EventRow
  /\ changes \in 0..MaxChanges
  /\ faults \in 0..MaxFaults

\* "The one index that makes a timer-driven sweeper safe" (201): nobody is told
\* twice of one threshold of one commitment, neither as owner and as holder, nor
\* by two sweeps, nor after having read it.
ToldOnce ==
  \A a, b \in outbox :
    a.task = b.task /\ a.event = b.event /\ a.due = b.due /\ a.to = b.to => a = b

\* A breach is recorded against the date that was missed, never against one that
\* an extension has granted since the sweep took its snapshot.
BreachIsPast == \A row \in outbox : row.event = "BREACH" => row.due < clock

\* The recipients the sweep owes a row: the owner and the audience of each
\* notified role of an open task whose threshold is crossed.
OwedTo(t, event) ==
  ({task[t].owner} \cap Employees)
    \cup (IF t \in Matched
          THEN UNION {Audience(r, task[t].owner) : r \in Notified[event]} ELSE {})

\* Tasks in the TOP (@batch_size) whatever the order of ties.
InBatch(t) ==
  Cardinality({u \in Swept \ {t} : task[u].due <= task[t].due}) < BatchSize

\* Those of them it has no row for yet.
Untold(t, event) ==
  IF t \in Swept /\ InBatch(t) /\ Crossed(t, event)
  THEN {e \in OwedTo(t, event) :
          ~\E row \in outbox : /\ row.task = t /\ row.event = event
                               /\ row.due = task[t].due /\ row.to = e}
  ELSE {}

\* "Silence would be the worst possible failure mode for an SLA monitor" (202): a
\* crossed threshold of a task in the batch is recorded for everybody it is owed
\* to, unless the task, its date or the audience changes first; errors and
\* interrupted passes cost a retry.
ThresholdIsTold ==
  \A t \in Tasks, event \in Events : Untold(t, event) # {} ~> Untold(t, event) = {}
=============================================================================
