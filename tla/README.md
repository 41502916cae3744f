# GRAC practice management: TLA+ verification project

This directory models the core of GRAC (governance, risk and compliance): the
**task engine**, to which every other part of the product hands its work, what
governs a task (priority, due dates, requests), how tasks come about (candidates,
scheduled obligations), and the timers around it (automatic onboarding, report
delivery, SLA notifications). The program is an ASP.NET Core API and web front end
over SQL Server. The API is a thin layer (one stored procedure per request) whose
only processes of their own are background workers; the logic is in the stored
procedures of `database/NNN_*.sql`. A procedure is often redefined by a later
migration, and the **last** definition is the one modelled. Paths below are relative to the repository's `database/` directory
unless they start with `src/` or `docs/`.

## 1. Inventory

### Components

| Component | State | Operations | Interacts with |
|---|---|---|---|
| State-machine framework (`035*`, rules as of `350`) | `entity_status_master`, `entity_state_transition_rule` (constant data), `entity_state_transition_log` (append only) | `fn_is_transition_allowed`, `sp_pm_state_transition` | called by every status change |
| Task engine (`037*`, `194`, `196`, `200`, `269`) | `practice_task`, `task_source_action_state` | open, assign, transition, close, complete, child create, update, overdue sweep, source sync | framework, Exception Centre, all sources |
| Task governance (`193`, `194`, `257`) | priority and SLA columns of `practice_task`, `exception_request` of the two task types | priority change, extension request, approve, reject, apply SLA and its cascade to children | task engine (sweep, update), Exception Centre |
| Task candidates (`197`-`199`) | `task_candidate`, `practice_task.task_candidate_id` | create by key, validate, approve, discard, derive the SLA proposal | task engine (`sp_task_open`, source sync), risk and assurance centres |
| SLA notifications (`201`-`203`, `117`, `TaskNotificationWorker.cs`) | `task_notification_outbox` | sweep, enqueue, mark, mark all | reads `practice_task`, roles and the SLA configuration |
| Scheduled obligation tasks (`449`, `338`, `377`, `PracticeRepositoryService.cs`, `practice-calendar.js`) | schedule rules, their overrides, the ledger `schedule_occurrence_task` | rule sync, move of an occurrence, generate (worker or by hand) | calendar, `sp_task_open` |
| Automatic events (`131`, `335`, `EventAutoRaiseWorker.cs`) | `event_autoraise_queue`, event instances | triggers on employees, drain, raise, mark | Organisation employees, event checklists |
| Asset report delivery (`453`, `AssetConfigService.cs`) | schedules, deliveries with their recipients | housekeeping, start, store, finish, save schedule | asset reports, notifications |
| Implementation gates (`043*`, `045`, `346`) | status of a practice instance | status change, opening of Implementation tasks | `sp_task_open` |
| Gap Centre (`157`-`388`) | `custom_gap`, `practice_gap` | lifecycle, analysis decisions, reopening | tasks, exceptions, risks |
| Exception Centre (`162`, `166`, `257`, `327`) | `exception_request` | analyse, submit, approve, reject | gaps, risks, tasks |
| Risk Centre (`169`-`418`) | candidates, register, assessments, acceptance | register, assess, treat, accept, review | tasks, exceptions |
| Repository copy and changes (`391`-`395`) | copies of published items, pending changes | detect, apply, reject | hourly worker |
| Subscription requests (`406`), event profiles (`329`-`334`), documents (`146`-`154`), organisation assurance (`069`-`108`), workflow checklists (`066`), assets and contracts (`419`-`452`) | own tables each | see `PROJECT.json` | tasks, at most |
| Permissions and view scope, read side, web UI, master data | - | queries, rendering, seed rows | - |

### What is hard

* **Concurrency.** Each procedure reads its task with a plain `SELECT`, usually
  before `BEGIN TRAN`, under READ COMMITTED. `sp_pm_state_transition` then
  validates and logs a pair `(from, to)` that may no longer be true, and the
  following `UPDATE` has no `WHERE current_status_id = @from`. Two requests, or
  a request and the sweep, can interleave at each of these points.
* **Two notions of "closed".** `current_status_id = Closed` and
  `closed_at IS NOT NULL` are written by different procedures: most guards look at
  the second, people at the first.
* **Parents and children.** Completion of a parent depends on rows that other
  calls are changing, and the dates of a child are copies of its parent's.
* **Work after the commit.** The upstream report (`sp_task_source_sync`) runs
  after the transaction, may fail, and two of them may overtake each other.
* **Timers in every process.** Each API process has its own workers, so a pass
  overlaps with the pass of another process, with a run by hand and with itself after
  a timeout. Only the scheduled tasks take an application lock; the others rely on unique
  indexes, or on nothing.
* **Loops without a transaction.** A pass claims, opens, links, produces and stores in
  commits of their own: a crash, a command timeout or a deadlock can fall between any
  two, and what a pass has read is old by the time it writes.
* **Doomed transactions.** The procedures run under XACT_ABORT: after an error inside a
  transaction a CATCH can write nothing (error 3930) before it rolls back.
* **Batches.** Sweeps work on a snapshot of `TOP n` rows.

The hazards, each at its line, are listed in `PROJECT.json`.

### What makes each part correct

* Framework: a status only changes along a rule; the log is the history.
* Engine: an Implementation task is closed only after a gate; one open
  Implementation task per subject; a parent is completed only when its mandatory
  children are closed; what a source shows is never ahead of the work.
* Governance: nothing governed changes without an approval; an approval takes
  effect once; children carry the dates of their parent.
* Candidates: one open candidate per source and key; what became a task stays so, once.
* Scheduled tasks: an occurrence the calendar shows is claimed on its day, once, and
  gets its task unless that day ends first.
* Notifications: each threshold is told to each recipient once, and told in the end.
* Automatic events: an entry is raised or parked, and Done means onboarded.
* Report delivery: one scheduled delivery a day; each recipient gets a result, which only a
  store overtaken by the housekeeping may overwrite (see the known divergences).
* Gap, exception and risk centres: a decision is taken once, and a rejected
  exception leaves a risk behind.

## 2. Plan

1. *(done)* `TaskRules`, `TaskLifecycle`, `TaskEngine`, `TaskEngineProofs`: the rule
   table, the abstract lifecycle, the procedures with their interleavings,
   and the invariants that hold for any number of tasks and connections.
2. *(done)* `TaskGovernance`, `TaskGovernanceProofs`: priority, standard and extended
   due dates, the requests and their decisions, the cascade to children; the types
   and the one pending request proved for any number of connections.
3. *(done)* `ScheduledTasks`, `ScheduledTasksProofs`: claim, application lock, crash between
   `sp_task_open` and the update of the claim, several API processes, generator
   against calendar.
4. *(done)* `EventAutoRaise`, `ReportDelivery`, `SlaNotifications` and their proofs: the
   workers, with faults and the fairness of their timers.
5. *(done)* `TaskCandidates`, `TaskCandidatesProofs`.
6. Composition of `TaskCandidates` with the source sync of `TaskEngine`, so that
   `CandidateSources` becomes a variable and an approval can fall between the two counts
   of a sync.
7. *(done)* `TaskEngineHistoryProofs` and the second part of `TaskGovernanceProofs`: for calls
   that keep off each other's tasks, the inductive invariant behind `LogIsHistory`,
   `CompletionGate` and the refinement of `TaskLifecycle`, and the one behind
   `PendingIsShown`, `ChildrenInherit` and `ReductionsAreApproved`.
8. Starvation behind a full batch (037:446, 202:247), which needs an instance with more
   open tasks than the batch and users who leave them open.
9. Gap Centre analysis decisions and the Exception Centre.

Runs stay small, one for each question: every race found so far needs two actors and
two rows. The runs and modules share no variables: what connects the parts is
`sp_task_open`, a single transaction in each of them.

## 3. The modules

### TaskRules

The ten task statuses, the transition rules as migrations 035, 268, 349 and 350
leave them, `fn_is_transition_allowed` (`TransitionAllowed`) and the verdict of
`sp_pm_state_transition` (`TransitionAccepted`, which adds the mandatory
reason). No procedure writes the rule table, so it is constant. Of the roles
only Admin matters: it owns the single rule `Closed -> Open`.

### TaskLifecycle

The abstract specification: a task is created Open or Assigned, then follows the
rules. One compound step (Open through Assigned to a third status) stands for an
edit that names an owner and a status in one transaction.

### TaskEngine

| Variable | Code |
|---|---|
| `task` | the row of `practice_task`: `status` is `current_status_id`, `closed`, `completed`, `escalated` say whether `closed_at`, `completed_dt`, `escalated_at` are set; `subject` is both the dedup subject (`subject_entity_*`) and the source record (`source_*`), which are the same record for the tasks the property is about |
| `log` | `entity_state_transition_log`, per task |
| `late` | tasks whose `sla_due_at` has passed |
| `actionState` | `task_source_action_state.action_status_code` per source |
| `sess` | what each database connection is in the middle of: procedure, program counter, the values it has read |

| Action | Code |
|---|---|
| `OpenTask` | `sp_task_open` (196), lookup and insert under `UPDLOCK, HOLDLOCK` as one step |
| `BeginAssign`, `LogTransition`, `CommitTransition` | `sp_task_assign` (037:187) |
| `BeginTransition`, `LogTransition`, `CommitTransition` | `sp_task_transition` (037:275) |
| `BeginClose`, `LogTransition`, `CommitClose` | `sp_task_close` (037:346) |
| `BeginComplete`, `CloseRead`, `LogTransition`, `CommitComplete`, then `SyncRead`, `SyncWrite` or `SyncLost` | `sp_task_complete` and `sp_task_source_sync` (200) |
| `BeginChild`, `CommitChild` | `sp_task_child_create` (194) |
| `BeginEdit`, then `ApplyEdit` or `RollBackEdit` | `sp_task_update` (269) |
| `BeginSweep`, `SweepFetch`, `LogTransition`, `CommitSweep` | `sp_task_overdue_sweep` (037:433) |
| `FallDue` | the clock |

**Atomicity.** A step ends where another connection can see or change what the
procedure works with: after its reads, after the insert of the log row, after the
commit. An `UPDATE` and the `COMMIT` behind it are one step, since the row is
locked in between. The log row is visible one step before the status: a reader
under READ COMMITTED would wait for it, but no modelled procedure reads the log.
The transaction of an edit is a single step (its inner reads and writes hold the
row lock from its first write on; an edit of the status alone has the race of
`sp_task_transition`, which is modelled there). Refused calls change nothing and
are not steps. Dates are only compared with the present, so a task is late or not.

**Left out.** Titles, the activity feed, owners (an owner is named or not),
audit rows, organisations. Priorities and due dates are `TaskGovernance`'s: neither
procedure set reads what the other writes, except `closed_at`.

**Fairness.** None is assumed: all the properties so far are safety properties, so a
call may stop at any point, which is also what a lost connection does to a call
between its commits.

### TaskGovernance

What a task promises (priority, standard date, approved extension, date in force) and
the requests that change it. A root task has its own dates; a child copies those of
its parent, and `sp_task_apply_sla` cascades the parent's to its open children.

| Variable | Code |
|---|---|
| `task` | `practice_task`: `priority` (ranked as by `fn_task_priority_rank`), `std`, `ext`, `due` for `standard_due_at`, `approved_extended_due_at`, `sla_due_at`, `start` for `COALESCE(start_date, entered_dt)`, `extStatus`, `prioStatus` for the two markers of the task, `closed` for `closed_at` |
| `request` | `exception_request` rows of the types for an SLA extension and a priority reduction |
| `sess` | program counter, task, request, argument and the task row each connection has read |

| Action | Code |
|---|---|
| `OpenTask`, then `ReadSla`, `StoreSla`, or `StampTarget`, or `LoseSla` | `sp_task_open` (196): dates are derived by statements of their own, after its COMMIT, in a TRY whose CATCH is silent |
| `BeginPriority`, then `CommitRaise`, `FileRequest` or `RefuseDuplicate` | `sp_task_priority_change` (193) |
| `BeginExtension`, then `FileRequest` or `RefuseDuplicate` | `sp_task_sla_extension_request_create` (194) and the unique indexes of 192 |
| `BeginDecision`, then `Approve` | `sp_task_sla_extension_approve` (194), `sp_task_priority_reduction_approve` (193) |
| `BeginDecision`, then `Reject` | `sp_exception_request_reject` (257) |
| `BeginDecision`, then `RecordApproval` | `sp_exception_request_approve` (260) on a request of a task: it does not touch the task |
| `BeginChild`, `CommitChild` | `sp_task_child_create` (194) |
| `EditStart` | `sp_task_update` (269) with a start date |
| `Retarget` | `sp_practice_instance_open_implementation_task` (043) on a task that is already open |
| `Reschedule` | `sp_asset_activity_disposition_apply` (439) |
| `CloseTask` | the engine |
| `WithSla` | `sp_task_apply_sla` (193), inside the actions that call it |

**Atomicity.** Reads and guards in front of `BEGIN TRAN` are one step, the transaction is
another. `sp_task_apply_sla` is called inside a transaction that has updated, and so
locked, the row it reads; only `sp_task_open` calls it bare, and there its read and its
write are two steps (its two updates, of the task and of its children, are one: a
task that is just being opened has no children unless a second connection is
quick). A priority or extension that `sp_task_update` forwards to these procedures is the
same sequence of steps.

**Abstractions.** Dates are days of a small calendar. The policy (or type default) that
`sp_task_apply_sla` looks up is the constant `SlaDays`: a policy edited between two
derivations is not modelled. A child's own start date and `child_target_date`
have no part in the columns of the model. An approval also clears `escalated_at`,
which only matters to the sweep. `Roots` only saves symmetric states: it says which
identities `sp_task_open` uses. The repository has no procedure that withdraws a request.

### TaskCandidates

| Variable | Code |
|---|---|
| `candidate` | `task_candidate`: `status`, `source` for the source record, `keyed` for a dedupe key, `owned` for a proposed owner, `priority`, `sla` for the priority that `proposed_sla_days` was derived from, `task` for `approved_task_id` |
| `origin` | `practice_task.task_candidate_id` |
| `sess` | the procedure each connection is in, with what it has read |
| `disturbed` | history: candidates on which a call was overtaken or cut short |

| Action | Code |
|---|---|
| `BeginCreate`, `CommitCreate` | `sp_task_candidate_create` (198): look-up of the key and owner ladder, then the INSERT, which the unique index may refuse |
| `BeginValidate`, `CommitValidate` | `sp_task_candidate_validate_save` |
| `BeginApprove`, `CommitApprove` | `sp_task_candidate_approve`, one transaction around `sp_task_open` |
| `BeginDiscard`, `CommitDiscard` | `sp_task_candidate_discard` |
| `ReadProposal`, `StoreProposal` | `sp_task_candidate_apply_sla`, behind the commit of a creation or of a changed priority |
| `Refused`, `Abandon` | a constraint refuses the UPDATE; the call fails or its client is gone |

Left out: which owner the ladder finds and which days a priority gives (any outcome), the
columns only shown, the centres' procedures that create candidates (199), and tasks of
type Implementation, which no source proposes and for which `sp_task_open` might return
an existing task.

### ScheduledTasks

Two computations of the same occurrences over the same rules and overrides: the
calendar's (`Shown`, from the C# of `QueryCalendarEventsAsync`) and the generator's
(`Eligible`, `Removed`, `Added`, one SQL statement each, summed up in `DueOn`).

| Variable | Code |
|---|---|
| `rule`, `overrides` | `assurance_schedule_rule` with the state of its instance and obligation, `assurance_schedule_override` |
| `ledger` | `schedule_occurrence_task`: linked, error, and the tasks raised for the row |
| `lock` | the application lock of the generator |
| `pass` | what each run has computed and the row it has in hand |
| `today`, `edits`, `faults`, `lost` | the date, the bounds, and as history the tasks whose id never reached the ledger |

| Action | Code |
|---|---|
| `StartPass`, `RunByHand` | the worker's pass and a call with a run date: `sp_getapplock`, rules (449) |
| `RemoveOverridden`, `AddOverridden`, `Claim` | the statements that compute the day and claim it |
| `OpenTask`, `Link`, `OpenRefused`, `LinkFails` | one row: `sp_task_open`, the UPDATE, the CATCH |
| `Release`, `PassFails`, `Interrupt`, `SessionEnds` | the end of a run, an error outside of the loop, a timeout or crash (the lock stays with the session), `sp_reset_connection` |
| `SyncRule`, `ToggleInForce`, `MoveOccurrence` | 338, the status of instance and obligation, the edit dialog of the calendar (377) |

Dates are days, a rule repeats every `Period` days; the drift of months and years, which
both sides step in the same way, is not modelled. The calendar's range is the horizon.

### EventAutoRaise

| Variable | Code |
|---|---|
| `employee`, `instance` | the employee row (status, role, `onboarded_dt`) and the onboarding instance |
| `queue` | `event_autoraise_queue` |
| `active` | the status of the event definition |
| `pc`, `work`, `row` | the drain of each worker: its cursor and the row fetched |

| Action | Code |
|---|---|
| `CreateEmployee`, `AssignRole` | the triggers of 131 |
| `StartPass`, `Fetch`, `RaiseCommits`, `RaiseBreaks`, `MarkDone`, `MarkFailed`, `FinishPass` | `sp_event_autoraise_drain` (131) around `sp_event_raise_people_lifecycle` (335) |
| `Interrupt` | crash, timeout or deadlock of a pass |
| `ManualRaise`, `Offboard` | users and administrators |
| `CompleteInstance` | `sp_event_instance_complete` (132); a Failed instance still counts as open to a raise |
| `ToggleDefinition` | the status written by `sp_event_definition_save` (067) |

One organisation and one event. Which profiles match is configuration, so a raise opens an
instance or finds nothing to open. A raise makes an employee Active again who was
offboarded while the entry waited (335:311), although 131:224 leaves rehiring to a human: the
model shows it, no property denies it. An employee in `Poison` breaks the raise inside
its transaction, which dooms it: the CATCH's own UPDATE is then refused.

### ReportDelivery

| Variable | Code |
|---|---|
| `schedule` | the schedule row: frequency, active, `next_run_date` |
| `deliveries` | deliveries with a result for each recipient (status, file, time) |
| `pass` | what each worker or user is doing |
| `orphans` | history: deliveries swept by a pass that did not get to finish them |

| Action | Code |
|---|---|
| `SweepPending`, `FinishSwept` | housekeeping of `sp_asset_report_delivery_start` (453) |
| `PurgeAndSelect`, `StartDelivery` | retention, the due schedule, its transaction |
| `Produce`, `StoreResult`, `StoreLost`, `EndPass` | `DeliverReportsAsync`, `sp_asset_report_delivery_store` and `_finish` |
| `SaveSchedule`, `Interrupt`, `Tick` | an edit, a crash, the clock |

One schedule, since schedules share only the pass. A tick is longer than the six hours
after which a pending recipient counts as interrupted. `SaveSchedule` is one step,
although the procedure reads `next_run_date` before its transaction (453:391): that
lost update is not in the model.

### SlaNotifications

| Variable | Code |
|---|---|
| `task` | open, start, due date and owner of a task the sweep considers |
| `member` | the role of each active employee |
| `outbox` | `task_notification_outbox` |
| `pass` | the snapshot, the event and the role cursor of each sweep |

| Action | Code |
|---|---|
| `BeginSweep` | the SELECT of `sp_task_notification_sweep` (202): the batch and its crossings |
| `Fetch`, `LookUp`, `Insert`, `NextRole` | the loops over events, owner and roles, and `sp_task_notification_enqueue` |
| `Fail`, `Interrupt` | an error in an event (its CATCH goes on) or in the role loop, which leaves the LOCAL cursor open; a crash or timeout |
| `MarkAll`, `Mark` | `sp_task_notification_mark_all`, `_mark` |
| `CloseOrReopen`, `Reschedule`, `Assign`, `ChangeRole`, `Tick` | what users and time do to the columns read |

The SLA configuration (percentages, notified roles, which tasks match one) is constant.
Children have no part: the sweep leaves them out. `MaxSpan` stands for the 68 years whose
seconds DATEDIFF can count, forwards or backwards. Organisations and the list a user reads are left out.

## 4. Properties and runs

### Engine

Properties of any interleaving:

* `TypeOK`;
* `StatusIsLogged`: no task shows a status its log does not hold;
* `TwoGateClosure`: `closed_at` on an Implementation task implies that the task has
  once been in OperationalGatePassed or PendingReview;
* `OneOpenImplementation`: at most one Implementation task per subject with a NULL
  `closed_at`;
* `ReportedProgressIsReal`: a reported InProgress or Completed rests on a closed
  top-level task of that source.

Properties of calls that run one after the other (two connections on one task break each
of them, through the reads before `BEGIN TRAN`; section 5 proves them for any number of
connections on different tasks):

* `LogIsHistory`: the log rows form a chain that ends in the status shown;
* `CompletionGate`: at the commit of a completion every mandatory child is closed;
* `FollowsLifecycle`: the engine implements `TaskLifecycle`.

| Run | Instance | Shows |
|---|---|---|
| `engine_serial` | 1 connection, 2 tasks, all procedures, 5 log rows a task | `TypeOK`, `LogIsHistory`, `ReportedProgressIsReal`, `CompletionGate`, `FollowsLifecycle` |
| `engine_races` | 2 connections, 2 tasks, transition and complete through work, review and reopening, 6 log rows | `StatusIsLogged`, `TwoGateClosure`, `OneOpenImplementation` |

`ReportedProgressIsReal` is checked serially and proved for any number of connections.

### Governance

Property of any interleaving: `OnePendingRequest`, a task has at most one pending request
of each type. The marker on the task is read too early to see to that; the unique
index does.

Properties of calls that run one after the other, or on different tasks (section 5):

* `PendingIsShown`: a pending request has its marker on the task, so that no decision,
  cascade or other request releases it;
* `ChildrenInherit`: open children have the priority and the standard date of their
  parent. The date in force is left out: 043 and 439 write the parent's without a cascade;
* `ReductionsAreApproved`: a priority only drops in the step that approves a pending
  reduction of the task or of its parent.

| Run | Instance | Shows |
|---|---|---|
| `governance_serial` | 1 connection, a root and a child, 2 requests, all procedures, 2 priorities, start days 0 and 1, a calendar of 4 days | `TypeOK`, `PendingIsShown`, `ChildrenInherit`, `ReductionsAreApproved` |
| `governance_pending` | 2 connections, 1 task, 3 requests, all request procedures | `OnePendingRequest` |
| `governance_extension` | violation | a second extension request makes the next derivation drop the approved extension; `docs/task-centre-v2.md` calls the lost relation "the invariant that matters" |

### Candidates and workers

| Run | Instance | Shows |
|---|---|---|
| `candidates` | 2 connections, 2 candidates of a source, 2 tasks, 2 priorities | `TypeOK`; `OneOpenPerKey`; `ApprovedOnce`: a candidate that became a task stays Approved and, unless two approvals overlapped, has that task only; `SlaFollowsPriority`: the SLA proposal is that of the priority, unless a call was overtaken or cut short |
| `schedule` | a worker and a run by hand, 2 rules, one always refused, legacy overrides, 2 days, 1 edit, 1 fault | `TypeOK`; `RaisedOnce`: as many tasks as were lost in the gap between `sp_task_open` and the UPDATE, and one; `MatchesCalendar`: with overrides of dates the rule has, the generator's day is the calendar's; `LedgerIsFinal`; `DueIsClaimed` and `RowSettles`: while its day lasts an occurrence is claimed and gets its task |
| `autoraise_drain` | 2 workers, 2 employees, 2 entries, 3 attempts, 1 crash, 1 change of the definition | `TypeOK`; `ParkedAfterAttempts`; `DoneIsOnboarded`; `OnePendingEntry`; `EntriesSettle` |
| `autoraise_poison` | violation: 1 worker, an employee whose raise breaks | `EntriesSettle`: `EventAutoRaiseWorker.cs` says "a bad row cannot spin forever" |
| `reports_passes` | 2 workers, 2 recipients, 1 edit, 1 crash, 2 ticks | `TypeOK`; `OneScheduledPerDay`; `StatusIsReal`; `RunningIsPending`; `ResultIsFinal`: a result loses at most its file, and the one overwrite is that of a sweep's failure by a store that is at least six hours late |
| `reports_progress` | a worker and a user, 1 recipient, 1 edit, 1 crash | `PendingSettles`: every recipient gets a result; `DueIsServed`; `RetentionRemoves` |
| `notify_sweep` | 1 worker, 2 tasks with a batch of one, an employee and a role, 1 change, 1 fault | `TypeOK`; `ToldOnce`; `BreachIsPast`: no breach is recorded against a date an extension has granted meanwhile; `ThresholdIsTold` |

### Known divergences

The two violation runs are findings. The following disagreements with a doc or a comment
were met while modelling; each is a behaviour of the models, which a property that
claimed the opposite would show with TLC in a few steps:

* an Implementation task goes from Open to Closed with `sp_task_transition`, although 268 says
  the guard still refuses it;
* `sp_task_close` closes a parent with an open mandatory child, although 269 says that Close
  carries that gate;
* a reopened task keeps `closed_at` and so cannot be edited, although 269 names reopening as
  the way to edit it;
* two connections take a task along an arrow that is not in the table
  (`docs/task-engine.md`: every arrow is);
* of two concurrent increases the smaller may commit last and lower the priority, although
  193 says that nothing changes until approval;
* approving an extension derives the standard date again and loses a target date
  (`docs/task-centre-v2.md` asks for an identical one);
* two overlapping approvals open two tasks of one candidate, although 197:210 calls "one
  candidate, one task" provable; a late validation reopens a discarded candidate or writes back
  the owner it read (198:525); a late derivation may change the proposal of a decided
  candidate (198:95 excludes it);
* an approval in `sp_task_source_sync`, between its count of tasks and its count of candidates,
  leaves the source Completed with an open task (200:97);
* a moved occurrence that is moved again is raised on both new dates and shown on the first
  only, although 449:24 says the dates are computed exactly as the calendar does
  (`practice-calendar.js:1025` sends the displayed date as the original one);
* the warning and escalation percentages of a task without an organisation's SLA fall back to
  75 and 100, not to the SLA master (202:36);
* two notified roles without holders share one row without a recipient, although
  `docs/task-centre-v2.md:843` has one for each;
* a result that is not pending is written again, although 453:753 says "Only a pending
  recipient is written": `sp_asset_report_delivery_store` checks Pending at 453:770-773, before
  its transaction, and its UPDATE at 453:775-781 names the row only. A pass produces for a
  recipient, six hours go by, another pass's housekeeping fails the recipient as interrupted, and
  the store then turns FAILED into DELIVERED. `OnlyPendingWritten` states the comment;
  as a PROPERTY of `ReportDelivery_passes.cfg` it is violated in eight states.
  `ResultIsFinal` is what remains of it;
* one task whose window exceeds what DATEDIFF counts fails the SELECT of the whole sweep,
  although 202:430 says that one bad task must never stop it: with `MaxSpan = 1`
  `ThresholdIsTold` fails.

### Bounds

Engine: `MaxLog` bounds the number of status changes of a task and with it every
behaviour. `engine_races` has six rows, enough to be created, worked, reviewed, closed
and reopened while a second task of the subject is opened. Two tasks suffice for the
relations the properties state (a parent and its child, a task and its duplicate),
two connections for each race. Tasks and connections are symmetric. The batch of 200
of the sweep is larger than any instance.

Governance: two priorities are a raise and a reduction. The calendar holds the dates every
start day and priority derive and an asked date before and after each of them;
`CalendarAssumption` says so, and TLC evaluates it. A request identity is used once, so
two requests are one of each type or a second one after a decision;
`governance_pending` has a third, so that both types are pending while a duplicate is tried.

Candidates: two candidates are a generator's and its duplicate, or one and its successor
after a discard; two connections are each pair of calls at once. Nothing else is bounded:
`disturbed` and the rows are finite, and the calls go on for ever.

Workers: two of them overlap where a race matters (`autoraise_drain`, `reports_passes`, and
a worker beside a run by hand in `schedule`); where a run has one, the proofs cover any
number. One fault and one edit may fall at any point of any pass; the two days are the day
itself and the day an occurrence is moved or retried to. Two employees are an entry and
the one behind it, two tasks with a batch of one are a task in the batch and one that waits.
`WeekLength` is two, so that a weekly schedule has days without a run. With
`MaxEntries`, `MaxTick`, `LastDay` and `MaxClock` a horizon ends, and the liveness
properties only ask what has a later pass within it.

`CHECK_DEADLOCK` is off because the systems may rest: with every log full, every entry
settled or the horizon reached and no call under way nothing has to happen.

### Fairness

Engine, governance and candidates assume none: all their properties are safety
properties, so a call may stop at any point, which is also what a lost connection does.

* `EventAutoRaise`: weak fairness of each worker's drain. `EventAutoRaiseWorker` waits for its
  interval, swallows every exception and starts again.
* `ScheduledTasks`: weak fairness of each worker's start and of each run's next statement.
  The pass is one of `TaskNotificationWorker`'s, which survives its failures; the server runs a
  procedure to its end; the pool resets a connection before it is used again
  (`SessionEnds`). A day may end at any time, and the properties end with it.
* `ReportDelivery`: weak fairness of each worker's pass, and of the clock.
* `SlaNotifications`: weak fairness of each worker's sweep.

Nothing is asked of users, and nothing of faults: they are bounded, not fair.

Each property has a mutant, an operator next to the definition it replaces, that a
plausible mistake in the procedures would produce and that breaks the property in
its own run.

## 5. Proofs

### TaskEngineProofs

For any sets of tasks, subjects and connections, any subset
of the procedures, any targets and any bound on the log, it proves:

| Theorem | Property |
|---|---|
| `TypeCorrect` | `TypeOK` |
| `StatusAlwaysLogged` | `StatusIsLogged` |
| `TwoGateClosureHolds` | `TwoGateClosure` |
| `DedupHolds` | `OneOpenImplementation` |
| `ReportedProgressHolds` | `ReportedProgressIsReal` |

Assumptions: `NoTask` is no task, there is a subject, the calls and targets are
those of the engine, and a log has room for the two rows of an owned task.

The five are not inductive by themselves, because what a commit writes was decided
steps before. `IInv` adds `Pending`: for each connection, what is still true of the
values it has read. The facts that survive other connections are those about things
that only grow (`PendingAt`): the log of a task keeps its rows, a type and a subject
never change, `closed_at` is never cleared. So a session about to close an
Implementation task remembers that its log holds a gate status; one about to
write a status knows that the log holds it; one about to report progress knows a
closed task. `Keeps...` lemmas say that these facts survive a step of another
connection; `RowEffect` and `SessionEffect` reduce the twenty actions to what they do to
rows and to sessions; `NextInvariant` puts them together, one case per action.

### TaskEngineHistoryProofs

The three properties that a race breaks are theorems about the behaviours without that
race. `Apart` says of a state that no two connections work on the same task, or one on a
task and the other on its child, where a connection works on the tasks whose rows it has
read for a call that is still to write (`WorksOn`; a sweep works on its whole batch). For
the same constants as above:

| Theorem | Statement |
|---|---|
| `LogIsHistoryHolds` | `Spec /\ []Apart => []LogIsHistory` |
| `CompletionGateHolds` | `Spec /\ []Apart => CompletionGate` |
| `ImplementsLifecycle` | `Spec /\ []Apart => FollowsLifecycle`, the refinement of `TaskLifecycle` |
| `SerialCallsHold` | all three for one connection, of every behaviour: `OneConnection` implies `Apart` |

`Apart` is a hypothesis about the callers and not a fact about the code, which takes no lock
that would enforce it: two users on one task, or a user and the sweep, violate it, and then
TLC finds each of the properties broken. The theorems say that this is the only way. It
constrains nothing about calls on unrelated tasks, which may overlap at every step.

The inductive invariant `HInv` adds to `IInv` what a call has read and what is still so
(`Truthful`): the status it read is the one the task shows, the log row it wrote is the last,
the batch of the sweep holds the statuses of its tasks, and the mandatory children that
`sp_task_complete` counted as closed are closed. `LogIsHistory` itself is then inductive. Under
`Apart` a step of one connection changes no row another one has read, which `RowChange` and
`StepChange` work out action by action; `GateStep` and `LifecycleStep` map each kind of change
to the gate and to a step of the abstract specification.

### TaskGovernanceProofs

For any sets of tasks, requests and connections, any subset of the procedures, any policy and
any calendar that holds the dates the policy derives (`CalendarAssumption`):

| Theorem | Property |
|---|---|
| `TypeCorrect` | `TypeOK`: due dates stay in the calendar, every derivation finds a policy |
| `OnePendingHolds` | `OnePendingRequest` |
| `PendingShown` | `PendingIsShown`, under `[]Apart` |
| `ChildrenAgree` | `ChildrenInherit`, under `[]Apart` |
| `ReductionsApproved` | `ReductionsAreApproved`, under `[]Apart` |
| `SerialCallsHold` | the last three for one connection, without `Apart` |

`TypeOK` is not inductive: a derivation looks up the policy of a priority that a
connection, or a request, has remembered since an earlier step. `RequestsOK` says
that a filed request names a root task and something that may be granted, `SessionOK`
the same of what a connection remembers. Both rest on what a step never takes away: a root
stays a root (`RowsKept`) and a filed request keeps its type and task (`RequestsKept`).
`RowEffect`, `RequestEffect` and `SessionEffect` show what a step does to each variable,
`SessionKept` that one connection's knowledge survives the steps of the others, and
`NextInvariant` combines them. `OnePendingRequest` is carried along: only `FileRequest`
makes a request pending, and the index is its guard.

The second part is about calls of which no two are on the same task at a time (`Apart`). Every
call here names a root, and `sp_task_apply_sla` writes the root's children, so a family is in
one hand. Again the code takes no lock that would see to it. `EditStart`, `Retarget`,
`Reschedule` and `CloseTask`, which read and write in one step, may fall on any task at any
point. `GInv` adds to `IInv` that what a call has read is still so (`Truthful`: the priority
and the standard date a child is to copy, that a task being opened has no child yet, that a raise
raises, that the request to decide is pending), that every child has a root for a parent and, while it
is open, agrees with it (`Families`), and that a pending request has its marker (`AllShown`).
TLC checked `GInv` with two connections and three tasks under `Apart` before it was proved.
The lemmas say what is left of a family, a marker and a read by a row that is added, a column that
is written elsewhere and a cascade (`CascadeFamilies`); `StepResult` has one case per
action, and the reduction property falls out of the same cases.

### ScheduledTasksProofs

For any rules, workers, runs by hand, period, horizon and numbers of edits and faults:

| Theorem | Property |
|---|---|
| `TypeCorrect` | `TypeOK` |
| `CalendarAgrees` | `MatchesCalendar` |
| `RaisedOnceHolds` | `RaisedOnce` |
| `LedgerFinal` | `LedgerIsFinal` |

`MatchesCalendar` is a fact about every state of the right types: the set algebra of
the generator's statements against the calendar's. `RaisedOnce` needs that a run past its
start holds the lock (`Locked`), that therefore no row is in two hands and no other run
links it (`HandsOff`), and that only a lost link is counted (`NoneLost`).

### EventAutoRaiseProofs

For any employees, workers and bounds: `TypeCorrect` (`TypeOK`), `Parked`
(`ParkedAfterAttempts`), `DoneMeansOnboarded` (`DoneIsOnboarded`), `OnePending`
(`OnePendingEntry`). The first and the last two concern the queue; that Done stands for an
onboarding needs that an onboarded employee has a row (`OnboardedExists`), since only
the creation writes `onboarded` as FALSE.

### ReportDeliveryProofs

For any recipients, workers, users, calendar and retention: `TypeCorrect` (`TypeOK`, with the
lemmas that the next run date exists), `OneScheduled` (`OneScheduledPerDay`), `StatusHolds`
(`StatusIsReal`), `RunningHolds` (`RunningIsPending`), `ResultsFinal` (`ResultIsFinal`). `IInv`
adds that a sweep about to finish holds what it swept (`SweptAtFinish`), that a pass stores for
recipients of its own delivery (`OwnWork`), and that a file belongs to a delivered
recipient (`FileMeansDelivered`). `ResultsFinal` needs one fact more, invariant beside `IInv`: a
store finds its recipient pending, or its delivery is older than six hours (`OvertakenIsLate`).
`PendingWrittenInTime` is the strict reading of 453:753 under the condition it lacks: while no
store is under way on a delivery older than that (`StoresInTime`), only pending recipients are
written.

### SlaNotificationsProofs

For any tasks, people, roles, configuration and bounds: `TypeCorrect` (`TypeOK`),
`ToldOnceHolds` (`ToldOnce`), `BreachWasPast` (`BreachIsPast`). What a pass carries must be
`Sound`: a BREACH in its snapshot names a date that was past when it was read, and the
clock does not go back, so it is past when the row is written, whatever date the task
has by then.

### TaskCandidatesProofs

For any candidates, tasks, sources, priorities and connections:

| Theorem | Property |
|---|---|
| `TypeCorrect` | `TypeOK` |
| `KeyIsUnique` | `OneOpenPerKey` |
| `StaysApproved` | `ApprovedOnce` |
| `ProposalHolds` | `SlaFollowsPriority` |

Each is inductive beside the types and the fact that an INSERT under way carries a New row
(`InsertsNew`). `OneRow` says that a step writes at most one row, and that a row which is
open afterwards has passed the index. `StaysApproved` is the argument for the CHECK: the
UPDATE of a late validation or discard leaves `approved_task_id` alone, so on a candidate
with a task it would break the constraint. `NullAssumption` is the only assumption.

### Not proved

Every safety invariant and action property that a passing run checks is stated by a theorem, six
of them under `Apart` where the run has one connection. Out of the prover's reach
and left to TLC: the liveness properties under fairness (`EntriesSettle`, `PendingSettles`,
`DueIsServed`, `RetentionRemoves`, `DueIsClaimed`, `RowSettles`, `ThresholdIsTold`), `ENABLED`,
and induction over data. `TaskLifecycle` is the only abstract specification so far; the
other components state their promises as invariants and action properties.

## 6. Not modelled

See the components with status `not_modelled` in `PROJECT.json`, each with its reason: the
gap, exception and risk centres, implementation gates and repository changes are
state machines of their own, spread over many migrations; documents, audits and
checklists are plain records; permissions, read side, screens and master data have no
state that several actors change.

Of what is modelled the following is missing: read procedures, the activity feed and
owner resolution of the engine; `child_target_date`, the policy's own history and the
optimistic lock of `sp_task_update` in governance; the lost update of a report schedule;
month and year stepping of schedules; starvation behind a full batch; and the effect of a
candidate's approval on the upstream report.
