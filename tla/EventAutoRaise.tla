--------------------------- MODULE EventAutoRaise ---------------------------
(***************************************************************************)
(* Automatic onboarding.  Creating an employee, or giving one a role, fires *)
(* a trigger that puts an entry on event_autoraise_queue (migration 131).   *)
(* A timer in every API process (EventAutoRaiseWorker) drains the queue:    *)
(* it reads the oldest Pending entries, raises the onboarding event of each *)
(* employee in a transaction of its own (sp_event_raise_people_lifecycle,   *)
(* migration 335) and then marks the entry, in a second transaction.        *)
(*                                                                          *)
(* One organization and the event PEOPLE_ONBOARDING are modelled.  Which    *)
(* profiles match an employee is configuration: a raise may open an         *)
(* instance or find nothing to open.                                        *)
(***************************************************************************)
EXTENDS Naturals, Sequences, FiniteSets

CONSTANTS Employees,      \* employees that may be created
          Workers,        \* API processes, one drain loop each
          Poison,         \* employees whose raise breaks inside its transaction
          MaxRows,        \* @max_rows of the drain
          MaxAttempts,    \* attempts after which an entry is parked
          MaxEntries,     \* bound: entries ever enqueued
          MaxInterrupts,  \* bound: passes cut short (crash, timeout, deadlock)
          MaxToggles      \* bound: changes of the definition's status

ASSUME AutoRaiseAssumption ==
    /\ Poison \subseteq Employees
    /\ MaxRows \in Nat \ {0}
    /\ MaxAttempts \in Nat \ {0}
    /\ MaxEntries \in Nat
    /\ MaxInterrupts \in Nat
    /\ MaxToggles \in Nat

VARIABLES employee,    \* the employee rows
          instance,    \* the onboarding instance of each employee
          queue,       \* event_autoraise_queue, in the order of its entries
          active,      \* event_definition.status = 'Active'
          pc,          \* where the drain of each worker stands
          work,        \* the rows its cursor still has to fetch
          row,         \* the row it has fetched, 0 when there is none
          interrupts,  \* passes cut short so far
          toggles      \* changes of the definition so far

vars == <<employee, instance, queue, active, pc, work, row, interrupts, toggles>>

-----------------------------------------------------------------------------
(* The tables *)

Statuses == {"Absent", "Active", "Inactive"}

\* onboarded stands for onboarded_dt IS NOT NULL.
EmployeeRow == [status : Statuses, role : BOOLEAN, onboarded : BOOLEAN]

InstanceStates == {"None", "Open", "Closed"}

Entry == [emp : Employees, status : {"Pending", "Done", "Failed"}, attempts : Nat]

Pcs == {"idle", "fetch", "raise", "mark", "fail"}

Rows == DOMAIN queue

PendingRows == {i \in Rows : queue[i].status = "Pending"}

HasPending(e) == \E i \in PendingRows : queue[i].emp = e

\* The oldest MaxRows entries that are Pending.
Batch == {i \in PendingRows : Cardinality({j \in PendingRows : j < i}) < MaxRows}

-----------------------------------------------------------------------------
(* The triggers *)

\* Both triggers insert only where the employee has no Pending entry.
Enqueue(e) ==
    IF HasPending(e) THEN UNCHANGED queue
    ELSE /\ Len(queue) < MaxEntries
         /\ queue' = Append(queue, [emp |-> e, status |-> "Pending", attempts |-> 0])

CreateEmployee(e) ==
    /\ employee[e].status = "Absent"
    /\ \E status \in {"Active", "Inactive"}, role \in BOOLEAN :
         /\ employee' = [employee EXCEPT ![e] =
                            [status |-> status, role |-> role, onboarded |-> FALSE]]
         /\ IF role /\ status = "Active" THEN Enqueue(e) ELSE UNCHANGED queue
    /\ UNCHANGED <<instance, active, pc, work, row, interrupts, toggles>>

\* A role that arrives later onboards an Active employee who has no instance yet.
AssignRole(e) ==
    /\ employee[e].status # "Absent"
    /\ employee' = [employee EXCEPT ![e].role = TRUE]
    /\ IF employee[e].status = "Active" /\ instance[e] = "None"
       THEN Enqueue(e) ELSE UNCHANGED queue
    /\ UNCHANGED <<instance, active, pc, work, row, interrupts, toggles>>

-----------------------------------------------------------------------------
(* Raising an event *)

\* The transaction of the raise: the employee becomes Active, and an instance
\* is opened when some mapping or profile includes it and none is open.
Onboard(e) ==
    /\ employee' = [employee EXCEPT ![e].status = "Active", ![e].onboarded = TRUE]
    /\ \/ UNCHANGED instance
       \/ instance' = [instance EXCEPT ![e] = "Open"]

\* A user raises the event from the screen; a failing raise changes nothing.
ManualRaise(e) ==
    /\ employee[e].status # "Absent"
    /\ active
    /\ e \notin Poison
    /\ Onboard(e)
    /\ UNCHANGED <<queue, active, pc, work, row, interrupts, toggles>>

Offboard(e) ==
    /\ employee[e].status # "Absent"
    /\ employee' = [employee EXCEPT ![e].status = "Inactive"]
    /\ UNCHANGED <<instance, queue, active, pc, work, row, interrupts, toggles>>

\* sp_event_instance_complete looks at the items, which are not modelled, and not
\* at the status: an instance becomes Completed, or Failed, which still counts
\* as open to a raise.
CompleteInstance(e) ==
    /\ instance[e] # "None"
    /\ \E state \in {"Open", "Closed"} : instance' = [instance EXCEPT ![e] = state]
    /\ UNCHANGED <<employee, queue, active, pc, work, row, interrupts, toggles>>

\* sp_event_definition_save on the Events screen.
ToggleDefinition ==
    /\ toggles < MaxToggles
    /\ toggles' = toggles + 1
    /\ active' = ~active
    /\ UNCHANGED <<employee, instance, queue, pc, work, row, interrupts>>

-----------------------------------------------------------------------------
(* The drain of one worker *)

Goto(w, place) == pc' = [pc EXCEPT ![w] = place]

\* The pass is over: at the end of the cursor, or because the batch was aborted.
EndPass(w) ==
    /\ Goto(w, "idle")
    /\ work' = [work EXCEPT ![w] = {}]
    /\ row' = [row EXCEPT ![w] = 0]

\* Mutant of NextRow: the row is left and the next one raised without a fetch.
NextRowUnfetched(w) ==
    /\ Goto(w, "raise")
    /\ row' = [row EXCEPT ![w] = 0]
    /\ UNCHANGED work

NextRow(w) ==
    /\ Goto(w, "fetch")
    /\ row' = [row EXCEPT ![w] = 0]
    /\ UNCHANGED work

StartPass(w) ==
    /\ pc[w] = "idle"
    /\ PendingRows # {}
    /\ Goto(w, "fetch")
    /\ work' = [work EXCEPT ![w] = Batch]
    /\ UNCHANGED <<employee, instance, queue, active, row, interrupts, toggles>>

FinishPass(w) ==
    /\ pc[w] = "fetch"
    /\ work[w] = {}
    /\ EndPass(w)
    /\ UNCHANGED <<employee, instance, queue, active, interrupts, toggles>>

\* Rows are fetched in the order of the queue.  The cursor may be a snapshot or
\* follow the table: an entry the other worker has marked since is raised again
\* or passed over.  The definition is looked up before the transaction begins.
Fetch(w) ==
    /\ pc[w] = "fetch"
    /\ \E i \in work[w] :
         /\ \A j \in work[w] : i <= j
         /\ work' = [work EXCEPT ![w] = @ \ {i}]
         /\ \/ /\ Goto(w, IF active THEN "raise" ELSE "fail")
               /\ row' = [row EXCEPT ![w] = i]
            \/ /\ i \notin PendingRows
               /\ UNCHANGED <<pc, row>>
    /\ UNCHANGED <<employee, instance, queue, active, interrupts, toggles>>

RaiseCommits(w) ==
    /\ pc[w] = "raise"
    /\ active
    /\ queue[row[w]].emp \notin Poison
    /\ Onboard(queue[row[w]].emp)
    /\ Goto(w, "mark")
    /\ UNCHANGED <<queue, active, work, row, interrupts, toggles>>

\* Mutant of RaiseBreaks: the error is swallowed and the entry is marked.
RaiseBreaksSilently(w) ==
    /\ pc[w] = "raise"
    /\ ~active \/ queue[row[w]].emp \in Poison
    /\ Goto(w, "mark")
    /\ UNCHANGED <<employee, instance, queue, active, work, row, interrupts, toggles>>

\* XACT_ABORT dooms the transaction.  The UPDATE in the drain's CATCH writes
\* into it and is refused, the batch ends and everything is rolled back: the
\* attempt is not counted and the rest of the cursor is not fetched.
RaiseBreaks(w) ==
    /\ pc[w] = "raise"
    /\ ~active \/ queue[row[w]].emp \in Poison
    /\ EndPass(w)
    /\ UNCHANGED <<employee, instance, queue, active, interrupts, toggles>>

MarkDone(w) ==
    /\ pc[w] = "mark"
    /\ queue' = [queue EXCEPT ![row[w]].status = "Done", ![row[w]].attempts = @ + 1]
    /\ NextRow(w)
    /\ UNCHANGED <<employee, instance, active, interrupts, toggles>>

\* Mutant of AfterFailure: one attempt too many.
AfterFailureLate(q) == IF q.attempts >= MaxAttempts THEN "Failed" ELSE "Pending"

\* The status an entry has after a failed attempt.
AfterFailure(q) == IF q.attempts + 1 >= MaxAttempts THEN "Failed" ELSE "Pending"

\* Mutant of Refused: no unique index behind the NOT EXISTS of the triggers.
NeverRefused(i) == FALSE

\* uq_pm_event_autoraise_pending refuses a second Pending entry of the employee.
Refused(i) ==
    /\ AfterFailure(queue[i]) = "Pending"
    /\ \E j \in PendingRows \ {i} : queue[j].emp = queue[i].emp

\* Mutant of MarkFailed: the attempt is not counted.
MarkFailedUncounted(w) ==
    /\ pc[w] = "fail"
    /\ NextRow(w)
    /\ UNCHANGED <<employee, instance, queue, active, interrupts, toggles>>

MarkFailed(w) ==
    /\ pc[w] = "fail"
    /\ IF Refused(row[w])
       THEN EndPass(w) /\ UNCHANGED queue
       ELSE /\ queue' = [queue EXCEPT ![row[w]].status = AfterFailure(queue[row[w]]),
                                      ![row[w]].attempts = @ + 1]
            /\ NextRow(w)
    /\ UNCHANGED <<employee, instance, active, interrupts, toggles>>

\* The process stops, the command times out or loses a deadlock.  What was
\* committed stays, the next pass starts from the table.
Interrupt(w) ==
    /\ pc[w] # "idle"
    /\ interrupts < MaxInterrupts
    /\ interrupts' = interrupts + 1
    /\ EndPass(w)
    /\ UNCHANGED <<employee, instance, queue, active, toggles>>

Drain(w) == \/ StartPass(w) \/ FinishPass(w) \/ Fetch(w)
            \/ RaiseCommits(w) \/ RaiseBreaks(w) \/ MarkDone(w) \/ MarkFailed(w)

-----------------------------------------------------------------------------
Init ==
    /\ employee = [e \in Employees |-> [status |-> "Absent", role |-> FALSE, onboarded |-> FALSE]]
    /\ instance = [e \in Employees |-> "None"]
    /\ queue = <<>>
    /\ active = TRUE
    /\ pc = [w \in Workers |-> "idle"]
    /\ work = [w \in Workers |-> {}]
    /\ row = [w \in Workers |-> 0]
    /\ interrupts = 0
    /\ toggles = 0

Next ==
    \/ \E e \in Employees : \/ CreateEmployee(e) \/ AssignRole(e) \/ ManualRaise(e)
                            \/ Offboard(e) \/ CompleteInstance(e)
    \/ ToggleDefinition
    \/ \E w \in Workers : Drain(w) \/ Interrupt(w)

Spec == Init /\ [][Next]_vars

\* The loop swallows every exception and waits for the next tick, so each
\* worker keeps draining; users, administrators and faults owe nothing.
FairSpec == Spec /\ \A w \in Workers : WF_vars(Drain(w))

-----------------------------------------------------------------------------
(* Properties *)

\* Types; what a cursor holds are entries of the queue, and a drain that is in
\* the middle of an entry has one (event_autoraise_queue, sp_event_autoraise_drain).
TypeOK ==
    /\ employee \in [Employees -> EmployeeRow]
    /\ instance \in [Employees -> InstanceStates]
    /\ queue \in Seq(Entry)
    /\ active \in BOOLEAN
    /\ pc \in [Workers -> Pcs]
    /\ work \in [Workers -> SUBSET Rows]
    /\ row \in [Workers -> Nat]
    /\ interrupts \in 0..MaxInterrupts
    /\ toggles \in 0..MaxToggles
    /\ \A w \in Workers : pc[w] \in {"raise", "mark", "fail"} => row[w] \in Rows

\* An entry is retried while it has attempts left and is parked once they are
\* spent, also when two workers attempt it at the same time (the CATCH of
\* sp_event_autoraise_drain).
ParkedAfterAttempts ==
    \A i \in Rows : /\ queue[i].status = "Pending" => queue[i].attempts < MaxAttempts
                    /\ queue[i].status = "Failed" => queue[i].attempts >= MaxAttempts

\* An entry marked Done stands for a raise that was committed: no crash, no
\* stale cursor and no other worker can mark an entry whose employee was never
\* onboarded (sp_event_autoraise_drain, 335 (c)).
DoneIsOnboarded ==
    /\ \A i \in Rows : queue[i].status = "Done" => employee[queue[i].emp].onboarded
    /\ \A w \in Workers : pc[w] = "mark" => employee[queue[row[w]].emp].onboarded

\* At most one Pending entry of an employee: the triggers look for one, and a
\* failure marked late by a second worker does not bring another one back
\* (uq_pm_event_autoraise_pending).
OnePendingEntry ==
    \A i, j \in PendingRows : queue[i].emp = queue[j].emp => i = j

\* "A bad row cannot spin forever" (EventAutoRaiseWorker.cs): every entry is
\* raised or parked in the end.
EntriesSettle ==
    \A i \in 1..MaxEntries : (i \in PendingRows) ~> (i \notin PendingRows)
=============================================================================
