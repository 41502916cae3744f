--------------------------- MODULE ReportDelivery ---------------------------
(***************************************************************************)
(* Scheduled delivery of an asset report (migration 453).  A pass of the    *)
(* background worker, or a user's Run now, calls                            *)
(* sp_asset_report_delivery_start: recipients left pending fail as          *)
(* interrupted, files past their retention are removed, a delivery is       *)
(* started when the schedule is due, and the work is returned.  The API     *)
(* then produces the report for one recipient after the other and stores    *)
(* each result (AssetConfigService.DeliverReportsAsync).                    *)
(*                                                                          *)
(* One schedule is modelled: schedules share nothing but the pass, in which *)
(* each has a transaction and a TRY/CATCH of its own.  Statements outside a *)
(* transaction are steps of their own, so passes of several API processes,  *)
(* edits of the schedule and crashes fall between them.                     *)
(***************************************************************************)
EXTENDS Naturals, Sequences, FiniteSets

CONSTANTS Recipients,     \* employees on the distribution list
          Workers,        \* API processes, one pass each on a timer
          Users,          \* users who press Run now
          TicksPerDay,    \* a tick is longer than the 6 hours of the housekeeping
          WeekLength,     \* bound: days in a week
          RetentionTicks, \* retention_days
          MaxTick,        \* bound: the horizon
          MaxManual,      \* bound: manual deliveries
          MaxSaves,       \* bound: edits of the schedule
          MaxInterrupts   \* bound: passes cut short and results not stored

ASSUME DeliveryAssumption ==
    /\ TicksPerDay \in Nat \ {0}
    /\ WeekLength \in Nat \ {0}
    /\ {RetentionTicks, MaxTick, MaxManual, MaxSaves, MaxInterrupts} \subseteq Nat
    /\ Workers \cap Users = {}

VARIABLES now,        \* the clock
          schedule,   \* the schedule row
          deliveries, \* the delivery rows with their recipients
          pass,       \* what each process is doing
          saves, interrupts,
          orphans     \* history: deliveries whose interrupted sweep never finished them

vars == <<now, schedule, deliveries, pass, saves, interrupts, orphans>>

Procs == Workers \cup Users

-----------------------------------------------------------------------------
(* The tables *)

Day(t) == t \div TicksPerDay

Frequencies == {"DAILY", "WEEKLY"}

\* The first run date on or after a day.  The weekly day is the first of the week.
NextRun(frequency, from) ==
    CHOOSE d \in from..(from + WeekLength) :
        LET RunDay(x) == frequency = "DAILY" \/ x % WeekLength = 0
        IN RunDay(d) /\ \A x \in from..(from + WeekLength) : RunDay(x) => d <= x

ScheduleRow == [frequency : Frequencies, active : BOOLEAN, next : Nat]

RecipientStatuses == {"PENDING", "DELIVERED", "SKIPPED", "FAILED"}

\* at is delivered_dt, file stands for rows_json IS NOT NULL.
RecipientRow == [status : RecipientStatuses, file : BOOLEAN, at : Nat]

DeliveryStatuses == {"RUNNING", "COMPLETED", "PARTIAL", "FAILED", "SKIPPED"}

DeliveryRow == [trigger : {"SCHEDULED", "MANUAL"}, day : Nat, started : Nat,
                status : DeliveryStatuses, rcp : [Recipients -> RecipientRow]]

Ids == DOMAIN deliveries

\* Some recipient of the distribution has the status.
HasAny(rcp, status) == \E r \in Recipients : rcp[r].status = status

\* Status of a delivery from its recipients.
Outcome(rcp) ==
    IF HasAny(rcp, "PENDING") THEN "RUNNING"
    ELSE IF HasAny(rcp, "DELIVERED")
         THEN IF HasAny(rcp, "SKIPPED") \/ HasAny(rcp, "FAILED") THEN "PARTIAL" ELSE "COMPLETED"
    ELSE IF HasAny(rcp, "FAILED") THEN "FAILED" ELSE "SKIPPED"

\* Mutant of Finish: a delivery that has its status is not looked at again.
FinishOnce(d) == IF d.status = "RUNNING" THEN [d EXCEPT !.status = Outcome(d.rcp)] ELSE d

Finish(d) == [d EXCEPT !.status = Outcome(d.rcp)]

\* The unique index over schedule and run date of scheduled deliveries.
DeliveredOn(day) == \E d \in Ids : deliveries[d].trigger = "SCHEDULED" /\ deliveries[d].day = day

Manual == {d \in Ids : deliveries[d].trigger = "MANUAL"}

-----------------------------------------------------------------------------
(* A pass: the start procedure *)

NoPass == [pc |-> "idle", tick |-> 0, swept |-> {}, delivery |-> 0, todo |-> {}, result |-> <<>>]

Step(p, record) == pass' = [pass EXCEPT ![p] = record]

\* The pass began more than six hours after the delivery.
Stale(d) == deliveries[d].started < now

\* Mutants of Interrupted: no housekeeping; without the six hours.
NeverInterrupted(d, r) == FALSE

InterruptedAtOnce(d, r) == deliveries[d].rcp[r].status = "PENDING"

Interrupted(d, r) == Stale(d) /\ deliveries[d].rcp[r].status = "PENDING"

\* One UPDATE: the pending recipients of stale deliveries fail.
SweepPending(p) ==
    /\ pass[p].pc = "idle"
    /\ p \in Users => Cardinality(Manual) < MaxManual
    /\ deliveries' = [d \in Ids |-> [deliveries[d] EXCEPT !.rcp =
                         [r \in Recipients |->
                             IF Interrupted(d, r) THEN [@[r] EXCEPT !.status = "FAILED"] ELSE @[r]]]]
    /\ Step(p, [NoPass EXCEPT !.pc = "finish", !.tick = now,
                              !.swept = {d \in Ids : \E r \in Recipients : Interrupted(d, r)}])
    /\ UNCHANGED <<now, schedule, saves, interrupts, orphans>>

\* Each delivery that lost recipients gets its status, in a call of its own.
FinishSwept(p) ==
    /\ pass[p].pc = "finish"
    /\ \E d \in pass[p].swept :
         /\ \A e \in pass[p].swept : d <= e
         /\ deliveries' = [deliveries EXCEPT ![d] = Finish(@)]
         /\ Step(p, [pass[p] EXCEPT !.swept = @ \ {d}])
    /\ UNCHANGED <<now, schedule, saves, interrupts, orphans>>

\* Mutant of Expired: the last day of the retention counts once more.
ExpiredLate(row, t) == row.file /\ row.at + RetentionTicks + 1 < t

Expired(row, t) == row.file /\ row.at + RetentionTicks < t

\* Mutant of Due: only on the run date itself.
DueOnTheDay(t) == schedule.active /\ schedule.next = Day(t) /\ ~DeliveredOn(Day(t))

\* A scheduled pass runs the schedule when it is due and has no delivery today.
Due(t) == schedule.active /\ schedule.next <= Day(t) /\ ~DeliveredOn(Day(t))

PurgeAndSelect(p) ==
    /\ pass[p].pc = "finish"
    /\ pass[p].swept = {}
    /\ deliveries' = [d \in Ids |-> [deliveries[d] EXCEPT !.rcp =
                         [r \in Recipients |->
                             IF Expired(@[r], pass[p].tick) THEN [@[r] EXCEPT !.file = FALSE] ELSE @[r]]]]
    /\ Step(p, IF p \in Users \/ Due(pass[p].tick) THEN [pass[p] EXCEPT !.pc = "start"] ELSE NoPass)
    /\ UNCHANGED <<now, schedule, saves, interrupts, orphans>>

\* The delivery of a pass, with the recipients who passed the checks pending.
NewDelivery(p, allowed) ==
    Finish([trigger |-> IF p \in Users THEN "MANUAL" ELSE "SCHEDULED",
            day |-> Day(pass[p].tick), started |-> now, status |-> "RUNNING",
            rcp |-> [r \in Recipients |-> [status |-> IF r \in allowed THEN "PENDING" ELSE "SKIPPED",
                                           file |-> FALSE, at |-> 0]]])

\* Mutant of RunDateTaken: no unique index.
RunDateNeverTaken(p) == FALSE

RunDateTaken(p) == p \in Workers /\ DeliveredOn(Day(pass[p].tick))

\* The transaction of the schedule; the unique index rolls it back when another
\* process has delivered the day since.  The checks of the recipients are data.
StartDelivery(p) ==
    /\ pass[p].pc = "start"
    /\ IF RunDateTaken(p)
       THEN Step(p, NoPass) /\ UNCHANGED <<schedule, deliveries>>
       ELSE \E allowed \in SUBSET Recipients :
              /\ deliveries' = Append(deliveries, NewDelivery(p, allowed))
              /\ schedule' = IF p \in Users THEN schedule
                             ELSE [schedule EXCEPT
                                      !.next = NextRun(schedule.frequency, Day(pass[p].tick) + 1)]
              /\ Step(p, [NoPass EXCEPT !.pc = "produce", !.delivery = Len(deliveries) + 1,
                                        !.todo = allowed])
    /\ UNCHANGED <<now, saves, interrupts, orphans>>

-----------------------------------------------------------------------------
(* A pass: producing and storing *)

\* The report is produced for a recipient, and the store finds it pending or not.
Produce(p) ==
    /\ pass[p].pc = "produce"
    /\ \E r \in pass[p].todo, result \in {"DELIVERED", "FAILED"} :
         Step(p, IF deliveries[pass[p].delivery].rcp[r].status = "PENDING"
                 THEN [pass[p] EXCEPT !.pc = "store", !.todo = @ \ {r}, !.result = <<r, result>>]
                 ELSE [pass[p] EXCEPT !.todo = @ \ {r}])
    /\ UNCHANGED <<now, schedule, deliveries, saves, interrupts, orphans>>

\* Mutant of StoreResult: the delivery is not finished.
StoreWithoutFinish(p) ==
    /\ pass[p].pc = "store"
    /\ LET r == pass[p].result[1]
           delivered == pass[p].result[2] = "DELIVERED"
       IN deliveries' = [deliveries EXCEPT ![pass[p].delivery].rcp[r] =
              [status |-> pass[p].result[2], file |-> delivered, at |-> IF delivered THEN now ELSE 0]]
    /\ Step(p, [pass[p] EXCEPT !.pc = "produce", !.result = <<>>])
    /\ UNCHANGED <<now, schedule, saves, interrupts, orphans>>

\* The UPDATE of the store names the recipient only, not the status it has read.
StoreResult(p) ==
    /\ pass[p].pc = "store"
    /\ LET r == pass[p].result[1]
           delivered == pass[p].result[2] = "DELIVERED"
       IN deliveries' = [deliveries EXCEPT ![pass[p].delivery] =
              Finish([@ EXCEPT !.rcp[r] = [status |-> pass[p].result[2], file |-> delivered,
                                           at |-> IF delivered THEN now ELSE 0]])]
    /\ Step(p, [pass[p] EXCEPT !.pc = "produce", !.result = <<>>])
    /\ UNCHANGED <<now, schedule, saves, interrupts, orphans>>

EndPass(p) ==
    /\ pass[p].pc = "produce"
    /\ pass[p].todo = {}
    /\ Step(p, NoPass)
    /\ UNCHANGED <<now, schedule, deliveries, saves, interrupts, orphans>>

\* Mutant of StoreLost: the pass does not go on to the next recipient.
StoreLostStays(p) ==
    /\ pass[p].pc = "store"
    /\ interrupts < MaxInterrupts
    /\ interrupts' = interrupts + 1
    /\ Step(p, [pass[p] EXCEPT !.result = <<>>])
    /\ UNCHANGED <<now, schedule, deliveries, saves, orphans>>

\* The store fails with a SqlException: logged, the recipient stays pending.
StoreLost(p) ==
    /\ pass[p].pc = "store"
    /\ interrupts < MaxInterrupts
    /\ interrupts' = interrupts + 1
    /\ Step(p, [pass[p] EXCEPT !.pc = "produce", !.result = <<>>])
    /\ UNCHANGED <<now, schedule, deliveries, saves, orphans>>

\* The process stops or the command times out; what was committed stays.
Interrupt(p) ==
    /\ pass[p].pc # "idle"
    /\ interrupts < MaxInterrupts
    /\ interrupts' = interrupts + 1
    /\ orphans' = orphans \cup pass[p].swept
    /\ Step(p, NoPass)
    /\ UNCHANGED <<now, schedule, deliveries, saves>>

Pass(p) == \/ SweepPending(p) \/ FinishSwept(p) \/ PurgeAndSelect(p) \/ StartDelivery(p)
           \/ Produce(p) \/ StoreResult(p) \/ EndPass(p)

-----------------------------------------------------------------------------
(* Editing the schedule *)

\* The next run date is kept unless the frequency changes or the schedule is
\* activated again.
SaveSchedule ==
    /\ saves < MaxSaves
    /\ saves' = saves + 1
    /\ \E frequency \in Frequencies, active \in BOOLEAN :
         LET moved == frequency # schedule.frequency \/ (active /\ ~schedule.active)
         IN schedule' = [frequency |-> frequency, active |-> active,
                         next |-> IF moved THEN NextRun(frequency, Day(now)) ELSE schedule.next]
    /\ UNCHANGED <<now, deliveries, pass, interrupts, orphans>>

Tick ==
    /\ now < MaxTick
    /\ now' = now + 1
    /\ UNCHANGED <<schedule, deliveries, pass, saves, interrupts, orphans>>

-----------------------------------------------------------------------------
Init ==
    /\ now = 0
    /\ schedule \in {[frequency |-> f, active |-> TRUE, next |-> NextRun(f, 0)] : f \in Frequencies}
    /\ deliveries = <<>>
    /\ pass = [p \in Procs |-> NoPass]
    /\ saves = 0
    /\ interrupts = 0
    /\ orphans = {}

Next ==
    \/ \E p \in Procs : Pass(p) \/ StoreLost(p) \/ Interrupt(p)
    \/ SaveSchedule \/ Tick

Spec == Init /\ [][Next]_vars

\* The worker's loop runs a pass on every interval and survives a failed one,
\* and time passes.  Nothing is asked of users: their run may stop anywhere.
FairSpec == Spec /\ WF_vars(Tick) /\ \A w \in Workers : WF_vars(Pass(w))

-----------------------------------------------------------------------------
(* Properties *)

PassRow == [pc : {"idle", "finish", "start", "produce", "store"}, tick : 0..MaxTick,
            swept : SUBSET Ids, delivery : Nat, todo : SUBSET Recipients,
            result : {<<>>} \cup (Recipients \X {"DELIVERED", "FAILED"})]

\* Types; what a pass holds are rows of the delivery it has started (asset_report_delivery).
TypeOK ==
    /\ now \in 0..MaxTick
    /\ schedule \in ScheduleRow
    /\ deliveries \in Seq(DeliveryRow)
    /\ pass \in [Procs -> PassRow]
    /\ \A p \in Procs : /\ pass[p].pc \in {"produce", "store"} => pass[p].delivery \in Ids
                        /\ pass[p].pc = "store" => pass[p].result # <<>>
    /\ saves \in 0..MaxSaves
    /\ interrupts \in 0..MaxInterrupts
    /\ orphans \subseteq Ids

\* "One scheduled delivery per schedule and day": whatever passes of several
\* API processes, edits and reactivations do (ux_pm_arpt_dlv_day).
OneScheduledPerDay ==
    \A d, e \in Ids :
        /\ {deliveries[d].trigger, deliveries[e].trigger} = {"SCHEDULED"}
        /\ deliveries[d].day = deliveries[e].day
        => d = e

\* A delivery that shows a result shows the result of its recipients, also when
\* the sweep and a slow pass write the same delivery (sp_asset_report_delivery_finish).
StatusIsReal ==
    \A d \in Ids : deliveries[d].status \in {"RUNNING", Outcome(deliveries[d].rcp)}

\* "RUNNING while any is pending": a delivery that runs has a pending recipient,
\* or the sweep that failed its last one is about to finish it or was
\* interrupted before it could (sp_asset_report_delivery_start, housekeeping).
RunningIsPending ==
    \A d \in Ids : deliveries[d].status = "RUNNING" =>
        \/ HasAny(deliveries[d].rcp, "PENDING")
        \/ \E p \in Procs : d \in pass[p].swept
        \/ d \in orphans

\* "Only a pending recipient is written" (the comment at 453:753): the code does
\* not keep to this.  The store checks Pending before its transaction, and its
\* UPDATE names the row only.
Overwrites(d, r) ==
    /\ deliveries[d].rcp[r].status # "PENDING"
    /\ \/ deliveries'[d].rcp[r].status # deliveries[d].rcp[r].status
       \/ deliveries'[d].rcp[r].at # deliveries[d].rcp[r].at

OnlyPendingWritten == [][\A d \in Ids, r \in Recipients : ~Overwrites(d, r)]_vars

\* What remains of it: a result loses at most its file, and the one overwrite is
\* that of a failure the sweep recorded, by a store that found the recipient
\* pending before, and only once the delivery is older than the six hours of the
\* housekeeping (sp_asset_report_delivery_start and _store).
ResultIsFinal ==
    [][\A d \in Ids, r \in Recipients :
         LET old == deliveries[d].rcp[r]
             new == deliveries'[d].rcp[r]
         IN old.status # "PENDING" /\ new # old =>
               \/ new = [old EXCEPT !.file = FALSE]
               \/ /\ old.status = "FAILED" /\ Stale(d)
                  /\ \E p \in Procs : /\ pass[p].pc = "store" /\ pass[p].delivery = d
                                      /\ pass[p].result[1] = r]_vars

\* Every recipient gets a result, whatever stops the pass that was to produce
\* it; deliveries of the last tick have no later pass within the horizon (D217).
Pending(d, r) ==
    d \in Ids /\ deliveries[d].started < MaxTick /\ deliveries[d].rcp[r].status = "PENDING"

PendingSettles ==
    \A d \in 1..(MaxTick + MaxManual + 1), r \in Recipients : Pending(d, r) ~> ~Pending(d, r)

\* A run date is served or moved, also when no pass ran on that day (D216).
DueIsServed ==
    \A day \in 0..(Day(MaxTick) - 1) :
        (schedule.active /\ schedule.next = day) ~> (~schedule.active \/ schedule.next # day)

\* A file is removed once its retention is over (D217).
OutOfRetention(d, r) ==
    d \in Ids /\ deliveries[d].rcp[r].file /\ deliveries[d].rcp[r].at + RetentionTicks < MaxTick

RetentionRemoves ==
    \A d \in 1..(MaxTick + MaxManual + 1), r \in Recipients :
        OutOfRetention(d, r) ~> ~OutOfRetention(d, r)
=============================================================================
