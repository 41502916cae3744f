--------------------------- MODULE ScheduledTasks ---------------------------
(***************************************************************************)
(* Tasks for scheduled obligations (migration 449) beside the calendar that *)
(* shows them.  The calendar computes the occurrences of a rule when it is  *)
(* read (QueryCalendarEventsAsync); the generator computes the ones of one  *)
(* day again in SQL, claims them in a ledger and opens a task for each.     *)
(*                                                                          *)
(* Both computations are operators over the same rules and overrides, the   *)
(* generator's one in the pieces its statements run in: the procedure has   *)
(* no transaction, so edits of the schedule, a timeout or a crash fall      *)
(* between them.  Dates are numbers of days and a rule repeats every Period *)
(* days; the names, owners and titles of the tasks are left out.            *)
(***************************************************************************)
EXTENDS Naturals, FiniteSets

CONSTANTS Rules,     \* schedule rules of the organisation
          Workers,   \* API processes: a pass on every interval
          HandRuns,  \* runs of the procedure by hand with a run date, each done once
          Broken,    \* rules whose task sp_task_open always refuses
          Legacy,    \* Skipped and Added overrides of before migration 377
          Free,      \* the lock owner when there is none
          Period,    \* frequency_value in days
          LastDay,   \* bound: the horizon
          MaxEdits,  \* bound: edits of rules and overrides
          MaxFaults  \* bound: errors, timeouts and crashes

Days == 0..LastDay

\* A row of assurance_schedule_override; Added and Skipped use one date.
Override == [rule : Rules, type : {"Skipped", "Moved", "Added"}, from : Days, to : Days]

ASSUME ScheduleAssumption ==
    /\ Period \in Nat \ {0}
    /\ {LastDay, MaxEdits, MaxFaults} \subseteq Nat
    /\ Broken \subseteq Rules
    /\ Workers \cap HandRuns = {}
    /\ Free \notin Workers \cup HandRuns
    /\ Legacy \subseteq Override

VARIABLES today,     \* the date, UTC
          rule,      \* assurance_schedule_rule with its instance and obligation
          overrides, \* active rows of assurance_schedule_override
          ledger,    \* schedule_occurrence_task by rule and occurrence date
          lock,      \* the application lock of the generator
          pass,      \* what each run of the generator is doing
          edits, faults,
          lost       \* history: tasks whose id the ledger never got

vars == <<today, rule, overrides, ledger, lock, pass, edits, faults, lost>>

Runners == Workers \cup HandRuns

-----------------------------------------------------------------------------
(* The schedule *)

RuleStates == {"None", "Active", "Retired"}

\* inForce: the practice instance and the adopted obligation are Active.
RuleRow == [state : RuleStates, anchor : Days, end : Days, inForce : BOOLEAN]

\* The date is a whole number of periods after the anchor.
Natural(r, d) == /\ rule[r].anchor <= d
                 /\ (d - rule[r].anchor) % Period = 0

\* Mutant of Removes: a moved occurrence stays on its date as well.
RemovesSkippedOnly(o, r, d) == o.rule = r /\ o.type = "Skipped" /\ o.from = d

\* The override takes the occurrence of the date away.
Removes(o, r, d) == o.rule = r /\ o.type \in {"Skipped", "Moved"} /\ o.from = d

\* The override puts an occurrence on the date.
Adds(o, r, d) == o.rule = r /\ o.type \in {"Moved", "Added"} /\ o.to = d

-----------------------------------------------------------------------------
(* The calendar: every rule that is not retired, over the whole horizon *)

Occurrences(r) == {d \in Days : Natural(r, d) /\ d <= rule[r].end}

Skipped(r) == {o.from : o \in {o \in overrides : o.rule = r /\ o.type = "Skipped"}}

Moves(r, d) == {o \in overrides : o.rule = r /\ o.type = "Moved" /\ o.from = d}

\* The dictionary of moved dates keeps one move of a date; the query leaves
\* their order open.
MovedTo(r, d) == (CHOOSE o \in Moves(r, d) : TRUE).to

Kept(r) == Occurrences(r) \ Skipped(r)

Shown(r) ==
    IF rule[r].state # "Active" THEN {}
    ELSE {IF Moves(r, d) # {} THEN MovedTo(r, d) ELSE d : d \in Kept(r)}
         \cup {o.to : o \in {o \in overrides : o.rule = r /\ o.type = "Added"}}

-----------------------------------------------------------------------------
(* The generator: the statements of one run *)

Eligible(d) == {r \in Rules : /\ rule[r].state = "Active"
                              /\ rule[r].inForce
                              /\ rule[r].anchor <= d
                              /\ d <= rule[r].end}

Removed(due, d) == {r \in due : \E o \in overrides : Removes(o, r, d)}

Added(eligible, d) == {r \in eligible : \E o \in overrides : Adds(o, r, d)}

\* The rules the generator claims on a day when no edit falls between its steps.
DueOn(d) ==
    LET due == {r \in Eligible(d) : Natural(r, d)}
    IN (due \ Removed(due, d)) \cup Added(Eligible(d), d)

Keys == Rules \X Days

LedgerRow == [linked : BOOLEAN, error : BOOLEAN, raised : Nat]

\* Mutant of Unlinked: rows with a task are raised again.
OfTheDay(rows, d) == {k \in DOMAIN rows : k[2] = d}

\* The rows of a day that have no task yet.
Unlinked(rows, d) == {k \in DOMAIN rows : k[2] = d /\ ~rows[k].linked}

\* The ledger with a row for each rule of the day; what it has stays.
Claimed(due, d) ==
    [k \in DOMAIN ledger \cup (due \X {d}) |->
        IF k \in DOMAIN ledger THEN ledger[k] ELSE [linked |-> FALSE, error |-> FALSE, raised |-> 0]]

Idle == [pc |-> "idle", day |-> 0, eligible |-> {}, due |-> {}, work |-> {}, row |-> {}]

\* What a run leaves when it ends: the worker waits for its next interval.
Ended(w) == IF w \in Workers THEN Idle ELSE [Idle EXCEPT !.pc = "done"]

Step(w, record) == pass' = [pass EXCEPT ![w] = record]

\* Mutant of LockFree: the lock is not asked for.
LockTaken(w) == TRUE

\* sp_getapplock with a timeout of zero: a held lock makes the run a SKIPPED one.
LockFree(w) == lock = Free

\* The run reads the rules and keeps the ones with an occurrence on its day.
Start(w, d) ==
    /\ pass[w].pc = "idle"
    /\ LockFree(w)
    /\ lock' = w
    /\ Step(w, [Idle EXCEPT !.pc = "remove", !.day = d, !.eligible = Eligible(d),
                            !.due = {r \in Eligible(d) : Natural(r, d)}])
    /\ UNCHANGED <<today, rule, overrides, ledger, edits, faults, lost>>

\* The worker's pass runs for today, a run by hand for a day that has come.
StartPass(w) == w \in Workers /\ Start(w, today)

RunByHand(w) == w \in HandRuns /\ \E d \in 0..today : Start(w, d)

\* DELETE of the days that are skipped or moved away.
RemoveOverridden(w) ==
    /\ pass[w].pc = "remove"
    /\ Step(w, [pass[w] EXCEPT !.pc = "add", !.due = @ \ Removed(@, pass[w].day)])
    /\ UNCHANGED <<today, rule, overrides, ledger, lock, edits, faults, lost>>

\* Mutant of AddOverridden: the check for a date that is due asks about all rules.
AddWhenNoneIsDue(w) ==
    /\ pass[w].pc = "add"
    /\ Step(w, [pass[w] EXCEPT !.pc = "claim",
                               !.due = IF @ = {} THEN Added(pass[w].eligible, pass[w].day) ELSE @])
    /\ UNCHANGED <<today, rule, overrides, ledger, lock, edits, faults, lost>>

\* INSERT of the days that are moved here or added.
AddOverridden(w) ==
    /\ pass[w].pc = "add"
    /\ Step(w, [pass[w] EXCEPT !.pc = "claim", !.due = @ \cup Added(pass[w].eligible, pass[w].day)])
    /\ UNCHANGED <<today, rule, overrides, ledger, lock, edits, faults, lost>>

\* Mutant of Claim: the rows of an earlier pass are not raised.
ClaimNewOnly(w) ==
    /\ pass[w].pc = "claim"
    /\ LET after == Claimed(pass[w].due, pass[w].day)
       IN /\ ledger' = after
          /\ Step(w, [pass[w] EXCEPT !.pc = "raise", !.work = DOMAIN after \ DOMAIN ledger])
    /\ UNCHANGED <<today, rule, overrides, lock, edits, faults, lost>>

\* The INSERT skips what the ledger has; the cursor takes the day's rows without a task.
Claim(w) ==
    /\ pass[w].pc = "claim"
    /\ LET after == Claimed(pass[w].due, pass[w].day)
       IN /\ ledger' = after
          /\ Step(w, [pass[w] EXCEPT !.pc = "raise", !.work = Unlinked(after, pass[w].day)])
    /\ UNCHANGED <<today, rule, overrides, lock, edits, faults, lost>>

\* sp_task_open commits the task of the next row.
OpenTask(w) ==
    /\ pass[w].pc = "raise"
    /\ \E k \in pass[w].work :
         /\ k[1] \notin Broken
         /\ ledger' = [ledger EXCEPT ![k].raised = @ + 1]
         /\ Step(w, [pass[w] EXCEPT !.pc = "link", !.row = {k}])
    /\ UNCHANGED <<today, rule, overrides, lock, edits, faults, lost>>

\* Mutant of Link: the cursor is not moved on.
LinkAgain(w) ==
    /\ pass[w].pc = "link"
    /\ \E k \in pass[w].row :
         /\ ledger' = [ledger EXCEPT ![k].linked = TRUE, ![k].error = FALSE]
         /\ Step(w, [pass[w] EXCEPT !.pc = "raise", !.work = @ \ {k}])
    /\ UNCHANGED <<today, rule, overrides, lock, edits, faults, lost>>

\* The ledger gets the task id.
Link(w) ==
    /\ pass[w].pc = "link"
    /\ \E k \in pass[w].row :
         /\ ledger' = [ledger EXCEPT ![k].linked = TRUE, ![k].error = FALSE]
         /\ Step(w, [pass[w] EXCEPT !.pc = "raise", !.work = @ \ {k}, !.row = {}])
    /\ UNCHANGED <<today, rule, overrides, lock, edits, faults, lost>>

\* The task is refused: the CATCH of the row records the error and goes on.
OpenRefused(w) ==
    /\ pass[w].pc = "raise"
    /\ \E k \in pass[w].work :
         /\ IF k[1] \in Broken THEN faults' = faults ELSE faults < MaxFaults /\ faults' = faults + 1
         /\ ledger' = [ledger EXCEPT ![k].error = TRUE]
         /\ Step(w, [pass[w] EXCEPT !.work = @ \ {k}])
    /\ UNCHANGED <<today, rule, overrides, lock, edits, lost>>

Release(w) ==
    /\ pass[w].pc = "raise"
    /\ pass[w].work = {}
    /\ lock' = Free
    /\ Step(w, Ended(w))
    /\ UNCHANGED <<today, rule, overrides, ledger, edits, faults, lost>>

\* A statement after the commit of sp_task_open fails: the CATCH of the row.
LinkFails(w) ==
    /\ pass[w].pc = "link"
    /\ faults < MaxFaults
    /\ faults' = faults + 1
    /\ \E k \in pass[w].row :
         /\ ledger' = [ledger EXCEPT ![k].error = TRUE]
         /\ lost' = [lost EXCEPT ![k] = @ + 1]
         /\ Step(w, [pass[w] EXCEPT !.pc = "raise", !.work = @ \ {k}, !.row = {}])
    /\ UNCHANGED <<today, rule, overrides, lock, edits>>

\* A statement before the cursor fails: the outer CATCH gives the lock back.
PassFails(w) ==
    /\ pass[w].pc \in {"remove", "add", "claim"}
    /\ faults < MaxFaults
    /\ faults' = faults + 1
    /\ lock' = Free
    /\ Step(w, Ended(w))
    /\ UNCHANGED <<today, rule, overrides, ledger, edits, lost>>

\* The command times out or is cancelled: no CATCH runs, the session keeps its lock.
Interrupt(w) ==
    /\ pass[w].pc \notin {"idle", "done"}
    /\ faults < MaxFaults
    /\ faults' = faults + 1
    /\ lost' = [k \in Keys |-> IF k \in pass[w].row THEN lost[k] + 1 ELSE lost[k]]
    /\ Step(w, Ended(w))
    /\ UNCHANGED <<today, rule, overrides, ledger, lock, edits>>

\* The session is closed, or reset when its pooled connection is used again.
SessionEnds(w) ==
    /\ pass[w].pc \in {"idle", "done"}
    /\ lock = w
    /\ lock' = Free
    /\ UNCHANGED <<today, rule, overrides, ledger, pass, edits, faults, lost>>

Proceed(w) == \/ RemoveOverridden(w) \/ AddOverridden(w) \/ Claim(w)
              \/ OpenTask(w) \/ Link(w) \/ OpenRefused(w) \/ Release(w) \/ SessionEnds(w)

-----------------------------------------------------------------------------
(* Edits of the schedule *)

Edit == edits < MaxEdits /\ edits' = edits + 1

\* sp_pm_sync_instance_schedule_rules: a new stream starts today, a stated first
\* occurrence moves the anchor, and a stream that is no longer scheduled retires.
SyncRule(r) ==
    /\ Edit
    /\ \/ /\ rule[r].state = "None"
          /\ rule' = [rule EXCEPT ![r] = [state |-> "Active", anchor |-> today, end |-> LastDay,
                                          inForce |-> TRUE]]
       \/ /\ rule[r].state = "Active"
          /\ \E d \in Days : rule' = [rule EXCEPT ![r].anchor = d]
       \/ /\ rule[r].state = "Active"
          /\ rule' = [rule EXCEPT ![r].state = "Retired"]
    /\ UNCHANGED <<today, overrides, ledger, lock, pass, faults, lost>>

\* The instance or the obligation is deactivated or activated again.
ToggleInForce(r) ==
    /\ Edit
    /\ rule' = [rule EXCEPT ![r].inForce = ~@]
    /\ UNCHANGED <<today, overrides, ledger, lock, pass, faults, lost>>

\* Edit Schedule on a shown occurrence: within the frequency period of the date it
\* is shown on, which is also what the dialog sends as its original date.  A
\* plain occurrence of the past and a daily one cannot be edited.
MoveOccurrence(r) ==
    /\ Edit
    /\ Period > 1
    /\ \E from \in Shown(r), to \in Days :
         /\ from >= today \/ from \notin Occurrences(r)
         /\ from \div Period = to \div Period
         /\ overrides' = overrides \cup {[rule |-> r, type |-> "Moved", from |-> from, to |-> to]}
    /\ UNCHANGED <<today, rule, ledger, lock, pass, faults, lost>>

Tick ==
    /\ today < LastDay
    /\ today' = today + 1
    /\ UNCHANGED <<rule, overrides, ledger, lock, pass, edits, faults, lost>>

-----------------------------------------------------------------------------
Init ==
    /\ today = 0
    /\ \E anchor, end \in [Rules -> Days], state \in [Rules -> {"None", "Active"}] :
         rule = [r \in Rules |-> [state |-> state[r], anchor |-> anchor[r], end |-> end[r],
                                  inForce |-> TRUE]]
    /\ overrides \in {{}, Legacy}
    /\ ledger = [k \in {} |-> {}]
    /\ lock = Free
    /\ pass = [w \in Runners |-> Idle]
    /\ edits = 0
    /\ faults = 0
    /\ lost = [k \in Keys |-> 0]

Next ==
    \/ \E w \in Runners : \/ StartPass(w) \/ RunByHand(w) \/ Proceed(w)
                          \/ LinkFails(w) \/ PassFails(w) \/ Interrupt(w)
    \/ \E r \in Rules : SyncRule(r) \/ ToggleInForce(r) \/ MoveOccurrence(r)
    \/ Tick

Spec == Init /\ [][Next]_vars

\* The server runs a procedure to its end, the pool resets a connection it uses
\* again, and the worker's loop starts a pass on every interval and survives a
\* failed one.  Nobody has to run it by hand, and the day may be long.
FairSpec == /\ Spec
            /\ \A w \in Runners : WF_vars(Proceed(w))
            /\ \A w \in Workers : WF_vars(StartPass(w))

-----------------------------------------------------------------------------
(* Properties *)

PassRow == [pc : {"idle", "done", "remove", "add", "claim", "raise", "link"},
            day : Days, eligible : SUBSET Rules, due : SUBSET Rules, work : SUBSET Keys, row : SUBSET Keys]

\* Types; a run works on rows of its own day that the ledger has, and it has a
\* row in hand between sp_task_open and the UPDATE (schedule_occurrence_task).
TypeOK ==
    /\ today \in Days
    /\ rule \in [Rules -> RuleRow]
    /\ overrides \subseteq Override
    /\ DOMAIN ledger \subseteq Keys
    /\ ledger \in [DOMAIN ledger -> LedgerRow]
    /\ lock \in Runners \cup {Free}
    /\ pass \in [Runners -> PassRow]
    /\ \A w \in Runners : /\ pass[w].work \subseteq DOMAIN ledger
                          /\ pass[w].row \subseteq pass[w].work
                          /\ pass[w].pc = "link" <=> pass[w].row # {}
    /\ edits \in 0..MaxEdits
    /\ faults \in 0..MaxFaults
    /\ lost \in [Keys -> Nat]

\* "A second API instance skips instead of raising twice" and "a date is claimed
\* once, ever": a claimed date has raised as many tasks as were lost between
\* sp_task_open and the UPDATE, and one more when it has or is about to have its
\* task, whatever runs overlap, stop and retry (sp_schedule_obligation_tasks_generate).
InHand(k) == \E w \in Runners : k \in pass[w].row

RaisedOnce ==
    \A k \in DOMAIN ledger :
        ledger[k].raised = lost[k] + IF ledger[k].linked \/ InHand(k) THEN 1 ELSE 0

\* A claim is never given up and a row with its task is never touched again,
\* whatever happens to the rule afterwards (the UPDATE of the row and its CATCH).
LedgerIsFinal ==
    [][\A k \in DOMAIN ledger :
          k \in DOMAIN ledger' /\ (ledger[k].linked => ledger'[k] = ledger[k])]_vars

\* Overrides of the rule the two computations agree on: a move names a date the
\* rule has, once, and nothing is put outside the rule's dates.
Clean(r) ==
    \A o \in {o \in overrides : o.rule = r} :
        /\ o.to \in rule[r].anchor..rule[r].end
        /\ o.type = "Moved" => /\ o.from \in Kept(r)
                               /\ \A p \in Moves(r, o.from) : p = o

\* The generator claims on a day exactly what the calendar shows on it, after
\* any edits that leave the overrides clean (449 section 4 against
\* QueryCalendarEventsAsync, of which it repeats the computation).
MatchesCalendar ==
    \A r \in Rules, d \in Days :
        Clean(r) => (r \in DueOn(d) <=> rule[r].inForce /\ d \in Shown(r))

\* An occurrence of the day is claimed while the day lasts, though runs fail,
\* skip each other or leave their lock behind (TaskNotificationWorker's passes).
DueIsClaimed ==
    \A r \in Rules, d \in Days :
        (today = d /\ r \in DueOn(d)) ~>
            (<<r, d>> \in DOMAIN ledger \/ today # d \/ r \notin DueOn(d))

\* "Retried on the next pass of the same day": a claimed row gets its task while
\* the day lasts, also beside a row whose task is always refused.
Waiting(k) == today = k[2] /\ k \in Unlinked(ledger, today)

RowSettles == \A k \in Keys : k[1] \notin Broken => (Waiting(k) ~> ~Waiting(k))
=============================================================================
