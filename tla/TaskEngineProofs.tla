--------------------------- MODULE TaskEngineProofs ---------------------------
(***************************************************************************)
(* Safety of the task engine for any number of tasks, subjects and         *)
(* connections, and for any subset of its procedures.                      *)
(*                                                                         *)
(* One inductive invariant, IInv, carries all results: the type invariant, *)
(* what each connection's local variables still guarantee while other      *)
(* connections run (Pending), and the properties themselves.               *)
(***************************************************************************)
EXTENDS TaskEngine, TLAPS

\* The locals l of a connection between the reads and the writes of a call.
\* Whatever the others do meanwhile: the task it works on exists and a target
\* is chosen; a call that is to stamp closed_at read a status that is in the
\* task's log and that the two-gate guard accepted; once the log row is
\* written, the target is in the log; and a sync that is about to report
\* progress has seen a closed task.
PendingAt(l) ==
  /\ l.pc \notin {"idle", "next"} => l.task \in Tasks /\ Exists(l.task)
  /\ l.pc \in {"log", "update"} => l.to \in Statuses
  /\ l.pc \in {"log", "update"} /\ l.call \in {"close", "complete"}
       => /\ l.to = "Closed"
          /\ TwoGatePassed(task[l.task].type, l.from)
          /\ l.from \in Logged(l.task)
  /\ l.pc = "next" => l.call = "sweep"
  /\ l.pc \in {"log", "update"} /\ l.call = "sweep" => l.to = "Escalated"
  /\ l.pc = "update" => l.to \in Logged(l.task)
  /\ l.pc = "report" /\ l.seen \in {"InProgress", "Completed"}
       => \E t \in Tasks :
             /\ Exists(t) /\ task[t].closed
             /\ task[t].subject = task[l.task].subject /\ task[t].parent = NoTask
  /\ \A r \in l.batch : r[1] \in Tasks /\ Exists(r[1])

Pending == \A s \in Sessions : PendingAt(sess[s])

IInv ==
  /\ TypeOK
  /\ Pending
  /\ StatusIsLogged
  /\ TwoGateClosure
  /\ OneOpenImplementation
  /\ ReportedProgressIsReal

-----------------------------------------------------------------------------
(* Facts about logs *)

\* The statuses a sequence of log rows reaches.
Reached(rows) == {rows[i].to : i \in DOMAIN rows}

\* An appended row adds its target and keeps the statuses reached before.
LEMMA ReachedAppend ==
  ASSUME NEW rows \in Seq(LogRow), NEW row \in LogRow
  PROVE  /\ Append(rows, row) \in Seq(LogRow)
         /\ Reached(rows) \subseteq Reached(Append(rows, row))
         /\ row.to \in Reached(Append(rows, row))
<1>1. Append(rows, row) \in Seq(LogRow) BY SMT
<1>2. ASSUME NEW i \in DOMAIN rows
      PROVE  i \in DOMAIN Append(rows, row) /\ Append(rows, row)[i] = rows[i]
  BY SMT
<1>3. /\ Len(rows) + 1 \in DOMAIN Append(rows, row)
      /\ Append(rows, row)[Len(rows) + 1] = row
  BY SMT
<1>4. Reached(rows) \subseteq Reached(Append(rows, row)) BY <1>2 DEF Reached
<1>5. row.to \in Reached(Append(rows, row)) BY <1>3 DEF Reached
<1> QED BY <1>1, <1>4, <1>5

\* The same for several rows, as an edit writes them.
LEMMA ReachedConcat ==
  ASSUME NEW rows \in Seq(LogRow), NEW more \in Seq(LogRow)
  PROVE  /\ rows \o more \in Seq(LogRow)
         /\ Reached(rows) \subseteq Reached(rows \o more)
         /\ more /= <<>> => more[Len(more)].to \in Reached(rows \o more)
<1>1. rows \o more \in Seq(LogRow) BY SMT
<1>2. ASSUME NEW i \in DOMAIN rows
      PROVE  i \in DOMAIN (rows \o more) /\ (rows \o more)[i] = rows[i]
  BY SMT
<1>3. ASSUME more /= <<>>
      PROVE  /\ Len(rows) + Len(more) \in DOMAIN (rows \o more)
             /\ (rows \o more)[Len(rows) + Len(more)] = more[Len(more)]
  BY <1>3, SMT
<1>4. Reached(rows) \subseteq Reached(rows \o more) BY <1>2 DEF Reached
<1>5. more /= <<>> => more[Len(more)].to \in Reached(rows \o more)
  BY <1>3 DEF Reached
<1> QED BY <1>1, <1>4, <1>5

\* A new task's log holds the status it starts with.
LEMMA NewTaskLogged ==
  ASSUME NEW owned \in BOOLEAN
  PROVE  /\ NewTaskLog(owned) \in Seq(LogRow)
         /\ (IF owned THEN "Assigned" ELSE "Open") \in Reached(NewTaskLog(owned))
<1> DEFINE opened == [from |-> NoStatus, to |-> "Open"]
           taken  == [from |-> "Open", to |-> "Assigned"]
<1>1. opened \in LogRow /\ taken \in LogRow BY DEF LogRow, Statuses, NoStatus
<1>2. CASE owned
  <2>1. NewTaskLog(owned) = <<opened, taken>> BY <1>2 DEF NewTaskLog
  <2>2. <<opened, taken>> \in Seq(LogRow) BY <1>1, SMT
  <2>3. 2 \in DOMAIN <<opened, taken>> /\ <<opened, taken>>[2] = taken BY SMT
  <2>4. taken.to = "Assigned" OBVIOUS
  <2> HIDE DEF opened, taken
  <2> QED BY <1>2, <2>1, <2>2, <2>3, <2>4 DEF Reached
<1>3. CASE ~owned
  <2>1. NewTaskLog(owned) = <<opened>> BY <1>3 DEF NewTaskLog
  <2>2. <<opened>> \in Seq(LogRow) BY <1>1, SMT
  <2>3. 1 \in DOMAIN <<opened>> /\ <<opened>>[1] = opened BY SMT
  <2>4. opened.to = "Open" OBVIOUS
  <2> HIDE DEF opened, taken
  <2> QED BY <1>3, <2>1, <2>2, <2>3, <2>4 DEF Reached
<1> QED BY <1>2, <1>3

\* What an edit writes: log rows, the last of which is the status it sets.
LEMMA EditMovesAreRows ==
  ASSUME NEW from \in Statuses \cup {NoStatus}, NEW own \in BOOLEAN,
         NEW to \in Statuses \cup {NoStatus}
  PROVE  EditMoves(from, own, to) \in Seq(LogRow)
<1> DEFINE taken == IF own /\ from = "Open" THEN "Assigned" ELSE from
           first == IF taken /= from THEN <<[from |-> from, to |-> taken]>> ELSE <<>>
           second == IF to /= NoStatus THEN <<[from |-> taken, to |-> to]>> ELSE <<>>
<1>1. taken \in Statuses \cup {NoStatus} /\ (taken /= from => taken \in Statuses)
  BY DEF Statuses
<1>2. first \in Seq(LogRow)
  <2>1. CASE taken /= from
    <3>1. [from |-> from, to |-> taken] \in LogRow BY <1>1, <2>1 DEF LogRow
    <3> HIDE DEF taken
    <3> QED BY <3>1, <2>1, SMT
  <2>2. CASE taken = from BY <2>2
  <2> QED BY <2>1, <2>2
<1>3. second \in Seq(LogRow)
  <2>1. CASE to /= NoStatus
    <3>1. [from |-> taken, to |-> to] \in LogRow BY <1>1, <2>1 DEF LogRow
    <3> HIDE DEF taken
    <3> QED BY <3>1, <2>1, SMT
  <2>2. CASE to = NoStatus BY <2>2
  <2> QED BY <2>1, <2>2
<1>4. EditMoves(from, own, to) = first \o second BY DEF EditMoves
<1> HIDE DEF first, second
<1> QED BY <1>2, <1>3, <1>4, SMT

-----------------------------------------------------------------------------
(* What every step keeps *)

\* A task that exists keeps existing with its type, subject and parent, a set
\* closed_at stays set, and its log only grows.
KeepsTask(t) ==
  /\ Exists(t) => /\ Exists(t)'
                  /\ task'[t].type = task[t].type
                  /\ task'[t].subject = task[t].subject
                  /\ task'[t].parent = task[t].parent
                  /\ task[t].closed => task'[t].closed
                  /\ Logged(t) \subseteq Logged(t)'

Keeps == \A t \in Tasks : KeepsTask(t)

\* The steps of session s that write none of task, log, late and actionState.
LocalStep(s) ==
  \/ Begin(s) \/ CloseRead(s) \/ RollBackEdit(s) \/ SyncRead(s) \/ SyncLost(s)
  \/ \E t \in Tasks, from \in Statuses : SweepFetch(s, t, from)

\* The steps that write task or log.
RowStep(s) ==
  \/ LogTransition(s)
  \/ CommitTransition(s) \/ CommitClose(s) \/ CommitComplete(s) \/ CommitSweep(s)
  \/ ApplyEdit(s)
  \/ \E c \in Tasks : \E mandatory, owned \in BOOLEAN : CommitChild(s, c, mandatory, owned)

\* Next, by what its steps write.
LEMMA NextCases ==
  Next <=> \/ \E t \in Tasks : FallDue(t)
           \/ \E t \in Tasks, type \in TaskTypes, x \in Subjects, owned \in BOOLEAN :
                OpenTask(t, type, x, owned)
           \/ \E s \in Sessions : LocalStep(s) \/ RowStep(s) \/ SyncWrite(s)
BY Zenon DEF Next, Continue, LocalStep, RowStep

\* A local step of s leaves it with locals that are still a pending call's.
LocalEffect(s) ==
  \E l \in Session :
    /\ PendingAt(l)
    /\ sess' = [sess EXCEPT ![s] = l]
    /\ UNCHANGED <<task, log, late, actionState>>

LEMMA FreeIsPending == Free \in Session /\ PendingAt(Free)
<1>1. Free \in Session BY DEF Free, Session, ActionStates, NoStatus
<1>2. Free.pc = "idle" /\ Free.batch = {} BY DEF Free
<1> QED BY <1>1, <1>2 DEF PendingAt

\* The calls that ask for a move start with such locals.
LEMMA AskingIsPending ==
  ASSUME TypeOK, StatusIsLogged, NEW c \in CallNames, NEW t \in Tasks, Exists(t),
         NEW to \in Statuses,
         c \in {"close", "complete"} =>
           to = "Closed" /\ TwoGatePassed(task[t].type, task[t].status),
         c /= "sweep"
  PROVE  Asking(c, t, task[t].status, to) \in Session
         /\ PendingAt(Asking(c, t, task[t].status, to))
<1> DEFINE l == Asking(c, t, task[t].status, to)
<1>1. /\ l.pc = "log" /\ l.task = t /\ l.to = to /\ l.call = c
      /\ l.from = task[t].status /\ l.batch = {}
      /\ l.own = FALSE /\ l.mand = "keep"
  BY DEF Asking, Free
<1>2. task[t].status \in Statuses \cup {NoStatus} BY DEF TypeOK, TaskRow
<1>3. l \in Session BY <1>2 DEF Asking, Free, Session, ActionStates
<1>4. task[t].status \in Logged(t) BY DEF StatusIsLogged
<1> HIDE DEF l
<1>5. PendingAt(l) BY <1>1, <1>4 DEF PendingAt
<1> QED BY <1>3, <1>5 DEF l

LEMMA BeginIsLocal ==
  ASSUME TypeOK, StatusIsLogged, NEW s \in Sessions, Begin(s)
  PROVE  LocalEffect(s)
<1>1. ASSUME NEW t \in Tasks, BeginAssign(s, t) PROVE LocalEffect(s)
  <2>1. task[t].status = "Open" /\ Exists(t)
    BY <1>1 DEF BeginAssign, Exists, NoStatus
  <2>2. /\ Asking("assign", t, "Open", "Assigned") \in Session
        /\ PendingAt(Asking("assign", t, "Open", "Assigned"))
    BY <2>1, AskingIsPending DEF CallNames, Statuses
  <2> QED BY <1>1, <2>2 DEF BeginAssign, Start, LocalEffect
<1>2. ASSUME NEW t \in Tasks, BeginClose(s, t) PROVE LocalEffect(s)
  <2>1. /\ Asking("close", t, task[t].status, "Closed") \in Session
        /\ PendingAt(Asking("close", t, task[t].status, "Closed"))
    BY <1>2, AskingIsPending DEF BeginClose, CallNames, Statuses
  <2> QED BY <1>2, <2>1 DEF BeginClose, Start, LocalEffect
<1>3. ASSUME NEW t \in Tasks, BeginComplete(s, t) PROVE LocalEffect(s)
  <2> DEFINE l == [Free EXCEPT !.call = "complete", !.pc = "close", !.task = t]
  <2>1. l \in Session BY DEF Free, Session, ActionStates, CallNames
  <2>2. l.pc = "close" /\ l.task = t /\ l.batch = {} BY DEF Free
  <2> HIDE DEF l
  <2>3. PendingAt(l) BY <1>3, <2>2 DEF PendingAt, BeginComplete
  <2> QED BY <1>3, <2>1, <2>3 DEF BeginComplete, Start, LocalEffect, l
<1>4. ASSUME NEW t \in Tasks, BeginChild(s, t) PROVE LocalEffect(s)
  <2> DEFINE l == [Free EXCEPT !.call = "child", !.pc = "create", !.task = t]
  <2>1. l \in Session BY DEF Free, Session, ActionStates, CallNames
  <2>2. l.pc = "create" /\ l.task = t /\ l.batch = {} BY DEF Free
  <2> HIDE DEF l
  <2>3. PendingAt(l) BY <1>4, <2>2 DEF PendingAt, BeginChild
  <2> QED BY <1>4, <2>1, <2>3 DEF BeginChild, Start, LocalEffect, l
<1>5. ASSUME NEW t \in Tasks, NEW to \in Targets, NEW role \in Roles, NEW r \in BOOLEAN,
             BeginTransition(s, t, to, role, r)
      PROVE  LocalEffect(s)
  <2>1. to \in Statuses BY TargetsAssumption
  <2>2. /\ Asking("transition", t, task[t].status, to) \in Session
        /\ PendingAt(Asking("transition", t, task[t].status, to))
    BY <1>5, <2>1, AskingIsPending DEF BeginTransition, CallNames
  <2> QED BY <1>5, <2>2 DEF BeginTransition, Start, LocalEffect
<1>6. ASSUME NEW t \in Tasks, NEW to \in Targets \cup {NoStatus}, NEW role \in Roles,
             NEW own \in BOOLEAN, NEW mand \in {"keep", "yes", "no"},
             BeginEdit(s, t, mand, own, to, role)
      PROVE  LocalEffect(s)
  <2> DEFINE l == [Free EXCEPT !.call = "edit", !.pc = "apply", !.task = t,
                               !.to = to, !.mand = mand, !.own = own]
  <2>1. to \in Statuses \cup {NoStatus} BY TargetsAssumption
  <2>2. l \in Session BY <2>1 DEF Free, Session, ActionStates, CallNames
  <2>3. l.pc = "apply" /\ l.task = t /\ l.batch = {} BY DEF Free
  <2> HIDE DEF l
  <2>4. PendingAt(l) BY <1>6, <2>3 DEF PendingAt, BeginEdit
  <2> QED BY <1>6, <2>2, <2>4 DEF BeginEdit, Start, LocalEffect, l
<1>7. ASSUME BeginSweep(s) PROVE LocalEffect(s)
  <2> DEFINE found == {t \in Tasks : Overdue(t)}
             l == [Free EXCEPT !.call = "sweep", !.pc = "next",
                               !.batch = {<<t, task[t].status>> : t \in found}]
  <2>1. ASSUME NEW t \in found
        PROVE  t \in Tasks /\ task[t].status \in Statuses /\ Exists(t)
    BY DEF Overdue, SweepStatuses, Statuses, Exists, NoStatus
  <2> HIDE DEF found
  <2>2. {<<t, task[t].status>> : t \in found} \in SUBSET (Tasks \X Statuses)
    BY <2>1
  <2>3. l \in Session BY <2>2 DEF Free, Session, ActionStates, CallNames
  <2>4. l.pc = "next" /\ l.call = "sweep" /\ l.batch = {<<t, task[t].status>> : t \in found} BY DEF Free
  <2>5. \A r \in l.batch : r[1] \in Tasks /\ Exists(r[1]) BY <2>1, <2>4
  <2>6. Start(s, "sweep", l) BY <1>7 DEF BeginSweep, found
  <2> HIDE DEF l
  <2>7. PendingAt(l) BY <2>4, <2>5 DEF PendingAt
  <2> QED BY <2>3, <2>6, <2>7 DEF Start, LocalEffect
<1> QED BY <1>1, <1>2, <1>3, <1>4, <1>5, <1>6, <1>7 DEF Begin

LEMMA LocalStepIsLocal ==
  ASSUME TypeOK, Pending, StatusIsLogged, NEW s \in Sessions, LocalStep(s)
  PROVE  LocalEffect(s)
<1>1. CASE Begin(s) BY <1>1, BeginIsLocal
<1>2. CASE CloseRead(s)
  <2> DEFINE t == sess[s].task
             l == Asking("complete", t, task[t].status, "Closed")
  <2>1. t \in Tasks /\ Exists(t) BY <1>2 DEF CloseRead, Pending, PendingAt
  <2>2. CASE /\ TwoGatePassed(task[t].type, task[t].status)
             /\ TransitionAccepted(task[t].status, "Closed", "Other", TRUE)
    <3>1. l \in Session /\ PendingAt(l)
      BY <2>1, <2>2, AskingIsPending DEF CallNames, Statuses
    <3> QED BY <1>2, <2>2, <3>1 DEF CloseRead, LocalEffect
  <2>3. CASE ~(/\ TwoGatePassed(task[t].type, task[t].status)
               /\ TransitionAccepted(task[t].status, "Closed", "Other", TRUE))
    BY <1>2, <2>3, FreeIsPending DEF CloseRead, LocalEffect
  <2> QED BY <2>2, <2>3
<1>3. CASE RollBackEdit(s) BY <1>3, FreeIsPending DEF RollBackEdit, LocalEffect
<1>4. CASE SyncLost(s) BY <1>4, FreeIsPending DEF SyncLost, LocalEffect
<1>5. ASSUME NEW t \in Tasks, NEW from \in Statuses, SweepFetch(s, t, from)
      PROVE  LocalEffect(s)
  <2> DEFINE rest == [sess[s] EXCEPT !.batch = @ \ {<<t, from>>}]
             l == [rest EXCEPT !.pc = "log", !.task = t, !.from = from,
                               !.to = "Escalated"]
  <2>1. sess[s] \in Session /\ sess[s].pc = "next" /\ sess[s].call = "sweep"
    BY <1>5 DEF TypeOK, SweepFetch, Pending, PendingAt
  <2>2. Exists(t) BY <1>5 DEF SweepFetch, Pending, PendingAt
  <2>3. \A r \in sess[s].batch : r[1] \in Tasks /\ Exists(r[1])
    BY DEF Pending, PendingAt
  <2>4. rest \in Session BY <2>1 DEF Session
  <2>5. rest.pc = "next" /\ rest.call = "sweep" /\ rest.batch \subseteq sess[s].batch
    BY <2>1 DEF Session
  <2>6. CASE TransitionAccepted(from, "Escalated", "Other", TRUE)
    <3>1. l \in Session BY <2>1 DEF Session, Statuses
    <3>2. /\ l.pc = "log" /\ l.task = t /\ l.to = "Escalated"
          /\ l.call = "sweep" /\ l.batch \subseteq sess[s].batch
      BY <2>1 DEF Session
    <3>3. sess' = [sess EXCEPT ![s] = l] BY <1>5, <2>6 DEF SweepFetch
    <3> HIDE DEF l
    <3>4. PendingAt(l) BY <2>2, <2>3, <3>2 DEF PendingAt, Statuses
    <3> QED BY <1>5, <3>1, <3>3, <3>4 DEF SweepFetch, LocalEffect
  <2>7. CASE ~TransitionAccepted(from, "Escalated", "Other", TRUE)
    <3>1. sess' = [sess EXCEPT ![s] = IF rest.batch = {} THEN Free ELSE rest]
      BY <1>5, <2>7 DEF SweepFetch
    <3> HIDE DEF rest
    <3>2. PendingAt(rest)
      BY <2>3, <2>5 DEF PendingAt
    <3> QED BY <1>5, <2>4, <3>1, <3>2, FreeIsPending DEF SweepFetch, LocalEffect
  <2> QED BY <2>6, <2>7
<1>6. CASE SyncRead(s)
  <2> DEFINE x == task[sess[s].task].subject
             l == [sess[s] EXCEPT !.pc = "report", !.seen = SyncedState(x)]
  <2>1. sess[s] \in Session /\ PendingAt(sess[s]) /\ sess[s].pc = "sync"
    BY <1>6 DEF TypeOK, Pending, SyncRead
  <2>2. SyncedState(x) \in ActionStates BY DEF SyncedState, ActionStates
  <2>3. l \in Session BY <2>1, <2>2 DEF Session
  <2>4. /\ l.pc = "report" /\ l.task = sess[s].task /\ l.batch = sess[s].batch
        /\ l.seen = SyncedState(x)
    BY <2>1 DEF Session
  <2>5. SyncedState(x) \in {"InProgress", "Completed"}
          => \E t \in Tasks : /\ Exists(t) /\ task[t].closed
                              /\ task[t].subject = x /\ task[t].parent = NoTask
    BY DEF SyncedState, SourceTasks
  <2>6. sess' = [sess EXCEPT ![s] = l] BY <1>6, <2>1 DEF SyncRead, TypeOK
  <2> HIDE DEF l
  <2>7. PendingAt(l) BY <2>1, <2>4, <2>5 DEF PendingAt
  <2> QED BY <1>6, <2>3, <2>6, <2>7 DEF SyncRead, LocalEffect
<1> QED BY <1>1, <1>2, <1>3, <1>4, <1>5, <1>6 DEF LocalStep

-----------------------------------------------------------------------------
(* Steps that write task or log *)

\* What a step that writes a row of practice_task or of the log leaves behind:
\* well-typed rows, nothing lost (Keeps), and the three properties.
RowEffect ==
  /\ task' \in [Tasks -> TaskRow]
  /\ log' \in [Tasks -> Seq(LogRow)]
  /\ Keeps
  /\ StatusIsLogged'
  /\ TwoGateClosure'
  /\ OneOpenImplementation'

\* Two-gate closure and the dedup of Implementation tasks survive any step
\* that keeps what exists and sets closed_at only on a task that passed a gate.
LEMMA RowsKept ==
  ASSUME TypeOK, StatusIsLogged, TwoGateClosure, OneOpenImplementation,
         NEW t \in Tasks, Exists(t), NEW row \in TaskRow, NEW rows \in Seq(LogRow),
         task' = [task EXCEPT ![t] = row],
         log' = [log EXCEPT ![t] = rows],
         row.type = task[t].type, row.subject = task[t].subject,
         row.parent = task[t].parent, row.status /= NoStatus,
         task[t].closed => row.closed,
         Reached(log[t]) \subseteq Reached(rows),
         row.status \in Reached(rows),
         row.closed /\ ~task[t].closed /\ row.type = "Implementation"
           => Reached(rows) \cap GateStatuses /= {}
  PROVE  RowEffect
<1>1. task' \in [Tasks -> TaskRow] /\ log' \in [Tasks -> Seq(LogRow)]
  BY DEF TypeOK
<1>2. task'[t] = row /\ log'[t] = rows BY DEF TypeOK
<1>3. \A u \in Tasks : u /= t => task'[u] = task[u] /\ log'[u] = log[u]
  BY DEF TypeOK
<1>4. \A u \in Tasks : Logged(u) = Reached(log[u]) /\ Logged(u)' = Reached(log'[u])
  BY DEF Logged, Reached
<1>5. Keeps
  <2> SUFFICES ASSUME NEW u \in Tasks PROVE KeepsTask(u) BY DEF Keeps
  <2>1. CASE u = t BY <2>1, <1>2, <1>4 DEF KeepsTask, Exists
  <2>2. CASE u /= t BY <2>2, <1>3, <1>4 DEF KeepsTask, Exists
  <2> QED BY <2>1, <2>2
<1>6. StatusIsLogged'
  <2> SUFFICES ASSUME NEW u \in Tasks, Exists(u)' PROVE task'[u].status \in Reached(log'[u])
    BY <1>4 DEF StatusIsLogged
  <2>1. CASE u = t BY <2>1, <1>2
  <2>2. CASE u /= t BY <2>2, <1>3, <1>4 DEF StatusIsLogged, Exists
  <2> QED BY <2>1, <2>2
<1>7. TwoGateClosure'
  <2> SUFFICES ASSUME NEW u \in Tasks, task'[u].closed, task'[u].type = "Implementation"
               PROVE  Reached(log'[u]) \cap GateStatuses /= {}
    BY <1>4 DEF TwoGateClosure
  <2>1. CASE u = t /\ task[t].closed
    <3>1. Reached(log[t]) \cap GateStatuses /= {}
      BY <2>1, <1>2, <1>4 DEF TwoGateClosure
    <3> QED BY <2>1, <3>1, <1>2
  <2>2. CASE u = t /\ ~task[t].closed BY <2>2, <1>2
  <2>3. CASE u /= t BY <2>3, <1>3, <1>4 DEF TwoGateClosure
  <2> QED BY <2>1, <2>2, <2>3
<1>8. OneOpenImplementation'
  <2>1. ASSUME NEW u \in Tasks, NEW x \in Subjects, OpenImplementation(u, x)'
        PROVE  OpenImplementation(u, x)
    <3>1. task[t].closed \in BOOLEAN /\ row.closed \in BOOLEAN BY DEF TypeOK, TaskRow
    <3>2. CASE u = t BY <2>1, <3>1, <3>2, <1>2 DEF OpenImplementation
    <3>3. CASE u /= t BY <2>1, <3>3, <1>3 DEF OpenImplementation, Exists
    <3> QED BY <3>2, <3>3
  <2> QED BY <2>1 DEF OneOpenImplementation
<1> QED BY <1>1, <1>5, <1>6, <1>7, <1>8 DEF RowEffect

\* So do they when a row is added that was not there.
LEMMA RowAdded ==
  ASSUME TypeOK, StatusIsLogged, TwoGateClosure, OneOpenImplementation,
         NEW t \in Tasks, ~Exists(t), NEW type \in TaskTypes, NEW x \in Subjects,
         NEW parent \in Tasks \cup {NoTask}, NEW mandatory \in BOOLEAN,
         NEW owned \in BOOLEAN,
         type = "Implementation" => ~\E u \in Tasks : OpenImplementation(u, x),
         task' = [task EXCEPT ![t] = NewTask(type, x, parent, mandatory, owned)],
         log' = [log EXCEPT ![t] = NewTaskLog(owned)]
  PROVE  RowEffect
<1> DEFINE row == NewTask(type, x, parent, mandatory, owned)
           rows == NewTaskLog(owned)
<1>1. /\ row \in TaskRow /\ ~row.closed /\ row.type = type /\ row.subject = x
      /\ row.status = (IF owned THEN "Assigned" ELSE "Open")
  BY DEF NewTask, TaskRow, Statuses
<1>2. rows \in Seq(LogRow) /\ row.status \in Reached(rows) BY <1>1, NewTaskLogged
<1> HIDE DEF row, rows
<1>3. task' = [task EXCEPT ![t] = row] /\ log' = [log EXCEPT ![t] = rows]
  BY DEF row, rows
<1>4. task' \in [Tasks -> TaskRow] /\ log' \in [Tasks -> Seq(LogRow)]
  BY <1>1, <1>2, <1>3 DEF TypeOK
<1>5. task'[t] = row /\ log'[t] = rows BY <1>3 DEF TypeOK
<1>6. \A u \in Tasks : u /= t => task'[u] = task[u] /\ log'[u] = log[u]
  BY <1>3 DEF TypeOK
<1>7. \A u \in Tasks : Logged(u) = Reached(log[u]) /\ Logged(u)' = Reached(log'[u])
  BY DEF Logged, Reached
<1>8. Keeps
  BY <1>6, <1>7 DEF Keeps, KeepsTask, Exists
<1>9. StatusIsLogged'
  <2> SUFFICES ASSUME NEW u \in Tasks, Exists(u)' PROVE task'[u].status \in Reached(log'[u])
    BY <1>7 DEF StatusIsLogged
  <2>1. CASE u = t BY <2>1, <1>2, <1>5
  <2>2. CASE u /= t BY <2>2, <1>6, <1>7 DEF StatusIsLogged, Exists
  <2> QED BY <2>1, <2>2
<1>10. TwoGateClosure'
  <2> SUFFICES ASSUME NEW u \in Tasks, task'[u].closed, task'[u].type = "Implementation"
               PROVE  Reached(log'[u]) \cap GateStatuses /= {}
    BY <1>7 DEF TwoGateClosure
  <2>1. u /= t BY <1>1, <1>5
  <2> QED BY <2>1, <1>6, <1>7 DEF TwoGateClosure
<1>11. OneOpenImplementation'
  <2> SUFFICES ASSUME NEW u \in Tasks, NEW v \in Tasks, NEW y \in Subjects,
                      OpenImplementation(u, y)', OpenImplementation(v, y)'
               PROVE  u = v
    BY DEF OneOpenImplementation
  <2>1. ASSUME NEW w \in Tasks, w /= t, OpenImplementation(w, y)'
        PROVE  OpenImplementation(w, y)
    BY <2>1, <1>6 DEF OpenImplementation, Exists
  <2>2. ASSUME OpenImplementation(t, y)'
        PROVE  y = x /\ type = "Implementation"
    BY <2>2, <1>1, <1>5 DEF OpenImplementation
  <2>3. CASE u /= t /\ v /= t BY <2>1, <2>3 DEF OneOpenImplementation
  <2>4. CASE u = t /\ v /= t BY <2>1, <2>2, <2>4
  <2>5. CASE u /= t /\ v = t BY <2>1, <2>2, <2>5
  <2> QED BY <2>3, <2>4, <2>5
<1> QED BY <1>4, <1>8, <1>9, <1>10, <1>11 DEF RowEffect

\* What a step of s does to the connections: the others keep their locals and
\* s is left with those of a pending call, or none.
SessionEffect(s) ==
  /\ sess' \in [Sessions -> Session]
  /\ \A q \in Sessions : q /= s => sess'[q] = sess[q]
  /\ PendingAt(sess[s])'

LEMMA FreedSession ==
  ASSUME TypeOK, NEW s \in Sessions, sess' = [sess EXCEPT ![s] = Free]
  PROVE  SessionEffect(s)
<1>1. sess' \in [Sessions -> Session] BY FreeIsPending DEF TypeOK
<1>2. \A q \in Sessions : q /= s => sess'[q] = sess[q] BY DEF TypeOK
<1>3. sess'[s].pc = "idle" /\ sess'[s].batch = {} BY DEF TypeOK, Free
<1>4. PendingAt(sess[s])' BY <1>3 DEF PendingAt
<1> QED BY <1>1, <1>2, <1>4 DEF SessionEffect

\* The append to the transition log.
LEMMA LogTransitionEffect ==
  ASSUME IInv, NEW s \in Sessions, LogTransition(s)
  PROVE  RowEffect /\ SessionEffect(s)
<1> DEFINE t == sess[s].task
<1> USE DEF IInv
<1>0. sess[s] \in Session /\ PendingAt(sess[s]) BY DEF TypeOK, Pending
<1> DEFINE row == [from |-> sess[s].from, to |-> sess[s].to]
           rows == Append(log[t], row)
<1>1. t \in Tasks /\ Exists(t) /\ sess[s].to \in Statuses
  BY <1>0 DEF PendingAt, LogTransition
<1>2. row \in LogRow BY <1>1, <1>0 DEF LogRow, Session
<1>3. log[t] \in Seq(LogRow) /\ task[t] \in TaskRow BY <1>1 DEF TypeOK
<1>4. /\ rows \in Seq(LogRow) /\ Reached(log[t]) \subseteq Reached(rows)
      /\ sess[s].to \in Reached(rows)
  BY <1>2, <1>3, ReachedAppend
<1>5. task' = [task EXCEPT ![t] = task[t]] /\ log' = [log EXCEPT ![t] = rows]
  BY <1>1 DEF LogTransition, TypeOK
<1>6. task[t].status \in Reached(log[t])
  BY <1>1 DEF StatusIsLogged, Logged, Reached
<1> HIDE DEF rows
<1>7. RowEffect
  BY <1>1, <1>3, <1>4, <1>5, <1>6, RowsKept DEF Exists
<1>8. sess' = [sess EXCEPT ![s] = [sess[s] EXCEPT !.pc = "update"]]
  BY <1>0 DEF LogTransition, TypeOK
<1>9. [sess[s] EXCEPT !.pc = "update"] \in Session BY <1>0 DEF Session
<1>10. /\ sess' \in [Sessions -> Session]
       /\ \A q \in Sessions : q /= s => sess'[q] = sess[q]
       /\ sess'[s] = [sess[s] EXCEPT !.pc = "update"]
  BY <1>8, <1>9 DEF TypeOK
<1>11. /\ sess'[s].pc = "update" /\ sess'[s].task = t /\ sess'[s].to = sess[s].to
       /\ sess'[s].call = sess[s].call /\ sess'[s].from = sess[s].from
       /\ sess'[s].batch = sess[s].batch
  BY <1>10, <1>0 DEF Session
<1>12. task' = task /\ log'[t] = rows BY <1>1, <1>5 DEF LogTransition, TypeOK
<1>13. Logged(t) \subseteq Reached(rows) BY <1>4 DEF Logged, Reached
<1>14. PendingAt(sess[s])'
  <2> DEFINE l == sess'[s]
  <2>1. sess[s].pc = "log" BY DEF LogTransition
  <2>2. {log'[t][i].to : i \in DOMAIN log'[t]} = Reached(rows) BY <1>12 DEF Reached
  <2>3. l.task = t /\ t \in Tasks /\ task'[t].status /= NoStatus
    BY <1>1, <1>11, <1>12 DEF Exists
  <2>4. l.pc = "update" /\ l.to \in Statuses /\ l.to \in Reached(rows)
    BY <1>1, <1>4, <1>11
  <2>5. l.call \in {"close", "complete"}
          => /\ l.to = "Closed"
             /\ TwoGatePassed(task'[t].type, l.from)
             /\ l.from \in Reached(rows)
    BY <1>0, <1>11, <1>12, <1>13, <2>1 DEF PendingAt
  <2>6. l.call = "sweep" => l.to = "Escalated" BY <1>0, <1>11, <2>1 DEF PendingAt
  <2>7. \A r \in l.batch : r[1] \in Tasks /\ task'[r[1]].status /= NoStatus
    BY <1>0, <1>11, <1>12 DEF PendingAt, Exists
  <2> HIDE DEF t, l, rows
  <2> QED
    BY <2>2, <2>3, <2>4, <2>5, <2>6, <2>7 DEF PendingAt, Exists, Logged, l
<1> QED BY <1>7, <1>10, <1>14 DEF LogTransition, SessionEffect

\* The UPDATE of practice_task that ends a move, by its four callers.
LEMMA CommitEffect ==
  ASSUME IInv, NEW s \in Sessions,
         \/ CommitTransition(s) \/ CommitClose(s) \/ CommitComplete(s) \/ CommitSweep(s)
  PROVE  RowEffect /\ SessionEffect(s)
<1> DEFINE t == sess[s].task
<1> USE DEF IInv
<1>0. sess[s] \in Session /\ PendingAt(sess[s]) BY DEF TypeOK, Pending
<1>1. /\ t \in Tasks /\ Exists(t) /\ sess[s].to \in Statuses
      /\ sess[s].to \in Reached(log[t])
      /\ log' = [log EXCEPT ![t] = log[t]]
  BY <1>0
  DEF PendingAt, CommitTransition, CommitClose, CommitComplete, CommitSweep,
      Logged, Reached, TypeOK
<1>2. task[t] \in TaskRow /\ log[t] \in Seq(LogRow) BY <1>1 DEF TypeOK
<1>3. sess[s].to /= NoStatus BY <1>1 DEF Statuses, NoStatus
<1>4. ASSUME NEW row \in TaskRow,
             row.status = sess[s].to,
             row.type = task[t].type, row.subject = task[t].subject,
             row.parent = task[t].parent, task[t].closed => row.closed,
             row.closed /\ ~task[t].closed /\ row.type = "Implementation"
               => Reached(log[t]) \cap GateStatuses /= {},
             task' = [task EXCEPT ![t] = row]
      PROVE  RowEffect
  BY <1>1, <1>2, <1>3, <1>4, RowsKept
<1>5. CASE CommitTransition(s)
  <2> DEFINE row == [task[t] EXCEPT !.status = sess[s].to,
                                    !.escalated = @ \/ sess[s].to = "Escalated"]
  <2>1. task' = [task EXCEPT ![t] = row] BY <1>5, <1>1 DEF CommitTransition, TypeOK
  <2>2. /\ row \in TaskRow /\ row.status = sess[s].to /\ row.type = task[t].type
        /\ row.subject = task[t].subject /\ row.parent = task[t].parent
        /\ row.closed = task[t].closed
    BY <1>1, <1>2 DEF TaskRow
  <2> HIDE DEF row
  <2>3. RowEffect BY <1>4, <2>1, <2>2
  <2> QED BY <1>5, <2>3, FreedSession DEF CommitTransition
<1>6. ASSUME sess[s].call \in {"close", "complete"}, sess[s].pc = "update"
      PROVE  /\ sess[s].to = "Closed"
             /\ task[t].type = "Implementation" => Reached(log[t]) \cap GateStatuses /= {}
  <2>1. /\ sess[s].to = "Closed" /\ TwoGatePassed(task[t].type, sess[s].from)
        /\ sess[s].from \in Reached(log[t])
    BY <1>0, <1>6 DEF PendingAt, Logged, Reached
  <2> QED BY <2>1 DEF TwoGatePassed
<1>7. CASE CommitClose(s)
  <2> DEFINE row == [task[t] EXCEPT !.status = "Closed", !.closed = TRUE]
  <2>1. task' = [task EXCEPT ![t] = row] BY <1>7, <1>1 DEF CommitClose, TypeOK
  <2>2. /\ row \in TaskRow /\ row.status = "Closed" /\ row.type = task[t].type
        /\ row.subject = task[t].subject /\ row.parent = task[t].parent
        /\ row.closed
    BY <1>2 DEF TaskRow, Statuses
  <2> HIDE DEF row
  <2>3. RowEffect BY <1>4, <1>6, <1>7, <2>1, <2>2 DEF CommitClose
  <2> QED BY <1>7, <2>3, FreedSession DEF CommitClose
<1>8. CASE CommitComplete(s)
  <2> DEFINE row == [task[t] EXCEPT !.status = "Closed", !.closed = TRUE,
                                    !.completed = TRUE]
  <2>1. task' = [task EXCEPT ![t] = row] BY <1>8, <1>1 DEF CommitComplete, TypeOK
  <2>2. /\ row \in TaskRow /\ row.status = "Closed" /\ row.type = task[t].type
        /\ row.subject = task[t].subject /\ row.parent = task[t].parent
        /\ row.closed
    BY <1>2 DEF TaskRow, Statuses
  <2> HIDE DEF row
  <2>3. RowEffect BY <1>4, <1>6, <1>8, <2>1, <2>2 DEF CommitComplete
  <2>4. sess' = [sess EXCEPT ![s] = [sess[s] EXCEPT !.pc = "sync"]]
    BY <1>8, <1>0 DEF CommitComplete, TypeOK
  <2>5. [sess[s] EXCEPT !.pc = "sync"] \in Session BY <1>0 DEF Session
  <2>6. /\ sess' \in [Sessions -> Session]
        /\ \A q \in Sessions : q /= s => sess'[q] = sess[q]
        /\ sess'[s] = [sess[s] EXCEPT !.pc = "sync"]
    BY <2>4, <2>5 DEF TypeOK
  <2>7. sess'[s].pc = "sync" /\ sess'[s].task = t /\ sess'[s].batch = sess[s].batch
    BY <2>6, <1>0 DEF Session
  <2>8. \A u \in Tasks : Exists(u) => task'[u].status /= NoStatus
    BY <2>3 DEF RowEffect, Keeps, KeepsTask, Exists
  <2>9. PendingAt(sess[s])' BY <1>0, <1>1, <2>7, <2>8 DEF PendingAt, Exists
  <2> QED BY <2>3, <2>6, <2>9 DEF SessionEffect
<1>9. CASE CommitSweep(s)
  <2> DEFINE row == [task[t] EXCEPT !.status = "Escalated", !.escalated = TRUE]
             next == [Free EXCEPT !.call = "sweep", !.pc = "next",
                                  !.batch = sess[s].batch]
  <2>1. task' = [task EXCEPT ![t] = row] BY <1>9, <1>1 DEF CommitSweep, TypeOK
  <2>2. /\ row \in TaskRow /\ row.status = "Escalated" /\ row.type = task[t].type
        /\ row.subject = task[t].subject /\ row.parent = task[t].parent
        /\ row.closed = task[t].closed
    BY <1>2 DEF TaskRow, Statuses
  <2>3. sess[s].to = "Escalated" BY <1>0, <1>9 DEF PendingAt, CommitSweep
  <2> HIDE DEF row
  <2>4. RowEffect BY <1>4, <2>1, <2>2, <2>3
  <2>5. CASE sess[s].batch = {}
    BY <1>9, <2>4, <2>5, FreedSession DEF CommitSweep
  <2>6. CASE sess[s].batch /= {}
    <3>0. Free \in Session BY DEF Free, Session, ActionStates, CallNames
    <3>1. next \in Session
      <4>1. sess[s].batch \in SUBSET (Tasks \X Statuses) BY <1>0 DEF Session
      <4> HIDE <1>0
      <4> QED BY <3>0, <4>1 DEF Session, CallNames
    <3>2. next.pc = "next" /\ next.call = "sweep" /\ next.batch = sess[s].batch
      BY DEF Free
    <3>3. sess' = [sess EXCEPT ![s] = next] BY <1>9, <2>6 DEF CommitSweep
    <3> HIDE DEF next
    <3>4. /\ sess' \in [Sessions -> Session]
          /\ \A q \in Sessions : q /= s => sess'[q] = sess[q]
          /\ sess'[s] = next
      BY <3>1, <3>3 DEF TypeOK
    <3>5. \A u \in Tasks : Exists(u) => task'[u].status /= NoStatus
      BY <2>4 DEF RowEffect, Keeps, KeepsTask, Exists
    <3>6. PendingAt(sess[s])' BY <1>0, <3>2, <3>4, <3>5 DEF PendingAt, Exists
    <3> QED BY <2>4, <3>4, <3>6 DEF SessionEffect
  <2> QED BY <2>5, <2>6
<1> QED BY <1>5, <1>7, <1>8, <1>9

\* The transaction of an edit that is accepted.
LEMMA ApplyEditEffect ==
  ASSUME IInv, NEW s \in Sessions, ApplyEdit(s)
  PROVE  RowEffect /\ SessionEffect(s)
<1> DEFINE t == sess[s].task
           moves == EditMoves(task[t].status, sess[s].own, sess[s].to)
           rows == log[t] \o moves
           row == [task[t] EXCEPT
                     !.status = IF moves = <<>> THEN @ ELSE moves[Len(moves)].to,
                     !.escalated = @ \/ sess[s].to = "Escalated",
                     !.mandatory = IF sess[s].mand = "keep" THEN @ ELSE sess[s].mand = "yes"]
<1> USE DEF IInv
<1>0. sess[s] \in Session /\ PendingAt(sess[s]) BY DEF TypeOK, Pending
<1>1. t \in Tasks /\ Exists(t) BY <1>0 DEF PendingAt, ApplyEdit
<1>2. task[t] \in TaskRow /\ log[t] \in Seq(LogRow) BY <1>1 DEF TypeOK
<1>3. moves \in Seq(LogRow)
  BY <1>0, <1>2, EditMovesAreRows DEF Session, TaskRow
<1>4. task' = [task EXCEPT ![t] = row] /\ log' = [log EXCEPT ![t] = rows]
  BY <1>1 DEF ApplyEdit, TypeOK
<1>5. log[t] \o <<>> = log[t] BY <1>2
<1> HIDE DEF moves
<1>6. /\ rows \in Seq(LogRow) /\ Reached(log[t]) \subseteq Reached(rows)
      /\ moves /= <<>> => moves[Len(moves)].to \in Reached(rows)
  BY <1>2, <1>3, ReachedConcat
<1>7. ASSUME moves /= <<>> PROVE moves[Len(moves)] \in LogRow
  BY <1>3, <1>7, SMT
<1>8. ASSUME moves /= <<>> PROVE moves[Len(moves)].to \in Statuses
  BY <1>7, <1>8 DEF LogRow
<1>9. task[t].status \in Reached(log[t])
  BY <1>1 DEF StatusIsLogged, Logged, Reached
<1>10. /\ row \in TaskRow
       /\ row.status = IF moves = <<>> THEN task[t].status ELSE moves[Len(moves)].to
       /\ row.type = task[t].type /\ row.subject = task[t].subject
       /\ row.parent = task[t].parent /\ row.closed = task[t].closed
  <2> DEFINE st == IF moves = <<>> THEN task[t].status ELSE moves[Len(moves)].to
             mandatory == IF sess[s].mand = "keep" THEN task[t].mandatory ELSE sess[s].mand = "yes"
             escalated == task[t].escalated \/ sess[s].to = "Escalated"
  <2>1. st \in Statuses \cup {NoStatus} /\ mandatory \in BOOLEAN /\ escalated \in BOOLEAN
    BY <1>2, <1>8 DEF TaskRow
  <2>2. row = [task[t] EXCEPT !.status = st, !.escalated = escalated, !.mandatory = mandatory]
    OBVIOUS
  <2> HIDE DEF st, mandatory, escalated, row
  <2>3. /\ row \in TaskRow /\ row.status = st
        /\ row.type = task[t].type /\ row.subject = task[t].subject
        /\ row.parent = task[t].parent /\ row.closed = task[t].closed
    BY <1>2, <2>1, <2>2 DEF TaskRow
  <2> QED BY <2>3 DEF st
<1>11. row.status /= NoStatus /\ row.status \in Reached(rows)
  BY <1>1, <1>6, <1>8, <1>9, <1>10 DEF Exists, Statuses, NoStatus
<1> HIDE DEF row, rows
<1>12. RowEffect BY <1>1, <1>4, <1>6, <1>10, <1>11, RowsKept
<1> QED BY <1>12, FreedSession DEF ApplyEdit

\* The transaction that creates a child.
LEMMA CommitChildEffect ==
  ASSUME IInv, NEW s \in Sessions, NEW c \in Tasks, NEW mandatory \in BOOLEAN,
         NEW owned \in BOOLEAN, CommitChild(s, c, mandatory, owned)
  PROVE  RowEffect /\ SessionEffect(s)
<1> DEFINE p == sess[s].task
<1> USE DEF IInv
<1>0. PendingAt(sess[s]) BY DEF Pending
<1>1. p \in Tasks BY <1>0 DEF PendingAt, CommitChild
<1>2. task[p].subject \in Subjects BY <1>1 DEF TypeOK, TaskRow
<1>3. "Custom" \in TaskTypes /\ "Custom" /= "Implementation" BY DEF TaskTypes
<1>4. /\ ~Exists(c)
      /\ task' = [task EXCEPT ![c] =
                    NewTask("Custom", task[p].subject, p, mandatory, owned)]
      /\ log' = [log EXCEPT ![c] = NewTaskLog(owned)]
  BY DEF CommitChild
<1>5. RowEffect BY <1>1, <1>2, <1>3, <1>4, RowAdded
<1> QED BY <1>5, FreedSession DEF CommitChild

-----------------------------------------------------------------------------
(* The inductive invariant *)

\* What a connection has read stays good while another one writes.
LEMMA OthersStayPending ==
  ASSUME Pending, Keeps, TypeOK, task' \in [Tasks -> TaskRow], NEW q \in Sessions, sess'[q] = sess[q]
  PROVE  PendingAt(sess[q])'
<1> DEFINE l == sess[q]
<1>1. PendingAt(l) BY DEF Pending
<1>2. \A t \in Tasks : Exists(t) =>
        /\ task'[t].status /= NoStatus /\ task'[t].type = task[t].type
        /\ \A x \in Logged(t) : x \in {log'[t][i].to : i \in DOMAIN log'[t]}
  BY DEF Keeps, KeepsTask, Exists, Logged
<1>3. l.pc \notin {"idle", "next"} => l.task \in Tasks /\ Exists(l.task)
  BY <1>1 DEF PendingAt
<1>4. l.pc \in {"log", "update"} => l.pc \notin {"idle", "next"} OBVIOUS
<1>5. /\ l.pc \in {"log", "update"} /\ l.call \in {"close", "complete"}
           => /\ l.to = "Closed"
              /\ TwoGatePassed(task'[l.task].type, l.from)
              /\ l.from \in {log'[l.task][i].to : i \in DOMAIN log'[l.task]}
      /\ l.pc = "update" => l.to \in {log'[l.task][i].to : i \in DOMAIN log'[l.task]}
  BY <1>1, <1>2, <1>3, <1>4 DEF PendingAt
<1>6. \A r \in l.batch : r[1] \in Tasks /\ task'[r[1]].status /= NoStatus
  BY <1>1, <1>2 DEF PendingAt
<1>7. l.pc = "report" /\ l.seen \in {"InProgress", "Completed"}
        => \E t \in Tasks :
             /\ task'[t].status /= NoStatus /\ task'[t].closed
             /\ task'[t].subject = task'[l.task].subject /\ task'[t].parent = NoTask
  <2> SUFFICES ASSUME l.pc = "report", l.seen \in {"InProgress", "Completed"}
               PROVE  \E t \in Tasks :
                        /\ task'[t].status /= NoStatus /\ task'[t].closed
                        /\ task'[t].subject = task'[l.task].subject
                        /\ task'[t].parent = NoTask
    OBVIOUS
  <2>1. PICK t \in Tasks :
          /\ Exists(t) /\ task[t].closed
          /\ task[t].subject = task[l.task].subject /\ task[t].parent = NoTask
    BY <1>1 DEF PendingAt
  <2>2. /\ task'[t].status /= NoStatus /\ task'[t].closed
        /\ task'[t].subject = task[l.task].subject /\ task'[t].parent = NoTask
    BY <2>1 DEF Keeps, KeepsTask, Exists
  <2>3. task'[l.task].subject = task[l.task].subject
    BY <1>3 DEF Keeps, KeepsTask
  <2> QED BY <2>2, <2>3
<1> HIDE DEF l
<1>8. /\ l.pc \notin {"idle", "next"} => l.task \in Tasks /\ task'[l.task].status /= NoStatus
      /\ l.pc \in {"log", "update"} => l.to \in Statuses
      /\ l.pc = "next" => l.call = "sweep"
      /\ l.pc \in {"log", "update"} /\ l.call = "sweep" => l.to = "Escalated"
  BY <1>1, <1>2, <1>3 DEF PendingAt
<1>9. sess'[q] = l BY DEF l
<1> QED BY <1>5, <1>6, <1>7, <1>8, <1>9 DEF PendingAt, Exists, Logged

\* A closed top-level task stays one, so what was reported stays real.
LEMMA ProgressKept ==
  ASSUME ReportedProgressIsReal, Keeps, actionState' = actionState
  PROVE  ReportedProgressIsReal'
<1> SUFFICES ASSUME NEW x \in Subjects, actionState[x] \in {"InProgress", "Completed"}
             PROVE  \E t \in SourceTasks(x)' : task'[t].closed
  BY DEF ReportedProgressIsReal
<1>1. PICK t \in SourceTasks(x) : task[t].closed BY DEF ReportedProgressIsReal
<1>2. /\ t \in Tasks /\ task'[t].status /= NoStatus /\ task'[t].closed
      /\ task'[t].subject = x /\ task'[t].parent = NoTask
  BY <1>1 DEF SourceTasks, Keeps, KeepsTask, Exists
<1> QED BY <1>2 DEF SourceTasks, Exists

LEMMA RowsInvariant ==
  ASSUME IInv, RowEffect, UNCHANGED <<late, actionState>>,
         \/ sess' = sess
         \/ \E s \in Sessions : SessionEffect(s)
  PROVE  IInv'
<1> USE DEF IInv
<1>1. Keeps /\ task' \in [Tasks -> TaskRow] /\ TypeOK BY DEF RowEffect
<1>2. sess' \in [Sessions -> Session] BY DEF TypeOK, SessionEffect
<1>3. Pending'
  <2> SUFFICES ASSUME NEW q \in Sessions PROVE PendingAt(sess[q])' BY DEF Pending
  <2>1. CASE sess'[q] = sess[q] BY <2>1, <1>1, OthersStayPending
  <2>2. CASE sess'[q] /= sess[q] BY <2>2 DEF SessionEffect
  <2> QED BY <2>1, <2>2
<1>4. TypeOK' BY <1>2 DEF TypeOK, RowEffect
<1>5. ReportedProgressIsReal' BY <1>1, ProgressKept
<1> QED BY <1>3, <1>4, <1>5 DEF RowEffect

\* Steps that leave the rows alone.
LEMMA RowsUnchanged ==
  ASSUME IInv, UNCHANGED <<task, log>>
  PROVE  RowEffect
<1> USE DEF IInv
<1>1. Keeps BY DEF Keeps, KeepsTask, Exists, Logged
<1>2. StatusIsLogged' BY DEF StatusIsLogged, Exists, Logged
<1>3. TwoGateClosure' BY DEF TwoGateClosure, Logged
<1>4. OneOpenImplementation'
  BY DEF OneOpenImplementation, OpenImplementation, Exists
<1> QED BY <1>1, <1>2, <1>3, <1>4 DEF RowEffect, TypeOK

LEMMA InitInvariant == Init => IInv
<1> SUFFICES ASSUME Init PROVE IInv OBVIOUS
<1>1. \A t \in Tasks : ~Exists(t) /\ ~task[t].closed BY DEF Init, Exists
<1>2. TypeOK
  <2>1. (CHOOSE x \in Subjects : TRUE) \in Subjects BY SubjectsAssumption
  <2>2. task \in [Tasks -> TaskRow] BY <2>1 DEF Init, TaskRow, TaskTypes
  <2>3. log \in [Tasks -> Seq(LogRow)] BY DEF Init
  <2>4. sess \in [Sessions -> Session] BY FreeIsPending DEF Init
  <2> QED BY <2>2, <2>3, <2>4 DEF TypeOK, Init, ActionStates
<1>3. Pending BY FreeIsPending DEF Pending, Init
<1>4. StatusIsLogged /\ TwoGateClosure /\ OneOpenImplementation
  BY <1>1 DEF StatusIsLogged, TwoGateClosure, OneOpenImplementation, OpenImplementation
<1>5. ReportedProgressIsReal BY DEF ReportedProgressIsReal, Init
<1> QED BY <1>2, <1>3, <1>4, <1>5 DEF IInv

LEMMA LocalStepInvariant ==
  ASSUME IInv, NEW s \in Sessions, LocalStep(s)
  PROVE  IInv'
<1>1. LocalEffect(s) BY LocalStepIsLocal DEF IInv
<1>2. PICK l \in Session : /\ PendingAt(l)
                           /\ sess' = [sess EXCEPT ![s] = l]
                           /\ UNCHANGED <<task, log, late, actionState>>
  BY <1>1 DEF LocalEffect
<1>3. RowEffect BY <1>2, RowsUnchanged
<1>4. SessionEffect(s)
  <2>1. sess' \in [Sessions -> Session] /\ sess'[s] = l BY <1>2 DEF IInv, TypeOK
  <2>2. \A q \in Sessions : q /= s => sess'[q] = sess[q] BY <1>2 DEF IInv, TypeOK
  <2>3. PendingAt(sess[s])' BY <1>2, <2>1 DEF PendingAt, Exists, Logged
  <2> QED BY <2>1, <2>2, <2>3 DEF SessionEffect
<1> QED BY <1>2, <1>3, <1>4, RowsInvariant

LEMMA RowStepInvariant ==
  ASSUME IInv, NEW s \in Sessions, RowStep(s)
  PROVE  IInv'
<1>1. UNCHANGED <<late, actionState>>
  BY DEF RowStep, LogTransition, CommitTransition, CommitClose, CommitComplete,
         CommitSweep, ApplyEdit, CommitChild
<1>2. RowEffect /\ SessionEffect(s)
  BY LogTransitionEffect, CommitEffect, ApplyEditEffect, CommitChildEffect DEF RowStep
<1> QED BY <1>1, <1>2, RowsInvariant

\* The one step that writes what a source screen reports.
LEMMA SyncInvariant ==
  ASSUME IInv, NEW s \in Sessions, SyncWrite(s)
  PROVE  IInv'
<1> DEFINE x == task[sess[s].task].subject
           seen == sess[s].seen
<1> USE DEF IInv
<1>1. RowEffect BY RowsUnchanged DEF SyncWrite
<1>2. SessionEffect(s) BY FreedSession DEF SyncWrite
<1>3. sess[s].pc = "report" /\ actionState' = [actionState EXCEPT ![x] = seen]
  BY DEF SyncWrite
<1>4. /\ sess[s].task \in Tasks
      /\ seen \in {"InProgress", "Completed"}
           => \E t \in SourceTasks(x) : task[t].closed
  BY <1>3 DEF Pending, PendingAt, SourceTasks
<1>5. x \in Subjects /\ seen \in ActionStates
  BY <1>4 DEF TypeOK, TaskRow, Session
<1>6. Pending'
  <2> SUFFICES ASSUME NEW q \in Sessions PROVE PendingAt(sess[q])' BY DEF Pending
  <2>1. CASE q /= s BY <2>1, <1>1, <1>2, OthersStayPending DEF RowEffect, SessionEffect
  <2>2. CASE q = s BY <2>2, <1>2 DEF SessionEffect
  <2> QED BY <2>1, <2>2
<1>7. UNCHANGED <<task, late>> BY DEF SyncWrite
<1> HIDE DEF x, seen
<1>8. TypeOK' BY <1>1, <1>2, <1>3, <1>5, <1>7 DEF TypeOK, RowEffect, SessionEffect
<1>9. ReportedProgressIsReal'
  <2> SUFFICES ASSUME NEW y \in Subjects, actionState'[y] \in {"InProgress", "Completed"}
               PROVE  \E t \in SourceTasks(y)' : task'[t].closed
    BY DEF ReportedProgressIsReal
  <2>1. SourceTasks(y)' = SourceTasks(y) BY <1>7 DEF SourceTasks, Exists
  <2>2. CASE y = x BY <2>1, <2>2, <1>3, <1>4, <1>5, <1>7 DEF TypeOK
  <2>3. CASE y /= x
    <3>1. actionState'[y] = actionState[y] BY <2>3, <1>3 DEF TypeOK
    <3> QED BY <2>1, <3>1, <1>7 DEF ReportedProgressIsReal
  <2> QED BY <2>2, <2>3
<1> QED BY <1>1, <1>6, <1>8, <1>9 DEF RowEffect

LEMMA NextInvariant == IInv /\ [Next]_vars => IInv'
<1> SUFFICES ASSUME IInv, [Next]_vars PROVE IInv' OBVIOUS
<1> USE DEF IInv
<1>1. CASE UNCHANGED vars
  <2>1. UNCHANGED <<task, log, late, actionState>> /\ sess' = sess BY <1>1 DEF vars
  <2> QED BY <2>1, RowsUnchanged, RowsInvariant
<1>2. ASSUME NEW t \in Tasks, FallDue(t) PROVE IInv'
  <2>1. UNCHANGED <<task, log, actionState>> /\ sess' = sess BY <1>2 DEF FallDue
  <2>2. RowEffect BY <2>1, RowsUnchanged
  <2>3. Pending'
    <3> SUFFICES ASSUME NEW q \in Sessions PROVE PendingAt(sess[q])' BY DEF Pending
    <3> QED BY <2>1, <2>2, OthersStayPending DEF RowEffect
  <2>4. TypeOK' BY <1>2, <2>1 DEF TypeOK, FallDue
  <2>5. ReportedProgressIsReal' BY <2>1, <2>2, ProgressKept DEF RowEffect
  <2> QED BY <2>2, <2>3, <2>4, <2>5 DEF RowEffect
<1>3. ASSUME NEW t \in Tasks, NEW type \in TaskTypes, NEW x \in Subjects,
             NEW owned \in BOOLEAN, OpenTask(t, type, x, owned)
      PROVE  IInv'
  <2>1. RowEffect BY <1>3, RowAdded DEF OpenTask
  <2> QED BY <1>3, <2>1, RowsInvariant DEF OpenTask
<1>4. ASSUME NEW s \in Sessions, LocalStep(s) \/ RowStep(s) \/ SyncWrite(s) PROVE IInv'
  BY <1>4, LocalStepInvariant, RowStepInvariant, SyncInvariant
<1> QED BY <1>1, <1>2, <1>3, <1>4, NextCases

LEMMA Invariance == Spec => []IInv
<1>1. Init => IInv BY InitInvariant
<1>2. IInv /\ [Next]_vars => IInv' BY NextInvariant
<1> QED BY <1>1, <1>2, PTL DEF Spec

-----------------------------------------------------------------------------
(* The results *)

\* The rows of every table and the locals of every procedure stay well-formed.
THEOREM TypeCorrect == Spec => []TypeOK
<1>1. IInv => TypeOK BY DEF IInv
<1> QED BY <1>1, Invariance, PTL

\* However many connections interleave, no UPDATE of practice_task leaves a
\* task in a status that its transition log does not hold.
THEOREM StatusAlwaysLogged == Spec => []StatusIsLogged
<1>1. IInv => StatusIsLogged BY DEF IInv
<1> QED BY <1>1, Invariance, PTL

\* No interleaving gives an Implementation task closed_at without its having
\* passed the operational gate or review: the guards of sp_task_close, on
\* reads that may be stale, are enough because the log never loses a row.
THEOREM TwoGateClosureHolds == Spec => []TwoGateClosure
<1>1. IInv => TwoGateClosure BY DEF IInv
<1> QED BY <1>1, Invariance, PTL

\* The locked lookup of sp_task_open, with closed_at never cleared, keeps one
\* open Implementation task per subject.
THEOREM DedupHolds == Spec => []OneOpenImplementation
<1>1. IInv => OneOpenImplementation BY DEF IInv
<1> QED BY <1>1, Invariance, PTL

\* What a source screen reports is never ahead of the work, although the sync
\* runs after the commit and may be overtaken or lost.
THEOREM ReportedProgressHolds == Spec => []ReportedProgressIsReal
<1>1. IInv => ReportedProgressIsReal BY DEF IInv
<1> QED BY <1>1, Invariance, PTL
===============================================================================
