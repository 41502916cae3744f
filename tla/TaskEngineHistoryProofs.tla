------------------------ MODULE TaskEngineHistoryProofs ------------------------
(***************************************************************************)
(* What holds of the task engine while no two connections work on the same *)
(* task, or on a task and its child, at a time (Apart): the transition log *)
(* is the history of the task, the mandatory-child gate holds at the       *)
(* COMMIT of a completion, and the engine implements TaskLifecycle.        *)
(*                                                                         *)
(* The code takes no lock that would make Apart true: a call reads before  *)
(* its BEGIN TRAN.  Calls on unrelated tasks may overlap as they like, and *)
(* a single connection is a special case (OneConnection).                  *)
(***************************************************************************)
EXTENDS TaskEngineProofs

\* The tasks whose rows a connection has read for a call that is to write them.
WorksOn(s) ==
  {t \in Tasks : \/ sess[s].pc \in {"close", "log", "update", "create", "apply"} /\ t = sess[s].task
                 \/ \E r \in sess[s].batch : r[1] = t}

Apart ==
  \A s, u \in Sessions : s /= u =>
    \A t \in WorksOn(s), c \in WorksOn(u) : t /= c /\ task[c].parent /= t

\* What the locals l of a call say of the rows is still so: the status it read,
\* the log row it wrote, the statuses of the sweep's batch, and the mandatory
\* children sp_task_complete counted.
Truthful(l) ==
  /\ l.pc \in {"log", "update"} =>
       /\ task[l.task].status = l.from /\ <<l.from, l.to>> \in Rules
       /\ \A r \in l.batch : r[1] /= l.task
  /\ l.pc = "update" => log[l.task][Len(log[l.task])].to = l.to
  /\ \A r \in l.batch : task[r[1]].status = r[2]
  /\ l.pc = "close" => l.call = "complete"
  /\ l.call = "complete" /\ l.pc \in {"close", "log", "update"} =>
       \A c \in Children(l.task) : task[c].mandatory => task[c].closed

AllTruthful == \A s \in Sessions : Truthful(sess[s])

\* LogIsHistory for one log, and for one task.
Chain(rows) ==
  \A i \in DOMAIN rows : rows[i].from = IF i = 1 THEN NoStatus ELSE rows[i - 1].to

LastTo(rows) == rows[Len(rows)].to

HistoryOf(t) == /\ Chain(log[t])
                /\ Exists(t) /\ ~Moving(t) => task[t].status = LastTo(log[t])

HInv == IInv /\ AllTruthful /\ LogIsHistory

LEMMA HistoryByTask == LogIsHistory <=> \A t \in Tasks : HistoryOf(t)
BY DEF LogIsHistory, HistoryOf, Chain, LastTo

-----------------------------------------------------------------------------
(* Facts about logs and moves *)

\* A row that leaves the last status continues the chain.
LEMMA ChainAppend ==
  ASSUME NEW rows \in Seq(LogRow), NEW row \in LogRow, rows /= <<>>,
         Chain(rows), row.from = LastTo(rows)
  PROVE  Chain(Append(rows, row)) /\ LastTo(Append(rows, row)) = row.to
<1> DEFINE more == Append(rows, row)
<1>1. /\ Len(rows) \in Nat \ {0} /\ DOMAIN rows = 1..Len(rows)
      /\ DOMAIN more = 1..(Len(rows) + 1) /\ Len(more) = Len(rows) + 1
      /\ more[Len(rows) + 1] = row
  BY SMT
<1>2. \A i \in 1..Len(rows) : more[i] = rows[i] BY SMT
<1> HIDE DEF more
<1>3. ASSUME NEW i \in DOMAIN more
      PROVE  more[i].from = IF i = 1 THEN NoStatus ELSE more[i - 1].to
  <2>1. CASE i = Len(rows) + 1
    <3>1. i /= 1 /\ i - 1 = Len(rows) /\ Len(rows) \in 1..Len(rows) BY <1>1, <2>1
    <3> QED BY <1>1, <1>2, <2>1, <3>1 DEF LastTo
  <2>2. CASE i /= Len(rows) + 1
    <3>1. i \in 1..Len(rows) /\ (i /= 1 => i - 1 \in 1..Len(rows)) BY <1>1, <1>3, <2>2
    <3> QED BY <1>1, <1>2, <3>1 DEF Chain
  <2> QED BY <2>1, <2>2
<1> QED BY <1>1, <1>3 DEF Chain, LastTo, more

\* One row is a chain when it starts from nothing, and a second row is appended.
LEMMA OneRow ==
  ASSUME NEW row \in LogRow, row.from = NoStatus
  PROVE  <<row>> \in Seq(LogRow) /\ <<row>> /= <<>> /\ Chain(<<row>>) /\ LastTo(<<row>>) = row.to
<1>1. /\ <<row>> \in Seq(LogRow) /\ DOMAIN <<row>> = 1..1 /\ Len(<<row>>) = 1
      /\ <<row>>[1] = row
  BY SMT
<1>2. <<row>> /= <<>> OBVIOUS
<1>3. \A i \in 1..1 : i = 1 OBVIOUS
<1> QED BY <1>1, <1>2, <1>3 DEF Chain, LastTo

LEMMA TwoRows ==
  ASSUME NEW row \in LogRow, NEW next \in LogRow
  PROVE  <<row, next>> = Append(<<row>>, next) /\ <<row>> \o <<next>> = <<row, next>>
<1>1. <<row, next>> = Append(<<row>>, next) BY SMT
<1>2. <<row>> \o <<next>> = Append(<<row>>, next) BY SMT
<1> QED BY <1>1, <1>2

\* A new task's log is a chain to the status it starts with.
LEMMA NewTaskHistory ==
  ASSUME NEW owned \in BOOLEAN
  PROVE  /\ Chain(NewTaskLog(owned))
         /\ LastTo(NewTaskLog(owned)) = IF owned THEN "Assigned" ELSE "Open"
<1> DEFINE opened == [from |-> NoStatus, to |-> "Open"]
           taken  == [from |-> "Open", to |-> "Assigned"]
<1>1. /\ opened \in LogRow /\ opened.from = NoStatus /\ opened.to = "Open"
      /\ taken \in LogRow /\ taken.from = "Open" /\ taken.to = "Assigned"
  BY DEF LogRow, Statuses
<1>2. NewTaskLog(owned) = IF owned THEN <<opened, taken>> ELSE <<opened>> BY DEF NewTaskLog
<1> HIDE DEF opened, taken
<1>3. <<opened>> \in Seq(LogRow) /\ <<opened>> /= <<>> /\ Chain(<<opened>>) /\ LastTo(<<opened>>) = "Open"
  BY <1>1, OneRow
<1>4. Chain(<<opened, taken>>) /\ LastTo(<<opened, taken>>) = "Assigned"
  BY <1>1, <1>3, TwoRows, ChainAppend
<1> QED BY <1>2, <1>3, <1>4

\* The moves of an edit: none, one from the status of the task, or the
\* assignment of an Open task and one from Assigned.
LEMMA EditMovesCases ==
  ASSUME NEW from \in Statuses, NEW own \in BOOLEAN, NEW to \in Statuses \cup {NoStatus}
  PROVE  \/ EditMoves(from, own, to) = <<>>
         \/ \E m \in LogRow : m.from = from /\ EditMoves(from, own, to) = <<m>>
         \/ \E m, n \in LogRow :
              /\ from = "Open" /\ m.from = from /\ m.to = "Assigned" /\ n.from = m.to
              /\ EditMoves(from, own, to) = <<m, n>>
<1> DEFINE assigned == [from |-> "Open", to |-> "Assigned"]
           second(f) == [from |-> f, to |-> to]
<1>1. assigned \in LogRow BY DEF LogRow, Statuses
<1>2. ASSUME to /= NoStatus, NEW f \in Statuses PROVE second(f) \in LogRow
  BY <1>2 DEF LogRow
<1>3. CASE own /\ from = "Open" /\ to = NoStatus
  <2>1. EditMoves(from, own, to) = <<assigned>> \o <<>> BY <1>3 DEF EditMoves
  <2>2. <<assigned>> \o <<>> = <<assigned>> BY <1>1, SMT
  <2> QED BY <1>1, <1>3, <2>1, <2>2
<1>4. CASE own /\ from = "Open" /\ to /= NoStatus
  <2> DEFINE n == second("Assigned")
  <2>1. n \in LogRow /\ n.from = "Assigned" BY <1>2, <1>4 DEF Statuses
  <2>2. EditMoves(from, own, to) = <<assigned>> \o <<n>> BY <1>4 DEF EditMoves
  <2>3. assigned.from = "Open" /\ assigned.to = "Assigned" OBVIOUS
  <2> HIDE DEF n, assigned
  <2>4. <<assigned>> \o <<n>> = <<assigned, n>> BY <1>1, <2>1, TwoRows DEF assigned
  <2> QED BY <1>1, <1>4, <2>1, <2>2, <2>3, <2>4
<1>5. CASE ~(own /\ from = "Open") /\ to = NoStatus
  <2>1. EditMoves(from, own, to) = <<>> \o <<>> BY <1>5 DEF EditMoves
  <2> QED BY <2>1, SMT
<1>6. CASE ~(own /\ from = "Open") /\ to /= NoStatus
  <2> DEFINE m == second(from)
  <2>1. m \in LogRow /\ m.from = from BY <1>2, <1>6
  <2>2. EditMoves(from, own, to) = <<>> \o <<m>> BY <1>6 DEF EditMoves
  <2> HIDE DEF m
  <2>3. <<>> \o <<m>> = <<m>> BY <2>1, SMT
  <2> QED BY <2>1, <2>2, <2>3
<1> QED BY <1>3, <1>4, <1>5, <1>6

\* The history of a task goes on through the moves of an edit.
LEMMA EditHistory ==
  ASSUME NEW rows \in Seq(LogRow), rows /= <<>>, Chain(rows), LastTo(rows) \in Statuses,
         NEW own \in BOOLEAN, NEW to \in Statuses \cup {NoStatus}
  PROVE  LET moves == EditMoves(LastTo(rows), own, to)
         IN /\ Chain(rows \o moves)
            /\ LastTo(rows \o moves) = IF moves = <<>> THEN LastTo(rows) ELSE LastTo(moves)
<1> DEFINE moves == EditMoves(LastTo(rows), own, to)
<1>1. CASE moves = <<>>
  <2>1. rows \o <<>> = rows BY SMT
  <2> QED BY <1>1, <2>1
<1>2. CASE \E m \in LogRow : m.from = LastTo(rows) /\ moves = <<m>>
  <2>1. PICK m \in LogRow : m.from = LastTo(rows) /\ moves = <<m>> BY <1>2
  <2> HIDE DEF moves
  <2>2. rows \o <<m>> = Append(rows, m) BY SMT
  <2>3. moves /= <<>> /\ LastTo(moves) = m.to BY <2>1 DEF LastTo
  <2> QED BY <2>1, <2>2, <2>3, ChainAppend DEF moves
<1>3. CASE \E m, n \in LogRow : m.from = LastTo(rows) /\ n.from = m.to /\ moves = <<m, n>>
  <2>1. PICK m, n \in LogRow : m.from = LastTo(rows) /\ n.from = m.to /\ moves = <<m, n>>
    BY <1>3
  <2> HIDE DEF moves
  <2> DEFINE one == Append(rows, m)
  <2>2. rows \o <<m, n>> = Append(one, n) BY SMT
  <2>3. moves /= <<>> /\ LastTo(moves) = n.to BY <2>1 DEF LastTo
  <2>4. one \in Seq(LogRow) /\ one /= <<>> BY SMT
  <2>5. Chain(one) /\ LastTo(one) = m.to BY <2>1, ChainAppend
  <2> HIDE DEF one
  <2>6. Chain(Append(one, n)) /\ LastTo(Append(one, n)) = n.to
    BY <2>1, <2>4, <2>5, ChainAppend
  <2> QED BY <2>1, <2>2, <2>3, <2>6 DEF moves
<1> QED BY <1>1, <1>2, <1>3, EditMovesCases

-----------------------------------------------------------------------------
(* Steps that read *)

\* A move that is accepted is a row of the rule table.
LEMMA AcceptedIsRule ==
  ASSUME NEW from, NEW to, NEW role, NEW r, TransitionAccepted(from, to, role, r)
  PROVE  <<from, to>> \in Rules
BY DEF TransitionAccepted, TransitionAllowed, Rules

\* After a local step the connection holds truthful locals and is not about to
\* update a row; nor was it before.
LocalTruth(s) ==
  \E l \in Session :
    /\ sess' = [sess EXCEPT ![s] = l]
    /\ UNCHANGED <<task, log, actionState>>
    /\ Truthful(l) /\ l.pc /= "update" /\ sess[s].pc /= "update"

\* A call that asks for a legal move from the status it has just read.
LEMMA AskingIsTruthful ==
  ASSUME TypeOK, NEW c \in CallNames, NEW t \in Tasks, Exists(t), NEW to \in Statuses,
         <<task[t].status, to>> \in Rules,
         c = "complete" => \A u \in Children(t) : task[u].mandatory => task[u].closed
  PROVE  /\ Asking(c, t, task[t].status, to) \in Session
         /\ Truthful(Asking(c, t, task[t].status, to))
         /\ Asking(c, t, task[t].status, to).pc = "log"
<1> DEFINE l == Asking(c, t, task[t].status, to)
<1>1. /\ l.pc = "log" /\ l.task = t /\ l.from = task[t].status /\ l.to = to /\ l.call = c
      /\ l.batch = {}
  BY DEF Asking, Free
<1>2. task[t].status \in Statuses \cup {NoStatus} BY DEF TypeOK, TaskRow
<1>3. l \in Session BY <1>2 DEF Asking, Free, Session, ActionStates
<1> HIDE DEF l
<1>4. Truthful(l) BY <1>1 DEF Truthful
<1> QED BY <1>1, <1>3, <1>4 DEF l

LEMMA FreeIsTruthful == Free \in Session /\ Truthful(Free) /\ Free.pc = "idle"
<1>1. Free.pc = "idle" /\ Free.batch = {} BY DEF Free
<1> QED BY <1>1, FreeIsPending DEF Truthful

LEMMA BeginIsTruthful ==
  ASSUME TypeOK, NEW s \in Sessions, Begin(s)
  PROVE  LocalTruth(s)
<1>0. ASSUME NEW l \in Session, Truthful(l), l.pc /= "update", NEW c, Start(s, c, l)
      PROVE  LocalTruth(s)
  BY <1>0, FreeIsTruthful DEF Start, LocalTruth
<1>1. ASSUME NEW t \in Tasks, BeginAssign(s, t) PROVE LocalTruth(s)
  <2>1. task[t].status = "Open" /\ Exists(t) /\ <<"Open", "Assigned">> \in Rules
    BY <1>1 DEF BeginAssign, Exists, NoStatus, Rules, OpenRules
  <2>2. "assign" \in CallNames /\ "assign" /= "complete" /\ "Assigned" \in Statuses
    BY DEF CallNames, Statuses
  <2>3. Start(s, "assign", Asking("assign", t, task[t].status, "Assigned"))
    BY <1>1, <2>1 DEF BeginAssign
  <2> QED BY <1>0, <2>1, <2>2, <2>3, AskingIsTruthful
<1>2. ASSUME NEW t \in Tasks, BeginClose(s, t) PROVE LocalTruth(s)
  <2>1. Exists(t) /\ <<task[t].status, "Closed">> \in Rules
    BY <1>2, AcceptedIsRule DEF BeginClose
  <2>2. "close" \in CallNames /\ "close" /= "complete" /\ "Closed" \in Statuses
    BY DEF CallNames, Statuses
  <2>3. Start(s, "close", Asking("close", t, task[t].status, "Closed"))
    BY <1>2 DEF BeginClose
  <2> QED BY <1>0, <2>1, <2>2, <2>3, AskingIsTruthful
<1>3. ASSUME NEW t \in Tasks, BeginComplete(s, t) PROVE LocalTruth(s)
  <2> DEFINE l == [Free EXCEPT !.call = "complete", !.pc = "close", !.task = t]
  <2>1. l \in Session BY DEF Free, Session, ActionStates, CallNames
  <2>2. l.pc = "close" /\ l.call = "complete" /\ l.task = t /\ l.batch = {} BY DEF Free
  <2>3. Start(s, "complete", l) /\ Eligible(t) BY <1>3 DEF BeginComplete
  <2> HIDE DEF l
  <2>4. Truthful(l) BY <2>2, <2>3 DEF Truthful, Eligible
  <2> QED BY <1>0, <2>1, <2>2, <2>3, <2>4
<1>4. ASSUME NEW t \in Tasks, BeginChild(s, t) PROVE LocalTruth(s)
  <2> DEFINE l == [Free EXCEPT !.call = "child", !.pc = "create", !.task = t]
  <2>1. l \in Session BY DEF Free, Session, ActionStates, CallNames
  <2>2. l.pc = "create" /\ l.batch = {} BY DEF Free
  <2>3. Start(s, "child", l) BY <1>4 DEF BeginChild
  <2> HIDE DEF l
  <2>4. Truthful(l) BY <2>2 DEF Truthful
  <2> QED BY <1>0, <2>1, <2>2, <2>3, <2>4
<1>5. ASSUME NEW t \in Tasks, NEW to \in Targets, NEW role \in Roles, NEW r \in BOOLEAN,
             BeginTransition(s, t, to, role, r)
      PROVE  LocalTruth(s)
  <2>1. Exists(t) /\ <<task[t].status, to>> \in Rules /\ to \in Statuses
    BY <1>5, AcceptedIsRule, TargetsAssumption DEF BeginTransition
  <2>2. "transition" \in CallNames /\ "transition" /= "complete" BY DEF CallNames
  <2>3. Start(s, "transition", Asking("transition", t, task[t].status, to))
    BY <1>5 DEF BeginTransition
  <2> QED BY <1>0, <2>1, <2>2, <2>3, AskingIsTruthful
<1>6. ASSUME NEW t \in Tasks, NEW to \in Targets \cup {NoStatus}, NEW role \in Roles,
             NEW own \in BOOLEAN, NEW mand \in {"keep", "yes", "no"},
             BeginEdit(s, t, mand, own, to, role)
      PROVE  LocalTruth(s)
  <2> DEFINE l == [Free EXCEPT !.call = "edit", !.pc = "apply", !.task = t,
                               !.to = to, !.mand = mand, !.own = own]
  <2>1. l \in Session BY TargetsAssumption DEF Free, Session, ActionStates, CallNames
  <2>2. l.pc = "apply" /\ l.batch = {} BY DEF Free
  <2>3. Start(s, "edit", l) BY <1>6 DEF BeginEdit
  <2> HIDE DEF l
  <2>4. Truthful(l) BY <2>2 DEF Truthful
  <2> QED BY <1>0, <2>1, <2>2, <2>3, <2>4
<1>7. ASSUME BeginSweep(s) PROVE LocalTruth(s)
  <2> DEFINE found == {t \in Tasks : Overdue(t)}
             l == [Free EXCEPT !.call = "sweep", !.pc = "next",
                               !.batch = {<<t, task[t].status>> : t \in found}]
  <2>1. \A t \in found : t \in Tasks /\ task[t].status \in Statuses
    BY DEF Overdue, SweepStatuses, Statuses
  <2>2. Start(s, "sweep", l) BY <1>7 DEF BeginSweep
  <2> HIDE DEF found
  <2>3. {<<t, task[t].status>> : t \in found} \in SUBSET (Tasks \X Statuses) BY <2>1
  <2>4. l \in Session BY <2>3 DEF Free, Session, ActionStates, CallNames
  <2>5. l.pc = "next" /\ l.batch = {<<t, task[t].status>> : t \in found} BY DEF Free
  <2>6. \A r \in l.batch : task[r[1]].status = r[2] BY <2>5
  <2> HIDE DEF l
  <2>7. Truthful(l) BY <2>5, <2>6 DEF Truthful
  <2> QED BY <1>0, <2>2, <2>4, <2>5, <2>7
<1> QED BY <1>1, <1>2, <1>3, <1>4, <1>5, <1>6, <1>7 DEF Begin

LEMMA LocalStepIsTruthful ==
  ASSUME IInv, AllTruthful, NEW s \in Sessions, LocalStep(s)
  PROVE  LocalTruth(s)
<1> USE DEF IInv
<1>0. sess[s] \in Session /\ PendingAt(sess[s]) /\ Truthful(sess[s])
  BY DEF TypeOK, Pending, AllTruthful
<1>1. CASE Begin(s) BY <1>1, BeginIsTruthful
<1>2. CASE CloseRead(s)
  <2> DEFINE t == sess[s].task
             l == Asking("complete", t, task[t].status, "Closed")
  <2>1. t \in Tasks /\ Exists(t) /\ sess[s].pc = "close"
    BY <1>0, <1>2 DEF CloseRead, PendingAt
  <2>2. CASE /\ TwoGatePassed(task[t].type, task[t].status)
             /\ TransitionAccepted(task[t].status, "Closed", "Other", TRUE)
    <3>1. <<task[t].status, "Closed">> \in Rules BY <2>2, AcceptedIsRule
    <3>2. \A u \in Children(t) : task[u].mandatory => task[u].closed
      BY <1>0, <2>1 DEF Truthful
    <3>3. l \in Session /\ Truthful(l) /\ l.pc = "log"
      BY <2>1, <3>1, <3>2, AskingIsTruthful DEF CallNames, Statuses
    <3>4. sess' = [sess EXCEPT ![s] = l] /\ UNCHANGED <<task, log, actionState>>
      BY <1>2, <2>2 DEF CloseRead
    <3> HIDE DEF l
    <3> QED BY <2>1, <3>3, <3>4 DEF LocalTruth
  <2>3. CASE ~(/\ TwoGatePassed(task[t].type, task[t].status)
               /\ TransitionAccepted(task[t].status, "Closed", "Other", TRUE))
    BY <1>2, <2>3, FreeIsTruthful DEF CloseRead, LocalTruth
  <2> QED BY <2>2, <2>3
<1>3. CASE RollBackEdit(s) BY <1>3, FreeIsTruthful DEF RollBackEdit, LocalTruth
<1>4. CASE SyncLost(s) BY <1>4, FreeIsTruthful DEF SyncLost, LocalTruth
<1>5. ASSUME NEW t \in Tasks, NEW from \in Statuses, SweepFetch(s, t, from)
      PROVE  LocalTruth(s)
  <2> DEFINE rest == [sess[s] EXCEPT !.batch = @ \ {<<t, from>>}]
             l == [rest EXCEPT !.pc = "log", !.task = t, !.from = from,
                               !.to = "Escalated"]
  <2>1. /\ sess[s].pc = "next" /\ sess[s].call = "sweep" /\ <<t, from>> \in sess[s].batch
        /\ UNCHANGED <<task, log, actionState>>
    BY <1>0, <1>5 DEF SweepFetch, PendingAt
  <2>2. /\ rest \in Session /\ rest.pc = "next" /\ rest.call = "sweep"
        /\ rest.batch = sess[s].batch \ {<<t, from>>}
    BY <1>0, <2>1 DEF Session
  <2>3. \A r \in sess[s].batch : r \in Tasks \X Statuses /\ task[r[1]].status = r[2]
    BY <1>0, <2>1 DEF Truthful, Session
  <2>4. \A r \in rest.batch : r[1] /= t
    <3> SUFFICES ASSUME NEW r \in rest.batch, r[1] = t PROVE FALSE OBVIOUS
    <3>1. r \in Tasks \X Statuses /\ r[2] = from BY <2>1, <2>2, <2>3
    <3>2. r = <<t, from>> BY <3>1
    <3> QED BY <2>2, <3>2
  <2>5. CASE TransitionAccepted(from, "Escalated", "Other", TRUE)
    <3>1. /\ l \in Session /\ l.pc = "log" /\ l.task = t /\ l.from = from
          /\ l.to = "Escalated" /\ l.call = "sweep" /\ l.batch = rest.batch
      <4>1. "Escalated" \in Statuses BY DEF Statuses
      <4> HIDE DEF rest
      <4> QED BY <2>2, <4>1 DEF Session
    <3>2. sess' = [sess EXCEPT ![s] = l] BY <1>5, <2>5 DEF SweepFetch
    <3>3. <<from, "Escalated">> \in Rules BY <2>5, AcceptedIsRule
    <3>4. task[t].status = from BY <2>1, <2>3
    <3> HIDE DEF rest, l
    <3>5. Truthful(l) BY <2>2, <2>3, <2>4, <3>1, <3>3, <3>4 DEF Truthful
    <3> QED BY <2>1, <3>1, <3>2, <3>5 DEF LocalTruth
  <2>6. CASE ~TransitionAccepted(from, "Escalated", "Other", TRUE)
    <3>1. sess' = [sess EXCEPT ![s] = IF rest.batch = {} THEN Free ELSE rest]
      BY <1>5, <2>6 DEF SweepFetch
    <3> HIDE DEF rest, l
    <3>2. Truthful(rest) BY <2>2, <2>3 DEF Truthful
    <3> QED BY <2>1, <2>2, <3>1, <3>2, FreeIsTruthful DEF LocalTruth
  <2> QED BY <2>5, <2>6
<1>6. CASE SyncRead(s)
  <2> DEFINE x == task[sess[s].task].subject
             l == [sess[s] EXCEPT !.pc = "report", !.seen = SyncedState(x)]
  <2>1. SyncedState(x) \in ActionStates BY DEF SyncedState, ActionStates
  <2>2. l \in Session /\ l.pc = "report" /\ l.batch = sess[s].batch BY <1>0, <2>1 DEF Session
  <2>3. sess' = [sess EXCEPT ![s] = l] BY <1>6, <1>0 DEF SyncRead, TypeOK
  <2> HIDE DEF l
  <2>4. Truthful(l) BY <1>0, <2>2 DEF Truthful
  <2> QED BY <1>6, <2>2, <2>3, <2>4 DEF SyncRead, LocalTruth
<1> QED BY <1>1, <1>2, <1>3, <1>4, <1>5, <1>6 DEF LocalStep

-----------------------------------------------------------------------------
(* Steps that write task or log *)

\* What makes the locals l a connection is left with truthful in the next state.
LEMMA TruthfulAfter ==
  ASSUME NEW s \in Sessions, NEW l \in Session, sess'[s] = l,
         l.pc \in {"log", "update"} =>
           /\ task'[l.task].status = l.from /\ <<l.from, l.to>> \in Rules
           /\ \A r \in l.batch : r[1] /= l.task,
         l.pc = "update" => LastTo(log'[l.task]) = l.to,
         \A r \in l.batch : task'[r[1]].status = r[2],
         l.pc = "close" => l.call = "complete",
         l.call = "complete" /\ l.pc \in {"close", "log", "update"} =>
           \A c \in Tasks : /\ task'[c].status /= NoStatus
                            /\ task'[c].parent = l.task
                            /\ task'[c].mandatory
                            => task'[c].closed
  PROVE  Truthful(sess[s])'
BY DEF Truthful, LastTo, Children, Exists

\* A connection's locals stay truthful while a row it does not work on is
\* written, unless that row is a child of one it works on.
LEMMA StaysTruthful ==
  ASSUME IInv, NEW q \in Sessions, Truthful(sess[q]), sess'[q] = sess[q],
         NEW t \in Tasks, t \notin WorksOn(q),
         \A u \in Tasks : u /= t => task'[u] = task[u] /\ log'[u] = log[u],
         task'[t].parent \notin WorksOn(q)
  PROVE  Truthful(sess[q])'
<1> DEFINE l == sess[q]
<1>1. l \in Session /\ PendingAt(l) /\ Truthful(l) BY DEF IInv, TypeOK, Pending
<1>2. ASSUME l.pc \in {"close", "log", "update"}
      PROVE  l.task \in Tasks /\ l.task /= t /\ task'[t].parent /= l.task
  BY <1>1, <1>2 DEF PendingAt, WorksOn
<1>3. ASSUME NEW r \in l.batch
      PROVE  r[1] \in Tasks /\ r[1] /= t
  BY <1>1, <1>3 DEF PendingAt, WorksOn
<1> HIDE DEF l
<1>4. l.pc \in {"log", "update"} =>
        /\ task'[l.task].status = l.from /\ <<l.from, l.to>> \in Rules
        /\ \A r \in l.batch : r[1] /= l.task
  BY <1>1, <1>2 DEF Truthful
<1>5. l.pc = "update" => LastTo(log'[l.task]) = l.to
  BY <1>1, <1>2 DEF Truthful, LastTo
<1>6. \A r \in l.batch : task'[r[1]].status = r[2]
  BY <1>1, <1>3 DEF Truthful
<1>7. ASSUME l.call = "complete", l.pc \in {"close", "log", "update"}, NEW c \in Tasks,
             task'[c].status /= NoStatus, task'[c].parent = l.task, task'[c].mandatory
      PROVE  task'[c].closed
  <2>1. c /= t BY <1>2, <1>7
  <2>2. task'[c] = task[c] BY <2>1
  <2>3. c \in Children(l.task) BY <1>7, <2>2 DEF Children, Exists
  <2> QED BY <1>1, <1>7, <2>2, <2>3 DEF Truthful
<1>8. l.pc = "close" => l.call = "complete" BY <1>1 DEF Truthful
<1>9. sess'[q] = l BY DEF l
<1> QED BY <1>1, <1>4, <1>5, <1>6, <1>7, <1>8, <1>9, TruthfulAfter

\* Row t is written by the connections S, which are left truthful, and its
\* history goes on.
LEMMA RowWritten ==
  ASSUME HInv, NEW t \in Tasks, NEW S \in SUBSET Sessions,
         \A u \in Tasks : u /= t => task'[u] = task[u] /\ log'[u] = log[u],
         HistoryOf(t)',
         \A u \in Tasks : u /= t /\ Moving(u) => Moving(u)',
         \A q \in Sessions \ S :
            sess'[q] = sess[q] /\ t \notin WorksOn(q) /\ task'[t].parent \notin WorksOn(q),
         \A s \in S : Truthful(sess[s])'
  PROVE  AllTruthful' /\ LogIsHistory'
<1>1. \A u \in Tasks : HistoryOf(u) BY HistoryByTask DEF HInv
<1>2. ASSUME NEW u \in Tasks, u /= t PROVE HistoryOf(u)'
  <2>1. task'[u] = task[u] /\ log'[u] = log[u] /\ HistoryOf(u) /\ (Moving(u) => Moving(u)')
    BY <1>1, <1>2
  <2> QED BY <2>1 DEF HistoryOf, Chain, LastTo, Exists
<1>3. \A u \in Tasks : HistoryOf(u)' BY <1>2
<1>4. LogIsHistory' BY <1>3 DEF LogIsHistory, HistoryOf, Chain, LastTo
<1>5. ASSUME NEW q \in Sessions PROVE Truthful(sess[q])'
  <2>1. CASE q \in S BY <2>1
  <2>2. CASE q \notin S
    <3>1. IInv /\ Truthful(sess[q]) BY DEF HInv, AllTruthful
    <3> QED BY <2>2, <3>1, StaysTruthful
  <2> QED BY <2>1, <2>2
<1> QED BY <1>4, <1>5 DEF AllTruthful

LEMMA OneRowWritten ==
  ASSUME HInv, NEW t \in Tasks, NEW s \in Sessions,
         \A u \in Tasks : u /= t => task'[u] = task[u] /\ log'[u] = log[u],
         HistoryOf(t)',
         \A u \in Tasks : u /= t /\ Moving(u) => Moving(u)',
         \A q \in Sessions \ {s} :
            sess'[q] = sess[q] /\ t \notin WorksOn(q) /\ task'[t].parent \notin WorksOn(q),
         Truthful(sess[s])'
  PROVE  AllTruthful' /\ LogIsHistory'
<1> DEFINE S == {s}
<1>1. S \in SUBSET Sessions /\ \A q \in S : Truthful(sess[q])' OBVIOUS
<1>2. \A q \in Sessions \ S :
         sess'[q] = sess[q] /\ t \notin WorksOn(q) /\ task'[t].parent \notin WorksOn(q)
  OBVIOUS
<1> HIDE DEF S
<1> QED BY <1>1, <1>2, RowWritten, Zenon

\* The task a connection works on, and that nobody else does.
LEMMA OwnTask ==
  ASSUME HInv, Apart, NEW s \in Sessions, NEW t \in Tasks, sess[s].task = t,
         sess[s].pc \in {"log", "update", "create", "apply"}
  PROVE  /\ Exists(t) /\ task[t] \in TaskRow /\ sess[s] \in Session
         /\ log[t] \in Seq(LogRow) /\ log[t] /= <<>>
         /\ \A q \in Sessions \ {s} : t \notin WorksOn(q) /\ task[t].parent \notin WorksOn(q)
         /\ \A q \in Sessions \ {s} : ~(sess[q].pc = "update" /\ sess[q].task = t)
         /\ Truthful(sess[s]) /\ PendingAt(sess[s])
         /\ Chain(log[t])
         /\ sess[s].pc /= "update" => task[t].status = LastTo(log[t])
<1>1. sess[s] \in Session /\ PendingAt(sess[s]) /\ Truthful(sess[s])
  BY DEF HInv, IInv, TypeOK, Pending, AllTruthful
<1>2. Exists(t) BY <1>1 DEF PendingAt
<1>3. task[t] \in TaskRow /\ log[t] \in Seq(LogRow) BY DEF HInv, IInv, TypeOK
<1>4. log[t] /= <<>>
  <2>1. task[t].status \in Logged(t) BY <1>2 DEF HInv, IInv, StatusIsLogged
  <2> QED BY <2>1 DEF Logged
<1>5. t \in WorksOn(s) BY DEF WorksOn
<1>6. ASSUME NEW q \in Sessions \ {s}
      PROVE  /\ t \notin WorksOn(q) /\ task[t].parent \notin WorksOn(q)
             /\ ~(sess[q].pc = "update" /\ sess[q].task = t)
  <2>1. t \notin WorksOn(q) /\ task[t].parent \notin WorksOn(q) BY <1>5, <1>6 DEF Apart
  <2> QED BY <2>1 DEF WorksOn
<1>7. HistoryOf(t) BY HistoryByTask DEF HInv
<1>8. sess[s].pc /= "update" => ~Moving(t) BY <1>6 DEF Moving
<1> QED BY <1>1, <1>2, <1>3, <1>4, <1>6, <1>7, <1>8 DEF HistoryOf

\* A step of s leaves the moves of the others going.
LEMMA OthersMoving ==
  ASSUME NEW s \in Sessions, NEW t \in Tasks,
         sess[s].pc = "update" => sess[s].task = t,
         \A q \in Sessions \ {s} : sess'[q] = sess[q]
  PROVE  \A u \in Tasks : u /= t /\ Moving(u) => Moving(u)'
<1> SUFFICES ASSUME NEW u \in Tasks, u /= t, Moving(u) PROVE Moving(u)' OBVIOUS
<1>1. PICK q \in Sessions : sess[q].pc = "update" /\ sess[q].task = u BY DEF Moving
<1>2. q /= s BY <1>1
<1> QED BY <1>1, <1>2 DEF Moving

LEMMA LogTransitionHistory ==
  ASSUME HInv, Apart, NEW s \in Sessions, NEW t \in Tasks, sess[s].task = t, LogTransition(s)
  PROVE  AllTruthful' /\ LogIsHistory'
<1> DEFINE row == [from |-> sess[s].from, to |-> sess[s].to]
           l == [sess[s] EXCEPT !.pc = "update"]
<1>1. sess[s].pc = "log" BY DEF LogTransition
<1>2. /\ task[t] \in TaskRow /\ sess[s] \in Session
      /\ log[t] \in Seq(LogRow) /\ log[t] /= <<>> /\ Chain(log[t])
      /\ task[t].status = LastTo(log[t])
      /\ \A q \in Sessions \ {s} : t \notin WorksOn(q) /\ task[t].parent \notin WorksOn(q)
      /\ Truthful(sess[s]) /\ PendingAt(sess[s])
  BY <1>1, OwnTask
<1>3. row \in LogRow /\ row.from = LastTo(log[t]) /\ row.to = sess[s].to
  BY <1>1, <1>2 DEF LogRow, Session, PendingAt, Truthful
<1> HIDE DEF row
<1>4. Chain(Append(log[t], row)) /\ LastTo(Append(log[t], row)) = sess[s].to
  BY <1>2, <1>3, ChainAppend
<1>5. /\ task' = task /\ log' = [log EXCEPT ![t] = Append(log[t], row)]
      /\ sess' = [sess EXCEPT ![s] = l]
  BY <1>2 DEF LogTransition, HInv, IInv, TypeOK, row
<1>6. /\ l.pc = "update" /\ l.task = t /\ l.from = sess[s].from /\ l.to = sess[s].to
      /\ l.batch = sess[s].batch /\ l.call = sess[s].call
  BY <1>2 DEF Session
<1> HIDE DEF l
<1>7. log'[t] = Append(log[t], row) /\ \A u \in Tasks : u /= t => log'[u] = log[u]
  BY <1>2, <1>5 DEF HInv, IInv, TypeOK
<1>8. sess'[s] = l /\ \A q \in Sessions \ {s} : sess'[q] = sess[q]
  BY <1>5 DEF HInv, IInv, TypeOK
<1>9. Chain(log'[t]) /\ \E q \in Sessions : sess'[q].pc = "update" /\ sess'[q].task = t
  BY <1>4, <1>6, <1>7, <1>8
<1>10. Truthful(sess[s])'
  <2>1. LastTo(log'[t]) = l.to BY <1>4, <1>6, <1>7
  <2>2. l \in Session BY <1>2 DEF Session, l
  <2>3. /\ task[t].status = l.from /\ <<l.from, l.to>> \in Rules
        /\ \A r \in l.batch : r[1] /= t /\ task[r[1]].status = r[2]
    BY <1>1, <1>2, <1>6 DEF Truthful
  <2>4. l.call = "complete" =>
          \A c \in Tasks : /\ task[c].status /= NoStatus /\ task[c].parent = t
                           /\ task[c].mandatory
                           => task[c].closed
    BY <1>1, <1>2, <1>6 DEF Truthful, Children, Exists
  <2> QED BY <1>5, <1>6, <1>8, <2>1, <2>2, <2>3, <2>4, TruthfulAfter
<1>11. \A u \in Tasks : u /= t /\ Moving(u) => Moving(u)'
  BY <1>1, <1>2, <1>8, OthersMoving
<1>12. HistoryOf(t)' BY <1>9 DEF HistoryOf, Chain, Moving
<1> QED BY <1>2, <1>5, <1>7, <1>8, <1>10, <1>11, <1>12, OneRowWritten

\* A step of s that ends the move of its task, or makes it in one go.
LEMMA MoveEnds ==
  ASSUME HInv, Apart, NEW s \in Sessions, NEW t \in Tasks, sess[s].task = t,
         sess[s].pc \in {"update", "apply"},
         NEW row, NEW rows, row.parent = task[t].parent,
         task' = [task EXCEPT ![t] = row], log' = [log EXCEPT ![t] = rows],
         Chain(rows), row.status = LastTo(rows),
         NEW l \in Session, sess' = [sess EXCEPT ![s] = l], Truthful(sess[s])'
  PROVE  AllTruthful' /\ LogIsHistory'
<1>1. \A q \in Sessions \ {s} : t \notin WorksOn(q) /\ task[t].parent \notin WorksOn(q)
  BY OwnTask
<1>2. /\ task'[t] = row /\ log'[t] = rows
      /\ \A u \in Tasks : u /= t => task'[u] = task[u] /\ log'[u] = log[u]
  BY DEF HInv, IInv, TypeOK
<1>3. \A q \in Sessions \ {s} : sess'[q] = sess[q] BY DEF HInv, IInv, TypeOK
<1>4. \A u \in Tasks : u /= t /\ Moving(u) => Moving(u)' BY <1>3, OthersMoving
<1>5. Chain(log'[t]) /\ task'[t].status = LastTo(log'[t]) BY <1>2
<1>6. HistoryOf(t)' BY <1>5 DEF HistoryOf, Chain, LastTo
<1> QED BY <1>1, <1>2, <1>3, <1>4, <1>6, OneRowWritten

LEMMA FreedIsTruthful ==
  ASSUME TypeOK, NEW s \in Sessions, sess' = [sess EXCEPT ![s] = Free]
  PROVE  Truthful(sess[s])'
<1>1. sess'[s] = Free BY DEF TypeOK
<1>2. Free \in Session /\ Free.pc = "idle" /\ Free.batch = {} BY FreeIsTruthful DEF Free
<1> QED BY <1>1, <1>2, TruthfulAfter

LEMMA CommitHistory ==
  ASSUME HInv, Apart, NEW s \in Sessions, NEW t \in Tasks, sess[s].task = t,
         \/ CommitTransition(s) \/ CommitClose(s) \/ CommitComplete(s) \/ CommitSweep(s)
  PROVE  AllTruthful' /\ LogIsHistory'
<1> USE DEF HInv, IInv
<1>1. sess[s].pc = "update"
  BY DEF CommitTransition, CommitClose, CommitComplete, CommitSweep
<1>2. /\ Exists(t) /\ task[t] \in TaskRow /\ sess[s] \in Session /\ Chain(log[t])
      /\ Truthful(sess[s]) /\ PendingAt(sess[s]) /\ log = [log EXCEPT ![t] = log[t]]
  BY <1>1, OwnTask DEF TypeOK
<1>3. sess[s].to = LastTo(log[t]) BY <1>1, <1>2 DEF Truthful, LastTo
<1>4. ASSUME NEW row, row.parent = task[t].parent, row.status = sess[s].to,
             task' = [task EXCEPT ![t] = row], log' = log,
             NEW l \in Session, sess' = [sess EXCEPT ![s] = l], Truthful(sess[s])'
      PROVE  AllTruthful' /\ LogIsHistory'
  BY <1>1, <1>2, <1>3, <1>4, MoveEnds
<1>5. CASE CommitTransition(s)
  <2> DEFINE row == [task[t] EXCEPT !.status = sess[s].to,
                                    !.escalated = @ \/ sess[s].to = "Escalated"]
  <2>1. task' = [task EXCEPT ![t] = row] BY <1>5 DEF CommitTransition, TypeOK
  <2>2. row.parent = task[t].parent /\ row.status = sess[s].to BY <1>2 DEF TaskRow
  <2> HIDE DEF row
  <2>3. log' = log /\ sess' = [sess EXCEPT ![s] = Free] BY <1>5 DEF CommitTransition
  <2> QED BY <1>4, <2>1, <2>2, <2>3, FreeIsTruthful, FreedIsTruthful
<1>6. CASE CommitClose(s)
  <2> DEFINE row == [task[t] EXCEPT !.status = "Closed", !.closed = TRUE]
  <2>1. task' = [task EXCEPT ![t] = row] BY <1>6 DEF CommitClose, TypeOK
  <2>2. row.parent = task[t].parent /\ row.status = "Closed" BY <1>2 DEF TaskRow
  <2>3. sess[s].to = "Closed" BY <1>2, <1>6 DEF PendingAt, CommitClose
  <2> HIDE DEF row
  <2>4. log' = log /\ sess' = [sess EXCEPT ![s] = Free] BY <1>6 DEF CommitClose
  <2> QED BY <1>4, <2>1, <2>2, <2>3, <2>4, FreeIsTruthful, FreedIsTruthful
<1>7. CASE CommitComplete(s)
  <2> DEFINE row == [task[t] EXCEPT !.status = "Closed", !.closed = TRUE, !.completed = TRUE]
             l == [sess[s] EXCEPT !.pc = "sync"]
  <2>1. task' = [task EXCEPT ![t] = row] BY <1>7 DEF CommitComplete, TypeOK
  <2>2. row.parent = task[t].parent /\ row.status = "Closed" BY <1>2 DEF TaskRow
  <2>3. sess[s].to = "Closed" BY <1>2, <1>7 DEF PendingAt, CommitComplete
  <2>4. l \in Session /\ l.pc = "sync" /\ l.batch = sess[s].batch BY <1>2 DEF Session
  <2>5. log' = log /\ sess' = [sess EXCEPT ![s] = l] BY <1>7 DEF CommitComplete, TypeOK
  <2> HIDE DEF row, l
  <2>6. sess'[s] = l BY <2>5 DEF TypeOK
  <2>7. \A r \in sess[s].batch : r[1] \in Tasks /\ r[1] /= t /\ task[r[1]].status = r[2]
    BY <1>1, <1>2 DEF Truthful, PendingAt
  <2>8. \A r \in l.batch : task'[r[1]].status = r[2] BY <2>1, <2>4, <2>7 DEF TypeOK
  <2>9. Truthful(sess[s])' BY <2>4, <2>6, <2>8, TruthfulAfter
  <2> QED BY <1>4, <2>1, <2>2, <2>3, <2>4, <2>5, <2>9
<1>8. CASE CommitSweep(s)
  <2> DEFINE row == [task[t] EXCEPT !.status = "Escalated", !.escalated = TRUE]
             l == [Free EXCEPT !.call = "sweep", !.pc = "next", !.batch = sess[s].batch]
  <2>1. task' = [task EXCEPT ![t] = row] BY <1>8 DEF CommitSweep, TypeOK
  <2>2. row.parent = task[t].parent /\ row.status = "Escalated" BY <1>2 DEF TaskRow
  <2>3. sess[s].to = "Escalated" BY <1>2, <1>8 DEF PendingAt, CommitSweep
  <2>4. log' = log BY <1>8 DEF CommitSweep
  <2> HIDE DEF row
  <2>5. CASE sess[s].batch = {}
    <3>1. sess' = [sess EXCEPT ![s] = Free] BY <1>8, <2>5 DEF CommitSweep
    <3> QED BY <1>4, <2>1, <2>2, <2>3, <2>4, <3>1, FreeIsTruthful, FreedIsTruthful
  <2>6. CASE sess[s].batch /= {}
    <3>1. sess[s].batch \in SUBSET (Tasks \X Statuses) BY <1>2 DEF Session
    <3>2. l \in Session BY <3>1, FreeIsTruthful DEF Session, CallNames
    <3>3. l.pc = "next" /\ l.call = "sweep" /\ l.batch = sess[s].batch BY DEF Free
    <3>4. sess' = [sess EXCEPT ![s] = l] BY <1>8, <2>6 DEF CommitSweep
    <3> HIDE DEF l
    <3>5. sess'[s] = l BY <3>4 DEF TypeOK
    <3>6. \A r \in l.batch : r[1] \in Tasks /\ r[1] /= t /\ task[r[1]].status = r[2]
      BY <1>1, <1>2, <3>1, <3>3 DEF Truthful
    <3>7. \A r \in l.batch : task'[r[1]].status = r[2] BY <2>1, <3>6 DEF TypeOK
    <3>8. Truthful(sess[s])' BY <3>2, <3>3, <3>5, <3>7, TruthfulAfter
    <3> QED BY <1>4, <2>1, <2>2, <2>3, <2>4, <3>2, <3>4, <3>8
  <2> QED BY <2>5, <2>6
<1> QED BY <1>5, <1>6, <1>7, <1>8

LEMMA ApplyEditHistory ==
  ASSUME HInv, Apart, NEW s \in Sessions, NEW t \in Tasks, sess[s].task = t, ApplyEdit(s)
  PROVE  AllTruthful' /\ LogIsHistory'
<1> DEFINE moves == EditMoves(task[t].status, sess[s].own, sess[s].to)
           rows == log[t] \o moves
           row == [task[t] EXCEPT
                     !.status = IF moves = <<>> THEN @ ELSE moves[Len(moves)].to,
                     !.escalated = @ \/ sess[s].to = "Escalated",
                     !.mandatory = IF sess[s].mand = "keep" THEN @ ELSE sess[s].mand = "yes"]
<1> USE DEF HInv, IInv
<1>1. sess[s].pc = "apply" BY DEF ApplyEdit
<1>2. /\ Exists(t) /\ task[t] \in TaskRow /\ sess[s] \in Session /\ Chain(log[t])
      /\ log[t] \in Seq(LogRow) /\ log[t] /= <<>> /\ task[t].status = LastTo(log[t])
  BY <1>1, OwnTask
<1>3. /\ LastTo(log[t]) \in Statuses
      /\ sess[s].own \in BOOLEAN /\ sess[s].to \in Statuses \cup {NoStatus}
  BY <1>2 DEF TaskRow, Exists, Session
<1>4. task' = [task EXCEPT ![t] = row] /\ log' = [log EXCEPT ![t] = rows]
      /\ sess' = [sess EXCEPT ![s] = Free]
  BY DEF ApplyEdit, TypeOK
<1>5. /\ row.parent = task[t].parent
      /\ row.status = IF moves = <<>> THEN task[t].status ELSE LastTo(moves)
  BY <1>2 DEF TaskRow, LastTo
<1>6. /\ Chain(rows)
      /\ LastTo(rows) = IF moves = <<>> THEN LastTo(log[t]) ELSE LastTo(moves)
  BY <1>2, <1>3, EditHistory
<1> HIDE DEF moves, row, rows
<1>7. row.status = LastTo(rows) BY <1>2, <1>5, <1>6
<1> QED BY <1>1, <1>4, <1>5, <1>6, <1>7, FreeIsTruthful, FreedIsTruthful, MoveEnds

\* A task that does not exist is nobody's to work on.
LEMMA NotYetWorkedOn ==
  ASSUME IInv, NEW t \in Tasks, ~Exists(t), NEW q \in Sessions
  PROVE  /\ t \notin WorksOn(q) /\ NoTask \notin WorksOn(q)
         /\ ~(sess[q].pc = "update" /\ sess[q].task = t)
<1>1. PendingAt(sess[q]) BY DEF IInv, Pending
<1>2. sess[q].task = t => sess[q].pc \in {"idle", "next"} BY <1>1 DEF PendingAt
<1>3. \A r \in sess[q].batch : r[1] /= t BY <1>1 DEF PendingAt
<1> QED BY <1>2, <1>3, NoTaskAssumption DEF WorksOn

LEMMA CommitChildHistory ==
  ASSUME HInv, Apart, NEW s \in Sessions, NEW p \in Tasks, sess[s].task = p,
         NEW t \in Tasks, NEW mandatory \in BOOLEAN, NEW owned \in BOOLEAN,
         CommitChild(s, t, mandatory, owned)
  PROVE  AllTruthful' /\ LogIsHistory'
<1> DEFINE row == NewTask("Custom", task[p].subject, p, mandatory, owned)
           rows == NewTaskLog(owned)
<1> USE DEF HInv, IInv
<1>1. sess[s].pc = "create" /\ ~Exists(t) BY DEF CommitChild
<1>2. /\ task' = [task EXCEPT ![t] = row] /\ log' = [log EXCEPT ![t] = rows]
      /\ sess' = [sess EXCEPT ![s] = Free]
  BY DEF CommitChild
<1>3. row.parent = p /\ row.status = IF owned THEN "Assigned" ELSE "Open" BY DEF NewTask
<1>4. Chain(rows) /\ LastTo(rows) = row.status BY <1>3, NewTaskHistory
<1> HIDE DEF row, rows
<1>5. /\ task'[t] = row /\ log'[t] = rows
      /\ \A u \in Tasks : u /= t => task'[u] = task[u] /\ log'[u] = log[u]
      /\ \A q \in Sessions \ {s} : sess'[q] = sess[q]
  BY <1>2 DEF TypeOK
<1>6. \A q \in Sessions \ {s} : p \notin WorksOn(q) BY <1>1, OwnTask
<1>7. \A q \in Sessions \ {s} : t \notin WorksOn(q) /\ task'[t].parent \notin WorksOn(q)
  BY <1>1, <1>3, <1>5, <1>6, NotYetWorkedOn
<1>8. \A u \in Tasks : u /= t /\ Moving(u) => Moving(u)' BY <1>1, <1>5, OthersMoving
<1>9. Chain(log'[t]) /\ task'[t].status = LastTo(log'[t]) BY <1>4, <1>5
<1>10. HistoryOf(t)' BY <1>9 DEF HistoryOf, Chain, LastTo
<1>11. Truthful(sess[s])' BY <1>2, FreedIsTruthful
<1> QED BY <1>5, <1>7, <1>8, <1>10, <1>11, OneRowWritten

LEMMA OpenTaskHistory ==
  ASSUME HInv, NEW t \in Tasks, NEW type \in TaskTypes, NEW x \in Subjects,
         NEW owned \in BOOLEAN, OpenTask(t, type, x, owned)
  PROVE  AllTruthful' /\ LogIsHistory'
<1> DEFINE row == NewTask(type, x, NoTask, FALSE, owned)
           rows == NewTaskLog(owned)
           S == {}
<1> USE DEF HInv, IInv
<1>1. ~Exists(t) BY DEF OpenTask
<1>2. /\ task' = [task EXCEPT ![t] = row] /\ log' = [log EXCEPT ![t] = rows]
      /\ sess' = sess
  BY DEF OpenTask
<1>3. row.parent = NoTask /\ row.status = IF owned THEN "Assigned" ELSE "Open" BY DEF NewTask
<1>4. Chain(rows) /\ LastTo(rows) = row.status BY <1>3, NewTaskHistory
<1> HIDE DEF row, rows
<1>5. /\ task'[t] = row /\ log'[t] = rows
      /\ \A u \in Tasks : u /= t => task'[u] = task[u] /\ log'[u] = log[u]
  BY <1>2 DEF TypeOK
<1>6. \A q \in Sessions : t \notin WorksOn(q) /\ task'[t].parent \notin WorksOn(q)
  BY <1>1, <1>3, <1>5, NotYetWorkedOn
<1>7. \A u \in Tasks : Moving(u) => Moving(u)' BY <1>2 DEF Moving
<1>8. Chain(log'[t]) /\ task'[t].status = LastTo(log'[t]) BY <1>4, <1>5
<1>9. HistoryOf(t)' BY <1>8 DEF HistoryOf, Chain, LastTo
<1>10. /\ S \in SUBSET Sessions /\ \A s \in S : Truthful(sess[s])'
       /\ \A q \in Sessions \ S :
            sess'[q] = sess[q] /\ t \notin WorksOn(q) /\ task'[t].parent \notin WorksOn(q)
  BY <1>2, <1>6
<1> HIDE DEF S
<1> QED BY <1>5, <1>7, <1>9, <1>10, RowWritten, Zenon

-----------------------------------------------------------------------------
(* The inductive invariant *)

\* Steps that write no row: the locals of one connection change, or none.
LEMMA RowsStand ==
  ASSUME HInv, UNCHANGED <<task, log>>,
         \A q \in Sessions : \/ sess'[q] = sess[q]
                             \/ /\ Truthful(sess[q])'
                                /\ sess[q].pc /= "update"
  PROVE  AllTruthful' /\ LogIsHistory'
<1>1. ASSUME NEW q \in Sessions PROVE Truthful(sess[q])'
  <2>1. CASE sess'[q] = sess[q]
    <3>1. Truthful(sess[q]) BY DEF HInv, AllTruthful
    <3> QED BY <2>1, <3>1 DEF Truthful, Children, Exists
  <2> QED BY <2>1
<1>2. ASSUME NEW t \in Tasks PROVE HistoryOf(t)'
  <2>1. HistoryOf(t) BY HistoryByTask DEF HInv
  <2>2. Moving(t) => Moving(t)' BY DEF Moving
  <2> QED BY <2>1, <2>2 DEF HistoryOf, Chain, LastTo, Exists
<1> QED BY <1>1, <1>2 DEF AllTruthful, LogIsHistory, HistoryOf, Chain, LastTo

LEMMA HistoryStep == HInv /\ Apart /\ [Next]_vars => HInv'
<1> SUFFICES ASSUME HInv, Apart, [Next]_vars PROVE AllTruthful' /\ LogIsHistory'
  BY NextInvariant DEF HInv
<1>1. IInv /\ TypeOK /\ Pending /\ AllTruthful BY DEF HInv, IInv
<1>2. ASSUME NEW s \in Sessions, LocalStep(s) PROVE AllTruthful' /\ LogIsHistory'
  <2>1. PICK l \in Session : /\ sess' = [sess EXCEPT ![s] = l]
                             /\ UNCHANGED <<task, log, actionState>>
                             /\ Truthful(l) /\ sess[s].pc /= "update"
    BY <1>1, <1>2, LocalStepIsTruthful DEF LocalTruth
  <2>2. sess'[s] = l /\ \A q \in Sessions \ {s} : sess'[q] = sess[q]
    BY <1>1, <2>1 DEF TypeOK
  <2>3. Truthful(sess[s])' BY <2>1, <2>2 DEF Truthful, Children, Exists
  <2> QED BY <2>1, <2>2, <2>3, RowsStand
<1>3. ASSUME NEW s \in Sessions, RowStep(s) PROVE AllTruthful' /\ LogIsHistory'
  <2>1. PICK t \in Tasks : sess[s].task = t
    BY <1>1, <1>3 DEF Pending, PendingAt, RowStep, LogTransition, CommitTransition, CommitClose,
                      CommitComplete, CommitSweep, ApplyEdit, CommitChild
  <2>2. CASE LogTransition(s) BY <2>1, <2>2, LogTransitionHistory
  <2>3. CASE CommitTransition(s) \/ CommitClose(s) \/ CommitComplete(s) \/ CommitSweep(s)
    BY <2>1, <2>3, CommitHistory
  <2>4. CASE ApplyEdit(s) BY <2>1, <2>4, ApplyEditHistory
  <2>5. ASSUME NEW c \in Tasks, NEW mandatory \in BOOLEAN, NEW owned \in BOOLEAN,
               CommitChild(s, c, mandatory, owned)
        PROVE  AllTruthful' /\ LogIsHistory'
    BY <2>1, <2>5, CommitChildHistory
  <2> QED BY <1>3, <2>2, <2>3, <2>4, <2>5 DEF RowStep
<1>4. ASSUME NEW s \in Sessions, SyncWrite(s) PROVE AllTruthful' /\ LogIsHistory'
  <2>1. /\ UNCHANGED <<task, log>> /\ sess' = [sess EXCEPT ![s] = Free]
        /\ sess[s].pc = "report"
    BY <1>4 DEF SyncWrite
  <2>2. Truthful(sess[s])' BY <1>1, <2>1, FreedIsTruthful
  <2>3. \A q \in Sessions \ {s} : sess'[q] = sess[q] BY <1>1, <2>1 DEF TypeOK
  <2> QED BY <2>1, <2>2, <2>3, RowsStand
<1>5. ASSUME NEW t \in Tasks, FallDue(t) PROVE AllTruthful' /\ LogIsHistory'
  BY <1>5, RowsStand DEF FallDue
<1>6. ASSUME NEW t \in Tasks, NEW type \in TaskTypes, NEW x \in Subjects,
             NEW owned \in BOOLEAN, OpenTask(t, type, x, owned)
      PROVE  AllTruthful' /\ LogIsHistory'
  BY <1>6, OpenTaskHistory
<1>7. CASE UNCHANGED vars BY <1>7, RowsStand DEF vars
<1> QED BY <1>2, <1>3, <1>4, <1>5, <1>6, <1>7, NextCases

LEMMA HistoryInit == Init => HInv
<1> SUFFICES ASSUME Init PROVE AllTruthful /\ LogIsHistory BY InitInvariant DEF HInv
<1>1. AllTruthful BY FreeIsTruthful DEF AllTruthful, Init
<1>2. LogIsHistory BY DEF LogIsHistory, Init, Exists
<1> QED BY <1>1, <1>2

LEMMA HistoryInvariance == Spec /\ []Apart => []HInv
BY HistoryInit, HistoryStep, PTL DEF Spec

-----------------------------------------------------------------------------
(* What a step does to the row it writes *)

\* A new task; a task that moves along the rules, or stays, with its completion
\* stamp as it was; a task completed with its mandatory children closed.
Created(t, row) ==
  ~Exists(t) /\ row.status \in {"Open", "Assigned"} /\ ~row.completed

Moved(t, row) ==
  /\ row.completed = task[t].completed
  /\ row.status \in Statuses
  /\ \/ row.status = task[t].status
     \/ <<task[t].status, row.status>> \in Rules
     \/ task[t].status = "Open" /\ <<"Assigned", row.status>> \in Rules

CompletedNow(t, row) ==
  /\ row.status = "Closed" /\ <<task[t].status, "Closed">> \in Rules
  /\ \A c \in Children(t) : task[c].mandatory => task[c].closed

RowChange ==
  \/ UNCHANGED task
  \/ \E t \in Tasks : \E row \in TaskRow :
       /\ task' = [task EXCEPT ![t] = row]
       /\ Created(t, row) \/ Moved(t, row) \/ CompletedNow(t, row)

\* The UPDATE that ends a move follows the rule the log row names.
LEMMA CommitChange ==
  ASSUME HInv, Apart, NEW s \in Sessions, NEW t \in Tasks, sess[s].task = t,
         \/ CommitTransition(s) \/ CommitClose(s) \/ CommitComplete(s) \/ CommitSweep(s)
  PROVE  RowChange
<1> USE DEF HInv, IInv
<1>1. sess[s].pc = "update"
  BY DEF CommitTransition, CommitClose, CommitComplete, CommitSweep
<1>2. /\ task[t] \in TaskRow /\ sess[s] \in Session
      /\ Truthful(sess[s]) /\ PendingAt(sess[s])
  BY <1>1, OwnTask
<1>3. /\ <<task[t].status, sess[s].to>> \in Rules /\ sess[s].to \in Statuses
  BY <1>1, <1>2 DEF Truthful, PendingAt
<1>4. CASE CommitTransition(s)
  <2> DEFINE row == [task[t] EXCEPT !.status = sess[s].to,
                                    !.escalated = @ \/ sess[s].to = "Escalated"]
  <2>1. task' = [task EXCEPT ![t] = row] BY <1>4 DEF CommitTransition, TypeOK
  <2>2. row \in TaskRow /\ row.status = sess[s].to /\ row.completed = task[t].completed
    BY <1>2, <1>3 DEF TaskRow
  <2> HIDE DEF row
  <2>3. Moved(t, row) BY <1>3, <2>2 DEF Moved
  <2> QED BY <2>1, <2>2, <2>3 DEF RowChange
<1>5. CASE CommitClose(s)
  <2> DEFINE row == [task[t] EXCEPT !.status = "Closed", !.closed = TRUE]
  <2>1. task' = [task EXCEPT ![t] = row] BY <1>5 DEF CommitClose, TypeOK
  <2>2. row \in TaskRow /\ row.status = "Closed" /\ row.completed = task[t].completed
    BY <1>2 DEF TaskRow, Statuses
  <2>3. sess[s].to = "Closed" BY <1>2, <1>5 DEF PendingAt, CommitClose
  <2> HIDE DEF row
  <2>4. Moved(t, row) BY <1>3, <2>2, <2>3 DEF Moved
  <2> QED BY <2>1, <2>2, <2>4 DEF RowChange
<1>6. CASE CommitComplete(s)
  <2> DEFINE row == [task[t] EXCEPT !.status = "Closed", !.closed = TRUE, !.completed = TRUE]
  <2>1. task' = [task EXCEPT ![t] = row] BY <1>6 DEF CommitComplete, TypeOK
  <2>2. row \in TaskRow /\ row.status = "Closed" BY <1>2 DEF TaskRow, Statuses
  <2>3. sess[s].to = "Closed" BY <1>2, <1>6 DEF PendingAt, CommitComplete
  <2>4. \A c \in Children(t) : task[c].mandatory => task[c].closed
    BY <1>1, <1>2, <1>6 DEF Truthful, CommitComplete
  <2> HIDE DEF row
  <2>5. CompletedNow(t, row) BY <1>3, <2>2, <2>3, <2>4 DEF CompletedNow
  <2> QED BY <2>1, <2>2, <2>5 DEF RowChange
<1>7. CASE CommitSweep(s)
  <2> DEFINE row == [task[t] EXCEPT !.status = "Escalated", !.escalated = TRUE]
  <2>1. task' = [task EXCEPT ![t] = row] BY <1>7 DEF CommitSweep, TypeOK
  <2>2. row \in TaskRow /\ row.status = "Escalated" /\ row.completed = task[t].completed
    BY <1>2 DEF TaskRow, Statuses
  <2>3. sess[s].to = "Escalated" BY <1>2, <1>7 DEF PendingAt, CommitSweep
  <2> HIDE DEF row
  <2>4. Moved(t, row) BY <1>3, <2>2, <2>3 DEF Moved
  <2> QED BY <2>1, <2>2, <2>4 DEF RowChange
<1> QED BY <1>4, <1>5, <1>6, <1>7

\* An edit follows the rule of its one move, or takes an Open task through
\* Assigned.
LEMMA ApplyEditChange ==
  ASSUME HInv, Apart, NEW s \in Sessions, NEW t \in Tasks, sess[s].task = t, ApplyEdit(s)
  PROVE  RowChange
<1> DEFINE moves == EditMoves(task[t].status, sess[s].own, sess[s].to)
           st == IF moves = <<>> THEN task[t].status ELSE moves[Len(moves)].to
           escalated == task[t].escalated \/ sess[s].to = "Escalated"
           mandatory == IF sess[s].mand = "keep" THEN task[t].mandatory ELSE sess[s].mand = "yes"
           row == [task[t] EXCEPT !.status = st, !.escalated = escalated, !.mandatory = mandatory]
<1> USE DEF HInv, IInv
<1>1. /\ Exists(t) /\ task[t] \in TaskRow /\ sess[s] \in Session
  BY OwnTask DEF ApplyEdit
<1>2. /\ task[t].status \in Statuses
      /\ sess[s].own \in BOOLEAN /\ sess[s].to \in Statuses \cup {NoStatus}
  BY <1>1 DEF TaskRow, Exists, Session
<1>3. \A i \in DOMAIN moves : <<moves[i].from, moves[i].to>> \in Rules
  BY AcceptedIsRule DEF ApplyEdit
<1>4. task' = [task EXCEPT ![t] = row] BY DEF ApplyEdit, TypeOK
<1>5. \/ moves = <<>>
      \/ \E m \in LogRow : m.from = task[t].status /\ moves = <<m>>
      \/ \E m, n \in LogRow :
           /\ task[t].status = "Open" /\ m.from = task[t].status
           /\ m.to = "Assigned" /\ n.from = m.to /\ moves = <<m, n>>
  BY <1>2, EditMovesCases
<1> HIDE DEF moves
<1>6. /\ st \in Statuses
      /\ \/ st = task[t].status
         \/ <<task[t].status, st>> \in Rules
         \/ task[t].status = "Open" /\ <<"Assigned", st>> \in Rules
  <2>1. CASE moves = <<>> BY <1>2, <2>1
  <2>2. CASE \E m \in LogRow : m.from = task[t].status /\ moves = <<m>>
    <3>1. PICK m \in LogRow : m.from = task[t].status /\ moves = <<m>> BY <2>2
    <3>2. moves /= <<>> /\ 1 \in DOMAIN moves /\ moves[1] = m /\ moves[Len(moves)] = m
      BY <3>1
    <3>3. st = m.to /\ m.to \in Statuses BY <3>1, <3>2 DEF LogRow
    <3>4. <<m.from, m.to>> \in Rules BY <1>3, <3>2
    <3> QED BY <3>1, <3>3, <3>4
  <2>3. CASE \E m, n \in LogRow :
               /\ task[t].status = "Open" /\ m.from = task[t].status
               /\ m.to = "Assigned" /\ n.from = m.to /\ moves = <<m, n>>
    <3>1. PICK m, n \in LogRow :
               /\ task[t].status = "Open" /\ m.from = task[t].status
               /\ m.to = "Assigned" /\ n.from = m.to /\ moves = <<m, n>>
      BY <2>3
    <3>2. moves /= <<>> /\ 2 \in DOMAIN moves /\ moves[2] = n /\ moves[Len(moves)] = n
      BY <3>1
    <3>3. st = n.to /\ n.to \in Statuses BY <3>1, <3>2 DEF LogRow
    <3>4. <<n.from, n.to>> \in Rules BY <1>3, <3>2
    <3> QED BY <3>1, <3>3, <3>4
  <2> QED BY <1>5, <2>1, <2>2, <2>3
<1>7. escalated \in BOOLEAN /\ mandatory \in BOOLEAN BY <1>1 DEF TaskRow
<1> HIDE DEF st, escalated, mandatory
<1>8. row \in TaskRow /\ row.status = st /\ row.completed = task[t].completed
  BY <1>1, <1>6, <1>7 DEF TaskRow
<1> HIDE DEF row
<1>9. Moved(t, row) BY <1>6, <1>8 DEF Moved
<1> QED BY <1>4, <1>8, <1>9 DEF RowChange

LEMMA CreationChange ==
  ASSUME NEW t \in Tasks, ~Exists(t), NEW type \in TaskTypes, NEW x \in Subjects,
         NEW p \in Tasks \cup {NoTask}, NEW mandatory \in BOOLEAN, NEW owned \in BOOLEAN,
         task' = [task EXCEPT ![t] = NewTask(type, x, p, mandatory, owned)]
  PROVE  RowChange
<1> DEFINE row == NewTask(type, x, p, mandatory, owned)
<1>1. row \in TaskRow /\ row.status \in {"Open", "Assigned"} /\ ~row.completed
  BY DEF NewTask, TaskRow, Statuses
<1> HIDE DEF row
<1>2. task' = [task EXCEPT ![t] = row] BY DEF row
<1>3. Created(t, row) BY <1>1 DEF Created
<1> QED BY <1>1, <1>2, <1>3 DEF RowChange

LEMMA StepChange == HInv /\ Apart /\ [Next]_vars => RowChange
<1> SUFFICES ASSUME HInv, Apart, [Next]_vars PROVE RowChange OBVIOUS
<1>1. IInv /\ TypeOK /\ Pending /\ AllTruthful BY DEF HInv, IInv
<1>2. ASSUME NEW s \in Sessions, LocalStep(s) PROVE RowChange
  BY <1>1, <1>2, LocalStepIsTruthful DEF LocalTruth, RowChange
<1>3. ASSUME NEW s \in Sessions, RowStep(s) PROVE RowChange
  <2>1. PICK t \in Tasks : sess[s].task = t
    BY <1>1, <1>3 DEF Pending, PendingAt, RowStep, LogTransition, CommitTransition, CommitClose,
                      CommitComplete, CommitSweep, ApplyEdit, CommitChild
  <2>2. CASE LogTransition(s) BY <2>2 DEF LogTransition, RowChange
  <2>3. CASE CommitTransition(s) \/ CommitClose(s) \/ CommitComplete(s) \/ CommitSweep(s)
    BY <2>1, <2>3, CommitChange
  <2>4. CASE ApplyEdit(s) BY <2>1, <2>4, ApplyEditChange
  <2>5. ASSUME NEW c \in Tasks, NEW mandatory \in BOOLEAN, NEW owned \in BOOLEAN,
               CommitChild(s, c, mandatory, owned)
        PROVE  RowChange
    <3>1. task[t].subject \in Subjects /\ "Custom" \in TaskTypes
      BY <1>1, <2>1 DEF TypeOK, TaskRow, TaskTypes
    <3>2. ~Exists(c) /\ task' = [task EXCEPT ![c] = NewTask("Custom", task[t].subject, t, mandatory, owned)]
      BY <2>1, <2>5 DEF CommitChild
    <3> QED BY <2>1, <3>1, <3>2, CreationChange
  <2> QED BY <1>3, <2>2, <2>3, <2>4, <2>5 DEF RowStep
<1>4. ASSUME NEW s \in Sessions, SyncWrite(s) PROVE RowChange
  BY <1>4 DEF SyncWrite, RowChange
<1>5. ASSUME NEW t \in Tasks, FallDue(t) PROVE RowChange
  BY <1>5 DEF FallDue, RowChange
<1>6. ASSUME NEW t \in Tasks, NEW type \in TaskTypes, NEW x \in Subjects,
             NEW owned \in BOOLEAN, OpenTask(t, type, x, owned)
      PROVE  RowChange
  BY <1>6, CreationChange DEF OpenTask
<1>7. CASE UNCHANGED vars BY <1>7 DEF vars, RowChange
<1> QED BY <1>2, <1>3, <1>4, <1>5, <1>6, <1>7, NextCases

\* At the step that stamps a task completed its mandatory children are closed.
LEMMA GateStep ==
  ASSUME HInv, RowChange, NEW p \in Tasks, ~task[p].completed, task'[p].completed
  PROVE  \A c \in Children(p) : task[c].mandatory => task[c].closed
<1>1. CASE UNCHANGED task BY <1>1
<1>2. ASSUME NEW t \in Tasks, NEW row \in TaskRow, task' = [task EXCEPT ![t] = row],
             Created(t, row) \/ Moved(t, row) \/ CompletedNow(t, row)
      PROVE  \A c \in Children(p) : task[c].mandatory => task[c].closed
  <2>1. t = p /\ row.completed BY <1>2 DEF HInv, IInv, TypeOK
  <2>2. CompletedNow(p, row) BY <1>2, <2>1 DEF Created, Moved
  <2> QED BY <2>2 DEF CompletedNow
<1> QED BY <1>1, <1>2 DEF RowChange

-----------------------------------------------------------------------------
(* The refinement of TaskLifecycle *)

StatusOf == [t \in Tasks |-> task[t].status]

\* The lifecycle's rule table is the engine's.
LEMMA SameRules ==
  /\ Lifecycle!Rules = Rules /\ Lifecycle!Statuses = Statuses
  /\ Lifecycle!NoStatus = NoStatus
BY DEF Lifecycle!Rules, Lifecycle!OpenRules, Lifecycle!AdminRules, Lifecycle!Statuses,
       Lifecycle!NoStatus, Rules, OpenRules, AdminRules, Statuses, NoStatus

LEMMA LifecycleInit == Init => Lifecycle!Init
BY SameRules DEF Init, Lifecycle!Init

\* A step of the engine is a step of the lifecycle, or leaves every status alone.
LEMMA LifecycleStep ==
  ASSUME HInv, RowChange
  PROVE  [Lifecycle!Next]_StatusOf
<1>1. CASE UNCHANGED task BY <1>1 DEF StatusOf
<1>2. ASSUME NEW t \in Tasks, NEW row \in TaskRow, task' = [task EXCEPT ![t] = row],
             Created(t, row) \/ Moved(t, row) \/ CompletedNow(t, row)
      PROVE  [Lifecycle!Next]_StatusOf
  <2>1. /\ StatusOf' = [StatusOf EXCEPT ![t] = row.status]
        /\ StatusOf[t] = task[t].status
    BY <1>2 DEF StatusOf, HInv, IInv, TypeOK
  <2>2. CASE Created(t, row)
    <3>1. Lifecycle!Create(t)
      BY <2>1, <2>2, SameRules DEF Created, Exists, Lifecycle!Create, StatusOf
    <3> QED BY <3>1 DEF Lifecycle!Next
  <2>3. CASE row.status = task[t].status
    <3>1. UNCHANGED StatusOf BY <2>1, <2>3 DEF StatusOf
    <3> QED BY <3>1
  <2>4. CASE row.status \in Statuses /\ <<task[t].status, row.status>> \in Rules
    <3>1. Lifecycle!Follow(t) BY <2>1, <2>4, SameRules DEF Lifecycle!Follow, StatusOf
    <3> QED BY <3>1 DEF Lifecycle!Next
  <2>5. CASE /\ row.status \in Statuses
             /\ task[t].status = "Open" /\ <<"Assigned", row.status>> \in Rules
    <3>1. Lifecycle!TakeAndFollow(t)
      BY <2>1, <2>5, SameRules DEF Lifecycle!TakeAndFollow, StatusOf
    <3> QED BY <3>1 DEF Lifecycle!Next
  <2>6. CASE CompletedNow(t, row)
    BY <2>4, <2>6 DEF CompletedNow, Statuses
  <2> QED BY <1>2, <2>2, <2>3, <2>4, <2>5, <2>6 DEF Moved
<1> QED BY <1>1, <1>2 DEF RowChange

-----------------------------------------------------------------------------
(* The results *)

\* While no two connections work on the same task, or on a task and its child,
\* the transition log is the history of the task: it starts at creation, every
\* row leaves the status the row before it reached, and outside a move its last
\* row is the status the task shows.
THEOREM LogIsHistoryHolds == Spec /\ []Apart => []LogIsHistory
<1>1. HInv => LogIsHistory BY DEF HInv
<1> QED BY <1>1, HistoryInvariance, PTL

\* Under the same condition a task is stamped completed only when each of its
\* mandatory children is closed at that COMMIT, although sp_task_complete
\* counted them before its transaction.
THEOREM CompletionGateHolds == Spec /\ []Apart => CompletionGate
<1> DEFINE Gate == \A p \in Tasks :
                     ~task[p].completed /\ task'[p].completed
                       => \A c \in Children(p) : task[c].mandatory => task[c].closed
<1>1. HInv /\ Apart /\ [Next]_vars => [Gate]_vars BY StepChange, GateStep
<1>2. Spec /\ []Apart => [][Gate]_vars BY <1>1, HistoryInvariance, PTL DEF Spec
<1> QED BY <1>2 DEF CompletionGate

\* Under the same condition the engine implements TaskLifecycle: every status a
\* task shows follows the one it showed before along the rule table, through
\* Assigned when an edit names an owner and a status together.
THEOREM ImplementsLifecycle == Spec /\ []Apart => FollowsLifecycle
<1>1. HInv /\ Apart /\ [Next]_vars => [Lifecycle!Next]_([t \in Tasks |-> task[t].status])
  BY StepChange, LifecycleStep DEF StatusOf
<1> QED
  BY <1>1, LifecycleInit, HistoryInvariance, PTL DEF Spec, FollowsLifecycle, Lifecycle!Spec

\* One connection at a time.
OneConnection == \A s, u \in Sessions : s = u

LEMMA AloneIsApart == OneConnection => Apart
BY DEF OneConnection, Apart

\* What LogIsHistory, CompletionGate and FollowsLifecycle say of calls that run
\* one after the other needs no condition on the behaviour.
THEOREM SerialCallsHold ==
  OneConnection /\ Spec => []LogIsHistory /\ CompletionGate /\ FollowsLifecycle
<1>1. SUFFICES ASSUME OneConnection
               PROVE  Spec => []LogIsHistory /\ CompletionGate /\ FollowsLifecycle
  OBVIOUS
<1>2. Apart BY <1>1, AloneIsApart
<1>3. Spec => []Apart BY <1>2, PTL
<1> QED BY <1>3, LogIsHistoryHolds, CompletionGateHolds, ImplementsLifecycle, PTL

==============================================================================
