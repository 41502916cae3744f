------------------------- MODULE TaskGovernanceProofs -------------------------
(***************************************************************************)
(* Governance of priorities and due dates, for any tasks, requests,        *)
(* connections, policy and calendar, and any subset of the procedures.     *)
(*                                                                         *)
(* The derivation of an SLA looks a policy up for a priority, so the types *)
(* already depend on what the connections and the requests remember:       *)
(* RequestsOK and SessionsOK say what that is.  The second part is about   *)
(* calls that keep off each other's tasks (Apart): there a pending request *)
(* is shown by its task, children keep their parent's priority and due     *)
(* date, and a priority is only lowered by an approval.                    *)
(***************************************************************************)
EXTENDS TaskGovernance, TLAPS

Wanted(type) == IF type = "Extension" THEN Dates ELSE Priorities

\* A filed request names a root task and something that may be granted.
RequestsOK ==
  \A r \in Requests :
    request[r].status /= "None" =>
      /\ request[r].task \in Tasks
      /\ Root(request[r].task)
      /\ request[r].wanted \in Wanted(request[r].type)

\* The locals l of a connection that is in the middle of a call: its task is
\* a root, what it has read is a task, what it is to write is writable, and
\* the request it decides says what its argument says.
SessionOK(l) ==
  /\ l.pc /= "idle" => l.task \in Tasks /\ Root(l.task)
  /\ l.pc \in {"store", "child"} =>
       l.read.priority \in Priorities /\ l.read.parent = NoTask
  /\ l.pc = "stamp" => l.arg \in Dates
  /\ l.pc = "raise" => l.arg \in Priorities
  /\ l.pc \in RequestTypes => l.arg \in Wanted(l.pc)
  /\ l.pc \in {"approve", "reject", "record"} =>
       /\ l.req \in Requests
       /\ request[l.req].status /= "None"
       /\ request[l.req].task = l.task
       /\ l.arg \in Wanted(request[l.req].type)

SessionsOK == \A s \in Sessions : SessionOK(sess[s])

IInv == TypeOK /\ RequestsOK /\ SessionsOK /\ OnePendingRequest

USE NoTaskAssumption, NoRequestAssumption, PrioritiesAssumption

-----------------------------------------------------------------------------
(* sp_task_apply_sla *)

\* A derivation from a task that exists gives dates of the calendar.
LEMMA DerivedDates ==
  ASSUME NEW row \in TaskRow, row.priority \in Priorities
  PROVE  StandardDue(row) \in Dates /\ EffectiveDue(row) \in Dates
<1>1. StandardDue(row) \in Dates
  BY CalendarAssumption DEF StandardDue, TaskRow
<1>2. ASSUME ExtensionUsed(row) PROVE row.ext \in Dates
  BY <1>1, <1>2, SMT DEF ExtensionUsed, TaskRow, Dates, None
<1> QED BY <1>1, <1>2 DEF EffectiveDue

\* It keeps rows rows, and touches neither identity nor markers.
LEMMA SlaKeepsRows ==
  ASSUME NEW rows \in [Tasks -> TaskRow], NEW t \in Tasks,
         NEW read \in TaskRow, read.priority \in Priorities
  PROVE  /\ WithSla(rows, t, read) \in [Tasks -> TaskRow]
         /\ \A u \in Tasks :
              LET new == WithSla(rows, t, read)[u] IN
              /\ new.parent = rows[u].parent
              /\ new.start = rows[u].start
              /\ new.extStatus = rows[u].extStatus
              /\ new.prioStatus = rows[u].prioStatus
              /\ new.closed = rows[u].closed
              /\ rows[u].priority \in Priorities => new.priority \in Priorities
              /\ rows[u].parent /= t => new.priority = rows[u].priority
<1> DEFINE new == WithSla(rows, t, read)
<1>1. CASE read.parent /= NoTask
  BY <1>1 DEF WithSla
<1>2. CASE read.parent = NoTask
  <2>1. /\ StandardDue(read) \in Dates /\ EffectiveDue(read) \in Dates
        /\ (IF ExtensionUsed(read) THEN read.ext ELSE None) \in Dates \cup {None}
    BY DerivedDates DEF TaskRow
  <2>2. new = [ u \in Tasks |->
          IF u = t
          THEN [rows[u] EXCEPT !.std = StandardDue(read), !.due = EffectiveDue(read)]
          ELSE IF rows[u].parent = t /\ ~rows[u].closed
          THEN [rows[u] EXCEPT !.priority = read.priority,
                               !.std = StandardDue(read),
                               !.ext = IF ExtensionUsed(read) THEN read.ext ELSE None,
                               !.due = EffectiveDue(read)]
          ELSE rows[u] ]
    BY <1>2 DEF WithSla
  <2>3. ASSUME NEW u \in Tasks
        PROVE  /\ new[u] \in TaskRow
               /\ new[u].parent = rows[u].parent
               /\ new[u].start = rows[u].start
               /\ new[u].extStatus = rows[u].extStatus
               /\ new[u].prioStatus = rows[u].prioStatus
               /\ new[u].closed = rows[u].closed
               /\ rows[u].priority \in Priorities => new[u].priority \in Priorities
               /\ rows[u].parent /= t => new[u].priority = rows[u].priority
    <3> DEFINE row == rows[u]
    <3>1. row \in TaskRow OBVIOUS
    <3> HIDE DEF new
    <3>2. CASE u = t
      BY <2>1, <2>2, <3>1, <3>2 DEF TaskRow
    <3>3. CASE u /= t /\ rows[u].parent = t /\ ~rows[u].closed
      BY <2>1, <2>2, <3>1, <3>3 DEF TaskRow
    <3>4. CASE u /= t /\ ~(rows[u].parent = t /\ ~rows[u].closed)
      BY <2>2, <3>1, <3>4
    <3> QED BY <3>2, <3>3, <3>4
  <2>4. new \in [Tasks -> TaskRow]
    <3>1. new = [u \in Tasks |-> new[u]] BY <2>2
    <3> HIDE DEF new
    <3> QED BY <2>3, <3>1
  <2> HIDE DEF new
  <2>5. QED BY <2>3, <2>4 DEF new
<1> QED BY <1>1, <1>2

-----------------------------------------------------------------------------
(* What a step does to the tasks *)

\* Rows stay rows, and a root stays a root.
RowsKept ==
  /\ task' \in [Tasks -> TaskRow]
  /\ \A t \in Tasks : Root(t) => Root(t)'

LEMMA NoRowIsRow ==
  NoRow \in TaskRow
BY StartsAssumption DEF NoRow, TaskRow, MarkerStates

\* Stamping the SLA on rows that keep every root keeps them.
LEMMA SlaKeepsRoots ==
  ASSUME TypeOK, NEW t \in Tasks, NEW read \in TaskRow,
         read.priority \in Priorities,
         NEW rows \in [Tasks -> TaskRow],
         \A u \in Tasks : Root(u) =>
            rows[u].priority \in Priorities /\ rows[u].parent = NoTask,
         task' = WithSla(rows, t, read)
  PROVE  RowsKept
<1>1. task' \in [Tasks -> TaskRow] BY SlaKeepsRows
<1>2. ASSUME NEW u \in Tasks, Root(u) PROVE Root(u)'
  <2>1. rows[u].priority \in Priorities /\ rows[u].parent = NoTask BY <1>2
  <2>2. task'[u].priority \in Priorities /\ task'[u].parent = NoTask
    BY <2>1, SlaKeepsRows
  <2> QED BY <2>2 DEF Root, Exists, Priorities, None
<1> QED BY <1>1, <1>2 DEF RowsKept

\* A root has a priority.
LEMMA RootPriority ==
  ASSUME TypeOK, NEW t \in Tasks, Root(t)
  PROVE  /\ task[t] \in TaskRow
         /\ task[t].priority \in Priorities
         /\ task[t].parent = NoTask
BY DEF TypeOK, TaskRow, Root, Exists

LEMMA RowEffect ==
  ASSUME TypeOK, RequestsOK, SessionsOK, Next
  PROVE  RowsKept
<1> USE DEF TypeOK
<1>1. ASSUME UNCHANGED task PROVE RowsKept
  BY <1>1 DEF RowsKept, Root, Exists
<1>2. ASSUME NEW t \in Tasks, NEW row \in TaskRow,
             task' = [task EXCEPT ![t] = row],
             Root(t) => row.priority /= None /\ row.parent = NoTask
      PROVE  RowsKept
  BY <1>2 DEF RowsKept, Root, Exists
<1>3. ASSUME NEW s \in Sessions, SessionStep(s) PROVE RowsKept
  <2> USE <1>3
  <2>0. SessionOK(sess[s]) /\ sess[s] \in Session
    BY DEF SessionsOK
  <2>1. ASSUME NEW t \in Tasks, NEW p \in Priorities, NEW b \in Starts,
               NEW d \in AskedDates \cup {None}, OpenTask(s, t, p, b, d)
        PROVE  RowsKept
    <3> DEFINE row == [NoRow EXCEPT !.priority = p, !.start = b,
                                    !.due = IF d = None THEN TypeDue ELSE d]
    <3>1. row \in TaskRow
      BY NoRowIsRow, CalendarAssumption DEF TaskRow
    <3>2. ~Root(t) /\ task' = [task EXCEPT ![t] = row]
      BY <2>1 DEF OpenTask, Root
    <3> QED BY <1>2, <3>1, <3>2
  <2>2. CASE ReadSla(s) BY <1>1, <2>2 DEF ReadSla
  <2>3. CASE StoreSla(s)
    <3>1. /\ sess[s].task \in Tasks /\ sess[s].read \in TaskRow
          /\ sess[s].read.priority \in Priorities
          /\ task' = WithSla(task, sess[s].task, sess[s].read)
      BY <2>0, <2>3 DEF StoreSla, SessionOK, Session
    <3> QED BY <3>1, SlaKeepsRoots, RootPriority
  <2>4. CASE StampTarget(s)
    <3> DEFINE t == sess[s].task
    <3>1. t \in Tasks /\ sess[s].arg \in Dates /\ Root(t)
      BY <2>0, <2>4 DEF StampTarget, SessionOK
    <3>2. CASE task[t].std = None
      <4>1. [task[t] EXCEPT !.std = sess[s].arg] \in TaskRow
        BY <3>1 DEF TaskRow
      <4>2. task' = [task EXCEPT ![t] = [task[t] EXCEPT !.std = sess[s].arg]]
        BY <2>4, <3>2 DEF StampTarget
      <4> QED BY <1>2, <3>1, <4>1, <4>2 DEF Root, Exists, TaskRow
    <3>3. CASE task[t].std /= None BY <1>1, <2>4, <3>3 DEF StampTarget
    <3> QED BY <3>2, <3>3
  <2>5. CASE LoseSla(s) BY <1>1, <2>5 DEF LoseSla
  <2>6. ASSUME NEW t \in Tasks, NEW p \in Priorities, BeginPriority(s, t, p)
        PROVE  RowsKept
    BY <1>1, <2>6 DEF BeginPriority
  <2>7. CASE CommitRaise(s)
    <3> DEFINE t == sess[s].task
               row == [task[t] EXCEPT !.priority = sess[s].arg]
               raised == [task EXCEPT ![t].priority = sess[s].arg]
    <3>1. t \in Tasks /\ sess[s].arg \in Priorities
      BY <2>0, <2>7 DEF CommitRaise, SessionOK
    <3>2. row \in TaskRow /\ row.priority \in Priorities
      BY <3>1 DEF TaskRow
    <3>3. raised = [task EXCEPT ![t] = row] OBVIOUS
    <3>4. task' = WithSla(raised, t, raised[t]) BY <2>7 DEF CommitRaise
    <3>5. row.parent = task[t].parent BY <3>1 DEF TaskRow
    <3> HIDE DEF row, raised
    <3>6. raised \in [Tasks -> TaskRow] /\ raised[t] = row BY <3>1, <3>2, <3>3
    <3>7. \A u \in Tasks : Root(u) =>
             raised[u].priority \in Priorities /\ raised[u].parent = NoTask
      BY <3>1, <3>2, <3>3, <3>5, RootPriority
    <3> QED BY <3>1, <3>2, <3>4, <3>6, <3>7, SlaKeepsRoots
  <2>8. ASSUME NEW t \in Tasks, NEW d \in AskedDates, BeginExtension(s, t, d)
        PROVE  RowsKept
    BY <1>1, <2>8 DEF BeginExtension
  <2>9. ASSUME NEW r \in Requests, FileRequest(s, r) PROVE RowsKept
    <3> DEFINE t == sess[s].task
               row == Marked(task[t], sess[s].pc, "Pending")
    <3>1. t \in Tasks
      BY <2>0, <2>9 DEF FileRequest, SessionOK, RequestTypes
    <3>2. /\ row \in TaskRow
          /\ row.priority = task[t].priority /\ row.parent = task[t].parent
      BY <3>1 DEF Marked, TaskRow, MarkerStates
    <3>3. task' = [task EXCEPT ![t] = row] BY <2>9 DEF FileRequest
    <3> QED BY <1>2, <3>1, <3>2, <3>3 DEF Root, Exists
  <2>10. CASE RefuseDuplicate(s) BY <1>1, <2>10 DEF RefuseDuplicate
  <2>11. ASSUME NEW r \in Requests, NEW how \in {"approve", "reject", "record"},
                BeginDecision(s, r, how)
         PROVE  RowsKept
    BY <1>1, <2>11 DEF BeginDecision
  <2>12. CASE Approve(s)
    <3> DEFINE t == sess[s].task
               r == sess[s].req
               row == Granted(task[t], request[r].type, sess[s].arg)
               granted == [task EXCEPT ![t] = row]
    <3>1. /\ t \in Tasks /\ r \in Requests /\ Root(t)
          /\ sess[s].arg \in Wanted(request[r].type)
      BY <2>0, <2>12 DEF Approve, SessionOK
    <3>2. task[t] \in TaskRow /\ task[t].priority \in Priorities
      BY <3>1, RootPriority
    <3>3. /\ row \in TaskRow /\ row.priority \in Priorities
          /\ row.parent = task[t].parent
      BY <3>1, <3>2 DEF Granted, ExtensionGranted, ReductionGranted, Wanted, TaskRow,
                       MarkerStates
    <3>4. task' = WithSla(granted, t, granted[t]) BY <2>12 DEF Approve
    <3> HIDE DEF row
    <3>5. granted \in [Tasks -> TaskRow] /\ granted[t] = row BY <3>1, <3>3
    <3>6. \A u \in Tasks : Root(u) =>
             granted[u].priority \in Priorities /\ granted[u].parent = NoTask
      BY <3>1, <3>3, RootPriority
    <3> HIDE DEF granted
    <3> QED BY <3>1, <3>3, <3>4, <3>5, <3>6, SlaKeepsRoots
  <2>13. CASE Reject(s)
    <3> DEFINE t == sess[s].task
               row == Marked(task[t], request[sess[s].req].type, "Rejected")
    <3>1. t \in Tasks BY <2>0, <2>13 DEF Reject, SessionOK
    <3>2. /\ row \in TaskRow
          /\ row.priority = task[t].priority /\ row.parent = task[t].parent
      BY <3>1 DEF Marked, TaskRow, MarkerStates
    <3>3. task' = [task EXCEPT ![t] = row] BY <2>13 DEF Reject
    <3> QED BY <1>2, <3>1, <3>2, <3>3 DEF Root, Exists
  <2>14. CASE RecordApproval(s) BY <1>1, <2>14 DEF RecordApproval
  <2>15. ASSUME NEW t \in Tasks, BeginChild(s, t) PROVE RowsKept
    BY <1>1, <2>15 DEF BeginChild
  <2>16. ASSUME NEW u \in Tasks, CommitChild(s, u) PROVE RowsKept
    <3> DEFINE read == sess[s].read
               row == [NoRow EXCEPT !.parent = sess[s].task,
                                    !.priority = read.priority, !.std = read.std,
                                    !.ext = read.ext, !.due = read.due]
    <3>1. sess[s].task \in Tasks /\ read \in TaskRow
      BY <2>0, <2>16 DEF CommitChild, SessionOK, Session
    <3>2. row \in TaskRow BY <3>1, NoRowIsRow DEF TaskRow
    <3>3. ~Root(u) /\ task' = [task EXCEPT ![u] = row]
      BY <2>16 DEF CommitChild, Root
    <3> QED BY <1>2, <3>2, <3>3
  <2> HIDE <1>3
  <2> QED
    BY <1>3, <2>1, <2>2, <2>3, <2>4, <2>5, <2>6, <2>7, <2>8, <2>9, <2>10, <2>11,
       <2>12, <2>13, <2>14, <2>15, <2>16 DEF SessionStep
<1>4. ASSUME SharedStep PROVE RowsKept
  <2>1. ASSUME NEW t \in Tasks, NEW b \in Starts, EditStart(t, b) PROVE RowsKept
    <3>0. task[t] \in TaskRow OBVIOUS
    <3>1. [task[t] EXCEPT !.start = b] \in TaskRow BY <3>0 DEF TaskRow
    <3>2. task' = [task EXCEPT ![t] = [task[t] EXCEPT !.start = b]]
      BY <2>1 DEF EditStart
    <3> QED BY <1>2, <3>1, <3>2 DEF TaskRow, Root, Exists
  <2>2. ASSUME NEW t \in Tasks, NEW d \in AskedDates, Retarget(t, d) PROVE RowsKept
    <3>1. [task[t] EXCEPT !.due = d] \in TaskRow
      BY CalendarAssumption DEF TaskRow
    <3>2. task' = [task EXCEPT ![t] = [task[t] EXCEPT !.due = d]]
      BY <2>2 DEF Retarget
    <3> QED BY <1>2, <3>1, <3>2 DEF TaskRow, Root, Exists
  <2>3. ASSUME NEW t \in Tasks, NEW d \in AskedDates, Reschedule(t, d) PROVE RowsKept
    <3>0. task[t] \in TaskRow /\ d \in Dates BY CalendarAssumption
    <3>1. [task[t] EXCEPT !.ext = d, !.due = d] \in TaskRow BY <3>0 DEF TaskRow
    <3>2. task' = [task EXCEPT ![t] = [task[t] EXCEPT !.ext = d, !.due = d]]
      BY <2>3 DEF Reschedule
    <3> QED BY <1>2, <3>1, <3>2 DEF TaskRow, Root, Exists
  <2>4. ASSUME NEW t \in Tasks, CloseTask(t) PROVE RowsKept
    <3>0. task[t] \in TaskRow OBVIOUS
    <3>1. [task[t] EXCEPT !.closed = TRUE] \in TaskRow BY <3>0 DEF TaskRow
    <3>2. task' = [task EXCEPT ![t] = [task[t] EXCEPT !.closed = TRUE]]
      BY <2>4 DEF CloseTask
    <3> QED BY <1>2, <3>1, <3>2 DEF TaskRow, Root, Exists
  <2> QED BY <1>4, <2>1, <2>2, <2>3, <2>4 DEF SharedStep
<1> QED BY <1>3, <1>4 DEF Next

-----------------------------------------------------------------------------
(* What a step does to the requests *)

\* A request that was filed stays filed, with its type and its task.
RequestsKept ==
  /\ request' \in [Requests -> RequestRow]
  /\ \A r \in Requests :
       request[r].status /= "None" =>
         /\ request'[r].status /= "None"
         /\ request'[r].type = request[r].type
         /\ request'[r].task = request[r].task

\* Filing a request adds one, and only where none of its kind is pending.
LEMMA FilingEffect ==
  ASSUME TypeOK, RequestsOK, SessionsOK, OnePendingRequest, RowsKept,
         NEW s \in Sessions, NEW r \in Requests, FileRequest(s, r)
  PROVE  RequestsKept /\ RequestsOK' /\ OnePendingRequest'
<1> DEFINE new == [type |-> sess[s].pc, task |-> sess[s].task,
                   wanted |-> sess[s].arg, status |-> "Pending"]
<1>1. /\ sess[s] \in Session
      /\ sess[s].pc \in RequestTypes
      /\ sess[s].task \in Tasks /\ Root(sess[s].task)
      /\ sess[s].arg \in Wanted(sess[s].pc)
  BY DEF TypeOK, SessionsOK, SessionOK, FileRequest, RequestTypes
<1>2. new \in RequestRow
  BY <1>1 DEF RequestRow, Session
<1>3. /\ request' = [request EXCEPT ![r] = new]
      /\ request[r].status = "None"
      /\ ~PendingFor(new.task, new.type)
  BY DEF FileRequest
<1>4. RequestsKept
  BY <1>2, <1>3 DEF RequestsKept, TypeOK
<1>5. RequestsOK'
  <2> SUFFICES ASSUME NEW q \in Requests, request'[q].status /= "None"
               PROVE  /\ request'[q].task \in Tasks
                      /\ Root(request[q].task)'
                      /\ request'[q].wanted \in Wanted(request'[q].type)
    BY DEF RequestsOK, Wanted
  <2>1. CASE q = r
    <3>1. request'[q] = new BY <1>3, <2>1 DEF TypeOK
    <3> QED BY <1>1, <3>1 DEF RowsKept, Root, Exists
  <2>2. CASE q /= r
    <3>1. request'[q] = request[q] BY <1>3, <2>2 DEF TypeOK
    <3> QED BY <3>1 DEF RequestsOK, RowsKept, Root, Exists
  <2> QED BY <2>1, <2>2
<1>6. OnePendingRequest'
  BY <1>3 DEF OnePendingRequest, PendingFor, TypeOK
<1> QED BY <1>4, <1>5, <1>6

\* A decision changes the status of a filed request.
LEMMA DecisionEffect ==
  ASSUME TypeOK, RequestsOK, OnePendingRequest, RowsKept,
         NEW r \in Requests, request[r].status /= "None",
         NEW status \in {"Approved", "Rejected"},
         request' = [request EXCEPT ![r].status = status]
  PROVE  RequestsKept /\ RequestsOK' /\ OnePendingRequest'
<1>1. request' \in [Requests -> RequestRow]
  BY DEF TypeOK, RequestRow
<1>2. ASSUME NEW q \in Requests
      PROVE  /\ request'[q].status =
                  IF q = r THEN status ELSE request[q].status
             /\ request'[q].type = request[q].type
             /\ request'[q].task = request[q].task
             /\ request'[q].wanted = request[q].wanted
  BY DEF TypeOK, RequestRow
<1>3. RequestsKept
  BY <1>1, <1>2 DEF RequestsKept
<1>4. RequestsOK'
  <2> SUFFICES ASSUME NEW q \in Requests, request'[q].status /= "None"
               PROVE  /\ request'[q].task \in Tasks
                      /\ Root(request[q].task)'
                      /\ request'[q].wanted \in Wanted(request'[q].type)
    BY DEF RequestsOK, Wanted
  <2>1. request[q].status /= "None" BY <1>2
  <2> QED BY <1>2, <2>1 DEF RequestsOK, RowsKept, Root, Exists
<1>5. OnePendingRequest'
  BY <1>2 DEF OnePendingRequest
<1> QED BY <1>3, <1>4, <1>5

LEMMA RequestEffect ==
  ASSUME TypeOK, RequestsOK, SessionsOK, OnePendingRequest, Next
  PROVE  RequestsKept /\ RequestsOK' /\ OnePendingRequest'
<1>0. RowsKept BY RowEffect
<1>1. ASSUME UNCHANGED request
      PROVE  RequestsKept /\ RequestsOK' /\ OnePendingRequest'
  <2>1. RequestsKept BY <1>1 DEF RequestsKept, TypeOK
  <2>2. RequestsOK'
    BY <1>0, <1>1 DEF RequestsOK, RowsKept, Root, Exists, Wanted
  <2>3. OnePendingRequest' BY <1>1 DEF OnePendingRequest
  <2> QED BY <2>1, <2>2, <2>3
<1>2. ASSUME NEW s \in Sessions, NEW r \in Requests, FileRequest(s, r)
      PROVE  RequestsKept /\ RequestsOK' /\ OnePendingRequest'
  BY <1>0, <1>2, FilingEffect
<1>3. ASSUME NEW s \in Sessions, Approve(s) \/ Reject(s) \/ RecordApproval(s)
      PROVE  RequestsKept /\ RequestsOK' /\ OnePendingRequest'
  <2>1. sess[s].req \in Requests /\ request[sess[s].req].status /= "None"
    BY <1>3 DEF SessionsOK, SessionOK, Approve, Reject, RecordApproval
  <2>2. PICK status \in {"Approved", "Rejected"} :
          request' = [request EXCEPT ![sess[s].req].status = status]
    BY <1>3 DEF Approve, Reject, RecordApproval
  <2> QED BY <1>0, <2>1, <2>2, DecisionEffect
<1>4. ASSUME NEW s \in Sessions, SessionStep(s)
      PROVE  RequestsKept /\ RequestsOK' /\ OnePendingRequest'
  BY <1>1, <1>2, <1>3, <1>4
     DEF SessionStep, OpenTask, ReadSla, StoreSla, StampTarget, LoseSla,
         BeginPriority, CommitRaise, BeginExtension, RefuseDuplicate,
         BeginDecision, BeginChild, CommitChild
<1>5. ASSUME SharedStep PROVE RequestsKept /\ RequestsOK' /\ OnePendingRequest'
  BY <1>1, <1>5 DEF SharedStep, EditStart, Retarget, Reschedule, CloseTask
<1> QED BY <1>4, <1>5 DEF Next

-----------------------------------------------------------------------------
(* What a step does to the connections *)

\* Connection s has moved, and knows what it must know.
Moves(s) ==
  /\ sess' \in [Sessions -> Session]
  /\ \A x \in Sessions \ {s} : sess'[x] = sess[x]
  /\ SessionOK(sess[s])'

LEMMA SessionEffect ==
  ASSUME TypeOK, RequestsOK, SessionsOK, RowsKept, RequestsKept,
         NEW s \in Sessions, SessionStep(s)
  PROVE  Moves(s)
<1> USE DEF TypeOK
<1>a. /\ SessionOK(sess[s]) /\ sess[s] \in Session
      /\ \A t \in Tasks : task[t] \in TaskRow
  BY DEF SessionsOK
<1>b. ASSUME Return(s) PROVE Moves(s)
  <2>1. Free \in Session BY NoRowIsRow DEF Free, Session, None
  <2>2. sess' = [sess EXCEPT ![s] = Free] BY <1>b DEF Return
  <2>3. SessionOK(sess[s])'
    BY <2>2 DEF SessionOK, Free, RequestTypes
  <2> QED BY <2>1, <2>2, <2>3 DEF Moves
<1>c. ASSUME NEW pc \in {"derive", "store", "stamp", "raise", "Extension",
                         "Reduction", "child"},
             NEW t \in Tasks, Root(t)', NEW arg \in Nat, NEW read \in TaskRow,
             Goto(s, pc, t, NoRequest, arg, read),
             pc \in {"store", "child"} =>
               read.priority \in Priorities /\ read.parent = NoTask,
             pc = "stamp" => arg \in Dates,
             pc = "raise" => arg \in Priorities,
             pc \in RequestTypes => arg \in Wanted(pc)
      PROVE  Moves(s)
  <2> DEFINE l == [pc |-> pc, task |-> t, req |-> NoRequest, arg |-> arg, read |-> read]
  <2>1. l \in Session BY DEF Session
  <2>2. sess' = [sess EXCEPT ![s] = l] BY <1>c DEF Goto
  <2>3. sess'[s] = l BY <2>2
  <2>4. SessionOK(sess[s])' BY <1>c, <2>3 DEF SessionOK, Wanted
  <2> QED BY <2>1, <2>2, <2>4 DEF Moves
<1>d. \A p \in Priorities : p \in Nat
  BY DEF Priorities
<1>e. \A d \in Dates : d \in Nat
  BY DEF Dates
<1>f. None \in Nat BY DEF None
<1>1. ASSUME NEW t \in Tasks, NEW p \in Priorities, NEW b \in Starts,
             NEW d \in AskedDates \cup {None}, OpenTask(s, t, p, b, d)
      PROVE  Moves(s)
  <2>1. Root(t)'
    <3>1. task'[t].priority = p /\ task'[t].parent = NoTask
      BY <1>1, NoRowIsRow DEF OpenTask, NoRow
    <3> QED BY <3>1 DEF Root, Exists, Priorities, None
  <2>2. d /= None => d \in Dates BY CalendarAssumption
  <2> QED
    BY <1>1, <1>c, <1>e, <1>f, <2>1, <2>2, NoRowIsRow DEF OpenTask, RequestTypes
<1>2. CASE ReadSla(s)
  <2>1. sess[s].task \in Tasks /\ Root(sess[s].task)
    BY <1>2, <1>a DEF ReadSla, SessionOK
  <2> QED
    BY <1>2, <1>a, <1>c, <1>f, <2>1, RootPriority DEF ReadSla, RowsKept, RequestTypes
<1>3. ASSUME NEW t \in Tasks, NEW p \in Priorities, BeginPriority(s, t, p)
      PROVE  Moves(s)
  BY <1>3, <1>c, <1>d, NoRowIsRow DEF BeginPriority, RowsKept, RequestTypes, Wanted
<1>4. ASSUME NEW t \in Tasks, NEW d \in AskedDates, BeginExtension(s, t, d)
      PROVE  Moves(s)
  <2>1. d \in Dates BY CalendarAssumption
  <2> QED
    BY <1>4, <1>c, <1>e, <2>1, NoRowIsRow
       DEF BeginExtension, RowsKept, RequestTypes, Wanted
<1>5. ASSUME NEW r \in Requests, NEW how \in {"approve", "reject", "record"},
             BeginDecision(s, r, how)
      PROVE  Moves(s)
  <2> DEFINE l == [pc |-> how, task |-> request[r].task, req |-> r,
                   arg |-> request[r].wanted, read |-> NoRow]
  <2>1. sess' = [sess EXCEPT ![s] = l] BY <1>5 DEF BeginDecision, Goto
  <2>2. /\ request[r].status /= "None"
        /\ request[r].task \in Tasks /\ Root(request[r].task)
        /\ request[r].wanted \in Wanted(request[r].type)
    BY <1>5 DEF BeginDecision, RequestsOK
  <2>3. request' = request /\ Root(request[r].task)'
    BY <1>5, <2>2 DEF BeginDecision, RowsKept
  <2>4. l \in Session BY <1>5, NoRowIsRow, <2>2 DEF Session, RequestRow
  <2>5. sess'[s] = l BY <2>1
  <2>6. SessionOK(sess[s])'
    BY <1>5, <2>2, <2>3, <2>5 DEF SessionOK, RequestTypes, Wanted, Root, Exists
  <2> QED BY <2>1, <2>4, <2>6 DEF Moves
<1>6. ASSUME NEW t \in Tasks, BeginChild(s, t) PROVE Moves(s)
  BY <1>6, <1>a, <1>c, <1>f, RootPriority DEF BeginChild, RowsKept, RequestTypes
<1> QED
  BY <1>b, <1>1, <1>2, <1>3, <1>4, <1>5, <1>6
     DEF SessionStep, StoreSla, StampTarget, LoseSla, CommitRaise, FileRequest,
         RefuseDuplicate, Approve, Reject, RecordApproval, CommitChild

-----------------------------------------------------------------------------
(* The invariant *)

LEMMA InitInvariant ==
  Init => IInv
<1> SUFFICES ASSUME Init PROVE IInv
  OBVIOUS
<1>1. Free \in Session BY NoRowIsRow DEF Free, Session, None
<1>2. NoRequestRow \in RequestRow BY DEF NoRequestRow, RequestRow, RequestTypes, None
<1>3. TypeOK BY <1>1, <1>2, NoRowIsRow DEF Init, TypeOK
<1>4. RequestsOK /\ OnePendingRequest
  BY DEF Init, RequestsOK, OnePendingRequest, NoRequestRow
<1>5. SessionsOK
  BY DEF Init, SessionsOK, SessionOK, Free, RequestTypes
<1> QED BY <1>3, <1>4, <1>5 DEF IInv

\* What one connection knows survives every step of the others: roots stay
\* roots, and a filed request keeps its type and its task.
LEMMA SessionKept ==
  ASSUME TypeOK, RowsKept, RequestsKept, NEW s \in Sessions,
         SessionOK(sess[s]), sess'[s] = sess[s]
  PROVE  SessionOK(sess[s])'
BY DEF SessionOK, RowsKept, RequestsKept, Root, Exists, Wanted

LEMMA NextInvariant ==
  IInv /\ [Next]_vars => IInv'
<1> SUFFICES ASSUME IInv, [Next]_vars PROVE IInv'
  OBVIOUS
<1> USE DEF IInv
<1>1. CASE Next
  <2>1. RowsKept BY <1>1, RowEffect
  <2>2. RequestsKept /\ RequestsOK' /\ OnePendingRequest' BY <1>1, RequestEffect
  <2>3. sess' \in [Sessions -> Session] /\ SessionsOK'
    <3>1. ASSUME NEW s \in Sessions, SessionStep(s)
          PROVE  sess' \in [Sessions -> Session] /\ SessionsOK'
      <4>1. Moves(s) BY <2>1, <2>2, <3>1, SessionEffect
      <4>2. ASSUME NEW x \in Sessions PROVE SessionOK(sess[x])'
        <5>1. CASE x = s BY <4>1, <5>1 DEF Moves
        <5>2. CASE x /= s
          <6>1. sess'[x] = sess[x] BY <4>1, <5>2 DEF Moves
          <6>2. SessionOK(sess[x]) BY DEF SessionsOK
          <6> QED BY <2>1, <2>2, <6>1, <6>2, SessionKept
        <5> QED BY <5>1, <5>2
      <4> QED BY <4>1, <4>2 DEF Moves, SessionsOK
    <3>2. ASSUME SharedStep PROVE sess' \in [Sessions -> Session] /\ SessionsOK'
      <4>1. sess' = sess
        BY <3>2 DEF SharedStep, EditStart, Retarget, Reschedule, CloseTask
      <4>2. ASSUME NEW x \in Sessions PROVE SessionOK(sess[x])'
        <5>1. SessionOK(sess[x]) BY DEF SessionsOK
        <5> QED BY <2>1, <2>2, <4>1, <5>1, SessionKept
      <4> QED BY <4>1, <4>2 DEF SessionsOK, TypeOK
    <3> QED BY <1>1, <3>1, <3>2 DEF Next
  <2>4. TypeOK' BY <2>1, <2>2, <2>3 DEF TypeOK, RowsKept, RequestsKept
  <2> QED BY <2>2, <2>3, <2>4
<1>2. CASE UNCHANGED vars
  BY <1>2 DEF vars, TypeOK, RequestsOK, SessionsOK, SessionOK, OnePendingRequest,
              Root, Exists, Wanted
<1> QED BY <1>1, <1>2

-----------------------------------------------------------------------------
(* Theorems *)

\* Rows, requests and connections keep their types: in particular every due
\* date stays inside the calendar and every derivation finds its policy, in
\* every interleaving of the procedures.
THEOREM TypeCorrect ==
  Spec => []TypeOK
<1>1. IInv => TypeOK BY DEF IInv
<1> QED BY <1>1, InitInvariant, NextInvariant, PTL DEF Spec

\* However many connections file requests at the same time, a task never has
\* two of one type to decide (the filtered unique index of 192).
THEOREM OnePendingHolds ==
  Spec => []OnePendingRequest
<1>1. IInv => OnePendingRequest BY DEF IInv
<1> QED BY <1>1, InitInvariant, NextInvariant, PTL DEF Spec

-----------------------------------------------------------------------------
(***************************************************************************)
(* What holds while no two connections are in a call on the same task.     *)
(* (A call names a root; sp_task_apply_sla writes its children with it.)   *)
(* The code takes no lock that would see to that: a call reads before its  *)
(* BEGIN TRAN.  Steps without a read of their own, SharedStep, may fall    *)
(* anywhere.                                                               *)
(***************************************************************************)
Working(s) == sess[s].pc /= "idle"

Apart ==
  \A s, x \in Sessions :
    s /= x /\ Working(s) /\ Working(x) => sess[s].task /= sess[x].task

\* What a call has read is still so: the columns a child is to have from its
\* parent, that a new task has no child yet, that a raise raises, and that the
\* request to decide awaits its decision.
Truthful(l) ==
  /\ l.pc \in {"store", "child"} => l.read.priority = task[l.task].priority
  /\ l.pc = "child" => l.read.std = task[l.task].std
  /\ l.pc = "stamp" => ~\E u \in Tasks : Exists(u) /\ task[u].parent = l.task
  /\ l.pc = "raise" => l.arg > task[l.task].priority
  /\ l.pc \in {"approve", "reject", "record"} => request[l.req].status = "Pending"

AllTruthful == \A s \in Sessions : Truthful(sess[s])

\* ChildrenInherit for one child, whose parent is a root.
FamilyOK(u) ==
  task[u].parent /= NoTask =>
    LET p == task[u].parent IN
    /\ Exists(u) /\ Root(p)
    /\ ~task[u].closed =>
         task[u].priority = task[p].priority /\ task[u].std = task[p].std

Families == \A u \in Tasks : FamilyOK(u)

\* PendingIsShown for one request.
MarkerOf(row, type) == IF type = "Extension" THEN row.extStatus ELSE row.prioStatus

Shown(r) ==
  request[r].status = "Pending" =>
    MarkerOf(task[request[r].task], request[r].type) = "Pending"

AllShown == \A r \in Requests : Shown(r)

GInv == IInv /\ AllTruthful /\ Families /\ AllShown

LEMMA GInvImplies ==
  GInv => PendingIsShown /\ ChildrenInherit
<1> SUFFICES ASSUME GInv PROVE PendingIsShown /\ ChildrenInherit OBVIOUS
<1>1. PendingIsShown
  BY DEF GInv, AllShown, Shown, MarkerOf, PendingIsShown, PendingFor
<1>2. ChildrenInherit
  <2> SUFFICES ASSUME NEW p \in Tasks, NEW u \in OpenChildren(p)
               PROVE  task[u].priority = task[p].priority /\ task[u].std = task[p].std
    BY DEF ChildrenInherit
  <2>1. u \in Tasks /\ Exists(u) /\ task[u].parent = p /\ ~task[u].closed
    BY DEF OpenChildren
  <2>2. FamilyOK(u) BY <2>1 DEF GInv, Families
  <2> QED BY <2>1, <2>2 DEF FamilyOK
<1> QED BY <1>1, <1>2

-----------------------------------------------------------------------------
(* What is left of a family, a marker and a read by a step elsewhere *)

\* The columns a child has from its parent stand, and closed_at is not cleared.
Agreed(u) ==
  /\ task'[u].parent = task[u].parent /\ task'[u].priority = task[u].priority
  /\ task'[u].std = task[u].std
  /\ task[u].closed => task'[u].closed

\* ReductionsAreApproved for one task.
ReductionStep(u) ==
  Exists(u) /\ task'[u].priority < task[u].priority =>
    \E r \in Requests :
      /\ request[r].type = "Reduction"
      /\ request[r].task \in {u, task[u].parent}
      /\ request[r].status = "Pending"
      /\ request'[r].status = "Approved"

LEMMA FamilyKept ==
  ASSUME TypeOK, NEW u \in Tasks, FamilyOK(u), Agreed(u),
         task[u].parent \in Tasks => Agreed(task[u].parent)
  PROVE  FamilyOK(u)' /\ ReductionStep(u)
<1>1. task[u] \in TaskRow BY DEF TypeOK
<1>2. task[u].parent \in Tasks \cup {NoTask} BY <1>1 DEF TaskRow
<1>3. ReductionStep(u)
  <2>1. Exists(u) => task[u].priority \in Priorities BY <1>1 DEF TaskRow, Exists
  <2>2. \A p \in Priorities : ~(p < p) BY DEF Priorities
  <2> QED BY <2>1, <2>2 DEF Agreed, ReductionStep
<1>4. FamilyOK(u)'
  BY <1>2 DEF FamilyOK, Agreed, Exists, Root
<1> QED BY <1>3, <1>4

LEMMA FamiliesKept ==
  ASSUME TypeOK, Families, \A u \in Tasks : Agreed(u)
  PROVE  \A u \in Tasks : FamilyOK(u)' /\ ReductionStep(u)
BY FamilyKept DEF Families

\* A row is added, a root or a child with the columns of its parent.
LEMMA FamilyAdded ==
  ASSUME TypeOK, Families, NEW t \in Tasks, ~Exists(t),
         \A u \in Tasks : u /= t => task'[u] = task[u],
         Exists(t)',
         task'[t].parent /= NoTask =>
           LET p == task'[t].parent IN
           /\ p \in Tasks /\ Root(p)
           /\ task'[t].priority = task[p].priority /\ task'[t].std = task[p].std
  PROVE  \A u \in Tasks : FamilyOK(u)' /\ ReductionStep(u)
<1>1. ASSUME NEW u \in Tasks, u /= t PROVE FamilyOK(u)' /\ ReductionStep(u)
  <2>1. FamilyOK(u) /\ Agreed(u) BY <1>1 DEF Families, Agreed
  <2>2. ASSUME task[u].parent \in Tasks PROVE Agreed(task[u].parent)
    <3>1. Root(task[u].parent) BY <2>1, <2>2, NoTaskAssumption DEF FamilyOK
    <3>2. task[u].parent /= t BY <3>1 DEF Root
    <3> QED BY <2>2, <3>2 DEF Agreed
  <2> QED BY <2>1, <2>2, FamilyKept
<1>2. ReductionStep(t) BY DEF ReductionStep
<1>3. FamilyOK(t)'
  <2>1. ASSUME task'[t].parent /= NoTask
        PROVE  LET p == task'[t].parent IN
               /\ task'[p].priority /= None /\ task'[p].parent = NoTask
               /\ task'[t].priority = task'[p].priority /\ task'[t].std = task'[p].std
    <3> DEFINE p == task'[t].parent
    <3>1. /\ p \in Tasks /\ Root(p)
          /\ task'[t].priority = task[p].priority /\ task'[t].std = task[p].std
      BY <2>1
    <3>2. p /= t BY <3>1 DEF Root
    <3>3. task'[p] = task[p] BY <3>1, <3>2
    <3> QED BY <3>1, <3>3 DEF Root, Exists
  <2> QED BY <2>1 DEF FamilyOK, Root, Exists
<1> QED BY <1>1, <1>2, <1>3

\* The cascade of sp_task_apply_sla on root t: the rest of the table stands,
\* and its family agrees again.  The priority of the family goes down only
\* with an approval.
LEMMA CascadeFamilies ==
  ASSUME TypeOK, Families, NEW t \in Tasks, Root(t),
         NEW rows \in [Tasks -> TaskRow],
         \A u \in Tasks : u /= t => rows[u] = task[u],
         rows[t].parent = NoTask,
         NEW read \in TaskRow, read.parent = NoTask, read.priority \in Priorities,
         rows[t].priority = read.priority,
         \/ read.priority >= task[t].priority
         \/ \E r \in Requests :
              /\ request[r].type = "Reduction" /\ request[r].task = t
              /\ request[r].status = "Pending" /\ request'[r].status = "Approved",
         task' = WithSla(rows, t, read)
  PROVE  /\ \A u \in Tasks : FamilyOK(u)' /\ ReductionStep(u)
         /\ \A u \in Tasks : u /= t /\ task[u].parent /= t => task'[u] = task[u]
         /\ \A u \in Tasks : u /= t => (Exists(u)' => Exists(u))
         /\ \A u \in Tasks : /\ task'[u].parent = rows[u].parent
                             /\ task'[u].extStatus = rows[u].extStatus
                             /\ task'[u].prioStatus = rows[u].prioStatus
<1>1. task' = [ u \in Tasks |->
        IF u = t
        THEN [rows[u] EXCEPT !.std = StandardDue(read), !.due = EffectiveDue(read)]
        ELSE IF rows[u].parent = t /\ ~rows[u].closed
        THEN [rows[u] EXCEPT !.priority = read.priority,
                             !.std = StandardDue(read),
                             !.ext = IF ExtensionUsed(read) THEN read.ext ELSE None,
                             !.due = EffectiveDue(read)]
        ELSE rows[u] ]
  BY DEF WithSla
<1>2. /\ task' \in [Tasks -> TaskRow]
      /\ \A u \in Tasks : /\ task'[u].parent = rows[u].parent
                          /\ task'[u].extStatus = rows[u].extStatus
                          /\ task'[u].prioStatus = rows[u].prioStatus
                          /\ task'[u].closed = rows[u].closed
  BY SlaKeepsRows
<1>3. /\ task'[t].priority = read.priority /\ task'[t].std = StandardDue(read)
      /\ task'[t].parent = NoTask
  <2>1. rows[t] \in TaskRow OBVIOUS
  <2>2. task'[t] = [rows[t] EXCEPT !.std = StandardDue(read), !.due = EffectiveDue(read)]
    BY <1>1
  <2> QED BY <2>1, <2>2 DEF TaskRow
<1>4. ASSUME NEW u \in Tasks, u /= t, task[u].parent = t, ~task[u].closed
      PROVE  task'[u].priority = read.priority /\ task'[u].std = StandardDue(read)
  <2>1. rows[u] \in TaskRow /\ rows[u].parent = t /\ ~rows[u].closed BY <1>4
  <2>2. task'[u] = [rows[u] EXCEPT !.priority = read.priority,
                                   !.std = StandardDue(read),
                                   !.ext = IF ExtensionUsed(read) THEN read.ext ELSE None,
                                   !.due = EffectiveDue(read)]
    BY <1>1, <1>4, <2>1
  <2> QED BY <2>1, <2>2 DEF TaskRow
<1>5. ASSUME NEW u \in Tasks, u /= t, task[u].parent /= t \/ task[u].closed
      PROVE  task'[u] = task[u]
  <2>1. rows[u] = task[u] /\ ~(rows[u].parent = t /\ ~rows[u].closed) BY <1>5
  <2>2. task'[u] = rows[u] BY <1>1, <1>5, <2>1, Zenon
  <2> QED BY <2>1, <2>2
<1>6. task[t] \in TaskRow /\ task[t].priority \in Priorities /\ task[t].parent = NoTask
  BY RootPriority
<1>7. read.priority /= None BY DEF Priorities, None
<1>8. ASSUME NEW u \in Tasks, u = t \/ task[u].parent = t, FamilyOK(u),
             task'[u].priority = read.priority, u /= t => ~task[u].closed
      PROVE  ReductionStep(u)
  <2> SUFFICES ASSUME Exists(u), task'[u].priority < task[u].priority
               PROVE  \E r \in Requests :
                        /\ request[r].type = "Reduction"
                        /\ request[r].task \in {u, task[u].parent}
                        /\ request[r].status = "Pending"
                        /\ request'[r].status = "Approved"
    BY DEF ReductionStep
  <2>1. task[u].priority = task[t].priority
    BY <1>6, <1>8, NoTaskAssumption DEF FamilyOK
  <2>2. ~(read.priority >= task[t].priority)
    BY <1>6, <1>8, <2>1 DEF Priorities
  <2> QED BY <1>8, <2>2
<1>9. ASSUME NEW u \in Tasks PROVE FamilyOK(u)' /\ ReductionStep(u)
  <2>0. FamilyOK(u) BY DEF Families
  <2>1. CASE u = t
    <3>1. FamilyOK(u)' BY <1>3, <2>1 DEF FamilyOK
    <3> QED BY <1>3, <1>8, <2>0, <2>1, <3>1
  <2>2. CASE u /= t /\ task[u].parent = t /\ ~task[u].closed
    <3>1. task'[u].parent = t BY <1>2, <2>2
    <3>2. FamilyOK(u)' BY <1>3, <1>4, <1>7, <2>2, <3>1 DEF FamilyOK, Root, Exists
    <3> QED BY <1>4, <1>8, <2>0, <2>2, <3>2
  <2>3. CASE u /= t /\ task[u].parent = t /\ task[u].closed
    <3>1. task'[u] = task[u] BY <1>5, <2>3
    <3>2. FamilyOK(u)' BY <1>3, <1>7, <2>0, <2>3, <3>1 DEF FamilyOK, Root, Exists
    <3>3. ReductionStep(u)
      <4>1. Exists(u) => task[u].priority \in Priorities
        BY DEF TypeOK, TaskRow, Exists
      <4>2. \A p \in Priorities : ~(p < p) BY DEF Priorities
      <4> QED BY <3>1, <4>1, <4>2 DEF ReductionStep
    <3> QED BY <3>2, <3>3
  <2>4. CASE u /= t /\ task[u].parent /= t
    <3>1. Agreed(u) BY <1>5, <2>4 DEF Agreed
    <3>2. ASSUME task[u].parent \in Tasks PROVE Agreed(task[u].parent)
      <4>1. Root(task[u].parent) BY <2>0, <3>2, NoTaskAssumption DEF FamilyOK
      <4>2. task[u].parent /= t /\ task[task[u].parent].parent /= t
        BY <2>4, <4>1, NoTaskAssumption DEF Root
      <4> QED BY <1>5, <3>2, <4>2 DEF Agreed
    <3> QED BY <2>0, <3>1, <3>2, FamilyKept
  <2> QED BY <2>1, <2>2, <2>3, <2>4
<1>10. ASSUME NEW u \in Tasks, u /= t, ~Exists(u) PROVE ~Exists(u)'
  <2>1. task[u].parent /= t BY <1>10, NoTaskAssumption DEF Families, FamilyOK
  <2> QED BY <1>5, <1>10, <2>1 DEF Exists
<1> QED BY <1>2, <1>5, <1>9, <1>10

\* What a connection at work on root v relies on.
Untouched(v) ==
  /\ task'[v].priority = task[v].priority /\ task'[v].std = task[v].std
  /\ \A u \in Tasks : Exists(u)' /\ task'[u].parent = v => Exists(u) /\ task[u].parent = v
  /\ \A r \in Requests :
       request[r].task = v /\ request[r].status = "Pending" => request'[r].status = "Pending"

LEMMA TruthKept ==
  ASSUME NEW x \in Sessions, SessionOK(sess[x]), Truthful(sess[x]), sess'[x] = sess[x],
         Working(x) => Untouched(sess[x].task)
  PROVE  Truthful(sess[x])'
BY DEF SessionOK, Truthful, Working, Untouched

\* A step of s about root t leaves the other connections truthful.
LEMMA TruthAfter ==
  ASSUME GInv, NEW s \in Sessions, NEW t,
         \A x \in Sessions \ {s} : sess'[x] = sess[x] /\ (Working(x) => sess[x].task /= t),
         Truthful(sess[s])',
         \A v \in Tasks : Root(v) /\ v /= t => Untouched(v)
  PROVE  AllTruthful'
<1> SUFFICES ASSUME NEW x \in Sessions PROVE Truthful(sess[x])' BY DEF AllTruthful
<1>1. CASE x = s BY <1>1
<1>2. CASE x /= s
  <2>1. SessionOK(sess[x]) /\ Truthful(sess[x])
    BY DEF GInv, IInv, SessionsOK, AllTruthful
  <2>2. Working(x) => sess[x].task \in Tasks /\ Root(sess[x].task)
    BY <2>1 DEF SessionOK, Working
  <2> QED BY <1>2, <2>1, <2>2, TruthKept
<1> QED BY <1>1, <1>2

LEMMA ReturnTruth ==
  ASSUME TypeOK, NEW s \in Sessions, Return(s)
  PROVE  Truthful(sess[s])' /\ \A x \in Sessions \ {s} : sess'[x] = sess[x]
<1>1. sess'[s].pc = "idle" BY DEF TypeOK, Return, Free
<1>2. \A x \in Sessions \ {s} : sess'[x] = sess[x] BY DEF TypeOK, Return
<1> QED BY <1>1, <1>2 DEF Truthful

\* The others are at work on other tasks.
LEMMA OthersElsewhere ==
  ASSUME Apart, NEW s \in Sessions, Working(s)
  PROVE  \A x \in Sessions \ {s} : Working(x) => sess[x].task /= sess[s].task
BY DEF Apart

\* A request stays shown while it awaits its decision and markers stand.
LEMMA ShownKept ==
  ASSUME TypeOK, RequestsOK, AllShown,
         \A r \in Requests :
           request'[r].status = "Pending" =>
             /\ request[r].status = "Pending" /\ request'[r].type = request[r].type
             /\ request'[r].task = request[r].task,
         \A v \in Tasks : Root(v) =>
           task'[v].extStatus = task[v].extStatus /\ task'[v].prioStatus = task[v].prioStatus
  PROVE  AllShown'
<1> SUFFICES ASSUME NEW r \in Requests, request'[r].status = "Pending" PROVE Shown(r)'
  BY DEF AllShown, Shown
<1>1. /\ request[r].status = "Pending" /\ request'[r].type = request[r].type
      /\ request'[r].task = request[r].task
  OBVIOUS
<1>2. request[r].task \in Tasks /\ Root(request[r].task) BY <1>1 DEF RequestsOK
<1>3. Shown(r) BY DEF AllShown
<1> QED BY <1>1, <1>2, <1>3 DEF Shown, MarkerOf

\* One marker, of task t, takes the value state.
MarkerMoved(t, type, state) ==
  \A v \in Tasks : \A ty \in RequestTypes :
    MarkerOf(task'[v], ty) = IF v = t /\ ty = type THEN state ELSE MarkerOf(task[v], ty)

\* No other request of this kind may then await its decision, and one that is
\* filed finds the marker Pending.
LEMMA ShownMoved ==
  ASSUME TypeOK, RequestsOK, AllShown, NEW t \in Tasks, NEW type \in RequestTypes, NEW state,
         MarkerMoved(t, type, state),
         \A r \in Requests :
           request'[r].status = "Pending" =>
             \/ /\ request[r].status = "Pending" /\ request'[r].type = request[r].type
                /\ request'[r].task = request[r].task
                /\ ~(request[r].task = t /\ request[r].type = type)
             \/ state = "Pending" /\ request'[r].task = t /\ request'[r].type = type
  PROVE  AllShown'
<1> SUFFICES ASSUME NEW r \in Requests, request'[r].status = "Pending"
             PROVE  MarkerOf(task'[request'[r].task], request'[r].type) = "Pending"
  BY DEF AllShown, Shown, MarkerOf
<1>1. CASE /\ request[r].status = "Pending" /\ request'[r].type = request[r].type
           /\ request'[r].task = request[r].task
           /\ ~(request[r].task = t /\ request[r].type = type)
  <2>1. request[r].task \in Tasks /\ request[r].type \in RequestTypes
    BY <1>1 DEF RequestsOK, TypeOK, RequestRow
  <2>2. MarkerOf(task[request[r].task], request[r].type) = "Pending"
    BY <1>1 DEF AllShown, Shown
  <2> QED BY <1>1, <2>1, <2>2 DEF MarkerMoved
<1>2. CASE state = "Pending" /\ request'[r].task = t /\ request'[r].type = type
  BY <1>2 DEF MarkerMoved
<1> QED BY <1>1, <1>2

LEMMA MarkedMarker ==
  ASSUME NEW row \in TaskRow, NEW type \in RequestTypes, NEW state \in MarkerStates,
         NEW ty \in RequestTypes
  PROVE  /\ MarkerOf(Marked(row, type, state), ty) = IF ty = type THEN state ELSE MarkerOf(row, ty)
         /\ Marked(row, type, state).parent = row.parent
         /\ Marked(row, type, state).priority = row.priority
         /\ Marked(row, type, state).std = row.std
         /\ Marked(row, type, state).closed = row.closed
<1>1. CASE type = "Extension" BY <1>1 DEF Marked, MarkerOf, TaskRow, RequestTypes
<1>2. CASE type = "Reduction" BY <1>2 DEF Marked, MarkerOf, TaskRow, RequestTypes
<1> QED BY <1>1, <1>2 DEF RequestTypes

LEMMA GrantedMarker ==
  ASSUME NEW row \in TaskRow, NEW type \in RequestTypes, NEW wanted, NEW ty \in RequestTypes
  PROVE  MarkerOf(Granted(row, type, wanted), ty) =
           IF ty = type THEN "Approved" ELSE MarkerOf(row, ty)
<1>1. CASE type = "Extension"
  BY <1>1 DEF Granted, ExtensionGranted, MarkerOf, TaskRow, RequestTypes
<1>2. CASE type = "Reduction"
  BY <1>2 DEF Granted, ReductionGranted, MarkerOf, TaskRow, RequestTypes
<1> QED BY <1>1, <1>2 DEF RequestTypes

-----------------------------------------------------------------------------
(* The steps *)

Result ==
  /\ \A u \in Tasks : FamilyOK(u)' /\ ReductionStep(u)
  /\ AllShown'
  /\ AllTruthful'

\* Steps that only read.
LEMMA TablesStand ==
  ASSUME GInv, UNCHANGED <<task, request>>,
         \A x \in Sessions : sess'[x] = sess[x] \/ Truthful(sess[x])'
  PROVE  Result
<1> USE DEF GInv, IInv
<1>1. \A u \in Tasks : FamilyOK(u)' /\ ReductionStep(u)
  BY FamiliesKept DEF Agreed
<1>2. AllShown' BY ShownKept
<1>3. ASSUME NEW x \in Sessions PROVE Truthful(sess[x])'
  <2>1. CASE sess'[x] = sess[x]
    <3>1. SessionOK(sess[x]) /\ Truthful(sess[x]) BY DEF SessionsOK, AllTruthful
    <3> QED BY <2>1, <3>1, TruthKept DEF Untouched, Exists
  <2> QED BY <2>1
<1> QED BY <1>1, <1>2, <1>3 DEF Result, AllTruthful

LEMMA ReadOnlyResult ==
  ASSUME GInv, NEW s \in Sessions,
         \/ ReadSla(s) \/ LoseSla(s) \/ RefuseDuplicate(s)
         \/ \E t \in Tasks, p \in Priorities : BeginPriority(s, t, p)
         \/ \E t \in Tasks, d \in AskedDates : BeginExtension(s, t, d)
         \/ \E r \in Requests, how \in {"approve", "reject", "record"} : BeginDecision(s, r, how)
         \/ \E t \in Tasks : BeginChild(s, t)
  PROVE  Result
<1> USE DEF GInv, IInv
<1>1. UNCHANGED <<task, request>>
  BY DEF ReadSla, LoseSla, RefuseDuplicate, BeginPriority, BeginExtension, BeginDecision,
         BeginChild
<1>2. ASSUME NEW l, sess' = [sess EXCEPT ![s] = l], Truthful(sess[s])' PROVE Result
  <2>1. \A x \in Sessions \ {s} : sess'[x] = sess[x] BY <1>2 DEF TypeOK
  <2> QED BY <1>1, <1>2, <2>1, TablesStand
<1>3. ASSUME NEW l, sess' = [sess EXCEPT ![s] = l] PROVE sess'[s] = l
  BY <1>3 DEF TypeOK
<1>4. CASE LoseSla(s) \/ RefuseDuplicate(s)
  BY <1>2, <1>4, ReturnTruth DEF LoseSla, RefuseDuplicate, Return
<1>5. CASE ReadSla(s)
  <2> DEFINE l == [pc |-> "store", task |-> sess[s].task, req |-> NoRequest, arg |-> None,
                   read |-> task[sess[s].task]]
  <2>1. sess' = [sess EXCEPT ![s] = l] BY <1>5 DEF ReadSla, Goto
  <2>2. sess'[s] = l BY <1>3, <2>1
  <2>3. Truthful(sess[s])' BY <1>1, <1>5, <2>2 DEF ReadSla, Truthful
  <2> HIDE DEF l
  <2> QED BY <1>2, <2>1, <2>3
<1>6. ASSUME NEW t \in Tasks, NEW p \in Priorities, BeginPriority(s, t, p) PROVE Result
  <2> DEFINE l == [pc |-> IF p > task[t].priority THEN "raise" ELSE "Reduction", task |-> t,
                   req |-> NoRequest, arg |-> p, read |-> NoRow]
  <2>1. sess' = [sess EXCEPT ![s] = l] BY <1>6 DEF BeginPriority, Goto
  <2>2. sess'[s] = l BY <1>3, <2>1
  <2>3. Truthful(sess[s])' BY <1>1, <1>6, <2>2 DEF BeginPriority, Truthful
  <2> HIDE DEF l
  <2> QED BY <1>2, <2>1, <2>3
<1>7. ASSUME NEW t \in Tasks, NEW d \in AskedDates, BeginExtension(s, t, d) PROVE Result
  <2> DEFINE l == [pc |-> "Extension", task |-> t, req |-> NoRequest, arg |-> d, read |-> NoRow]
  <2>1. sess' = [sess EXCEPT ![s] = l] BY <1>7 DEF BeginExtension, Goto
  <2>2. sess'[s] = l BY <1>3, <2>1
  <2>3. Truthful(sess[s])' BY <1>1, <1>7, <2>2 DEF BeginExtension, Truthful
  <2> HIDE DEF l
  <2> QED BY <1>2, <2>1, <2>3
<1>8. ASSUME NEW r \in Requests, NEW how \in {"approve", "reject", "record"},
             BeginDecision(s, r, how)
      PROVE  Result
  <2> DEFINE l == [pc |-> how, task |-> request[r].task, req |-> r,
                   arg |-> request[r].wanted, read |-> NoRow]
  <2>1. sess' = [sess EXCEPT ![s] = l] BY <1>8 DEF BeginDecision, Goto
  <2>2. sess'[s] = l BY <1>3, <2>1
  <2>3. Truthful(sess[s])' BY <1>1, <1>8, <2>2 DEF BeginDecision, Truthful
  <2> HIDE DEF l
  <2> QED BY <1>2, <2>1, <2>3
<1>9. ASSUME NEW t \in Tasks, BeginChild(s, t) PROVE Result
  <2> DEFINE l == [pc |-> "child", task |-> t, req |-> NoRequest, arg |-> None, read |-> task[t]]
  <2>1. sess' = [sess EXCEPT ![s] = l] BY <1>9 DEF BeginChild, Goto
  <2>2. sess'[s] = l BY <1>3, <2>1
  <2>3. Truthful(sess[s])' BY <1>1, <1>9, <2>2 DEF BeginChild, Truthful
  <2> HIDE DEF l
  <2> QED BY <1>2, <2>1, <2>3
<1> QED BY <1>4, <1>5, <1>6, <1>7, <1>8, <1>9

\* Edits of the start, of a date in force, or of closed_at: no call relies on
\* those columns.
LEMMA SharedResult ==
  ASSUME GInv, SharedStep
  PROVE  Result
<1> USE DEF GInv, IInv
<1>1. UNCHANGED <<request, sess>>
  BY DEF SharedStep, EditStart, Retarget, Reschedule, CloseTask
<1>2. ASSUME NEW t \in Tasks, NEW row, task' = [task EXCEPT ![t] = row],
             row.parent = task[t].parent, row.priority = task[t].priority,
             row.std = task[t].std, task[t].closed => row.closed,
             row.extStatus = task[t].extStatus, row.prioStatus = task[t].prioStatus
      PROVE  Result
  <2>1. ASSUME NEW u \in Tasks
        PROVE  /\ Agreed(u)
               /\ task'[u].extStatus = task[u].extStatus
               /\ task'[u].prioStatus = task[u].prioStatus
    BY <1>2 DEF Agreed, TypeOK
  <2>2. \A u \in Tasks : FamilyOK(u)' /\ ReductionStep(u) BY <2>1, FamiliesKept
  <2>3. AllShown' BY <1>1, <2>1, ShownKept
  <2>4. \A v \in Tasks : Untouched(v) BY <1>1, <2>1 DEF Untouched, Agreed, Exists
  <2>5. ASSUME NEW x \in Sessions PROVE Truthful(sess[x])'
    <3>1. SessionOK(sess[x]) /\ Truthful(sess[x]) BY DEF SessionsOK, AllTruthful
    <3>2. Working(x) => sess[x].task \in Tasks BY <3>1 DEF SessionOK, Working
    <3> QED BY <1>1, <2>4, <3>1, <3>2, TruthKept
  <2> QED BY <2>2, <2>3, <2>5 DEF Result, AllTruthful
<1>3. ASSUME NEW t \in Tasks PROVE task[t] \in TaskRow BY DEF TypeOK
<1>4. ASSUME NEW t \in Tasks, NEW b \in Starts, EditStart(t, b) PROVE Result
  <2> DEFINE row == [task[t] EXCEPT !.start = b]
  <2>1. task' = [task EXCEPT ![t] = row] BY <1>4 DEF EditStart
  <2>2. /\ row.parent = task[t].parent /\ row.priority = task[t].priority
        /\ row.std = task[t].std /\ row.closed = task[t].closed
        /\ row.extStatus = task[t].extStatus /\ row.prioStatus = task[t].prioStatus
    BY <1>3 DEF TaskRow
  <2> HIDE DEF row
  <2> QED BY <1>2, <2>1, <2>2
<1>5. ASSUME NEW t \in Tasks, NEW d \in AskedDates, Retarget(t, d) PROVE Result
  <2> DEFINE row == [task[t] EXCEPT !.due = d]
  <2>1. task' = [task EXCEPT ![t] = row] BY <1>5 DEF Retarget
  <2>2. /\ row.parent = task[t].parent /\ row.priority = task[t].priority
        /\ row.std = task[t].std /\ row.closed = task[t].closed
        /\ row.extStatus = task[t].extStatus /\ row.prioStatus = task[t].prioStatus
    BY <1>3 DEF TaskRow
  <2> HIDE DEF row
  <2> QED BY <1>2, <2>1, <2>2
<1>6. ASSUME NEW t \in Tasks, NEW d \in AskedDates, Reschedule(t, d) PROVE Result
  <2> DEFINE row == [task[t] EXCEPT !.ext = d, !.due = d]
  <2>1. task' = [task EXCEPT ![t] = row] BY <1>6 DEF Reschedule
  <2>2. /\ row.parent = task[t].parent /\ row.priority = task[t].priority
        /\ row.std = task[t].std /\ row.closed = task[t].closed
        /\ row.extStatus = task[t].extStatus /\ row.prioStatus = task[t].prioStatus
    BY <1>3 DEF TaskRow
  <2> HIDE DEF row
  <2> QED BY <1>2, <2>1, <2>2
<1>7. ASSUME NEW t \in Tasks, CloseTask(t) PROVE Result
  <2> DEFINE row == [task[t] EXCEPT !.closed = TRUE]
  <2>1. task' = [task EXCEPT ![t] = row] BY <1>7 DEF CloseTask
  <2>2. /\ row.parent = task[t].parent /\ row.priority = task[t].priority
        /\ row.std = task[t].std /\ row.closed
        /\ row.extStatus = task[t].extStatus /\ row.prioStatus = task[t].prioStatus
    BY <1>3 DEF TaskRow
  <2> HIDE DEF row
  <2> QED BY <1>2, <2>1, <2>2
<1> QED BY <1>4, <1>5, <1>6, <1>7 DEF SharedStep

\* A new root, or a new child of the root a connection has read.
LEMMA AddedResult ==
  ASSUME GInv, NEW s \in Sessions, NEW t \in Tasks, ~Exists(t),
         NEW row \in TaskRow, row.priority /= None, task' = [task EXCEPT ![t] = row],
         UNCHANGED request,
         NEW p \in Tasks \cup {NoTask}, row.parent = p,
         p /= NoTask => /\ Root(p) /\ row.priority = task[p].priority
                        /\ row.std = task[p].std,
         \A x \in Sessions \ {s} : sess'[x] = sess[x] /\ (Working(x) => sess[x].task /= p),
         Truthful(sess[s])'
  PROVE  Result
<1> USE DEF GInv, IInv
<1>1. task'[t] = row /\ \A u \in Tasks : u /= t => task'[u] = task[u] BY DEF TypeOK
<1>2. \A u \in Tasks : FamilyOK(u)' /\ ReductionStep(u)
  BY <1>1, FamilyAdded DEF Exists
<1>3. \A v \in Tasks : Root(v) => v /= t BY DEF Root
<1>4. AllShown' BY <1>1, <1>3, ShownKept
<1>5. ASSUME NEW v \in Tasks, Root(v), v /= p PROVE Untouched(v)
  <2>1. v /= t BY <1>3, <1>5
  <2> QED BY <1>1, <1>5, <2>1 DEF Untouched, Exists
<1>6. AllTruthful' BY <1>5, TruthAfter
<1> QED BY <1>2, <1>4, <1>6 DEF Result

LEMMA OpenTaskResult ==
  ASSUME GInv, NEW s \in Sessions, NEW t \in Tasks, NEW p \in Priorities, NEW b \in Starts,
         NEW d \in AskedDates \cup {None}, OpenTask(s, t, p, b, d)
  PROVE  Result
<1> DEFINE row == [NoRow EXCEPT !.priority = p, !.start = b,
                                !.due = IF d = None THEN TypeDue ELSE d]
<1> USE DEF GInv, IInv
<1>1. /\ ~Exists(t) /\ UNCHANGED request /\ task' = [task EXCEPT ![t] = row]
  BY DEF OpenTask
<1>2. row \in TaskRow /\ row.priority = p /\ row.parent = NoTask
  BY NoRowIsRow, CalendarAssumption DEF TaskRow, NoRow
<1>3. p /= None BY DEF Priorities, None
<1> HIDE DEF row
<1>4. /\ sess'[s].pc \in {"derive", "stamp"} /\ sess'[s].task = t
      /\ \A x \in Sessions \ {s} : sess'[x] = sess[x]
  BY DEF OpenTask, Goto, TypeOK
<1>5. \A x \in Sessions : Working(x) => sess[x].task /= NoTask
  BY NoTaskAssumption DEF SessionsOK, SessionOK, Working
<1>6. \A u \in Tasks : ~(task'[u].parent = t)
  <2> SUFFICES ASSUME NEW u \in Tasks, task'[u].parent = t PROVE FALSE OBVIOUS
  <2>1. u /= t BY <1>1, <1>2, NoTaskAssumption DEF TypeOK
  <2>2. task[u].parent = t BY <1>1, <2>1 DEF TypeOK
  <2>3. FamilyOK(u) BY DEF Families
  <2> QED BY <1>1, <2>2, <2>3, NoTaskAssumption DEF FamilyOK, Root
<1>7. Truthful(sess[s])' BY <1>4, <1>6 DEF Truthful
<1> QED BY <1>1, <1>2, <1>3, <1>4, <1>5, <1>7, AddedResult

LEMMA CommitChildResult ==
  ASSUME GInv, Apart, NEW s \in Sessions, NEW u \in Tasks, CommitChild(s, u)
  PROVE  Result
<1> DEFINE p == sess[s].task
           read == sess[s].read
           row == [NoRow EXCEPT !.parent = p, !.priority = read.priority, !.std = read.std,
                                !.ext = read.ext, !.due = read.due]
<1> USE DEF GInv, IInv
<1>1. /\ sess[s].pc = "child" /\ ~Exists(u) /\ UNCHANGED request /\ Return(s)
      /\ task' = [task EXCEPT ![u] = row]
  BY DEF CommitChild
<1>2. /\ sess[s] \in Session /\ p \in Tasks /\ Root(p)
      /\ read.priority = task[p].priority /\ read.std = task[p].std
  BY <1>1 DEF TypeOK, SessionsOK, SessionOK, AllTruthful, Truthful
<1>3. /\ row \in TaskRow /\ row.priority = read.priority /\ row.std = read.std
      /\ row.parent = p
  BY <1>2, NoRowIsRow DEF TaskRow, Session
<1> HIDE DEF row, read
<1>4. row.priority /= None BY <1>2, <1>3 DEF Root, Exists
<1>5. \A x \in Sessions \ {s} : Working(x) => sess[x].task /= p
  BY <1>1, OthersElsewhere DEF Working
<1>6. Truthful(sess[s])' /\ \A x \in Sessions \ {s} : sess'[x] = sess[x]
  BY <1>1, ReturnTruth
<1>7. \A x \in Sessions \ {s} : sess'[x] = sess[x] /\ (Working(x) => sess[x].task /= p)
  BY <1>5, <1>6
<1>8. row.priority = task[p].priority /\ row.std = task[p].std BY <1>2, <1>3
<1> HIDE DEF p
<1> QED BY <1>1, <1>2, <1>3, <1>4, <1>6, <1>7, <1>8, AddedResult

\* A connection at work on root t: what it knows, and that the others are
\* elsewhere.
LEMMA OwnRoot ==
  ASSUME GInv, Apart, NEW s \in Sessions, Working(s), NEW t, t = sess[s].task
  PROVE  /\ t \in Tasks /\ Root(t) /\ task[t] \in TaskRow /\ task[t].priority \in Priorities
         /\ sess[s] \in Session /\ SessionOK(sess[s]) /\ Truthful(sess[s])
         /\ \A x \in Sessions \ {s} : Working(x) => sess[x].task /= t
<1>1. sess[s] \in Session /\ SessionOK(sess[s]) /\ Truthful(sess[s])
  BY DEF GInv, IInv, TypeOK, SessionsOK, AllTruthful
<1>2. t \in Tasks /\ Root(t) BY <1>1 DEF SessionOK, Working
<1>3. task[t] \in TaskRow /\ task[t].priority \in Priorities
  BY <1>2, RootPriority DEF GInv, IInv
<1> QED BY <1>1, <1>2, <1>3, OthersElsewhere

\* A step that ends the call of s and cascades from its root.
LEMMA CascadeResult ==
  ASSUME GInv, NEW s \in Sessions, NEW t \in Tasks, Root(t),
         \A x \in Sessions \ {s} : Working(x) => sess[x].task /= t, Return(s),
         NEW rows \in [Tasks -> TaskRow],
         \A u \in Tasks : u /= t => rows[u] = task[u],
         rows[t].parent = NoTask,
         NEW read \in TaskRow, read.parent = NoTask, read.priority \in Priorities,
         rows[t].priority = read.priority,
         \/ read.priority >= task[t].priority
         \/ \E r \in Requests :
              /\ request[r].type = "Reduction" /\ request[r].task = t
              /\ request[r].status = "Pending" /\ request'[r].status = "Approved",
         task' = WithSla(rows, t, read),
         AllShown',
         \A r \in Requests :
           request[r].task /= t /\ request[r].status = "Pending" => request'[r].status = "Pending"
  PROVE  Result
<1> USE DEF GInv, IInv
<1>1. /\ \A u \in Tasks : FamilyOK(u)' /\ ReductionStep(u)
      /\ \A u \in Tasks : u /= t /\ task[u].parent /= t => task'[u] = task[u]
      /\ \A u \in Tasks : u /= t => (Exists(u)' => Exists(u))
      /\ \A u \in Tasks : task'[u].parent = rows[u].parent
  BY CascadeFamilies
<1>2. \A u \in Tasks : task'[u].parent = task[u].parent
  BY <1>1 DEF Root
<1>3. ASSUME NEW v \in Tasks, Root(v), v /= t PROVE Untouched(v)
  <2>1. task'[v] = task[v] BY <1>1, <1>3, NoTaskAssumption DEF Root
  <2>2. ASSUME NEW u \in Tasks, Exists(u)', task'[u].parent = v
        PROVE  Exists(u) /\ task[u].parent = v
    <3>1. task[u].parent = v BY <1>2, <2>2
    <3>2. CASE u = t BY <3>1, <3>2 DEF Root
    <3>3. CASE u /= t BY <1>1, <2>2, <3>1, <3>3
    <3> QED BY <3>1, <3>2, <3>3
  <2> QED BY <1>3, <2>1, <2>2 DEF Untouched
<1>4. Truthful(sess[s])' /\ \A x \in Sessions \ {s} : sess'[x] = sess[x]
  BY ReturnTruth
<1>5. AllTruthful' BY <1>3, <1>4, TruthAfter
<1> QED BY <1>1, <1>5 DEF Result

\* The first derivation of a new task.
LEMMA StoreSlaResult ==
  ASSUME GInv, Apart, NEW s \in Sessions, StoreSla(s)
  PROVE  Result
<1> DEFINE t == sess[s].task
           read == sess[s].read
<1> USE DEF GInv, IInv
<1>1. sess[s].pc = "store" /\ UNCHANGED request /\ Return(s) /\ task' = WithSla(task, t, read)
  BY DEF StoreSla
<1>2. /\ t \in Tasks /\ Root(t) /\ task[t].priority \in Priorities
      /\ sess[s] \in Session /\ SessionOK(sess[s]) /\ Truthful(sess[s])
      /\ \A x \in Sessions \ {s} : Working(x) => sess[x].task /= t
  BY <1>1, OwnRoot DEF Working
<1>3. /\ read \in TaskRow /\ read.parent = NoTask /\ read.priority \in Priorities
      /\ task[t].priority = read.priority
  BY <1>1, <1>2 DEF Session, SessionOK, Truthful
<1>4. read.priority >= task[t].priority BY <1>3 DEF Priorities
<1> HIDE DEF t, read
<1>5. task \in [Tasks -> TaskRow] /\ task[t].parent = NoTask BY <1>2 DEF TypeOK, Root
<1>6. \A u \in Tasks : /\ task'[u].extStatus = task[u].extStatus
                       /\ task'[u].prioStatus = task[u].prioStatus
  BY <1>1, <1>2, <1>3, <1>5, SlaKeepsRows
<1>7. AllShown' BY <1>1, <1>6, ShownKept
<1> QED BY <1>1, <1>2, <1>3, <1>4, <1>5, <1>7, CascadeResult

\* The UPDATE and cascade of a priority raised.
LEMMA CommitRaiseResult ==
  ASSUME GInv, Apart, NEW s \in Sessions, CommitRaise(s)
  PROVE  Result
<1> DEFINE t == sess[s].task
           row == [task[t] EXCEPT !.priority = sess[s].arg]
           raised == [task EXCEPT ![t].priority = sess[s].arg]
<1> USE DEF GInv, IInv
<1>1. /\ sess[s].pc = "raise" /\ UNCHANGED request /\ Return(s)
      /\ task' = WithSla(raised, t, raised[t])
  BY DEF CommitRaise
<1>2. /\ t \in Tasks /\ Root(t) /\ task[t] \in TaskRow /\ task[t].priority \in Priorities
      /\ SessionOK(sess[s]) /\ Truthful(sess[s])
      /\ \A x \in Sessions \ {s} : Working(x) => sess[x].task /= t
  BY <1>1, OwnRoot DEF Working
<1>3. sess[s].arg \in Priorities /\ sess[s].arg > task[t].priority
  BY <1>1, <1>2 DEF SessionOK, Truthful
<1>4. /\ row \in TaskRow /\ row.priority = sess[s].arg /\ row.parent = NoTask
      /\ row.extStatus = task[t].extStatus /\ row.prioStatus = task[t].prioStatus
  BY <1>2, <1>3 DEF TaskRow, Root
<1>5. row.priority >= task[t].priority BY <1>2, <1>3, <1>4 DEF Priorities
<1>6. raised = [task EXCEPT ![t] = row] OBVIOUS
<1> HIDE DEF t, row, raised
<1>7. /\ raised \in [Tasks -> TaskRow] /\ raised[t] = row
      /\ \A u \in Tasks : u /= t => raised[u] = task[u]
  BY <1>2, <1>4, <1>6 DEF TypeOK
<1>8. \A u \in Tasks : /\ task'[u].extStatus = raised[u].extStatus
                       /\ task'[u].prioStatus = raised[u].prioStatus
  BY <1>1, <1>2, <1>3, <1>4, <1>7, SlaKeepsRows
<1>9. \A u \in Tasks : /\ task'[u].extStatus = task[u].extStatus
                       /\ task'[u].prioStatus = task[u].prioStatus
  BY <1>4, <1>7, <1>8
<1>10. AllShown' BY <1>1, <1>9, ShownKept
<1>11. task' = WithSla(raised, t, row) BY <1>1, <1>7
<1> QED BY <1>1, <1>2, <1>3, <1>4, <1>5, <1>7, <1>10, <1>11, CascadeResult

\* Request q, and no other, has been decided.
Decided(q, status) ==
  \A r \in Requests :
    /\ request'[r].status = IF r = q THEN status ELSE request[r].status
    /\ request'[r].type = request[r].type /\ request'[r].task = request[r].task

\* A decision settles the one request of its kind for its task.
LEMMA DecidedShown ==
  ASSUME GInv, NEW q \in Requests, request[q].status = "Pending",
         NEW status, status /= "Pending", Decided(q, status),
         NEW t \in Tasks, t = request[q].task, NEW type, type = request[q].type,
         MarkerMoved(t, type, status)
  PROVE  AllShown'
<1>1. type \in RequestTypes BY DEF GInv, IInv, TypeOK, RequestRow
<1>2. ASSUME NEW r \in Requests, request'[r].status = "Pending"
      PROVE  /\ request[r].status = "Pending" /\ request'[r].type = request[r].type
             /\ request'[r].task = request[r].task
             /\ ~(request[r].task = t /\ request[r].type = type)
  <2>1. r /= q /\ request[r].status = "Pending" BY <1>2 DEF Decided
  <2> QED BY <2>1 DEF Decided, OnePendingRequest, GInv, IInv
<1>3. \A r \in Requests :
        request'[r].status = "Pending" =>
          \/ /\ request[r].status = "Pending" /\ request'[r].type = request[r].type
             /\ request'[r].task = request[r].task
             /\ ~(request[r].task = t /\ request[r].type = type)
          \/ status = "Pending" /\ request'[r].task = t /\ request'[r].type = type
  BY <1>2
<1>4. TypeOK /\ RequestsOK /\ AllShown BY DEF GInv, IInv
<1> QED BY <1>1, <1>3, <1>4, ShownMoved

\* A decision grants: the markers and the cascade of an approval.
LEMMA ApproveResult ==
  ASSUME GInv, Apart, NEW s \in Sessions, Approve(s)
  PROVE  Result
<1> DEFINE t == sess[s].task
           q == sess[s].req
           type == request[q].type
           row == Granted(task[t], type, sess[s].arg)
           granted == [task EXCEPT ![t] = row]
<1> USE DEF GInv, IInv
<1>1. /\ sess[s].pc = "approve" /\ Return(s) /\ task' = WithSla(granted, t, granted[t])
      /\ request' = [request EXCEPT ![q].status = "Approved"]
  BY DEF Approve
<1>2. /\ t \in Tasks /\ Root(t) /\ task[t] \in TaskRow /\ task[t].priority \in Priorities
      /\ SessionOK(sess[s]) /\ Truthful(sess[s])
      /\ \A x \in Sessions \ {s} : Working(x) => sess[x].task /= t
  BY <1>1, OwnRoot DEF Working
<1>3. /\ q \in Requests /\ request[q].status = "Pending" /\ request[q].task = t
      /\ sess[s].arg \in Wanted(type)
  BY <1>1, <1>2 DEF SessionOK, Truthful
<1>4. request[q] \in RequestRow /\ type \in RequestTypes BY <1>3 DEF TypeOK, RequestRow
<1>5. /\ row \in TaskRow /\ row.parent = NoTask /\ row.priority \in Priorities
      /\ type = "Extension" => row.priority = task[t].priority
  BY <1>2, <1>3, <1>4 DEF Granted, ExtensionGranted, ReductionGranted, Wanted, TaskRow,
                         MarkerStates, Root
<1>6. \A ty \in RequestTypes :
        MarkerOf(row, ty) = IF ty = type THEN "Approved" ELSE MarkerOf(task[t], ty)
  BY <1>2, <1>4, GrantedMarker
<1> HIDE DEF t, q, type, row, granted
<1>7. /\ granted \in [Tasks -> TaskRow] /\ granted[t] = row
      /\ \A u \in Tasks : u /= t => granted[u] = task[u]
  BY <1>2, <1>5 DEF TypeOK, granted
<1>8. \A r \in Requests :
        /\ request'[r].status = IF r = q THEN "Approved" ELSE request[r].status
        /\ request'[r].type = request[r].type /\ request'[r].task = request[r].task
  BY <1>1, <1>3 DEF TypeOK, RequestRow
<1>9. \A u \in Tasks : /\ task'[u].extStatus = granted[u].extStatus
                       /\ task'[u].prioStatus = granted[u].prioStatus
  BY <1>1, <1>2, <1>5, <1>7, SlaKeepsRows
<1>10. MarkerMoved(t, type, "Approved")
  <2> SUFFICES ASSUME NEW v \in Tasks, NEW ty \in RequestTypes
               PROVE  MarkerOf(task'[v], ty) =
                        IF v = t /\ ty = type THEN "Approved" ELSE MarkerOf(task[v], ty)
    BY DEF MarkerMoved
  <2>1. MarkerOf(task'[v], ty) = MarkerOf(granted[v], ty) BY <1>9 DEF MarkerOf
  <2>2. CASE v = t BY <1>6, <1>7, <2>1, <2>2
  <2>3. CASE v /= t BY <1>7, <2>1, <2>3
  <2> QED BY <2>2, <2>3
<1>11. AllShown'
  <2>1. t = request[q].task /\ type = request[q].type BY <1>3 DEF type
  <2>2. Decided(q, "Approved") BY <1>8 DEF Decided
  <2> HIDE DEF GInv
  <2> QED BY <1>2, <1>3, <1>10, <2>1, <2>2, DecidedShown
<1>12. \/ row.priority >= task[t].priority
       \/ \E r \in Requests :
            /\ request[r].type = "Reduction" /\ request[r].task = t
            /\ request[r].status = "Pending" /\ request'[r].status = "Approved"
  <2>1. CASE type = "Extension"
    <3>1. row.priority = task[t].priority BY <1>5, <2>1
    <3> QED BY <1>5, <3>1 DEF Priorities
  <2>2. CASE type = "Reduction" BY <1>3, <1>8, <2>2 DEF type
  <2> QED BY <1>4, <2>1, <2>2 DEF RequestTypes
<1>13. task' = WithSla(granted, t, row) BY <1>1, <1>7
<1>14. \A r \in Requests :
         request[r].task /= t /\ request[r].status = "Pending" => request'[r].status = "Pending"
  BY <1>3, <1>8
<1>15. granted[t].parent = NoTask /\ granted[t].priority = row.priority BY <1>5, <1>7
<1> QED BY <1>1, <1>2, <1>5, <1>7, <1>11, <1>12, <1>13, <1>14, <1>15, CascadeResult

\* A step that ends the call of s and moves one marker of its root, or none.
LEMMA MarkResult ==
  ASSUME GInv, NEW s \in Sessions, NEW t \in Tasks, task[t] \in TaskRow,
         \A x \in Sessions \ {s} : Working(x) => sess[x].task /= t, Return(s),
         NEW row, task' = [task EXCEPT ![t] = row],
         row.parent = task[t].parent, row.priority = task[t].priority,
         row.std = task[t].std, row.closed = task[t].closed,
         \A r \in Requests :
           request[r].task /= t /\ request[r].status = "Pending" => request'[r].status = "Pending",
         AllShown'
  PROVE  Result
<1> USE DEF GInv, IInv
<1>1. task'[t] = row /\ \A u \in Tasks : u /= t => task'[u] = task[u] BY DEF TypeOK
<1>2. \A u \in Tasks : Agreed(u) BY <1>1 DEF Agreed
<1>3. \A u \in Tasks : FamilyOK(u)' /\ ReductionStep(u) BY <1>2, FamiliesKept
<1>4. \A v \in Tasks : Root(v) /\ v /= t => Untouched(v)
  BY <1>2 DEF Agreed, Untouched, Exists
<1>5. Truthful(sess[s])' /\ \A x \in Sessions \ {s} : sess'[x] = sess[x] BY ReturnTruth
<1>6. AllTruthful' BY <1>4, <1>5, TruthAfter
<1> QED BY <1>3, <1>6 DEF Result

LEMMA FileRequestResult ==
  ASSUME GInv, Apart, NEW s \in Sessions, NEW q \in Requests, FileRequest(s, q)
  PROVE  Result
<1> DEFINE t == sess[s].task
           type == sess[s].pc
           row == Marked(task[t], type, "Pending")
           new == [type |-> type, task |-> t, wanted |-> sess[s].arg, status |-> "Pending"]
<1> USE DEF GInv, IInv
<1>1. /\ type \in RequestTypes /\ Return(s) /\ ~PendingFor(t, type)
      /\ request[q].status = "None" /\ request' = [request EXCEPT ![q] = new]
      /\ task' = [task EXCEPT ![t] = row]
  BY DEF FileRequest
<1>2. /\ t \in Tasks /\ Root(t) /\ task[t] \in TaskRow
      /\ \A x \in Sessions \ {s} : Working(x) => sess[x].task /= t
  BY <1>1, OwnRoot DEF Working, RequestTypes
<1>3. /\ row.parent = task[t].parent /\ row.priority = task[t].priority
      /\ row.std = task[t].std /\ row.closed = task[t].closed
      /\ \A ty \in RequestTypes :
           MarkerOf(row, ty) = IF ty = type THEN "Pending" ELSE MarkerOf(task[t], ty)
  BY <1>1, <1>2, MarkedMarker DEF MarkerStates
<1>4. new.type = type /\ new.task = t /\ new.status = "Pending" OBVIOUS
<1> HIDE DEF t, type, row, new
<1>5. /\ request'[q] = new /\ \A r \in Requests : r /= q => request'[r] = request[r]
  BY <1>1 DEF TypeOK
<1>6. MarkerMoved(t, type, "Pending") BY <1>1, <1>2, <1>3 DEF TypeOK, MarkerMoved
<1>7. \A r \in Requests :
        request'[r].status = "Pending" =>
          \/ /\ request[r].status = "Pending" /\ request'[r].type = request[r].type
             /\ request'[r].task = request[r].task
             /\ ~(request[r].task = t /\ request[r].type = type)
          \/ "Pending" = "Pending" /\ request'[r].task = t /\ request'[r].type = type
  BY <1>1, <1>4, <1>5 DEF PendingFor
<1>8. AllShown' BY <1>1, <1>2, <1>6, <1>7, ShownMoved
<1>9. \A r \in Requests :
        request[r].task /= t /\ request[r].status = "Pending" => request'[r].status = "Pending"
  BY <1>1, <1>5
<1> QED BY <1>1, <1>2, <1>3, <1>8, <1>9, MarkResult

LEMMA RejectResult ==
  ASSUME GInv, Apart, NEW s \in Sessions, Reject(s) \/ RecordApproval(s)
  PROVE  Result
<1> DEFINE t == sess[s].task
           q == sess[s].req
           type == request[q].type
           row == Marked(task[t], type, "Rejected")
<1> USE DEF GInv, IInv
<1>1. sess[s].pc \in {"reject", "record"} /\ Return(s) BY DEF Reject, RecordApproval
<1>2. /\ t \in Tasks /\ Root(t) /\ task[t] \in TaskRow
      /\ SessionOK(sess[s]) /\ Truthful(sess[s])
      /\ \A x \in Sessions \ {s} : Working(x) => sess[x].task /= t
  BY <1>1, OwnRoot DEF Working
<1>3. q \in Requests /\ request[q].status = "Pending" /\ request[q].task = t
  BY <1>1, <1>2 DEF SessionOK, Truthful
<1>4. type \in RequestTypes BY <1>3 DEF TypeOK, RequestRow
<1>5. ASSUME NEW status \in {"Approved", "Rejected"},
             request' = [request EXCEPT ![q].status = status]
      PROVE  \A r \in Requests :
               /\ request'[r].status = IF r = q THEN status ELSE request[r].status
               /\ request'[r].type = request[r].type /\ request'[r].task = request[r].task
  BY <1>3, <1>5 DEF TypeOK, RequestRow
<1>6. \A r \in Requests :
        request[r].task /= t /\ request[r].status = "Pending" => request'[r].status = "Pending"
  BY <1>3, <1>5 DEF Reject, RecordApproval
<1>7. CASE Reject(s)
  <2>1. /\ request' = [request EXCEPT ![q].status = "Rejected"]
        /\ task' = [task EXCEPT ![t] = row]
    BY <1>7 DEF Reject
  <2>2. /\ row.parent = task[t].parent /\ row.priority = task[t].priority
        /\ row.std = task[t].std /\ row.closed = task[t].closed
        /\ \A ty \in RequestTypes :
             MarkerOf(row, ty) = IF ty = type THEN "Rejected" ELSE MarkerOf(task[t], ty)
    BY <1>2, <1>4, MarkedMarker DEF MarkerStates
  <2>3. t = request[q].task /\ type = request[q].type BY <1>3
  <2> HIDE DEF t, q, type, row
  <2>4. MarkerMoved(t, type, "Rejected") BY <1>2, <2>1, <2>2 DEF TypeOK, MarkerMoved
  <2>5. Decided(q, "Rejected") BY <1>5, <2>1 DEF Decided
  <2>6. AllShown'
    <3> HIDE DEF GInv
    <3> QED BY <1>2, <1>3, <2>3, <2>4, <2>5, DecidedShown
  <2> QED BY <1>1, <1>2, <1>6, <2>1, <2>2, <2>6, MarkResult
<1>8. CASE RecordApproval(s)
  <2>1. request' = [request EXCEPT ![q].status = "Approved"] /\ UNCHANGED task
    BY <1>8 DEF RecordApproval
  <2>2. \A r \in Requests :
          request'[r].status = "Pending" =>
            /\ request[r].status = "Pending" /\ request'[r].type = request[r].type
            /\ request'[r].task = request[r].task
    BY <1>5, <2>1
  <2>3. AllShown' BY <2>1, <2>2, ShownKept
  <2>4. task' = [task EXCEPT ![t] = task[t]] BY <2>1 DEF TypeOK
  <2> HIDE DEF t, q, type, row
  <2> QED BY <1>1, <1>2, <1>6, <2>3, <2>4, MarkResult
<1> QED BY <1>7, <1>8

\* The standard date of a task opened with a target: it has no child yet.
LEMMA StampTargetResult ==
  ASSUME GInv, Apart, NEW s \in Sessions, StampTarget(s)
  PROVE  Result
<1> DEFINE t == sess[s].task
           row == [task[t] EXCEPT !.std = IF task[t].std = None THEN sess[s].arg ELSE @]
<1> USE DEF GInv, IInv
<1>1. sess[s].pc = "stamp" /\ Return(s) /\ UNCHANGED request BY DEF StampTarget
<1>2. /\ t \in Tasks /\ Root(t) /\ task[t] \in TaskRow /\ Truthful(sess[s])
      /\ \A x \in Sessions \ {s} : Working(x) => sess[x].task /= t
  BY <1>1, OwnRoot DEF Working
<1>3. task' = [task EXCEPT ![t] = row] BY <1>2 DEF StampTarget, TypeOK, TaskRow
<1>4. /\ row.parent = task[t].parent /\ row.priority = task[t].priority
      /\ row.closed = task[t].closed
      /\ row.extStatus = task[t].extStatus /\ row.prioStatus = task[t].prioStatus
  BY <1>2 DEF TaskRow
<1>5. \A u \in Tasks : ~(Exists(u) /\ task[u].parent = t) BY <1>1, <1>2 DEF Truthful
<1> HIDE DEF t, row
<1>6. task'[t] = row /\ \A u \in Tasks : u /= t => task'[u] = task[u] BY <1>2, <1>3 DEF TypeOK
<1>7. ASSUME NEW u \in Tasks PROVE FamilyOK(u)' /\ ReductionStep(u)
  <2>1. FamilyOK(u) BY DEF Families
  <2>2. CASE u = t
    <3>1. FamilyOK(u)' BY <1>2, <1>4, <1>6, <2>2 DEF FamilyOK, Root
    <3>2. ReductionStep(u)
      <4>1. task[t].priority \in Priorities BY <1>2, RootPriority
      <4>2. \A p \in Priorities : ~(p < p) BY DEF Priorities
      <4> QED BY <1>4, <1>6, <2>2, <4>1, <4>2 DEF ReductionStep
    <3> QED BY <3>1, <3>2
  <2>3. CASE u /= t
    <3>1. Agreed(u) BY <1>6, <2>3 DEF Agreed
    <3>2. task[u].parent /= t
      BY <1>2, <1>5, <2>1, NoTaskAssumption DEF FamilyOK
    <3>3. task[u].parent \in Tasks => Agreed(task[u].parent) BY <1>6, <3>2 DEF Agreed
    <3> QED BY <2>1, <3>1, <3>3, FamilyKept
  <2> QED BY <2>2, <2>3
<1>8. AllShown' BY <1>1, <1>4, <1>6, ShownKept
<1>9. \A v \in Tasks : Root(v) /\ v /= t => Untouched(v)
  BY <1>1, <1>4, <1>6 DEF Untouched, Exists
<1>10. Truthful(sess[s])' /\ \A x \in Sessions \ {s} : sess'[x] = sess[x] BY <1>1, ReturnTruth
<1>11. AllTruthful' BY <1>2, <1>9, <1>10, TruthAfter
<1> QED BY <1>7, <1>8, <1>11 DEF Result

LEMMA StepResult ==
  GInv /\ Apart /\ [Next]_vars => Result
<1> SUFFICES ASSUME GInv, Apart, [Next]_vars PROVE Result OBVIOUS
<1>1. ASSUME NEW s \in Sessions, SessionStep(s) PROVE Result
  <2>1. ASSUME NEW t \in Tasks, NEW p \in Priorities, NEW b \in Starts,
               NEW d \in AskedDates \cup {None}, OpenTask(s, t, p, b, d)
        PROVE  Result
    BY <2>1, OpenTaskResult
  <2>2. CASE StoreSla(s) BY <2>2, StoreSlaResult
  <2>3. CASE StampTarget(s) BY <2>3, StampTargetResult
  <2>4. CASE CommitRaise(s) BY <2>4, CommitRaiseResult
  <2>5. ASSUME NEW r \in Requests, FileRequest(s, r) PROVE Result BY <2>5, FileRequestResult
  <2>6. CASE Approve(s) BY <2>6, ApproveResult
  <2>7. CASE Reject(s) \/ RecordApproval(s) BY <2>7, RejectResult
  <2>8. ASSUME NEW u \in Tasks, CommitChild(s, u) PROVE Result BY <2>8, CommitChildResult
  <2>9. CASE \/ ReadSla(s) \/ LoseSla(s) \/ RefuseDuplicate(s)
             \/ \E t \in Tasks, p \in Priorities : BeginPriority(s, t, p)
             \/ \E t \in Tasks, d \in AskedDates : BeginExtension(s, t, d)
             \/ \E r \in Requests, how \in {"approve", "reject", "record"} : BeginDecision(s, r, how)
             \/ \E t \in Tasks : BeginChild(s, t)
    BY <2>9, ReadOnlyResult
  <2> QED
    BY <1>1, <2>1, <2>2, <2>3, <2>4, <2>5, <2>6, <2>7, <2>8, <2>9, Zenon DEF SessionStep
<1>2. CASE SharedStep BY <1>2, SharedResult
<1>3. CASE UNCHANGED vars BY <1>3, TablesStand DEF vars
<1> QED BY <1>1, <1>2, <1>3 DEF Next

LEMMA GInvStep ==
  GInv /\ Apart /\ [Next]_vars => GInv'
<1> SUFFICES ASSUME GInv, Apart, [Next]_vars PROVE GInv' OBVIOUS
<1>1. IInv' BY NextInvariant DEF GInv
<1>2. Result BY StepResult
<1> QED BY <1>1, <1>2 DEF Result, GInv, Families

LEMMA GInvInit ==
  Init => GInv
<1> SUFFICES ASSUME Init PROVE AllTruthful /\ Families /\ AllShown BY InitInvariant DEF GInv
<1>1. AllTruthful BY DEF Init, AllTruthful, Truthful, Free
<1>2. Families BY DEF Init, Families, FamilyOK, NoRow
<1>3. AllShown BY DEF Init, AllShown, Shown, NoRequestRow
<1> QED BY <1>1, <1>2, <1>3

LEMMA GInvariance == Spec /\ []Apart => []GInv
BY GInvInit, GInvStep, PTL DEF Spec

\* While no two connections are in a call on the same task, a request that
\* awaits its decision is shown on its task by the marker its procedures read.
THEOREM PendingShown ==
  Spec /\ []Apart => []PendingIsShown
<1>1. GInv => PendingIsShown BY GInvImplies
<1> QED BY <1>1, GInvariance, PTL

\* Under the same condition the open children of a task have its priority and
\* its standard date, whatever is created, raised, approved, edited or lost.
THEOREM ChildrenAgree ==
  Spec /\ []Apart => []ChildrenInherit
<1>1. GInv => ChildrenInherit BY GInvImplies
<1> QED BY <1>1, GInvariance, PTL

\* Under the same condition the priority of a task goes down only at the
\* approval of a pending reduction, of the task or of its parent.
THEOREM ReductionsApproved ==
  Spec /\ []Apart => ReductionsAreApproved
<1> DEFINE Step == \A t \in Tasks :
                     Exists(t) /\ task'[t].priority < task[t].priority =>
                       \E r \in Requests :
                         /\ request[r].type = "Reduction"
                         /\ request[r].task \in {t, task[t].parent}
                         /\ request[r].status = "Pending"
                         /\ request'[r].status = "Approved"
<1>1. GInv /\ Apart /\ [Next]_vars => [Step]_vars
  BY StepResult DEF Result, ReductionStep
<1>2. Spec /\ []Apart => [][Step]_vars BY <1>1, GInvariance, PTL DEF Spec
<1> QED BY <1>2 DEF ReductionsAreApproved

\* One connection at a time.
OneConnection == \A s, x \in Sessions : s = x

LEMMA AloneIsApart == OneConnection => Apart
BY DEF OneConnection, Apart

\* Calls that run one after the other need no condition on the behaviour.
THEOREM SerialCallsHold ==
  OneConnection /\ Spec => []PendingIsShown /\ []ChildrenInherit /\ ReductionsAreApproved
<1>1. SUFFICES ASSUME OneConnection
               PROVE  Spec => []PendingIsShown /\ []ChildrenInherit /\ ReductionsAreApproved
  OBVIOUS
<1>2. Apart BY <1>1, AloneIsApart
<1>3. Spec => []Apart BY <1>2, PTL
<1> QED BY <1>3, PendingShown, ChildrenAgree, ReductionsApproved, PTL

===============================================================================
