------------------------ MODULE EventAutoRaiseProofs ------------------------
(***************************************************************************)
(* Safety of the automatic raise for any employees, any number of API       *)
(* processes and any bounds on attempts, batch, crashes and configuration.  *)
(*                                                                          *)
(* What the queue alone promises (attempts, one Pending entry) is inductive *)
(* beside the types.  That a Done entry stands for an onboarding needs that *)
(* an onboarded employee has a row: an employee is created once, and only   *)
(* the creation writes onboarded as FALSE.                                  *)
(***************************************************************************)
EXTENDS EventAutoRaise, SequenceTheorems, TLAPS

\* An employee who was onboarded is in the table.
OnboardedExists == \A e \in Employees : employee[e].onboarded => employee[e].status # "Absent"

IInv == /\ TypeOK
        /\ ParkedAfterAttempts
        /\ DoneIsOnboarded
        /\ OnePendingEntry
        /\ OnboardedExists

-----------------------------------------------------------------------------
(* The two ways the queue is written *)

LEMMA EntryTypes ==
    ASSUME queue \in Seq(Entry)
    PROVE  /\ Rows = 1..Len(queue) /\ Len(queue) \in Nat
           /\ \A i \in Rows : queue[i].emp \in Employees /\ queue[i].attempts \in Nat
<1>1. Rows = 1..Len(queue) /\ Len(queue) \in Nat BY DEF Rows
<1>2. \A i \in Rows : queue[i] \in Entry BY <1>1, ElementOfSeq
<1> QED BY <1>1, <1>2 DEF Entry

\* Marking an entry rewrites its status, counts the attempt and touches no other.
LEMMA MarkedEntry ==
    ASSUME queue \in Seq(Entry), NEW i \in Rows, NEW st \in {"Pending", "Done", "Failed"},
           queue' = [queue EXCEPT ![i].status = st, ![i].attempts = @ + 1]
    PROVE  /\ queue' \in Seq(Entry)
           /\ Rows' = Rows
           /\ queue'[i] = [emp |-> queue[i].emp, status |-> st, attempts |-> queue[i].attempts + 1]
           /\ \A j \in Rows \ {i} : queue'[j] = queue[j]
<1> DEFINE q == [emp |-> queue[i].emp, status |-> st, attempts |-> queue[i].attempts + 1]
<1>1. Rows = 1..Len(queue) /\ Len(queue) \in Nat /\ queue[i] \in Entry BY DEF Rows
<1>2. q \in Entry BY <1>1 DEF Entry
<1>3. [[queue[i] EXCEPT !.status = st] EXCEPT !.attempts = @ + 1] = q
  <2> DEFINE marked == [queue[i] EXCEPT !.status = st]
  <2>1. marked = [emp |-> queue[i].emp, status |-> st, attempts |-> queue[i].attempts]
    BY <1>1 DEF Entry
  <2> HIDE DEF marked
  <2>2. [marked EXCEPT !.attempts = @ + 1] = q BY <2>1
  <2> QED BY <2>2 DEF marked
<1>4. queue' = [queue EXCEPT ![i] = [[queue[i] EXCEPT !.status = st] EXCEPT !.attempts = @ + 1]]
  BY <1>1
<1> HIDE DEF q
<1>5. queue' = [queue EXCEPT ![i] = q] BY <1>3, <1>4
<1>6. queue' \in Seq(Entry) /\ Len(queue') = Len(queue)
  BY <1>1, <1>2, <1>5, ExceptSeq
<1> QED BY <1>1, <1>5, <1>6 DEF Rows, q

\* A trigger leaves the queue alone or appends a fresh entry for an employee
\* who has none Pending.
LEMMA EnqueuedEntry ==
    ASSUME queue \in Seq(Entry), NEW e \in Employees, Enqueue(e) \/ UNCHANGED queue
    PROVE  /\ queue' \in Seq(Entry)
           /\ Rows \subseteq Rows'
           /\ \A j \in Rows : queue'[j] = queue[j]
           /\ \A j \in Rows' \ Rows : /\ queue'[j] = [emp |-> e, status |-> "Pending", attempts |-> 0]
                                      /\ j = Len(queue) + 1
                                      /\ ~HasPending(e)
<1> DEFINE q == [emp |-> e, status |-> "Pending", attempts |-> 0]
<1>1. q \in Entry BY DEF Entry
<1>2. CASE UNCHANGED queue BY <1>2 DEF Rows
<1>3. CASE queue' = Append(queue, q) /\ ~HasPending(e)
  <2> HIDE DEF q
  <2>1. /\ queue' \in Seq(Entry) /\ Len(queue') = Len(queue) + 1 /\ queue'[Len(queue) + 1] = q
        /\ \A j \in 1..Len(queue) : queue'[j] = queue[j]
    BY <1>1, <1>3, AppendProperties
  <2>2. Rows = 1..Len(queue) /\ Rows' = 1..(Len(queue) + 1) /\ Len(queue) \in Nat
    BY <2>1 DEF Rows
  <2> QED BY <1>3, <2>1, <2>2 DEF q
<1> QED BY <1>2, <1>3 DEF Enqueue

\* The raise makes the employee Active and onboarded, and forgets nobody.
LEMMA OnboardTables ==
    ASSUME employee \in [Employees -> EmployeeRow], instance \in [Employees -> InstanceStates],
           NEW e \in Employees, Onboard(e)
    PROVE  /\ employee' \in [Employees -> EmployeeRow]
           /\ instance' \in [Employees -> InstanceStates]
           /\ employee'[e].onboarded
           /\ OnboardedExists => /\ OnboardedExists'
                                 /\ \A f \in Employees : employee[f].onboarded => employee'[f].onboarded
<1> DEFINE r == [[employee[e] EXCEPT !.status = "Active"] EXCEPT !.onboarded = TRUE]
<1>1. employee' = [employee EXCEPT ![e] = r] BY DEF Onboard
<1>2. r \in EmployeeRow /\ r.onboarded /\ r.status # "Absent" BY DEF EmployeeRow, Statuses
<1>3. instance' \in [Employees -> InstanceStates] BY DEF Onboard, InstanceStates
<1> HIDE DEF r
<1> QED BY <1>1, <1>2, <1>3 DEF OnboardedExists

\* A step of a person: what it does to the tables, whatever the person.
LEMMA PeopleStep ==
    ASSUME TypeOK, NEW e \in Employees,
           \/ CreateEmployee(e) \/ AssignRole(e) \/ ManualRaise(e)
           \/ Offboard(e) \/ CompleteInstance(e)
    PROVE  /\ Enqueue(e) \/ UNCHANGED queue
           /\ employee' \in [Employees -> EmployeeRow]
           /\ instance' \in [Employees -> InstanceStates]
           /\ UNCHANGED <<active, pc, work, row, interrupts, toggles>>
           /\ OnboardedExists => /\ OnboardedExists'
                                 /\ \A f \in Employees : employee[f].onboarded => employee'[f].onboarded
<1>1. employee \in [Employees -> EmployeeRow] /\ instance \in [Employees -> InstanceStates]
  BY DEF TypeOK
<1>2. CASE CreateEmployee(e)
  <2>1. PICK status \in {"Active", "Inactive"}, role \in BOOLEAN :
            employee' = [employee EXCEPT ![e] = [status |-> status, role |-> role, onboarded |-> FALSE]]
    BY <1>2 DEF CreateEmployee
  <2>2. employee[e].status = "Absent" BY <1>2 DEF CreateEmployee
  <2>3. employee' \in [Employees -> EmployeeRow] BY <1>1, <2>1 DEF EmployeeRow, Statuses
  <2>4. OnboardedExists => /\ OnboardedExists'
                           /\ \A f \in Employees : employee[f].onboarded => employee'[f].onboarded
    BY <1>1, <2>1, <2>2 DEF OnboardedExists
  <2> QED BY <1>1, <1>2, <2>3, <2>4 DEF CreateEmployee
<1>3. CASE AssignRole(e)
  <2>1. employee' = [employee EXCEPT ![e].role = TRUE] BY <1>3 DEF AssignRole
  <2>2. employee' \in [Employees -> EmployeeRow] BY <1>1, <2>1 DEF EmployeeRow, Statuses
  <2>3. OnboardedExists => /\ OnboardedExists'
                           /\ \A f \in Employees : employee[f].onboarded => employee'[f].onboarded
    BY <1>1, <2>1 DEF OnboardedExists, EmployeeRow
  <2> QED BY <1>1, <1>3, <2>2, <2>3 DEF AssignRole
<1>4. CASE ManualRaise(e)
  BY <1>1, <1>4, OnboardTables DEF ManualRaise
<1>5. CASE Offboard(e)
  <2>1. employee' = [employee EXCEPT ![e].status = "Inactive"] BY <1>5 DEF Offboard
  <2>2. employee' \in [Employees -> EmployeeRow] BY <1>1, <2>1 DEF EmployeeRow, Statuses
  <2>3. OnboardedExists => /\ OnboardedExists'
                           /\ \A f \in Employees : employee[f].onboarded => employee'[f].onboarded
    BY <1>1, <2>1 DEF OnboardedExists, EmployeeRow
  <2> QED BY <1>1, <1>5, <2>2, <2>3 DEF Offboard
<1>6. CASE CompleteInstance(e)
  BY <1>1, <1>6 DEF CompleteInstance, OnboardedExists, InstanceStates
<1> QED BY <1>2, <1>3, <1>4, <1>5, <1>6

-----------------------------------------------------------------------------
(* Types *)

LEMMA TypeInit == Init => TypeOK
<1> SUFFICES ASSUME Init PROVE TypeOK OBVIOUS
<1>1. employee \in [Employees -> EmployeeRow] /\ instance \in [Employees -> InstanceStates]
  BY DEF Init, EmployeeRow, Statuses, InstanceStates
<1>2. queue \in Seq(Entry) /\ active \in BOOLEAN BY DEF Init
<1>3. /\ pc \in [Workers -> Pcs] /\ work \in [Workers -> SUBSET Rows] /\ row \in [Workers -> Nat]
      /\ \A w \in Workers : pc[w] = "idle"
  BY DEF Init, Pcs
<1>4. interrupts \in 0..MaxInterrupts /\ toggles \in 0..MaxToggles
  BY AutoRaiseAssumption DEF Init
<1> QED BY <1>1, <1>2, <1>3, <1>4 DEF TypeOK

\* The place, cursor and row of the worker that moves.
LEMMA PlaceTypes ==
    ASSUME TypeOK, NEW w \in Workers, NEW place \in Pcs, NEW rows \in SUBSET Rows, NEW r \in Nat,
           place \in {"raise", "mark", "fail"} => r \in Rows,
           pc' = [pc EXCEPT ![w] = place], work' = [work EXCEPT ![w] = rows],
           row' = [row EXCEPT ![w] = r], Rows' = Rows
    PROVE  /\ pc' \in [Workers -> Pcs]
           /\ work' \in [Workers -> SUBSET Rows']
           /\ row' \in [Workers -> Nat]
           /\ \A v \in Workers : pc'[v] \in {"raise", "mark", "fail"} => row'[v] \in Rows'
BY DEF TypeOK

\* What a step of a worker does to the tables and to its own place.
LEMMA DrainStep ==
    ASSUME TypeOK, NEW w \in Workers, Drain(w) \/ Interrupt(w)
    PROVE  /\ UNCHANGED <<active, toggles>>
           /\ \E place \in Pcs, rows \in SUBSET Rows, r \in Nat :
                /\ pc' = [pc EXCEPT ![w] = place]
                /\ work' = [work EXCEPT ![w] = rows]
                /\ row' = [row EXCEPT ![w] = r]
                /\ place \in {"raise", "mark", "fail"} => r \in Rows
                /\ place = "mark" => RaiseCommits(w) /\ r = row[w]
           /\ \/ UNCHANGED <<employee, instance, queue>>
              \/ RaiseCommits(w)
              \/ MarkDone(w)
              \/ MarkFailed(w) /\ ~Refused(row[w])
<1>1. /\ pc \in [Workers -> Pcs] /\ work \in [Workers -> SUBSET Rows] /\ row \in [Workers -> Nat]
      /\ pc = [pc EXCEPT ![w] = pc[w]] /\ work = [work EXCEPT ![w] = work[w]]
      /\ row = [row EXCEPT ![w] = row[w]] /\ pc[w] \in Pcs
      /\ work[w] \in SUBSET Rows /\ row[w] \in Nat
      /\ pc[w] \in {"raise", "mark", "fail"} => row[w] \in Rows
  BY DEF TypeOK
<1>2. Rows \subseteq Nat BY DEF TypeOK, Rows
<1>3. CASE StartPass(w)
  <2>1. Batch \in SUBSET Rows BY DEF Batch, PendingRows
  <2> QED BY <1>1, <1>3, <2>1 DEF StartPass, Goto, Pcs
<1>4. CASE Fetch(w)
  <2>1. PICK i \in work[w] :
            /\ work' = [work EXCEPT ![w] = @ \ {i}]
            /\ \/ /\ Goto(w, IF active THEN "raise" ELSE "fail")
                  /\ row' = [row EXCEPT ![w] = i]
               \/ UNCHANGED <<pc, row>>
    BY <1>4 DEF Fetch
  <2>2. i \in Rows /\ i \in Nat /\ pc[w] = "fetch" /\ work[w] \ {i} \in SUBSET Rows
        /\ UNCHANGED <<employee, instance, queue, active, toggles>>
        /\ work' = [work EXCEPT ![w] = work[w] \ {i}]
    BY <1>1, <1>2, <1>4, <2>1 DEF Fetch
  <2>3. CASE Goto(w, IF active THEN "raise" ELSE "fail") /\ row' = [row EXCEPT ![w] = i]
    BY <1>1, <2>2, <2>3 DEF Goto, Pcs
  <2>4. CASE UNCHANGED <<pc, row>>
    <3>1. pc' = [pc EXCEPT ![w] = "fetch"] /\ row' = [row EXCEPT ![w] = row[w]]
      BY <1>1, <2>2, <2>4
    <3> QED BY <1>1, <2>2, <3>1 DEF Pcs
  <2> QED BY <2>1, <2>3, <2>4
<1>5. CASE RaiseCommits(w)
  <2>1. /\ pc' = [pc EXCEPT ![w] = "mark"] /\ UNCHANGED <<active, toggles>>
        /\ work' = [work EXCEPT ![w] = work[w]] /\ row' = [row EXCEPT ![w] = row[w]]
        /\ row[w] \in Rows
    BY <1>1, <1>5 DEF RaiseCommits, Goto
  <2> QED BY <1>1, <1>5, <2>1 DEF Pcs
<1>6. CASE MarkDone(w) \/ (MarkFailed(w) /\ ~Refused(row[w]))
  <2>1. /\ pc' = [pc EXCEPT ![w] = "fetch"] /\ UNCHANGED <<active, toggles>>
        /\ work' = [work EXCEPT ![w] = work[w]] /\ row' = [row EXCEPT ![w] = 0]
    BY <1>1, <1>6 DEF MarkDone, MarkFailed, NextRow, Goto
  <2> QED BY <1>1, <1>6, <2>1 DEF Pcs
<1>7. CASE FinishPass(w) \/ RaiseBreaks(w) \/ (MarkFailed(w) /\ Refused(row[w])) \/ Interrupt(w)
  <2>1. /\ pc' = [pc EXCEPT ![w] = "idle"] /\ UNCHANGED <<active, toggles, employee, instance, queue>>
        /\ work' = [work EXCEPT ![w] = {}] /\ row' = [row EXCEPT ![w] = 0]
    BY <1>7 DEF FinishPass, RaiseBreaks, MarkFailed, Interrupt, EndPass, Goto
  <2> QED BY <2>1 DEF Pcs
<1> QED BY <1>3, <1>4, <1>5, <1>6, <1>7 DEF Drain

\* The entry a worker marks: raised, or failed without a second Pending one.
LEMMA MarkStep ==
    ASSUME TypeOK, NEW w \in Workers, MarkDone(w) \/ (MarkFailed(w) /\ ~Refused(row[w]))
    PROVE  /\ row[w] \in Rows
           /\ UNCHANGED <<employee, instance>>
           /\ \E st \in {"Pending", "Done", "Failed"} :
                /\ queue' = [queue EXCEPT ![row[w]].status = st, ![row[w]].attempts = @ + 1]
                /\ \/ st = "Done" /\ pc[w] = "mark"
                   \/ st = AfterFailure(queue[row[w]]) /\ ~Refused(row[w])
<1>1. row[w] \in Rows BY DEF TypeOK, MarkDone, MarkFailed
<1>2. AfterFailure(queue[row[w]]) \in {"Pending", "Done", "Failed"} BY DEF AfterFailure
<1>3. CASE MarkDone(w) BY <1>1, <1>3 DEF MarkDone
<1>4. CASE MarkFailed(w) /\ ~Refused(row[w]) BY <1>1, <1>2, <1>4 DEF MarkFailed
<1> QED BY <1>3, <1>4

LEMMA TypeStep == TypeOK /\ [Next]_vars => TypeOK'
<1> SUFFICES ASSUME TypeOK, [Next]_vars PROVE TypeOK' OBVIOUS
<1>1. ASSUME NEW e \in Employees,
             \/ CreateEmployee(e) \/ AssignRole(e) \/ ManualRaise(e)
             \/ Offboard(e) \/ CompleteInstance(e)
      PROVE  TypeOK'
  <2>1. /\ queue' \in Seq(Entry) /\ Rows \subseteq Rows'
        /\ employee' \in [Employees -> EmployeeRow] /\ instance' \in [Employees -> InstanceStates]
        /\ UNCHANGED <<active, pc, work, row, interrupts, toggles>>
    BY <1>1, PeopleStep, EnqueuedEntry DEF TypeOK
  <2>2. work' \in [Workers -> SUBSET Rows'] BY <2>1 DEF TypeOK
  <2>3. \A w \in Workers : pc'[w] \in {"raise", "mark", "fail"} => row'[w] \in Rows'
    BY <2>1 DEF TypeOK
  <2> QED BY <2>1, <2>2, <2>3 DEF TypeOK
<1>2. CASE ToggleDefinition
  <2>1. active' \in BOOLEAN BY <1>2 DEF ToggleDefinition
  <2>2. toggles' \in 0..MaxToggles
    BY <1>2, AutoRaiseAssumption DEF ToggleDefinition, TypeOK
  <2> QED BY <1>2, <2>1, <2>2 DEF ToggleDefinition, TypeOK, Rows
<1>3. ASSUME NEW w \in Workers, Drain(w) \/ Interrupt(w) PROVE TypeOK'
  <2>1. /\ queue' \in Seq(Entry) /\ Rows' = Rows
        /\ employee' \in [Employees -> EmployeeRow] /\ instance' \in [Employees -> InstanceStates]
    <3>1. CASE UNCHANGED <<employee, instance, queue>> BY <3>1 DEF TypeOK, Rows
    <3>2. CASE RaiseCommits(w)
      <4>1. queue[row[w]].emp \in Employees BY <3>2, EntryTypes DEF RaiseCommits, TypeOK
      <4>2. Onboard(queue[row[w]].emp) /\ UNCHANGED queue BY <3>2 DEF RaiseCommits
      <4> QED BY <4>1, <4>2, OnboardTables DEF TypeOK, Rows
    <3>3. CASE MarkDone(w) \/ (MarkFailed(w) /\ ~Refused(row[w]))
      BY <3>3, MarkStep, MarkedEntry DEF TypeOK
    <3> QED BY <1>3, <3>1, <3>2, <3>3, DrainStep
  <2>2. /\ pc' \in [Workers -> Pcs] /\ work' \in [Workers -> SUBSET Rows'] /\ row' \in [Workers -> Nat]
        /\ \A v \in Workers : pc'[v] \in {"raise", "mark", "fail"} => row'[v] \in Rows'
    <3>1. PICK place \in Pcs, rows \in SUBSET Rows, r \in Nat :
              /\ pc' = [pc EXCEPT ![w] = place]
              /\ work' = [work EXCEPT ![w] = rows]
              /\ row' = [row EXCEPT ![w] = r]
              /\ place \in {"raise", "mark", "fail"} => r \in Rows
      BY <1>3, DrainStep
    <3> QED BY <2>1, <3>1, PlaceTypes
  <2>3. interrupts' \in 0..MaxInterrupts /\ UNCHANGED <<active, toggles>>
    <3>1. UNCHANGED <<active, toggles>> BY <1>3, DrainStep
    <3>2. CASE Interrupt(w) BY <3>1, <3>2, AutoRaiseAssumption DEF Interrupt, TypeOK
    <3>3. CASE Drain(w)
      <4>1. UNCHANGED interrupts
        BY <3>3 DEF Drain, StartPass, FinishPass, Fetch, RaiseCommits, RaiseBreaks, MarkDone, MarkFailed
      <4> QED BY <3>1, <4>1 DEF TypeOK
    <3> QED BY <1>3, <3>2, <3>3
  <2> QED BY <2>1, <2>2, <2>3 DEF TypeOK
<1>4. CASE UNCHANGED vars BY <1>4 DEF vars, TypeOK, Rows
<1> QED BY <1>1, <1>2, <1>3, <1>4 DEF Next

\* No interleaving of users, triggers, drains and crashes leaves the types:
\* cursors and rows at hand stay entries of the queue.
THEOREM TypeCorrect == Spec => []TypeOK
<1> QED BY TypeInit, TypeStep, PTL DEF Spec

-----------------------------------------------------------------------------
(* The invariant *)

LEMMA InvInit == Init => IInv
<1> SUFFICES ASSUME Init PROVE IInv OBVIOUS
<1>1. Rows = {} BY DEF Init, Rows
<1>2. ParkedAfterAttempts /\ OnePendingEntry
  BY <1>1 DEF ParkedAfterAttempts, OnePendingEntry, PendingRows
<1>3. DoneIsOnboarded BY <1>1 DEF Init, DoneIsOnboarded
<1>4. OnboardedExists BY DEF Init, OnboardedExists
<1> QED BY <1>2, <1>3, <1>4, TypeInit DEF IInv

\* Steps that write neither the queue nor an employee.
LEMMA QuietStep ==
    ASSUME IInv, TypeOK', UNCHANGED <<queue, employee>>,
           \A v \in Workers : pc'[v] = "mark" => pc[v] = "mark" /\ row'[v] = row[v]
    PROVE  IInv'
BY DEF IInv, ParkedAfterAttempts, DoneIsOnboarded, OnePendingEntry, PendingRows, OnboardedExists, Rows

LEMMA PeopleSafe ==
    ASSUME IInv, TypeOK', NEW e \in Employees,
           \/ CreateEmployee(e) \/ AssignRole(e) \/ ManualRaise(e)
           \/ Offboard(e) \/ CompleteInstance(e)
    PROVE  IInv'
<1>1. /\ OnboardedExists'
      /\ \A f \in Employees : employee[f].onboarded => employee'[f].onboarded
      /\ UNCHANGED <<pc, row>>
      /\ Enqueue(e) \/ UNCHANGED queue
  BY PeopleStep DEF IInv
<1>2. queue \in Seq(Entry) /\ Rows = 1..Len(queue) /\ \A i \in Rows : queue[i].emp \in Employees
  BY EntryTypes DEF IInv, TypeOK
<1>3. /\ Rows \subseteq Rows'
      /\ \A j \in Rows : queue'[j] = queue[j]
      /\ \A j \in Rows' \ Rows : /\ queue'[j] = [emp |-> e, status |-> "Pending", attempts |-> 0]
                                 /\ j = Len(queue) + 1
                                 /\ ~HasPending(e)
  BY <1>1, <1>2, EnqueuedEntry
<1>4. ParkedAfterAttempts'
  BY <1>3, AutoRaiseAssumption DEF IInv, ParkedAfterAttempts
<1>5. OnePendingEntry'
  BY <1>3 DEF IInv, OnePendingEntry, PendingRows, HasPending
<1>6. DoneIsOnboarded'
  <2>1. \A i \in Rows' : queue'[i].status = "Done" => employee'[queue'[i].emp].onboarded
    BY <1>1, <1>2, <1>3 DEF IInv, DoneIsOnboarded
  <2>2. ASSUME NEW w \in Workers, pc'[w] = "mark" PROVE employee'[queue'[row'[w]].emp].onboarded
    <3>1. row[w] \in Rows /\ pc[w] = "mark" BY <1>1, <2>2 DEF IInv, TypeOK
    <3> QED BY <1>1, <1>2, <1>3, <3>1 DEF IInv, DoneIsOnboarded
  <2> QED BY <2>1, <2>2 DEF DoneIsOnboarded
<1> QED BY <1>1, <1>4, <1>5, <1>6 DEF IInv

\* The commit of the raise onboards the employee of the entry it is about to mark.
LEMMA RaiseSafe ==
    ASSUME IInv, TypeOK', NEW w \in Workers, RaiseCommits(w)
    PROVE  IInv'
<1>1. /\ Onboard(queue[row[w]].emp) /\ UNCHANGED <<queue, row>>
      /\ pc' = [pc EXCEPT ![w] = "mark"] /\ row[w] \in Rows
  BY DEF IInv, TypeOK, RaiseCommits, Goto
<1>2. \A i \in Rows : queue[i].emp \in Employees BY EntryTypes DEF IInv, TypeOK
<1>3. /\ OnboardedExists'
      /\ employee'[queue[row[w]].emp].onboarded
      /\ \A f \in Employees : employee[f].onboarded => employee'[f].onboarded
  BY <1>1, <1>2, OnboardTables DEF IInv, TypeOK
<1>4. ParkedAfterAttempts' /\ OnePendingEntry'
  BY <1>1 DEF IInv, ParkedAfterAttempts, OnePendingEntry, PendingRows, Rows
<1>5. DoneIsOnboarded'
  <2>1. \A i \in Rows' : queue'[i].status = "Done" => employee'[queue'[i].emp].onboarded
    BY <1>1, <1>2, <1>3 DEF IInv, DoneIsOnboarded, Rows
  <2>2. ASSUME NEW v \in Workers, pc'[v] = "mark" PROVE employee'[queue'[row'[v]].emp].onboarded
    <3>1. CASE v = w BY <1>1, <1>3, <3>1
    <3>2. CASE v # w
      <4>1. pc[v] = "mark" /\ row[v] \in Rows BY <1>1, <2>2, <3>2 DEF IInv, TypeOK
      <4> QED BY <1>1, <1>2, <1>3, <4>1 DEF IInv, DoneIsOnboarded
    <3> QED BY <3>1, <3>2
  <2> QED BY <2>1, <2>2 DEF DoneIsOnboarded
<1> QED BY <1>3, <1>4, <1>5 DEF IInv

\* Marking: a Done entry was raised by this worker or is onboarded by an
\* earlier one, a failed entry is Pending only where no other is.
LEMMA MarkSafe ==
    ASSUME IInv, TypeOK', NEW w \in Workers, MarkDone(w) \/ (MarkFailed(w) /\ ~Refused(row[w]))
    PROVE  IInv'
<1> DEFINE i == row[w]
<1>1. i \in Rows /\ employee' = employee BY MarkStep DEF IInv
<1>2. PICK st \in {"Pending", "Done", "Failed"} :
          /\ queue' = [queue EXCEPT ![i].status = st, ![i].attempts = @ + 1]
          /\ \/ st = "Done" /\ pc[w] = "mark"
             \/ st = AfterFailure(queue[i]) /\ ~Refused(i)
  BY MarkStep DEF IInv
<1>3. /\ pc' = [pc EXCEPT ![w] = "fetch"] /\ row' = [row EXCEPT ![w] = 0]
  BY DEF MarkDone, MarkFailed, NextRow, Goto
<1> HIDE DEF i
<1>4. /\ Rows' = Rows
      /\ queue'[i] = [emp |-> queue[i].emp, status |-> st, attempts |-> queue[i].attempts + 1]
      /\ \A j \in Rows \ {i} : queue'[j] = queue[j]
  BY <1>1, <1>2, MarkedEntry DEF IInv, TypeOK
<1>5. queue[i].attempts \in Nat BY <1>1, EntryTypes DEF IInv, TypeOK
<1>6. ParkedAfterAttempts'
  <2>1. /\ st = "Pending" => queue[i].attempts + 1 < MaxAttempts
        /\ st = "Failed" => queue[i].attempts + 1 >= MaxAttempts
    BY <1>2, <1>5, AutoRaiseAssumption DEF AfterFailure
  <2> QED BY <1>4, <2>1 DEF IInv, ParkedAfterAttempts
<1>7. OnePendingEntry'
  <2>1. \A j \in PendingRows' \ {i} : j \in PendingRows /\ queue'[j] = queue[j]
    BY <1>4 DEF PendingRows
  <2>2. i \in PendingRows' => ~Refused(i) /\ AfterFailure(queue[i]) = "Pending"
    BY <1>2, <1>4 DEF PendingRows
  <2>3. i \in PendingRows' => \A j \in PendingRows \ {i} : queue[j].emp # queue[i].emp
    BY <2>2 DEF Refused
  <2>4. queue'[i].emp = queue[i].emp BY <1>4
  <2> SUFFICES ASSUME NEW a \in PendingRows', NEW b \in PendingRows', a # b,
                      queue'[a].emp = queue'[b].emp
               PROVE  FALSE
    BY DEF OnePendingEntry
  <2>5. CASE a = i BY <2>1, <2>3, <2>4, <2>5
  <2>6. CASE b = i BY <2>1, <2>3, <2>4, <2>6
  <2>7. CASE a # i /\ b # i BY <2>1, <2>7 DEF IInv, OnePendingEntry
  <2> QED BY <2>5, <2>6, <2>7
<1>8. DoneIsOnboarded'
  <2>1. st = "Done" => employee[queue[i].emp].onboarded
    BY <1>1, <1>2 DEF IInv, DoneIsOnboarded, AfterFailure, i
  <2>2. \A j \in Rows' : queue'[j].status = "Done" => employee'[queue'[j].emp].onboarded
    BY <1>1, <1>4, <2>1 DEF IInv, DoneIsOnboarded
  <2>3. \A j \in Rows : queue'[j].emp = queue[j].emp BY <1>4
  <2>4. ASSUME NEW v \in Workers, pc'[v] = "mark" PROVE employee'[queue'[row'[v]].emp].onboarded
    <3>1. v # w /\ pc[v] = "mark" /\ row'[v] = row[v] /\ row[v] \in Rows
      BY <1>3, <2>4 DEF IInv, TypeOK
    <3> QED BY <1>1, <2>3, <3>1 DEF IInv, DoneIsOnboarded
  <2> QED BY <2>2, <2>4 DEF DoneIsOnboarded
<1>9. OnboardedExists' BY <1>1 DEF IInv, OnboardedExists
<1> QED BY <1>6, <1>7, <1>8, <1>9 DEF IInv

LEMMA InvStep == IInv /\ [Next]_vars => IInv'
<1> SUFFICES ASSUME IInv, [Next]_vars PROVE IInv' OBVIOUS
<1>1. TypeOK' BY TypeStep DEF IInv
<1>2. ASSUME NEW w \in Workers, Drain(w) \/ Interrupt(w) PROVE IInv'
  <2>1. CASE RaiseCommits(w) BY <1>1, <2>1, RaiseSafe
  <2>2. CASE MarkDone(w) \/ (MarkFailed(w) /\ ~Refused(row[w])) BY <1>1, <2>2, MarkSafe
  <2>3. CASE UNCHANGED <<employee, instance, queue>> /\ ~RaiseCommits(w)
    <3>1. \A v \in Workers : pc'[v] = "mark" => pc[v] = "mark" /\ row'[v] = row[v]
      BY <1>2, <2>3, DrainStep DEF IInv, TypeOK
    <3> QED BY <1>1, <2>3, <3>1, QuietStep
  <2> QED BY <1>2, <2>1, <2>2, <2>3, DrainStep DEF IInv
<1>3. CASE ToggleDefinition BY <1>1, <1>3, QuietStep DEF ToggleDefinition
<1>4. CASE UNCHANGED vars BY <1>1, <1>4, QuietStep DEF vars
<1> QED BY <1>1, <1>2, <1>3, <1>4, PeopleSafe DEF Next

\* However many workers attempt an entry, with stale cursors and after crashes,
\* it is Pending while attempts are left and parked once they are spent.
THEOREM Parked == Spec => []ParkedAfterAttempts
<1>1. IInv => ParkedAfterAttempts BY DEF IInv
<1> QED BY <1>1, InvInit, InvStep, PTL DEF Spec

\* No entry is marked Done unless its employee was onboarded by a committed raise.
THEOREM DoneMeansOnboarded == Spec => []DoneIsOnboarded
<1>1. IInv => DoneIsOnboarded BY DEF IInv
<1> QED BY <1>1, InvInit, InvStep, PTL DEF Spec

\* The triggers' look-up and the unique index leave one Pending entry per employee.
THEOREM OnePending == Spec => []OnePendingEntry
<1>1. IInv => OnePendingEntry BY DEF IInv
<1> QED BY <1>1, InvInit, InvStep, PTL DEF Spec
=============================================================================
