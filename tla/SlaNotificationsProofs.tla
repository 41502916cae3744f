------------------------ MODULE SlaNotificationsProofs ------------------------
(***************************************************************************)
(* Safety of the notification outbox for any tasks, employees, roles and    *)
(* number of workers that sweep at the same time, any percentages and batch *)
(* size.                                                                    *)
(*                                                                          *)
(* ToldOnce rests on the unique index alone.  BreachIsPast needs to know    *)
(* what a pass carries from its snapshot to its inserts: a breach it has    *)
(* still to record was one when it was read, and time does not go back.     *)
(***************************************************************************)
EXTENDS SlaNotifications, TLAPS

\* A row of @events, if it is a breach, has its due date behind it.
Past(ev, now) == ev.event = "BREACH" => ev.due < now

\* What a pass holds at a time now.
Sound(x, now) ==
  /\ x \in PassRow
  /\ \A ev \in x.work : Past(ev, now)
  /\ x.pc \in {"each", "insert"} => x.cur \in EventRow /\ Past(x.cur, now)

IInv == /\ TypeOK
        /\ ToldOnce
        /\ BreachIsPast
        /\ \A w \in Workers : Sound(pass[w], clock)

-----------------------------------------------------------------------------
(* A pass between two of its statements *)

LEMMA IdleSound == ASSUME NEW n \in Nat PROVE Sound(Idle, n)
BY DEF Sound, Idle, PassRow, Reasons, People

\* A pass that goes on with the rest of its work.
LEMMA NextSound ==
    ASSUME NEW n \in Nat, NEW work \in SUBSET EventRow, NEW b \in BOOLEAN,
           \A ev \in work : Past(ev, n)
    PROVE  Sound([Idle EXCEPT !.pc = "next", !.work = work, !.broken = b], n)
BY DEF Sound, Idle, PassRow, Reasons, People

LEMMA SettleSound ==
    ASSUME NEW n \in Nat, NEW x, Sound(x, n)
    PROVE  Sound(Settle(x), n)
<1>1. x.work \in SUBSET EventRow /\ x.broken \in BOOLEAN /\ \A ev \in x.work : Past(ev, n)
  BY DEF Sound, PassRow
<1> QED BY <1>1, IdleSound, NextSound DEF Settle

\* A statement of one worker that leaves it with x.
LEMMA StepSound ==
    ASSUME IInv, NEW w \in Workers, NEW x, Sound(x, clock), Step(w, x), clock' = clock
    PROVE  /\ pass' \in [Workers -> PassRow]
           /\ \A v \in Workers : Sound(pass'[v], clock')
<1>1. pass \in [Workers -> PassRow] /\ clock \in Nat BY DEF IInv, TypeOK
<1>2. Sound(Settle(x), clock) BY <1>1, SettleSound
<1>3. pass' = [pass EXCEPT ![w] = Settle(x)] BY DEF Step
<1>4. Settle(x) \in PassRow BY <1>2 DEF Sound
<1>5. pass' \in [Workers -> PassRow] BY <1>1, <1>3, <1>4
<1>6. ASSUME NEW v \in Workers PROVE Sound(pass'[v], clock')
  <2>1. CASE v = w BY <1>1, <1>2, <1>3, <2>1
  <2>2. CASE v # w BY <1>1, <1>3, <2>2 DEF IInv
  <2> QED BY <2>1, <2>2
<1> QED BY <1>5, <1>6

\* What the passes hold stays sound as long as only the outbox is written.
LEMMA OthersKept ==
    ASSUME IInv, UNCHANGED pass, clock' \in Nat, clock <= clock'
    PROVE  \A v \in Workers : Sound(pass'[v], clock')
<1>1. clock \in Nat BY DEF IInv, TypeOK
<1>2. ASSUME NEW ev \in EventRow, Past(ev, clock) PROVE Past(ev, clock')
  <2>1. ev.due \in Nat BY ConfigAssumption DEF EventRow
  <2>2. clock' \in Nat /\ clock <= clock' OBVIOUS
  <2> QED BY <1>1, <1>2, <2>1, <2>2 DEF Past
<1>3. ASSUME NEW v \in Workers PROVE Sound(pass'[v], clock')
  <2>1. Sound(pass[v], clock) BY DEF IInv
  <2>2. pass[v].work \subseteq EventRow BY <2>1 DEF Sound, PassRow
  <2> QED BY <1>2, <2>1, <2>2 DEF Sound
<1> QED BY <1>3

-----------------------------------------------------------------------------
(* The statements of a pass *)

LEMMA BeginSound ==
    ASSUME IInv, NEW w \in Workers, BeginSweep(w)
    PROVE  \E x : Sound(x, clock) /\ Step(w, x)
<1>1. PICK B \in SUBSET Swept : Step(w, [Idle EXCEPT !.pc = "next", !.work = EventsOf(B)])
  BY DEF BeginSweep
<1>2. EventsOf(B) \in SUBSET EventRow /\ clock \in Nat BY DEF EventsOf, IInv, TypeOK
<1>3. ASSUME NEW ev \in EventsOf(B) PROVE Past(ev, clock)
  BY ConfigAssumption, <1>2 DEF EventsOf, Past, Crossed, EventRow
<1>4. Sound([Idle EXCEPT !.pc = "next", !.work = EventsOf(B)], clock)
  BY <1>2, <1>3 DEF Sound, Idle, PassRow, Reasons, People
<1> QED BY <1>1, <1>4

LEMMA FetchSound ==
    ASSUME IInv, NEW w \in Workers, Fetch(w)
    PROVE  \E x : Sound(x, clock) /\ Step(w, x)
<1>1. PICK ev \in pass[w].work :
        Step(w, [Idle EXCEPT
                  !.pc = "each", !.work = pass[w].work \ {ev}, !.cur = ev,
                  !.broken = pass[w].broken,
                  !.todo = {ev.owner} \ {NoOne},
                  !.roles = IF ev.task \in Matched /\ ~pass[w].broken
                            THEN Notified[ev.event] ELSE {}])
  BY DEF Fetch
<1>2. Sound(pass[w], clock) BY DEF IInv
<1>3. ev \in EventRow /\ Past(ev, clock) BY <1>2 DEF Sound, PassRow
<1>4. Notified[ev.event] \subseteq Roles /\ ev.owner \in People
  BY <1>3, ConfigAssumption DEF EventRow
<1> DEFINE x == [Idle EXCEPT
                  !.pc = "each", !.work = pass[w].work \ {ev}, !.cur = ev,
                  !.broken = pass[w].broken,
                  !.todo = {ev.owner} \ {NoOne},
                  !.roles = IF ev.task \in Matched /\ ~pass[w].broken
                            THEN Notified[ev.event] ELSE {}]
<1>5. x \in PassRow BY <1>2, <1>3, <1>4 DEF Sound, PassRow, Idle, Reasons, People
<1>6. x.work \subseteq pass[w].work /\ x.cur = ev BY DEF Idle
<1>7. Sound(x, clock) BY <1>2, <1>3, <1>5, <1>6 DEF Sound
<1> QED BY <1>1, <1>7

\* A statement that leaves a pass with its event and the rest of its work.
LEMMA SameEvent ==
    ASSUME NEW n, NEW x, NEW y, Sound(x, n), x.pc \in {"each", "insert"}, y \in PassRow,
           y.work = x.work, y.cur = x.cur
    PROVE  Sound(y, n)
BY DEF Sound

LEMMA LookUpSound ==
    ASSUME IInv, NEW w \in Workers, LookUp(w)
    PROVE  \E x : Sound(x, clock) /\ Step(w, x)
<1>1. PICK e \in pass[w].todo :
        Step(w, IF Recorded(RowFor(pass[w], e))
               THEN [pass[w] EXCEPT !.todo = @ \ {e}]
               ELSE [pass[w] EXCEPT !.todo = @ \ {e}, !.pc = "insert", !.to = e])
  BY DEF LookUp
<1>2. Sound(pass[w], clock) /\ pass[w] \in PassRow /\ pass[w].pc = "each"
  BY DEF IInv, Sound, LookUp
<1>3. e \in People BY <1>2 DEF PassRow
<1> DEFINE x == [pass[w] EXCEPT !.todo = @ \ {e}]
           y == [pass[w] EXCEPT !.todo = @ \ {e}, !.pc = "insert", !.to = e]
<1>4. x \in PassRow /\ x.work = pass[w].work /\ x.cur = pass[w].cur BY <1>2 DEF PassRow
<1>5. y \in PassRow /\ y.work = pass[w].work /\ y.cur = pass[w].cur BY <1>2, <1>3 DEF PassRow
<1>6. Sound(x, clock) /\ Sound(y, clock) BY <1>2, <1>4, <1>5, SameEvent
<1> HIDE DEF x, y
<1>7. Step(w, IF Recorded(RowFor(pass[w], e)) THEN x ELSE y) BY <1>1 DEF x, y
<1> QED BY <1>6, <1>7

LEMMA InsertSound ==
    ASSUME IInv, NEW w \in Workers, Insert(w)
    PROVE  \E x : Sound(x, clock) /\ Step(w, x)
<1> DEFINE x == [pass[w] EXCEPT !.pc = "each", !.to = NoOne]
<1>1. Step(w, x) /\ pass[w].pc = "insert" BY DEF Insert
<1>2. Sound(pass[w], clock) /\ pass[w] \in PassRow BY DEF IInv, Sound
<1>3. x \in PassRow /\ x.work = pass[w].work /\ x.cur = pass[w].cur
  BY <1>2 DEF PassRow, People
<1>4. Sound(x, clock) BY <1>1, <1>2, <1>3, SameEvent
<1> QED BY <1>1, <1>4

LEMMA NextRoleSound ==
    ASSUME IInv, NEW w \in Workers, NextRole(w)
    PROVE  \E x : Sound(x, clock) /\ Step(w, x)
<1>1. PICK r \in pass[w].roles :
        Step(w, [pass[w] EXCEPT !.roles = @ \ {r}, !.reason = r,
                               !.todo = Audience(r, pass[w].cur.owner)])
  BY DEF NextRole
<1> DEFINE x == [pass[w] EXCEPT !.roles = @ \ {r}, !.reason = r,
                               !.todo = Audience(r, pass[w].cur.owner)]
<1>2. Sound(pass[w], clock) /\ pass[w] \in PassRow /\ pass[w].pc = "each"
  BY DEF IInv, Sound, NextRole
<1>3. r \in Reasons BY <1>2 DEF PassRow, Reasons
<1>4. Audience(r, pass[w].cur.owner) \in SUBSET People BY DEF Audience, Holders, People
<1>5. x \in PassRow /\ x.work = pass[w].work /\ x.cur = pass[w].cur
  BY <1>2, <1>3, <1>4 DEF PassRow
<1>6. Sound(x, clock) BY <1>2, <1>5, SameEvent
<1> QED BY <1>1, <1>6

LEMMA FailSound ==
    ASSUME IInv, NEW w \in Workers, Fail(w)
    PROVE  \E x : Sound(x, clock) /\ Step(w, x)
<1> DEFINE b == pass[w].broken \/ InRoles(pass[w])
           x == [pass[w] EXCEPT !.pc = "each", !.todo = {}, !.roles = {}, !.to = NoOne,
                             !.broken = @ \/ InRoles(pass[w])]
<1>1. Step(w, x) /\ pass[w].pc \in {"each", "insert"} BY DEF Fail
<1>2. Sound(pass[w], clock) /\ pass[w] \in PassRow BY DEF IInv, Sound
<1>3. b \in BOOLEAN OBVIOUS
<1>4. x = [pass[w] EXCEPT !.pc = "each", !.todo = {}, !.roles = {}, !.to = NoOne, !.broken = b]
  OBVIOUS
<1>5. x \in PassRow /\ x.work = pass[w].work /\ x.cur = pass[w].cur
  <2> HIDE DEF b, x
  <2> QED BY <1>2, <1>3, <1>4 DEF PassRow, People
<1>6. Sound(x, clock) BY <1>1, <1>2, <1>5, SameEvent
<1> QED BY <1>1, <1>6

LEMMA InterruptSound ==
    ASSUME IInv, NEW w \in Workers, Interrupt(w)
    PROVE  \E x : Sound(x, clock) /\ Step(w, x)
<1>1. Settle(Idle) = Idle BY DEF Settle, Idle
<1>2. Step(w, Idle) BY <1>1 DEF Interrupt, Step
<1> QED BY <1>2, IdleSound DEF IInv, TypeOK

-----------------------------------------------------------------------------
(* The outbox *)

\* The unique index admits a row whose key is new.
LEMMA InsertOutbox ==
    ASSUME IInv, NEW w \in Workers, Insert(w)
    PROVE  outbox' \subseteq OutboxRow /\ ToldOnce' /\ BreachIsPast'
<1> DEFINE row == RowFor(pass[w], pass[w].to)
<1>1. Sound(pass[w], clock) /\ pass[w] \in PassRow /\ pass[w].pc = "insert"
  BY DEF IInv, Sound, Insert
<1>2. pass[w].cur \in EventRow /\ Past(pass[w].cur, clock) BY <1>1 DEF Sound
<1>3. row \in OutboxRow BY <1>1, <1>2 DEF RowFor, OutboxRow, EventRow, PassRow, Statuses
<1>4. row.event = "BREACH" => row.due < clock BY <1>2 DEF RowFor, Past
<1>5. outbox \subseteq OutboxRow /\ clock' = clock BY DEF IInv, TypeOK, Insert
<1>6. outbox' = IF Recorded(row) THEN outbox ELSE outbox \cup {row} BY DEF Insert
<1> HIDE DEF row
<1>7. CASE Recorded(row)
  <2>1. outbox' = outbox BY <1>6, <1>7
  <2> QED BY <1>5, <2>1 DEF IInv, ToldOnce, BreachIsPast
<1>8. CASE ~Recorded(row)
  <2>1. outbox' = outbox \cup {row} BY <1>6, <1>8
  <2>2. \A old \in outbox : ~SameKey(old, row) BY <1>8 DEF Recorded
  <2>3. ToldOnce' BY <2>1, <2>2 DEF IInv, ToldOnce, SameKey
  <2>4. BreachIsPast' BY <1>4, <1>5, <2>1 DEF IInv, BreachIsPast
  <2> QED BY <1>3, <1>5, <2>1, <2>3, <2>4
<1> QED BY <1>7, <1>8

\* A change of statuses changes the key of no row.
LEMMA MarkOutbox ==
    ASSUME IInv, clock' = clock, NEW S, NEW status \in Statuses, SetStatus(S, status)
    PROVE  outbox' \subseteq OutboxRow /\ ToldOnce' /\ BreachIsPast'
<1> DEFINE mark(row) == IF row \in S THEN [row EXCEPT !.status = status] ELSE row
<1>1. outbox' = {mark(row) : row \in outbox} BY DEF SetStatus
<1>2. ASSUME NEW row \in OutboxRow
      PROVE  /\ mark(row) \in OutboxRow
             /\ mark(row).task = row.task /\ mark(row).event = row.event
             /\ mark(row).due = row.due /\ mark(row).to = row.to
  BY DEF OutboxRow
<1>3. outbox \subseteq OutboxRow BY DEF IInv, TypeOK
<1> HIDE DEF mark
<1>4. outbox' \subseteq OutboxRow BY <1>1, <1>2, <1>3
<1>5. ASSUME NEW a \in outbox', NEW b \in outbox',
             a.task = b.task, a.event = b.event, a.due = b.due, a.to = b.to
      PROVE  a = b
  <2>1. PICK p \in outbox : a = mark(p) BY <1>1
  <2>2. PICK q \in outbox : b = mark(q) BY <1>1
  <2>3. p.task = q.task /\ p.event = q.event /\ p.due = q.due /\ p.to = q.to
    BY <1>2, <1>3, <1>5, <2>1, <2>2
  <2>4. p = q BY <2>3 DEF IInv, ToldOnce
  <2> QED BY <2>1, <2>2, <2>4
<1>6. BreachIsPast'
  <2>1. ASSUME NEW row \in outbox', row.event = "BREACH" PROVE row.due < clock'
    <3>1. PICK p \in outbox : row = mark(p) BY <1>1
    <3> QED BY <1>1, <1>2, <1>3, <2>1, <3>1 DEF IInv, BreachIsPast
  <2> QED BY <2>1 DEF BreachIsPast
<1> QED BY <1>4, <1>5, <1>6 DEF ToldOnce

\* Nothing else writes it, and time only goes on.
LEMMA OutboxKept ==
    ASSUME IInv, UNCHANGED outbox, clock' \in Nat, clock <= clock'
    PROVE  outbox' \subseteq OutboxRow /\ ToldOnce' /\ BreachIsPast'
<1>1. outbox \subseteq OutboxRow /\ clock \in Nat BY DEF IInv, TypeOK
<1>2. \A row \in outbox : row.due \in Nat BY <1>1, ConfigAssumption DEF OutboxRow
<1> QED BY <1>1, <1>2 DEF IInv, ToldOnce, BreachIsPast

-----------------------------------------------------------------------------
(* The inductive invariant *)

\* The parts of the invariant an action has to restore.
LEMMA Restored ==
    ASSUME clock' \in 0..MaxClock, task' \in [Tasks -> TaskRow],
           member' \in [Employees -> Roles \cup {NoOne}],
           changes' \in 0..MaxChanges, faults' \in 0..MaxFaults,
           outbox' \subseteq OutboxRow, ToldOnce', BreachIsPast',
           pass' \in [Workers -> PassRow], \A v \in Workers : Sound(pass'[v], clock')
    PROVE  IInv'
BY DEF IInv, TypeOK, Sound

LEMMA InvInit == Init => IInv
<1> SUFFICES ASSUME Init PROVE IInv OBVIOUS
<1>1. Sound(Idle, 0) /\ Idle \in PassRow BY IdleSound DEF Sound
<1>2. pass = [w \in Workers |-> Idle] /\ clock = 0 BY DEF Init
<1> HIDE DEF Idle
<1>3. pass \in [Workers -> PassRow] /\ \A w \in Workers : Sound(pass[w], clock) BY <1>1, <1>2
<1>4. task \in [Tasks -> TaskRow] /\ member \in [Employees -> Roles \cup {NoOne}] BY DEF Init
<1>5. outbox = {} /\ changes = 0 /\ faults = 0 BY DEF Init
<1>6. ToldOnce /\ BreachIsPast BY <1>5 DEF ToldOnce, BreachIsPast
<1> QED BY <1>2, <1>3, <1>4, <1>5, <1>6, BoundAssumption DEF IInv, TypeOK, Sound

\* A worker's statement.
LEMMA WorkerStep ==
    ASSUME IInv, NEW w \in Workers, Sweep(w) \/ Fail(w) \/ Interrupt(w)
    PROVE  IInv'
<1>1. UNCHANGED <<clock, task, member, changes>>
  BY DEF Sweep, BeginSweep, Fetch, LookUp, Insert, NextRole, Fail, Interrupt
<1>2. \E x : Sound(x, clock) /\ Step(w, x)
  BY BeginSound, FetchSound, LookUpSound, InsertSound, NextRoleSound, FailSound,
     InterruptSound DEF Sweep
<1>3. pass' \in [Workers -> PassRow] /\ \A v \in Workers : Sound(pass'[v], clock')
  BY <1>1, <1>2, StepSound
<1>4. /\ clock \in 0..MaxClock /\ clock \in Nat /\ task \in [Tasks -> TaskRow]
      /\ member \in [Employees -> Roles \cup {NoOne}]
      /\ changes \in 0..MaxChanges /\ faults \in 0..MaxFaults
  BY DEF IInv, TypeOK
<1>5. faults' \in 0..MaxFaults
  <2>1. UNCHANGED faults \/ (faults < MaxFaults /\ faults' = faults + 1)
    BY DEF Sweep, BeginSweep, Fetch, LookUp, Insert, NextRole, Fail, Interrupt
  <2> QED BY <1>4, <2>1, BoundAssumption
<1>6. outbox' \subseteq OutboxRow /\ ToldOnce' /\ BreachIsPast'
  <2>1. CASE Insert(w) BY <2>1, InsertOutbox
  <2>2. CASE UNCHANGED outbox BY <1>1, <1>4, <2>2, OutboxKept
  <2> QED BY <2>1, <2>2
       DEF Sweep, BeginSweep, Fetch, LookUp, NextRole, Fail, Interrupt
<1> QED BY <1>1, <1>3, <1>4, <1>5, <1>6, Restored

\* A change of a task, of who holds a role, or of the day.
LEMMA OutsideStep ==
    ASSUME IInv, UNCHANGED <<outbox, pass, faults>>,
           clock' \in 0..MaxClock, clock <= clock', task' \in [Tasks -> TaskRow],
           member' \in [Employees -> Roles \cup {NoOne}], changes' \in 0..MaxChanges
    PROVE  IInv'
<1>1. clock' \in Nat /\ faults' \in 0..MaxFaults /\ pass' \in [Workers -> PassRow]
  BY DEF IInv, TypeOK
<1> QED BY <1>1, OutboxKept, OthersKept, Restored

LEMMA InvStep == IInv /\ [Next]_vars => IInv'
<1> SUFFICES ASSUME IInv, [Next]_vars PROVE IInv' OBVIOUS
<1>1. /\ clock \in 0..MaxClock /\ task \in [Tasks -> TaskRow]
      /\ member \in [Employees -> Roles \cup {NoOne}]
      /\ changes \in 0..MaxChanges /\ faults \in 0..MaxFaults
      /\ pass \in [Workers -> PassRow] /\ MaxClock \in Nat /\ MaxChanges \in Nat
  BY BoundAssumption DEF IInv, TypeOK
<1>2. CASE Tick
  <2>1. clock' \in 0..MaxClock /\ clock <= clock' BY <1>1, <1>2 DEF Tick
  <2> QED BY <1>1, <1>2, <2>1, OutsideStep DEF Tick
<1>3. CASE \E w \in Workers : Sweep(w) \/ Fail(w) \/ Interrupt(w) BY <1>3, WorkerStep
<1>4. ASSUME NEW t \in Tasks, CloseOrReopen(t) PROVE IInv'
  <2>1. [task[t] EXCEPT !.open = ~@] \in TaskRow BY <1>1 DEF TaskRow
  <2>2. task' \in [Tasks -> TaskRow] BY <1>1, <1>4, <2>1 DEF CloseOrReopen
  <2>3. changes' \in 0..MaxChanges BY <1>1, <1>4 DEF CloseOrReopen, Change
  <2> QED BY <1>1, <1>4, <2>2, <2>3, OutsideStep DEF CloseOrReopen
<1>5. ASSUME NEW t \in Tasks, NEW start \in Starts, NEW due \in Dues,
             Reschedule(t, start, due)
      PROVE  IInv'
  <2>1. [task[t] EXCEPT !.start = start, !.due = due] \in TaskRow BY <1>1 DEF TaskRow
  <2>2. task' = [task EXCEPT ![t] = [task[t] EXCEPT !.start = start, !.due = due]]
    BY <1>1, <1>5 DEF Reschedule
  <2>3. task' \in [Tasks -> TaskRow] BY <1>1, <2>1, <2>2
  <2>4. changes' \in 0..MaxChanges BY <1>1, <1>5 DEF Reschedule, Change
  <2> QED BY <1>1, <1>5, <2>3, <2>4, OutsideStep DEF Reschedule
<1>6. ASSUME NEW t \in Tasks, NEW owner \in Employees, Assign(t, owner) PROVE IInv'
  <2>1. [task[t] EXCEPT !.owner = owner] \in TaskRow BY <1>1 DEF TaskRow, People
  <2>2. task' \in [Tasks -> TaskRow] BY <1>1, <1>6, <2>1 DEF Assign
  <2>3. changes' \in 0..MaxChanges BY <1>1, <1>6 DEF Assign, Change
  <2> QED BY <1>1, <1>6, <2>2, <2>3, OutsideStep DEF Assign
<1>7. ASSUME NEW e \in Employees, NEW r \in Roles \cup {NoOne}, ChangeRole(e, r) PROVE IInv'
  <2>1. member' \in [Employees -> Roles \cup {NoOne}] BY <1>1, <1>7 DEF ChangeRole
  <2>2. changes' \in 0..MaxChanges BY <1>1, <1>7 DEF ChangeRole, Change
  <2> QED BY <1>1, <1>7, <2>1, <2>2, OutsideStep DEF ChangeRole
<1>8. ASSUME NEW S, NEW status \in Statuses, SetStatus(S, status), Change,
             UNCHANGED <<clock, task, member, pass, faults>>
      PROVE  IInv'
  <2>1. changes' \in 0..MaxChanges BY <1>1, <1>8 DEF Change
  <2>2. outbox' \subseteq OutboxRow /\ ToldOnce' /\ BreachIsPast' BY <1>8, MarkOutbox
  <2>3. \A v \in Workers : Sound(pass'[v], clock') BY <1>8 DEF IInv
  <2> QED BY <1>1, <1>8, <2>1, <2>2, <2>3, Restored
<1>9. ASSUME NEW e \in Employees, NEW scope, MarkAll(e, scope) PROVE IInv'
  <2>1. "Sent" \in Statuses BY DEF Statuses
  <2> QED BY <1>8, <1>9, <2>1 DEF MarkAll
<1>10. ASSUME NEW row \in outbox, NEW status \in Statuses, Mark(row, status) PROVE IInv'
  BY <1>8, <1>10 DEF Mark
<1>11. CASE UNCHANGED vars BY <1>1, <1>11, OutsideStep DEF vars
<1> QED BY <1>2, <1>3, <1>4, <1>5, <1>6, <1>7, <1>9, <1>10, <1>11 DEF Next

\* Rows, passes and outbox keep their types whatever users and sweeps do.
THEOREM TypeCorrect == Spec => []TypeOK
<1>1. IInv => TypeOK BY DEF IInv
<1> QED BY <1>1, InvInit, InvStep, PTL DEF Spec

\* Any number of workers that sweep at once, crash and start over tell nobody
\* twice of one threshold of one commitment.
THEOREM ToldOnceHolds == Spec => []ToldOnce
<1>1. IInv => ToldOnce BY DEF IInv
<1> QED BY <1>1, InvInit, InvStep, PTL DEF Spec

\* No breach is recorded against a date that has not passed, however old the
\* snapshot of the sweep is and whatever was granted since.
THEOREM BreachWasPast == Spec => []BreachIsPast
<1>1. IInv => BreachIsPast BY DEF IInv
<1> QED BY <1>1, InvInit, InvStep, PTL DEF Spec
=============================================================================
