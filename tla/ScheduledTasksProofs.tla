------------------------ MODULE ScheduledTasksProofs ------------------------
(***************************************************************************)
(* Safety of the generator of scheduled tasks for any rules, API processes, *)
(* runs by hand, period, horizon and number of edits and faults.            *)
(*                                                                          *)
(* IInv carries the results about the ledger: the application lock admits   *)
(* one run, so what a run has in hand nobody else touches.  That generator  *)
(* and calendar agree is a fact about every state of the right types.       *)
(***************************************************************************)
EXTENDS ScheduledTasks, TLAPS

\* A run between its start and its end.
Running(p) == p.pc \notin {"idle", "done"}

\* Only the run that holds the lock is running.
Locked == \A v \in Runners : Running(pass[v]) => lock = v

\* The rows a run still has to raise have no task, and it has one row in hand at most.
Hands(p) == /\ \A k \in p.work : ~ledger[k].linked
            /\ \A j, k \in p.row : j = k
            /\ ~Running(p) => p.work = {}

HandsOff == \A v \in Runners : Hands(pass[v])

\* No task is lost of a date that was never claimed.
NoneLost == \A k \in Keys \ DOMAIN ledger : lost[k] = 0

IInv == TypeOK /\ Locked /\ HandsOff /\ NoneLost /\ RaisedOnce

-----------------------------------------------------------------------------
(* Types *)

\* What TypeOK says of one run.
RunOK(p) == /\ p.work \subseteq DOMAIN ledger
            /\ p.row \subseteq p.work
            /\ p.pc = "link" <=> p.row # {}

\* Ledger, lock and counters without the runs.
Tables ==
    /\ today \in Days
    /\ rule \in [Rules -> RuleRow]
    /\ overrides \subseteq Override
    /\ DOMAIN ledger \subseteq Keys
    /\ ledger \in [DOMAIN ledger -> LedgerRow]
    /\ lock \in Runners \cup {Free}
    /\ edits \in 0..MaxEdits
    /\ faults \in 0..MaxFaults
    /\ lost \in [Keys -> Nat]

LEMMA TypeSplit ==
    TypeOK <=> Tables /\ pass \in [Runners -> PassRow] /\ \A v \in Runners : RunOK(pass[v])
BY DEF TypeOK, Tables, RunOK

\* One run moves on: the others keep what they have, because no row of the
\* ledger goes away.
LEMMA StepRuns ==
    ASSUME TypeOK, NEW w \in Runners, NEW p \in PassRow, Step(w, p),
           DOMAIN ledger \subseteq DOMAIN ledger',
           p.work \subseteq DOMAIN ledger', p.row \subseteq p.work, p.pc = "link" <=> p.row # {}
    PROVE  /\ pass' \in [Runners -> PassRow]
           /\ \A v \in Runners : RunOK(pass[v])'
           /\ pass'[w] = p
           /\ \A v \in Runners \ {w} : pass'[v] = pass[v]
<1>1. /\ pass' \in [Runners -> PassRow]
      /\ pass'[w] = p
      /\ \A v \in Runners \ {w} : pass'[v] = pass[v]
  BY DEF TypeOK, Step
<1>2. ASSUME NEW v \in Runners PROVE RunOK(pass[v])'
  <2>1. CASE v = w BY <2>1, <1>1 DEF RunOK
  <2>2. CASE v # w
    <3>1. RunOK(pass[v]) BY DEF TypeOK, RunOK
    <3> QED BY <3>1, <2>2, <1>1 DEF RunOK
  <2> QED BY <2>1, <2>2
<1> QED BY <1>1, <1>2

LEMMA IdleType ==
    ASSUME NEW w \in Runners
    PROVE  /\ Idle \in PassRow /\ Ended(w) \in PassRow
           /\ Ended(w).work = {} /\ Ended(w).row = {} /\ ~Running(Ended(w))
           /\ Idle.work = {} /\ Idle.row = {}
BY ScheduleAssumption DEF Idle, Ended, PassRow, Days, Running

LEMMA TypeInit == Init => TypeOK
<1> SUFFICES ASSUME Init PROVE TypeOK OBVIOUS
<1>1. /\ today \in Days /\ overrides \subseteq Override /\ lock \in Runners \cup {Free}
      /\ edits \in 0..MaxEdits /\ faults \in 0..MaxFaults
  BY ScheduleAssumption DEF Init, Days
<1>2. rule \in [Rules -> RuleRow] BY DEF Init, RuleRow, RuleStates
<1>3. DOMAIN ledger = {} /\ ledger \in [DOMAIN ledger -> LedgerRow] BY DEF Init
<1>4. lost \in [Keys -> Nat] BY DEF Init
<1>5. pass \in [Runners -> PassRow] /\ \A v \in Runners : RunOK(pass[v])
  <2>1. ASSUME NEW v \in Runners PROVE pass[v] = Idle /\ RunOK(Idle)
    BY DEF Init, RunOK, Idle
  <2> QED BY <2>1, IdleType DEF Init
<1> QED BY <1>1, <1>2, <1>3, <1>4, <1>5, TypeSplit DEF Tables

\* A step of one run that leaves the schedule alone: tables and run together.
LEMMA StepTypes ==
    ASSUME TypeOK, NEW w \in Runners, NEW p \in PassRow, Step(w, p),
           Tables', DOMAIN ledger \subseteq DOMAIN ledger',
           p.work \subseteq DOMAIN ledger', p.row \subseteq p.work, p.pc = "link" <=> p.row # {}
    PROVE  TypeOK'
BY StepRuns, TypeSplit DEF TypeOK, Tables, RunOK

LEMMA StartTypes ==
    ASSUME TypeOK, NEW w \in Runners, NEW d \in Days, Start(w, d)
    PROVE  TypeOK'
<1> DEFINE p == [Idle EXCEPT !.pc = "remove", !.day = d, !.eligible = Eligible(d),
                             !.due = {r \in Eligible(d) : Natural(r, d)}]
<1>1. p \in PassRow /\ p.work = {} /\ p.row = {} /\ p.pc = "remove"
  BY DEF Idle, PassRow, Eligible
<1>2. Step(w, p) /\ lock' = w /\ UNCHANGED <<today, rule, overrides, ledger, edits, faults, lost>>
  BY DEF Start
<1>3. Tables' BY <1>2 DEF TypeOK, Tables
<1> HIDE DEF p
<1> QED BY <1>1, <1>2, <1>3, StepTypes

LEMMA RemoveTypes ==
    ASSUME TypeOK, NEW w \in Runners, RemoveOverridden(w)
    PROVE  TypeOK'
<1> DEFINE p == [pass[w] EXCEPT !.pc = "add", !.due = @ \ Removed(@, pass[w].day)]
<1>1. pass[w] \in PassRow /\ RunOK(pass[w]) BY DEF TypeOK, RunOK
<1>2. pass[w].pc = "remove" /\ Step(w, p)
      /\ UNCHANGED <<today, rule, overrides, ledger, lock, edits, faults, lost>>
  BY DEF RemoveOverridden
<1>3. p \in PassRow /\ p.work = pass[w].work /\ p.row = pass[w].row /\ p.pc = "add"
  BY <1>1 DEF PassRow
<1>4. Tables' BY <1>2 DEF TypeOK, Tables
<1> HIDE DEF p
<1> QED BY <1>1, <1>2, <1>3, <1>4, StepTypes DEF RunOK

LEMMA AddTypes ==
    ASSUME TypeOK, NEW w \in Runners, AddOverridden(w)
    PROVE  TypeOK'
<1> DEFINE p == [pass[w] EXCEPT !.pc = "claim", !.due = @ \cup Added(pass[w].eligible, pass[w].day)]
<1>1. pass[w] \in PassRow /\ RunOK(pass[w]) BY DEF TypeOK, RunOK
<1>2. pass[w].pc = "add" /\ Step(w, p)
      /\ UNCHANGED <<today, rule, overrides, ledger, lock, edits, faults, lost>>
  BY DEF AddOverridden
<1>3. p \in PassRow /\ p.work = pass[w].work /\ p.row = pass[w].row /\ p.pc = "claim"
  BY <1>1 DEF PassRow, Added
<1>4. Tables' BY <1>2 DEF TypeOK, Tables
<1> HIDE DEF p
<1> QED BY <1>1, <1>2, <1>3, <1>4, StepTypes DEF RunOK

\* A claim keeps the rows of the ledger and adds empty ones of the day.
LEMMA ClaimedRows ==
    ASSUME TypeOK, NEW due \in SUBSET Rules, NEW d \in Days
    PROVE  /\ DOMAIN ledger \subseteq DOMAIN Claimed(due, d)
           /\ DOMAIN Claimed(due, d) \subseteq Keys
           /\ Claimed(due, d) \in [DOMAIN Claimed(due, d) -> LedgerRow]
           /\ \A k \in DOMAIN ledger : Claimed(due, d)[k] = ledger[k]
           /\ \A k \in DOMAIN Claimed(due, d) \ DOMAIN ledger :
                 Claimed(due, d)[k] = [linked |-> FALSE, error |-> FALSE, raised |-> 0]
<1>1. due \X {d} \subseteq Keys BY DEF Keys
<1>2. \A k \in DOMAIN ledger : ledger[k] \in LedgerRow BY DEF TypeOK
<1>3. [linked |-> FALSE, error |-> FALSE, raised |-> 0] \in LedgerRow BY DEF LedgerRow
<1>4. DOMAIN ledger \subseteq Keys BY DEF TypeOK
<1> QED BY <1>1, <1>2, <1>3, <1>4 DEF Claimed

LEMMA ClaimTypes ==
    ASSUME TypeOK, NEW w \in Runners, Claim(w)
    PROVE  TypeOK'
<1> DEFINE after == Claimed(pass[w].due, pass[w].day)
           p == [pass[w] EXCEPT !.pc = "raise", !.work = Unlinked(after, pass[w].day)]
<1>1. pass[w] \in PassRow /\ RunOK(pass[w]) BY DEF TypeOK, RunOK
<1>2. pass[w].pc = "claim" /\ Step(w, p) /\ ledger' = after
      /\ UNCHANGED <<today, rule, overrides, lock, edits, faults, lost>>
  BY DEF Claim
<1>3. pass[w].due \in SUBSET Rules /\ pass[w].day \in Days /\ pass[w].row = {}
  BY <1>1, <1>2 DEF PassRow, RunOK
<1>4. /\ DOMAIN ledger \subseteq DOMAIN after /\ DOMAIN after \subseteq Keys
      /\ after \in [DOMAIN after -> LedgerRow]
  BY <1>3, ClaimedRows, Zenon
<1>5. Unlinked(after, pass[w].day) \subseteq DOMAIN after BY DEF Unlinked
<1>6. p \in PassRow /\ p.work \subseteq DOMAIN after /\ p.row = {} /\ p.pc = "raise"
  <2> HIDE DEF after
  <2> QED BY <1>1, <1>3, <1>4, <1>5 DEF PassRow
<1>7. Tables' BY <1>2, <1>4 DEF TypeOK, Tables
<1> HIDE DEF p, after
<1> QED BY <1>2, <1>4, <1>6, <1>7, StepTypes

\* What a run that raises has at hand.
LEMMA WorkTypes ==
    ASSUME TypeOK, NEW w \in Runners, NEW k \in pass[w].work
    PROVE  /\ pass[w] \in PassRow /\ k \in DOMAIN ledger /\ k \in Keys
           /\ ledger[k] \in LedgerRow /\ lost[k] \in Nat
BY DEF TypeOK

LEMMA OpenTypes ==
    ASSUME TypeOK, NEW w \in Runners, OpenTask(w)
    PROVE  TypeOK'
<1>1. PICK k \in pass[w].work :
          /\ ledger' = [ledger EXCEPT ![k].raised = @ + 1]
          /\ Step(w, [pass[w] EXCEPT !.pc = "link", !.row = {k}])
          /\ UNCHANGED <<today, rule, overrides, lock, edits, faults, lost>>
  BY DEF OpenTask
<1> DEFINE p == [pass[w] EXCEPT !.pc = "link", !.row = {k}]
<1>2. pass[w] \in PassRow /\ RunOK(pass[w]) BY DEF TypeOK, RunOK
<1>3. p \in PassRow /\ p.work = pass[w].work /\ p.row = {k} /\ p.pc = "link"
  BY <1>2, WorkTypes DEF PassRow
<1>4. DOMAIN ledger' = DOMAIN ledger /\ ledger' \in [DOMAIN ledger -> LedgerRow]
  BY <1>1, WorkTypes DEF TypeOK, LedgerRow
<1>5. Tables' BY <1>1, <1>4 DEF TypeOK, Tables
<1>6. Step(w, p) BY <1>1
<1> HIDE DEF p
<1> QED BY <1>2, <1>3, <1>4, <1>5, <1>6, StepTypes DEF RunOK

LEMMA LinkTypes ==
    ASSUME TypeOK, NEW w \in Runners, Link(w)
    PROVE  TypeOK'
<1>1. PICK k \in pass[w].row :
          /\ ledger' = [ledger EXCEPT ![k].linked = TRUE, ![k].error = FALSE]
          /\ Step(w, [pass[w] EXCEPT !.pc = "raise", !.work = @ \ {k}, !.row = {}])
          /\ UNCHANGED <<today, rule, overrides, lock, edits, faults, lost>>
  BY DEF Link
<1> DEFINE p == [pass[w] EXCEPT !.pc = "raise", !.work = @ \ {k}, !.row = {}]
<1>2. pass[w] \in PassRow /\ RunOK(pass[w]) BY DEF TypeOK, RunOK
<1>3. p \in PassRow /\ p.work \subseteq pass[w].work /\ p.row = {} /\ p.pc = "raise"
  BY <1>2 DEF PassRow
<1>4. DOMAIN ledger' = DOMAIN ledger /\ ledger' \in [DOMAIN ledger -> LedgerRow]
  BY <1>1, <1>2, WorkTypes DEF TypeOK, LedgerRow, RunOK
<1>5. Tables' BY <1>1, <1>4 DEF TypeOK, Tables
<1>6. Step(w, p) BY <1>1
<1> HIDE DEF p
<1> QED BY <1>2, <1>3, <1>4, <1>5, <1>6, StepTypes DEF RunOK

LEMMA RefusedTypes ==
    ASSUME TypeOK, NEW w \in Runners, OpenRefused(w)
    PROVE  TypeOK'
<1>1. PICK k \in pass[w].work :
          /\ \/ faults' = faults
             \/ faults < MaxFaults /\ faults' = faults + 1
          /\ ledger' = [ledger EXCEPT ![k].error = TRUE]
          /\ Step(w, [pass[w] EXCEPT !.work = @ \ {k}])
          /\ UNCHANGED <<today, rule, overrides, lock, edits, lost>>
  BY DEF OpenRefused
<1> DEFINE p == [pass[w] EXCEPT !.work = @ \ {k}]
<1>2. pass[w] \in PassRow /\ RunOK(pass[w]) /\ pass[w].pc = "raise"
  BY DEF TypeOK, RunOK, OpenRefused
<1>3. p \in PassRow /\ p.work \subseteq pass[w].work /\ p.row = {} /\ p.pc = "raise"
  BY <1>2 DEF PassRow, RunOK
<1>4. DOMAIN ledger' = DOMAIN ledger /\ ledger' \in [DOMAIN ledger -> LedgerRow]
  BY <1>1, WorkTypes DEF TypeOK, LedgerRow
<1>5. faults' \in 0..MaxFaults BY <1>1, ScheduleAssumption DEF TypeOK
<1>6. Tables' BY <1>1, <1>4, <1>5 DEF TypeOK, Tables
<1>7. Step(w, p) BY <1>1
<1> HIDE DEF p
<1> QED BY <1>2, <1>3, <1>4, <1>6, <1>7, StepTypes DEF RunOK

\* A run ends: Release, PassFails and Interrupt differ in the tables only.
LEMMA EndTypes ==
    ASSUME TypeOK, NEW w \in Runners, Step(w, Ended(w)), Tables',
           DOMAIN ledger \subseteq DOMAIN ledger'
    PROVE  TypeOK'
<1>1. Ended(w).pc # "link" BY DEF Ended, Idle
<1> QED BY <1>1, IdleType, StepTypes

LEMMA ReleaseTypes ==
    ASSUME TypeOK, NEW w \in Runners, Release(w)
    PROVE  TypeOK'
<1>1. Tables' BY DEF Release, TypeOK, Tables
<1> QED BY <1>1, EndTypes DEF Release

LEMMA LinkFailsTypes ==
    ASSUME TypeOK, NEW w \in Runners, LinkFails(w)
    PROVE  TypeOK'
<1>1. PICK k \in pass[w].row :
          /\ ledger' = [ledger EXCEPT ![k].error = TRUE]
          /\ lost' = [lost EXCEPT ![k] = @ + 1]
          /\ Step(w, [pass[w] EXCEPT !.pc = "raise", !.work = @ \ {k}, !.row = {}])
          /\ faults < MaxFaults /\ faults' = faults + 1
          /\ UNCHANGED <<today, rule, overrides, lock, edits>>
  BY DEF LinkFails
<1> DEFINE p == [pass[w] EXCEPT !.pc = "raise", !.work = @ \ {k}, !.row = {}]
<1>2. pass[w] \in PassRow /\ RunOK(pass[w]) BY DEF TypeOK, RunOK
<1>3. p \in PassRow /\ p.work \subseteq pass[w].work /\ p.row = {} /\ p.pc = "raise"
  BY <1>2 DEF PassRow
<1>4. DOMAIN ledger' = DOMAIN ledger /\ ledger' \in [DOMAIN ledger -> LedgerRow]
  BY <1>1, <1>2, WorkTypes DEF TypeOK, LedgerRow, RunOK
<1>5. lost' \in [Keys -> Nat]
  <2>1. k \in Keys /\ lost[k] + 1 \in Nat BY <1>1, <1>2, WorkTypes DEF RunOK
  <2> QED BY <2>1, <1>1 DEF TypeOK
<1>6. faults' \in 0..MaxFaults BY <1>1, ScheduleAssumption DEF TypeOK
<1>7. Tables' BY <1>1, <1>4, <1>5, <1>6 DEF TypeOK, Tables
<1>8. Step(w, p) BY <1>1
<1> HIDE DEF p
<1> QED BY <1>2, <1>3, <1>4, <1>7, <1>8, StepTypes DEF RunOK

LEMMA PassFailsTypes ==
    ASSUME TypeOK, NEW w \in Runners, PassFails(w)
    PROVE  TypeOK'
<1>1. faults' \in 0..MaxFaults BY ScheduleAssumption DEF TypeOK, PassFails
<1>2. Tables' BY <1>1 DEF PassFails, TypeOK, Tables
<1> QED BY <1>2, EndTypes DEF PassFails

LEMMA InterruptTypes ==
    ASSUME TypeOK, NEW w \in Runners, Interrupt(w)
    PROVE  TypeOK'
<1>1. faults' \in 0..MaxFaults BY ScheduleAssumption DEF TypeOK, Interrupt
<1>2. lost' \in [Keys -> Nat]
  <2>1. \A k \in Keys : lost[k] \in Nat /\ lost[k] + 1 \in Nat BY DEF TypeOK
  <2> QED BY <2>1 DEF Interrupt
<1>3. Tables' BY <1>1, <1>2 DEF Interrupt, TypeOK, Tables
<1> QED BY <1>3, EndTypes DEF Interrupt

LEMMA SessionEndsTypes ==
    ASSUME TypeOK, NEW w \in Runners, SessionEnds(w)
    PROVE  TypeOK'
BY DEF TypeOK, SessionEnds

LEMMA EditTypes ==
    ASSUME TypeOK, NEW r \in Rules, SyncRule(r) \/ ToggleInForce(r) \/ MoveOccurrence(r)
    PROVE  TypeOK'
<1>1. edits' \in 0..MaxEdits
  BY ScheduleAssumption DEF TypeOK, SyncRule, ToggleInForce, MoveOccurrence, Edit
<1>2. UNCHANGED <<today, ledger, lock, pass, faults, lost>>
  BY DEF SyncRule, ToggleInForce, MoveOccurrence
<1>3. rule' \in [Rules -> RuleRow]
  <2>1. LastDay \in Days BY ScheduleAssumption DEF Days
  <2>2. rule[r] \in RuleRow BY DEF TypeOK
  <2>3. CASE SyncRule(r)
    <3>1. \E row \in RuleRow : rule' = [rule EXCEPT ![r] = row]
      <4>1. CASE rule[r].state = "None"
        <5>1. [state |-> "Active", anchor |-> today, end |-> LastDay, inForce |-> TRUE] \in RuleRow
          BY <2>1 DEF TypeOK, RuleRow, RuleStates
        <5> QED BY <2>3, <4>1, <5>1 DEF SyncRule
      <4>2. ASSUME NEW d \in Days, rule' = [rule EXCEPT ![r].anchor = d]
            PROVE  \E row \in RuleRow : rule' = [rule EXCEPT ![r] = row]
        <5>1. [rule[r] EXCEPT !.anchor = d] \in RuleRow BY <2>2 DEF RuleRow
        <5> QED BY <4>2, <5>1
      <4>3. ASSUME rule' = [rule EXCEPT ![r].state = "Retired"]
            PROVE  \E row \in RuleRow : rule' = [rule EXCEPT ![r] = row]
        <5>1. [rule[r] EXCEPT !.state = "Retired"] \in RuleRow BY <2>2 DEF RuleRow, RuleStates
        <5> QED BY <4>3, <5>1
      <4> QED BY <2>3, <4>1, <4>2, <4>3 DEF SyncRule
    <3> QED BY <3>1 DEF TypeOK
  <2>4. CASE ToggleInForce(r)
    BY <2>2, <2>4 DEF TypeOK, ToggleInForce, RuleRow
  <2>5. CASE MoveOccurrence(r) BY <2>5 DEF TypeOK, MoveOccurrence
  <2> QED BY <2>3, <2>4, <2>5
<1>4. overrides' \subseteq Override
  <2>1. CASE MoveOccurrence(r)
    <3>1. Shown(r) \subseteq Days
      <4>1. \A d \in Days : Moves(r, d) # {} => MovedTo(r, d) \in Days
        BY DEF TypeOK, MovedTo, Moves, Override
      <4>2. \A o \in overrides : o.to \in Days BY DEF TypeOK, Override
      <4> QED BY <4>1, <4>2 DEF Shown, Kept, Occurrences
    <3> QED BY <2>1, <3>1 DEF TypeOK, MoveOccurrence, Override
  <2> QED BY <2>1 DEF TypeOK, SyncRule, ToggleInForce
<1> QED BY <1>1, <1>2, <1>3, <1>4 DEF TypeOK

LEMMA TypeStep == TypeOK /\ [Next]_vars => TypeOK'
<1> SUFFICES ASSUME TypeOK, [Next]_vars PROVE TypeOK' OBVIOUS
<1>1. ASSUME NEW w \in Runners, StartPass(w) \/ RunByHand(w) PROVE TypeOK'
  <2>1. today \in Days /\ 0..today \subseteq Days BY ScheduleAssumption DEF TypeOK, Days
  <2> QED BY <1>1, <2>1, StartTypes DEF StartPass, RunByHand
<1>2. ASSUME NEW w \in Runners, Proceed(w) PROVE TypeOK'
  BY <1>2, RemoveTypes, AddTypes, ClaimTypes, OpenTypes, LinkTypes, RefusedTypes,
     ReleaseTypes, SessionEndsTypes DEF Proceed
<1>3. ASSUME NEW w \in Runners, LinkFails(w) \/ PassFails(w) \/ Interrupt(w) PROVE TypeOK'
  BY <1>3, LinkFailsTypes, PassFailsTypes, InterruptTypes
<1>4. ASSUME NEW r \in Rules, SyncRule(r) \/ ToggleInForce(r) \/ MoveOccurrence(r) PROVE TypeOK'
  BY <1>4, EditTypes
<1>5. CASE Tick BY <1>5, ScheduleAssumption DEF TypeOK, Tick, Days
<1>6. CASE UNCHANGED vars BY <1>6 DEF TypeOK, vars
<1> QED BY <1>1, <1>2, <1>3, <1>4, <1>5, <1>6 DEF Next

\* The tables and the locals of every run stay well-formed, and a run works on
\* rows the ledger has, for any rules, processes, horizon and faults.
THEOREM TypeCorrect == Spec => []TypeOK
BY TypeInit, TypeStep, PTL DEF Spec

-----------------------------------------------------------------------------
(* Generator and calendar *)

\* On clean overrides the two computations agree, in every state.
LEMMA SameDates ==
    ASSUME TypeOK, NEW r \in Rules, NEW d \in Days, Clean(r)
    PROVE  r \in DueOn(d) <=> rule[r].inForce /\ d \in Shown(r)
<1> DEFINE natural == Natural(r, d) /\ rule[r].anchor <= d /\ d <= rule[r].end
           gone == \E o \in overrides : Removes(o, r, d)
           put == \E o \in overrides : Adds(o, r, d)
<1>1. rule[r] \in RuleRow /\ d \in Nat /\ rule[r].anchor \in Nat /\ rule[r].end \in Nat
  BY ScheduleAssumption DEF TypeOK, RuleRow, Days
<1>2. \A o \in overrides : /\ o \in Override
                           /\ o.type \in {"Skipped", "Moved", "Added"}
                           /\ o.from \in Days /\ o.to \in Days
  BY DEF TypeOK, Override
<1>3. put => rule[r].anchor <= d /\ d <= rule[r].end
  BY <1>1, <1>2 DEF Clean, Adds
<1>4. r \in DueOn(d) <=> /\ rule[r].state = "Active" /\ rule[r].inForce
                         /\ (natural /\ ~gone) \/ put
  <2>1. r \in Eligible(d) <=> /\ rule[r].state = "Active" /\ rule[r].inForce
                              /\ rule[r].anchor <= d /\ d <= rule[r].end
    BY DEF Eligible
  <2>2. r \in DueOn(d) <=> r \in Eligible(d) /\ ((Natural(r, d) /\ ~gone) \/ put)
    BY DEF DueOn, Removed, Added
  <2> QED BY <2>1, <2>2, <1>3 DEF Natural
<1>5. rule[r].state = "Active" => (d \in Shown(r) <=> (natural /\ ~gone) \/ put)
  <2> SUFFICES ASSUME rule[r].state = "Active"
               PROVE  d \in Shown(r) <=> (natural /\ ~gone) \/ put
    OBVIOUS
  <2>1. \A c \in Days : c \in Kept(r) <=> /\ Natural(r, c) /\ c <= rule[r].end
                                          /\ ~ \E o \in overrides : /\ o.rule = r
                                                                    /\ o.type = "Skipped"
                                                                    /\ o.from = c
    BY DEF Kept, Occurrences, Skipped
  <2>2. Kept(r) \subseteq Days BY DEF Kept, Occurrences
  <2>3. \A c \in Kept(r) : \A o \in Moves(r, c) : MovedTo(r, c) = o.to
    <3> SUFFICES ASSUME NEW c \in Kept(r), NEW o \in Moves(r, c) PROVE MovedTo(r, c) = o.to
      OBVIOUS
    <3>1. \A q \in Moves(r, c) : q = o
      BY DEF Clean, Moves
    <3>2. (CHOOSE q \in Moves(r, c) : TRUE) = o BY <3>1
    <3> QED BY <3>2 DEF MovedTo
  <2>4. d \in Shown(r) <=> \/ \E c \in Kept(r) : /\ Moves(r, c) = {} /\ c = d
                           \/ \E c \in Kept(r) : Moves(r, c) # {} /\ MovedTo(r, c) = d
                           \/ \E o \in overrides : o.rule = r /\ o.type = "Added" /\ o.to = d
    BY DEF Shown
  <2>5. (\E c \in Kept(r) : Moves(r, c) = {} /\ c = d) <=> natural /\ ~gone
    BY <1>1, <1>2, <2>1, <2>2 DEF Moves, Removes, Natural
  <2>6. (\E c \in Kept(r) : Moves(r, c) # {} /\ MovedTo(r, c) = d)
        <=> \E o \in overrides : o.rule = r /\ o.type = "Moved" /\ o.to = d
    <3>1. ASSUME NEW o \in overrides, o.rule = r, o.type = "Moved", o.to = d
          PROVE  \E c \in Kept(r) : Moves(r, c) # {} /\ MovedTo(r, c) = d
      <4>1. o.from \in Kept(r) /\ o \in Moves(r, o.from) BY <3>1 DEF Clean, Moves
      <4> QED BY <4>1, <2>3, <3>1
    <3>2. ASSUME NEW c \in Kept(r), Moves(r, c) # {}, MovedTo(r, c) = d
          PROVE  \E o \in overrides : o.rule = r /\ o.type = "Moved" /\ o.to = d
      <4>1. PICK o \in Moves(r, c) : TRUE BY <3>2
      <4> QED BY <4>1, <2>3, <3>2 DEF Moves
    <3> QED BY <3>1, <3>2
  <2>7. put <=> \/ \E o \in overrides : o.rule = r /\ o.type = "Moved" /\ o.to = d
                \/ \E o \in overrides : o.rule = r /\ o.type = "Added" /\ o.to = d
    BY DEF Adds
  <2> HIDE DEF natural, gone, put
  <2> QED BY <2>4, <2>5, <2>6, <2>7
<1>6. rule[r].state # "Active" => d \notin Shown(r) BY DEF Shown
<1> HIDE DEF natural, gone, put
<1> QED BY <1>4, <1>5, <1>6

\* The SQL of the generator and the C# of the calendar yield the same dates,
\* for any period, any horizon and any clean overrides.
THEOREM CalendarAgrees == Spec => []MatchesCalendar
<1>1. TypeOK => MatchesCalendar BY SameDates DEF MatchesCalendar
<1> QED BY <1>1, TypeCorrect, PTL

-----------------------------------------------------------------------------
(* The ledger *)

\* While a run is running it is alone: the others have nothing in hand.
LEMMA Alone ==
    ASSUME IInv, NEW w \in Runners, Running(pass[w])
    PROVE  /\ \A v \in Runners \ {w} : ~Running(pass[v])
           /\ \A k \in Keys : InHand(k) <=> k \in pass[w].row
<1>1. \A v \in Runners \ {w} : ~Running(pass[v]) BY DEF IInv, Locked
<1>2. \A v \in Runners \ {w} : pass[v].row = {}
  BY <1>1 DEF IInv, HandsOff, Hands, TypeOK
<1> QED BY <1>1, <1>2 DEF InHand

\* A step of the only run keeps the invariant when its own rows are in order.
LEMMA StepSafe ==
    ASSUME IInv, TypeOK', NEW w \in Runners, NEW p \in PassRow, Step(w, p),
           \A v \in Runners \ {w} : ~Running(pass[v]),
           Running(p) => lock' = w,
           \A v \in Runners \ {w} : pass[v].work = {},
           \A k \in p.work : ~ledger'[k].linked,
           \A j, k \in p.row : j = k,
           ~Running(p) => p.work = {},
           \A k \in Keys \ DOMAIN ledger' : lost'[k] = 0,
           \A k \in DOMAIN ledger' :
               ledger'[k].raised = lost'[k] + IF ledger'[k].linked \/ k \in p.row THEN 1 ELSE 0
    PROVE  IInv'
<1>1. /\ pass'[w] = p
      /\ \A v \in Runners \ {w} : pass'[v] = pass[v]
  BY DEF IInv, TypeOK, Step
<1>2. \A v \in Runners \ {w} : pass[v].row = {}
  BY DEF IInv, TypeOK
<1>3. Locked' BY <1>1 DEF Locked
<1>4. HandsOff' BY <1>1, <1>2 DEF HandsOff, Hands
<1>5. NoneLost' BY DEF NoneLost
<1>6. \A k : InHand(k)' <=> k \in p.row BY <1>1, <1>2 DEF InHand
<1>7. RaisedOnce' BY <1>6 DEF RaisedOnce
<1> QED BY <1>3, <1>4, <1>5, <1>7 DEF IInv

\* What the running run knows of its rows and of the ledger.
LEMMA OwnRows ==
    ASSUME IInv, NEW w \in Runners, Running(pass[w])
    PROVE  /\ pass[w] \in PassRow
           /\ pass[w].row \subseteq pass[w].work /\ pass[w].work \subseteq DOMAIN ledger
           /\ pass[w].pc = "link" <=> pass[w].row # {}
           /\ lock = w
           /\ \A v \in Runners \ {w} : ~Running(pass[v]) /\ pass[v].work = {}
           /\ \A k \in pass[w].work : ~ledger[k].linked
           /\ \A j, k \in pass[w].row : j = k
           /\ DOMAIN ledger \subseteq Keys
           /\ \A k \in DOMAIN ledger : ledger[k] \in LedgerRow /\ lost[k] \in Nat
           /\ \A k \in Keys \ DOMAIN ledger : lost[k] = 0
           /\ \A k \in DOMAIN ledger :
                 ledger[k].raised = lost[k] + IF ledger[k].linked \/ k \in pass[w].row THEN 1 ELSE 0
<1>1. \A v \in Runners \ {w} : ~Running(pass[v]) /\ pass[v].work = {}
  BY Alone DEF IInv, HandsOff, Hands
<1>2. \A k \in DOMAIN ledger :
         ledger[k].raised = lost[k] + IF ledger[k].linked \/ k \in pass[w].row THEN 1 ELSE 0
  <2>1. \A k \in DOMAIN ledger : InHand(k) <=> k \in pass[w].row
    BY Alone DEF IInv, TypeOK
  <2> QED BY <2>1 DEF IInv, RaisedOnce
<1>3. \A k \in pass[w].work : ~ledger[k].linked BY DEF IInv, HandsOff, Hands
<1>4. \A j, k \in pass[w].row : j = k BY DEF IInv, HandsOff, Hands
<1>5. lock = w BY DEF IInv, Locked
<1>6. \A k \in Keys \ DOMAIN ledger : lost[k] = 0 BY DEF IInv, NoneLost
<1> QED BY <1>1, <1>2, <1>3, <1>4, <1>5, <1>6 DEF IInv, TypeOK

LEMMA StartSafe ==
    ASSUME IInv, TypeOK', NEW w \in Runners, NEW d \in Days, Start(w, d)
    PROVE  IInv'
<1> DEFINE p == [Idle EXCEPT !.pc = "remove", !.day = d, !.eligible = Eligible(d),
                             !.due = {r \in Eligible(d) : Natural(r, d)}]
<1>1. p \in PassRow /\ p.work = {} /\ p.row = {}
  BY DEF Idle, PassRow, Eligible
<1>2. Step(w, p) /\ lock' = w /\ UNCHANGED <<ledger, lost>>
  BY DEF Start
<1>3. \A v \in Runners : ~Running(pass[v])
  BY ScheduleAssumption DEF IInv, Locked, Start, LockFree, Runners
<1>4. \A v \in Runners : pass[v].work = {} /\ pass[v].row = {}
  BY <1>3 DEF IInv, HandsOff, Hands, TypeOK
<1>5. \A k \in DOMAIN ledger : ledger[k].raised = lost[k] + IF ledger[k].linked THEN 1 ELSE 0
  BY <1>4 DEF IInv, RaisedOnce, InHand
<1>6. \A k \in Keys \ DOMAIN ledger : lost[k] = 0 BY DEF IInv, NoneLost
<1> HIDE DEF p
<1> QED BY <1>1, <1>2, <1>3, <1>4, <1>5, <1>6, StepSafe

\* RemoveOverridden and AddOverridden change what is due and nothing else.
LEMMA DueSafe ==
    ASSUME IInv, TypeOK', NEW w \in Runners, RemoveOverridden(w) \/ AddOverridden(w)
    PROVE  IInv'
<1>1. Running(pass[w]) BY DEF Running, RemoveOverridden, AddOverridden
<1>2. UNCHANGED <<ledger, lock, lost>> BY DEF RemoveOverridden, AddOverridden
<1>3. PICK p \in PassRow : Step(w, p) /\ p.work = pass[w].work /\ p.row = pass[w].row /\ Running(p)
  <2>1. pass[w] \in PassRow BY <1>1, OwnRows
  <2>2. CASE RemoveOverridden(w)
    <3> DEFINE p == [pass[w] EXCEPT !.pc = "add", !.due = @ \ Removed(@, pass[w].day)]
    <3>1. p \in PassRow /\ p.work = pass[w].work /\ p.row = pass[w].row /\ p.pc = "add"
      BY <2>1 DEF PassRow
    <3>2. Step(w, p) BY <2>2 DEF RemoveOverridden
    <3> HIDE DEF p
    <3> QED BY <3>1, <3>2 DEF Running
  <2>3. CASE AddOverridden(w)
    <3> DEFINE p == [pass[w] EXCEPT !.pc = "claim",
                                    !.due = @ \cup Added(pass[w].eligible, pass[w].day)]
    <3>1. p \in PassRow /\ p.work = pass[w].work /\ p.row = pass[w].row /\ p.pc = "claim"
      BY <2>1 DEF PassRow, Added
    <3>2. Step(w, p) BY <2>3 DEF AddOverridden
    <3> HIDE DEF p
    <3> QED BY <3>1, <3>2 DEF Running
  <2> QED BY <2>2, <2>3
<1> QED BY <1>1, <1>2, <1>3, OwnRows, StepSafe

LEMMA ClaimSafe ==
    ASSUME IInv, TypeOK', NEW w \in Runners, Claim(w)
    PROVE  IInv'
<1> DEFINE after == Claimed(pass[w].due, pass[w].day)
           p == [pass[w] EXCEPT !.pc = "raise", !.work = Unlinked(after, pass[w].day)]
<1>1. Running(pass[w]) /\ pass[w].pc = "claim" BY DEF Running, Claim
<1>2. pass[w] \in PassRow /\ pass[w].row = {} /\ pass[w].due \in SUBSET Rules /\ pass[w].day \in Days
  BY <1>1, OwnRows DEF PassRow
<1>3. Step(w, p) /\ ledger' = after /\ UNCHANGED <<lock, lost>> BY DEF Claim
<1>4. /\ DOMAIN ledger \subseteq DOMAIN after /\ DOMAIN after \subseteq Keys
      /\ \A k \in DOMAIN ledger : after[k] = ledger[k]
      /\ \A k \in DOMAIN after \ DOMAIN ledger :
            after[k] = [linked |-> FALSE, error |-> FALSE, raised |-> 0]
  <2>1. TypeOK BY DEF IInv
  <2> QED BY <2>1, <1>2, ClaimedRows, Zenon
<1>5. /\ Unlinked(after, pass[w].day) \subseteq DOMAIN after
      /\ \A k \in Unlinked(after, pass[w].day) : ~after[k].linked
  BY DEF Unlinked
<1>6. p \in PassRow /\ p.work = Unlinked(after, pass[w].day) /\ p.row = {} /\ p.pc = "raise"
  <2> HIDE DEF after
  <2> QED BY <1>2, <1>4, <1>5 DEF PassRow
<1> HIDE DEF p, after
<1>7. \A k \in DOMAIN after : after[k].raised = lost[k] + IF after[k].linked THEN 1 ELSE 0
  <2>1. ASSUME NEW k \in DOMAIN ledger
        PROVE  after[k].raised = lost[k] + IF after[k].linked THEN 1 ELSE 0
    BY <1>1, <1>2, <1>4, OwnRows
  <2>2. ASSUME NEW k \in DOMAIN after \ DOMAIN ledger
        PROVE  after[k].raised = lost[k] + IF after[k].linked THEN 1 ELSE 0
    BY <1>1, <1>4, OwnRows
  <2> QED BY <2>1, <2>2
<1>8. \A k \in Keys \ DOMAIN after : lost[k] = 0 BY <1>1, <1>4, OwnRows
<1>9. Running(p) BY <1>6 DEF Running
<1> QED BY <1>1, <1>3, <1>5, <1>6, <1>7, <1>8, <1>9, OwnRows, StepSafe

LEMMA OpenSafe ==
    ASSUME IInv, TypeOK', NEW w \in Runners, OpenTask(w)
    PROVE  IInv'
<1>1. PICK k \in pass[w].work :
          /\ ledger' = [ledger EXCEPT ![k].raised = @ + 1]
          /\ Step(w, [pass[w] EXCEPT !.pc = "link", !.row = {k}])
          /\ UNCHANGED <<lock, lost>>
  BY DEF OpenTask
<1> DEFINE p == [pass[w] EXCEPT !.pc = "link", !.row = {k}]
<1>2. pass[w].pc = "raise" /\ Running(pass[w]) BY DEF Running, OpenTask
<1>3. pass[w].row = {} /\ ~ledger[k].linked /\ k \in DOMAIN ledger /\ k \in Keys
  BY <1>1, <1>2, OwnRows
<1>4. p \in PassRow /\ p.work = pass[w].work /\ p.row = {k} /\ p.pc = "link"
  BY <1>2, <1>3, OwnRows DEF PassRow
<1>5. /\ DOMAIN ledger' = DOMAIN ledger
      /\ ledger'[k].linked = ledger[k].linked /\ ledger'[k].raised = ledger[k].raised + 1
      /\ \A j \in DOMAIN ledger \ {k} : ledger'[j] = ledger[j]
  BY <1>1, <1>2, <1>3, OwnRows DEF LedgerRow
<1>6. \A j \in DOMAIN ledger' :
         ledger'[j].raised = lost'[j] + IF ledger'[j].linked \/ j \in {k} THEN 1 ELSE 0
  <2>1. ledger[k].raised = lost[k] BY <1>2, <1>3, OwnRows
  <2>2. \A j \in DOMAIN ledger \ {k} :
           ledger[j].raised = lost[j] + IF ledger[j].linked THEN 1 ELSE 0
    BY <1>2, <1>3, OwnRows
  <2> QED BY <1>1, <1>3, <1>5, <2>1, <2>2
<1>7. Step(w, p) BY <1>1
<1>8. \A j \in p.work : ~ledger'[j].linked BY <1>2, <1>4, <1>5, OwnRows
<1>9. Running(p) BY <1>4 DEF Running
<1> HIDE DEF p
<1> QED BY <1>1, <1>2, <1>4, <1>5, <1>6, <1>7, <1>8, <1>9, OwnRows, StepSafe

LEMMA LinkSafe ==
    ASSUME IInv, TypeOK', NEW w \in Runners, Link(w)
    PROVE  IInv'
<1>1. PICK k \in pass[w].row :
          /\ ledger' = [ledger EXCEPT ![k].linked = TRUE, ![k].error = FALSE]
          /\ Step(w, [pass[w] EXCEPT !.pc = "raise", !.work = @ \ {k}, !.row = {}])
          /\ UNCHANGED <<lock, lost>>
  BY DEF Link
<1> DEFINE p == [pass[w] EXCEPT !.pc = "raise", !.work = @ \ {k}, !.row = {}]
<1>2. Running(pass[w]) BY DEF Running, Link
<1>3. pass[w].row = {k} /\ k \in DOMAIN ledger /\ k \in Keys
  BY <1>1, <1>2, OwnRows
<1>4. p \in PassRow /\ p.work = pass[w].work \ {k} /\ p.row = {} /\ p.pc = "raise"
  <2>1. pass[w] \in PassRow BY <1>2, OwnRows
  <2> QED BY <2>1 DEF PassRow
<1>5. /\ DOMAIN ledger' = DOMAIN ledger
      /\ ledger'[k].linked /\ ledger'[k].raised = ledger[k].raised
      /\ \A j \in DOMAIN ledger \ {k} : ledger'[j] = ledger[j]
  BY <1>1, <1>2, <1>3, OwnRows DEF LedgerRow
<1>6. \A j \in DOMAIN ledger' :
         ledger'[j].raised = lost'[j] + IF ledger'[j].linked THEN 1 ELSE 0
  <2>1. ledger[k].raised = lost[k] + 1 BY <1>2, <1>3, OwnRows
  <2>2. \A j \in DOMAIN ledger \ {k} :
           ledger[j].raised = lost[j] + IF ledger[j].linked THEN 1 ELSE 0
    BY <1>2, <1>3, OwnRows
  <2> QED BY <1>1, <1>3, <1>5, <2>1, <2>2
<1>7. Step(w, p) BY <1>1
<1>8. \A j \in p.work : ~ledger'[j].linked BY <1>2, <1>4, <1>5, OwnRows
<1>9. Running(p) BY <1>4 DEF Running
<1> HIDE DEF p
<1> QED BY <1>1, <1>2, <1>4, <1>5, <1>6, <1>7, <1>8, <1>9, OwnRows, StepSafe

LEMMA RefusedSafe ==
    ASSUME IInv, TypeOK', NEW w \in Runners, OpenRefused(w)
    PROVE  IInv'
<1>1. PICK k \in pass[w].work :
          /\ ledger' = [ledger EXCEPT ![k].error = TRUE]
          /\ Step(w, [pass[w] EXCEPT !.work = @ \ {k}])
          /\ UNCHANGED <<lock, lost>>
  BY DEF OpenRefused
<1> DEFINE p == [pass[w] EXCEPT !.work = @ \ {k}]
<1>2. pass[w].pc = "raise" /\ Running(pass[w]) BY DEF Running, OpenRefused
<1>3. pass[w].row = {} /\ k \in DOMAIN ledger /\ k \in Keys BY <1>1, <1>2, OwnRows
<1>4. p \in PassRow /\ p.work = pass[w].work \ {k} /\ p.row = {} /\ p.pc = "raise"
  BY <1>2, <1>3, OwnRows DEF PassRow
<1>5. /\ DOMAIN ledger' = DOMAIN ledger
      /\ \A j \in DOMAIN ledger : /\ ledger'[j].linked = ledger[j].linked
                                  /\ ledger'[j].raised = ledger[j].raised
  BY <1>1, <1>2, <1>3, OwnRows DEF LedgerRow
<1>6. \A j \in DOMAIN ledger' :
         ledger'[j].raised = lost'[j] + IF ledger'[j].linked THEN 1 ELSE 0
  BY <1>1, <1>2, <1>3, <1>5, OwnRows
<1>7. Step(w, p) BY <1>1
<1>8. \A j \in p.work : ~ledger'[j].linked BY <1>2, <1>4, <1>5, OwnRows
<1>9. Running(p) BY <1>4 DEF Running
<1> HIDE DEF p
<1> QED BY <1>1, <1>2, <1>4, <1>5, <1>6, <1>7, <1>8, <1>9, OwnRows, StepSafe

\* A row in hand whose task the ledger never gets: its task counts as lost.
LEMMA LinkFailsSafe ==
    ASSUME IInv, TypeOK', NEW w \in Runners, LinkFails(w)
    PROVE  IInv'
<1>1. PICK k \in pass[w].row :
          /\ ledger' = [ledger EXCEPT ![k].error = TRUE]
          /\ lost' = [lost EXCEPT ![k] = @ + 1]
          /\ Step(w, [pass[w] EXCEPT !.pc = "raise", !.work = @ \ {k}, !.row = {}])
          /\ lock' = lock
  BY DEF LinkFails
<1> DEFINE p == [pass[w] EXCEPT !.pc = "raise", !.work = @ \ {k}, !.row = {}]
<1>2. Running(pass[w]) BY DEF Running, LinkFails
<1>3. pass[w].row = {k} /\ k \in DOMAIN ledger /\ k \in Keys /\ ~ledger[k].linked
  BY <1>1, <1>2, OwnRows
<1>4. p \in PassRow /\ p.work = pass[w].work \ {k} /\ p.row = {} /\ p.pc = "raise"
  <2>1. pass[w] \in PassRow BY <1>2, OwnRows
  <2> QED BY <2>1 DEF PassRow
<1>5. /\ DOMAIN ledger' = DOMAIN ledger
      /\ \A j \in DOMAIN ledger : /\ ledger'[j].linked = ledger[j].linked
                                  /\ ledger'[j].raised = ledger[j].raised
  BY <1>1, <1>2, <1>3, OwnRows DEF LedgerRow
<1>6. lost'[k] = lost[k] + 1 /\ \A j \in Keys \ {k} : lost'[j] = lost[j]
  BY <1>1, <1>3 DEF IInv, TypeOK
<1>7. \A j \in DOMAIN ledger' :
         ledger'[j].raised = lost'[j] + IF ledger'[j].linked THEN 1 ELSE 0
  <2>1. ledger[k].raised = lost[k] + 1 BY <1>2, <1>3, OwnRows
  <2>2. \A j \in DOMAIN ledger \ {k} :
           /\ ledger[j].raised = lost[j] + IF ledger[j].linked THEN 1 ELSE 0
           /\ j \in Keys
    BY <1>2, <1>3, OwnRows
  <2> QED BY <1>3, <1>5, <1>6, <2>1, <2>2, OwnRows, <1>2
<1>8. \A j \in Keys \ DOMAIN ledger' : lost'[j] = 0
  BY <1>2, <1>3, <1>5, <1>6, OwnRows
<1>9. Step(w, p) BY <1>1
<1>10. \A j \in p.work : ~ledger'[j].linked BY <1>2, <1>4, <1>5, OwnRows
<1>11. Running(p) BY <1>4 DEF Running
<1> HIDE DEF p
<1> QED BY <1>1, <1>2, <1>4, <1>5, <1>7, <1>8, <1>9, <1>10, <1>11, OwnRows, StepSafe

\* A run that ends with a row in hand loses its task, one that ends without loses none.
LEMMA EndSafe ==
    ASSUME IInv, TypeOK', NEW w \in Runners, Release(w) \/ PassFails(w) \/ Interrupt(w)
    PROVE  IInv'
<1>1. Running(pass[w]) BY DEF Running, Release, PassFails, Interrupt
<1>2. Step(w, Ended(w)) /\ ledger' = ledger BY DEF Release, PassFails, Interrupt
<1>3. \A k \in Keys : lost'[k] = IF k \in pass[w].row THEN lost[k] + 1 ELSE lost[k]
  <2>1. CASE Interrupt(w) BY <2>1 DEF Interrupt
  <2>2. CASE Release(w) \/ PassFails(w)
    <3>1. pass[w].row = {} /\ lost' = lost
      BY <1>1, <2>2, OwnRows DEF Release, PassFails
    <3> QED BY <3>1
  <2> QED BY <2>1, <2>2
<1>4. \A k \in DOMAIN ledger' :
         ledger'[k].raised = lost'[k] + IF ledger'[k].linked \/ k \in Ended(w).row THEN 1 ELSE 0
  <2> SUFFICES ASSUME NEW k \in DOMAIN ledger
               PROVE  ledger[k].raised = lost'[k] + IF ledger[k].linked THEN 1 ELSE 0
    BY <1>2, IdleType
  <2>1. k \in Keys /\ lost[k] \in Nat
        /\ ledger[k].raised = lost[k] + IF ledger[k].linked \/ k \in pass[w].row THEN 1 ELSE 0
    BY <1>1, OwnRows
  <2>2. k \in pass[w].row => ~ledger[k].linked BY <1>1, OwnRows
  <2> QED BY <1>3, <2>1, <2>2
<1>5. \A k \in Keys \ DOMAIN ledger' : lost'[k] = 0 BY <1>1, <1>2, <1>3, OwnRows
<1> QED BY <1>1, <1>2, <1>4, <1>5, IdleType, OwnRows, StepSafe

\* Steps that leave ledger and runs alone: at most the lock is given back by
\* a session whose run is over.
LEMMA QuietSafe ==
    ASSUME IInv, TypeOK', UNCHANGED <<ledger, pass, lost>>,
           lock' = lock \/ \E w \in Runners : lock = w /\ ~Running(pass[w])
    PROVE  IInv'
<1>1. Locked' BY DEF IInv, Locked
<1>2. HandsOff' /\ NoneLost' BY DEF IInv, HandsOff, Hands, NoneLost
<1>3. RaisedOnce' BY DEF IInv, RaisedOnce, InHand
<1> QED BY <1>1, <1>2, <1>3 DEF IInv

LEMMA InvInit == Init => IInv
<1> SUFFICES ASSUME Init PROVE IInv OBVIOUS
<1>1. TypeOK BY TypeInit
<1>2. \A v \in Runners : pass[v] = Idle BY DEF Init
<1>3. ~Running(Idle) /\ Idle.work = {} /\ Idle.row = {} BY DEF Running, Idle
<1>4. DOMAIN ledger = {} /\ \A k \in Keys : lost[k] = 0 BY DEF Init
<1>5. Locked /\ HandsOff BY <1>2, <1>3 DEF Locked, HandsOff, Hands
<1>6. NoneLost /\ RaisedOnce BY <1>4 DEF NoneLost, RaisedOnce
<1> QED BY <1>1, <1>5, <1>6 DEF IInv

LEMMA InvStep == IInv /\ [Next]_vars => IInv'
<1> SUFFICES ASSUME IInv, [Next]_vars PROVE IInv' OBVIOUS
<1>1. TypeOK' BY TypeStep DEF IInv
<1>2. ASSUME NEW w \in Runners, StartPass(w) \/ RunByHand(w) PROVE IInv'
  <2>1. today \in Days /\ 0..today \subseteq Days BY ScheduleAssumption DEF IInv, TypeOK, Days
  <2> QED BY <1>1, <1>2, <2>1, StartSafe DEF StartPass, RunByHand
<1>3. ASSUME NEW w \in Runners, Proceed(w) PROVE IInv'
  <2>1. CASE SessionEnds(w)
    <3>1. UNCHANGED <<ledger, pass, lost>> /\ lock = w /\ ~Running(pass[w])
      BY <2>1 DEF SessionEnds, Running
    <3> QED BY <1>1, <3>1, QuietSafe
  <2>2. CASE ~SessionEnds(w)
    BY <1>1, <1>3, <2>2, DueSafe, ClaimSafe, OpenSafe, LinkSafe, RefusedSafe, EndSafe DEF Proceed
  <2> QED BY <2>1, <2>2
<1>4. ASSUME NEW w \in Runners, LinkFails(w) \/ PassFails(w) \/ Interrupt(w) PROVE IInv'
  BY <1>1, <1>4, LinkFailsSafe, EndSafe
<1>5. ASSUME NEW r \in Rules, SyncRule(r) \/ ToggleInForce(r) \/ MoveOccurrence(r) PROVE IInv'
  <2>1. UNCHANGED <<ledger, pass, lost, lock>> BY <1>5 DEF SyncRule, ToggleInForce, MoveOccurrence
  <2> QED BY <1>1, <2>1, QuietSafe
<1>6. CASE Tick
  <2>1. UNCHANGED <<ledger, pass, lost, lock>> BY <1>6 DEF Tick
  <2> QED BY <1>1, <2>1, QuietSafe
<1>7. CASE UNCHANGED vars
  <2>1. UNCHANGED <<ledger, pass, lost, lock>> BY <1>7 DEF vars
  <2> QED BY <1>1, <2>1, QuietSafe
<1> QED BY <1>2, <1>3, <1>4, <1>5, <1>6, <1>7 DEF Next

\* However many processes and runs by hand overlap, stop and are repeated, a
\* claimed date raises one task and those lost before the ledger got their id.
THEOREM RaisedOnceHolds == Spec => []RaisedOnce
<1>1. IInv => RaisedOnce BY DEF IInv
<1> QED BY <1>1, InvInit, InvStep, PTL DEF Spec

-----------------------------------------------------------------------------
(* The ledger over time *)

\* The rows a step works on: those of the run that makes it, which have no task.
LEMMA FinalStep ==
    ASSUME IInv, [Next]_vars, NEW k \in DOMAIN ledger
    PROVE  k \in DOMAIN ledger' /\ (ledger[k].linked => ledger'[k] = ledger[k])
<1>1. ASSUME NEW w \in Runners, Claim(w)
      PROVE  k \in DOMAIN ledger' /\ (ledger[k].linked => ledger'[k] = ledger[k])
  <2>1. Running(pass[w]) BY <1>1 DEF Running, Claim
  <2>2. pass[w].due \in SUBSET Rules /\ pass[w].day \in Days BY <2>1, OwnRows DEF PassRow
  <2>3. ledger' = Claimed(pass[w].due, pass[w].day) BY <1>1 DEF Claim
  <2>4. TypeOK BY DEF IInv
  <2>5. /\ DOMAIN ledger \subseteq DOMAIN Claimed(pass[w].due, pass[w].day)
        /\ \A j \in DOMAIN ledger : Claimed(pass[w].due, pass[w].day)[j] = ledger[j]
    BY <2>2, <2>4, ClaimedRows, Zenon
  <2> QED BY <2>3, <2>5
<1>2. ASSUME NEW w \in Runners, NEW j \in pass[w].work, Running(pass[w]), NEW row,
             ledger' = [ledger EXCEPT ![j] = row]
      PROVE  k \in DOMAIN ledger' /\ (ledger[k].linked => ledger'[k] = ledger[k])
  BY <1>2, OwnRows
<1>3. ASSUME NEW w \in Runners,
             OpenTask(w) \/ Link(w) \/ OpenRefused(w) \/ LinkFails(w)
      PROVE  k \in DOMAIN ledger' /\ (ledger[k].linked => ledger'[k] = ledger[k])
  <2>1. Running(pass[w]) BY <1>3 DEF Running, OpenTask, Link, OpenRefused, LinkFails
  <2>2. \E j \in pass[w].work : \E row : ledger' = [ledger EXCEPT ![j] = row]
    <3>1. CASE OpenTask(w) BY <3>1 DEF OpenTask
    <3>2. CASE Link(w)
      <4>1. PICK j \in pass[w].row :
                ledger' = [ledger EXCEPT ![j].linked = TRUE, ![j].error = FALSE]
        BY <3>2 DEF Link
      <4>2. j \in DOMAIN ledger /\ j \in pass[w].work BY <2>1, <4>1, OwnRows
      <4>3. ledger' = [ledger EXCEPT ![j] = [[@ EXCEPT !.linked = TRUE] EXCEPT !.error = FALSE]]
        BY <4>1, <4>2
      <4> QED BY <4>2, <4>3
    <3>3. CASE OpenRefused(w) BY <3>3 DEF OpenRefused
    <3>4. CASE LinkFails(w)
      <4>1. pass[w].row \subseteq pass[w].work BY <2>1, OwnRows
      <4> QED BY <3>4, <4>1 DEF LinkFails
    <3> QED BY <1>3, <3>1, <3>2, <3>3, <3>4
  <2> QED BY <1>2, <2>1, <2>2
<1>4. CASE ledger' = ledger BY <1>4
<1>5. ~(\E w \in Runners : \/ Claim(w) \/ OpenTask(w) \/ Link(w) \/ OpenRefused(w) \/ LinkFails(w))
      => ledger' = ledger
  BY DEF Next, Proceed, StartPass, RunByHand, Start, RemoveOverridden, AddOverridden, Release,
         SessionEnds, PassFails, Interrupt, SyncRule, ToggleInForce, MoveOccurrence, Tick, vars
<1> QED BY <1>1, <1>3, <1>4, <1>5

\* A claimed date stays claimed and a row that has its task is never written
\* again, in any interleaving of runs, edits and faults.
THEOREM LedgerFinal == Spec => LedgerIsFinal
<1>1. IInv /\ [Next]_vars =>
         [\A k \in DOMAIN ledger :
             k \in DOMAIN ledger' /\ (ledger[k].linked => ledger'[k] = ledger[k])]_vars
  BY FinalStep
<1> QED BY <1>1, InvInit, InvStep, PTL DEF Spec, LedgerIsFinal
=============================================================================
