------------------------ MODULE ReportDeliveryProofs ------------------------
(***************************************************************************)
(* Safety of the scheduled report delivery for any recipients, processes,   *)
(* calendar, retention and number of edits and faults.                      *)
(*                                                                          *)
(* The invariant says of every delivery who may still write a result: the   *)
(* pass that started it, for recipients that are pending or that the sweep  *)
(* has failed since, six hours after the start at the earliest.  What a     *)
(* delivery shows and which results stay follow.                            *)
(***************************************************************************)
EXTENDS ReportDelivery, SequenceTheorems, TLAPS

\* Only a pass in its housekeeping has deliveries to finish.
SweptAtFinish == \A p \in Procs : pass[p].pc # "finish" => pass[p].swept = {}

Producing(x) == x.pc \in {"produce", "store"}

\* The recipients a pass has still to write a result for.
InWork(x) == x.todo \cup (IF x.pc = "store" THEN {x.result[1]} ELSE {})

\* A delivery is produced by one pass, which has no other result to overwrite
\* than a failure the sweep has recorded, and none twice.
OwnWork ==
    /\ \A p, q \in Procs :
          Producing(pass[p]) /\ Producing(pass[q]) /\ pass[p].delivery = pass[q].delivery => p = q
    /\ \A p \in Procs : Producing(pass[p]) =>
          \A r \in InWork(pass[p]) :
              deliveries[pass[p].delivery].rcp[r].status \in {"PENDING", "FAILED"}
    /\ \A p \in Procs : pass[p].pc = "store" => pass[p].result[1] \notin pass[p].todo

\* Only a delivered recipient has a file.
FileMeansDelivered ==
    \A d \in Ids, r \in Recipients :
        deliveries[d].rcp[r].file => deliveries[d].rcp[r].status = "DELIVERED"

IInv == /\ TypeOK
        /\ OneScheduledPerDay
        /\ StatusIsReal
        /\ RunningIsPending
        /\ SweptAtFinish
        /\ OwnWork
        /\ FileMeansDelivered

-----------------------------------------------------------------------------
(* The next run date *)

LEMMA Division ==
    ASSUME NEW w \in Nat \ {0}, NEW x \in Nat
    PROVE  /\ x \div w \in Nat /\ x % w \in 0..(w - 1)
           /\ x = w * (x \div w) + (x % w)
BY SMT

LEMMA Times ==
    ASSUME NEW w \in Nat \ {0}, NEW j \in Nat, NEW k \in Nat, j < k
    PROVE  w * j + w <= w * k
<1>1. w * (k - j) >= w BY SMT
<1> QED BY <1>1, SMT

LEMMA MultipleRest ==
    ASSUME NEW w \in Nat \ {0}, NEW k \in Nat
    PROVE  (w * k) % w = 0
<1> DEFINE m == (w * k) % w
           q == (w * k) \div w
<1>1. w * k \in Nat BY SMT
<1>2. q \in Nat /\ m \in 0..(w - 1) /\ w * k = w * q + m BY <1>1, Division
<1> HIDE DEF m, q
<1>3. w * q \in Nat /\ w * k \in Nat BY <1>1, <1>2, SMT
<1>4. CASE q < k
  <2>1. w * q + w <= w * k BY <1>2, <1>4, Times
  <2> QED BY <1>2, <1>3, <2>1
<1>5. CASE k < q
  <2>1. w * k + w <= w * q BY <1>2, <1>5, Times
  <2> QED BY <1>2, <1>3, <2>1
<1>6. k = q => m = 0 BY <1>2, <1>3
<1>7. m = 0 BY <1>2, <1>4, <1>5, <1>6
<1> QED BY <1>7 DEF m

\* The first multiple of w from x on.
LEMMA FirstMultiple ==
    ASSUME NEW w \in Nat \ {0}, NEW x \in Nat
    PROVE  \E d \in x..(x + w) : d % w = 0 /\ \A y \in x..(x + w) : y % w = 0 => d <= y
<1> DEFINE q == x \div w
<1>1. q \in Nat /\ x % w \in 0..(w - 1) /\ x = w * q + (x % w) BY Division
<1>2. CASE x % w = 0 BY <1>2
<1>3. CASE x % w # 0
  <2> HIDE DEF q
  <2>1. w * (q + 1) = w * q + w /\ w * q \in Nat BY <1>1, SMT
  <2>2. w * (q + 1) \in x..(x + w) BY <1>1, <2>1
  <2>3. (w * (q + 1)) % w = 0 BY <1>1, MultipleRest
  <2>4. ASSUME NEW y \in x..(x + w), y % w = 0 PROVE w * (q + 1) <= y
    <3> DEFINE j == y \div w
    <3>1. j \in Nat /\ y = w * j
      <4>1. y \in Nat OBVIOUS
      <4>2. y \div w \in Nat /\ y = w * (y \div w) + (y % w) BY <4>1, Division
      <4>3. w * (y \div w) \in Nat BY <4>2, SMT
      <4> QED BY <2>4, <4>2, <4>3
    <3> HIDE DEF j
    <3>2. q < j
      <4>1. SUFFICES ASSUME j <= q PROVE FALSE BY <1>1, <3>1
      <4>2. w * j <= w * q
        <5>1. CASE j = q BY <5>1, <2>1
        <5>2. CASE j < q
          <6>1. w * j + w <= w * q BY <1>1, <3>1, <5>2, Times
          <6>2. w * j \in Nat BY <3>1, SMT
          <6> QED BY <2>1, <6>1, <6>2
        <5> QED BY <1>1, <3>1, <4>1, <5>1, <5>2
      <4> QED BY <1>1, <1>3, <2>1, <3>1, <4>2
    <3>3. w * q + w <= w * j BY <1>1, <3>1, <3>2, Times
    <3> QED BY <2>1, <3>1, <3>3
  <2> QED BY <2>2, <2>3, <2>4
<1> QED BY <1>2, <1>3

LEMMA NextRunType ==
    ASSUME NEW f \in Frequencies, NEW from \in Nat
    PROVE  NextRun(f, from) \in Nat
<1> DEFINE RunDay(x) == f = "DAILY" \/ x % WeekLength = 0
<1>1. \E d \in from..(from + WeekLength) :
         RunDay(d) /\ \A x \in from..(from + WeekLength) : RunDay(x) => d <= x
  <2>1. WeekLength \in Nat \ {0} BY DeliveryAssumption
  <2>2. CASE f = "DAILY"
    <3>1. from \in from..(from + WeekLength) BY <2>1
    <3> QED BY <2>1, <2>2, <3>1
  <2>3. CASE f # "DAILY" BY <2>1, <2>3, FirstMultiple
  <2> QED BY <2>2, <2>3
<1>2. NextRun(f, from) = CHOOSE d \in from..(from + WeekLength) :
         RunDay(d) /\ \A x \in from..(from + WeekLength) : RunDay(x) => d <= x
  BY DEF NextRun
<1> HIDE DEF RunDay
<1>3. NextRun(f, from) \in from..(from + WeekLength) BY <1>1, <1>2
<1> QED BY <1>3, DeliveryAssumption

-----------------------------------------------------------------------------
(* Deliveries *)

LEMMA IdRange ==
    ASSUME deliveries \in Seq(DeliveryRow)
    PROVE  /\ Ids = 1..Len(deliveries) /\ Len(deliveries) \in Nat
           /\ \A d \in Ids : deliveries[d] \in DeliveryRow
<1>1. Ids = 1..Len(deliveries) /\ Len(deliveries) \in Nat BY DEF Ids
<1> QED BY <1>1, ElementOfSeq

\* An UPDATE over all deliveries keeps their number.
LEMMA UpdatedAll ==
    ASSUME deliveries \in Seq(DeliveryRow), deliveries' \in [Ids -> DeliveryRow]
    PROVE  deliveries' \in Seq(DeliveryRow) /\ Ids' = Ids
<1>1. Ids = 1..Len(deliveries) /\ Len(deliveries) \in Nat BY IdRange
<1>2. deliveries' \in Seq(DeliveryRow) BY <1>1, SeqDef
<1> QED BY <1>1, <1>2 DEF Ids

\* An UPDATE of one.
LEMMA UpdatedOne ==
    ASSUME deliveries \in Seq(DeliveryRow), NEW d \in Ids, NEW x \in DeliveryRow,
           deliveries' = [deliveries EXCEPT ![d] = x]
    PROVE  /\ deliveries' \in Seq(DeliveryRow) /\ Ids' = Ids
           /\ deliveries'[d] = x
           /\ \A e \in Ids \ {d} : deliveries'[e] = deliveries[e]
<1>1. Ids = 1..Len(deliveries) /\ Len(deliveries) \in Nat BY IdRange
<1>2. deliveries' \in Seq(DeliveryRow) /\ Len(deliveries') = Len(deliveries)
  BY <1>1, ExceptSeq
<1> QED BY <1>1, <1>2 DEF Ids

\* The status a delivery gets says RUNNING exactly while a recipient is pending.
LEMMA OutcomeStatus ==
    ASSUME NEW rcp
    PROVE  /\ Outcome(rcp) \in DeliveryStatuses
           /\ Outcome(rcp) = "RUNNING" <=> HasAny(rcp, "PENDING")
BY DEF Outcome, DeliveryStatuses

\* It depends on the statuses of the recipients and on nothing else of theirs.
LEMMA OutcomeOfStatuses ==
    ASSUME NEW a, NEW b, \A r \in Recipients : a[r].status = b[r].status
    PROVE  Outcome(a) = Outcome(b) /\ (HasAny(a, "PENDING") <=> HasAny(b, "PENDING"))
BY DEF Outcome, HasAny

LEMMA Finished ==
    ASSUME NEW x \in DeliveryRow
    PROVE  /\ Finish(x) \in DeliveryRow
           /\ Finish(x).status = Outcome(x.rcp) /\ Finish(x).rcp = x.rcp
           /\ Finish(x).trigger = x.trigger /\ Finish(x).day = x.day /\ Finish(x).started = x.started
BY OutcomeStatus DEF Finish, DeliveryRow

\* The recipients of a delivery replaced.
LEMMA NewRecipients ==
    ASSUME NEW x \in DeliveryRow, NEW rcp \in [Recipients -> RecipientRow]
    PROVE  /\ [x EXCEPT !.rcp = rcp] \in DeliveryRow
           /\ [x EXCEPT !.rcp = rcp].rcp = rcp /\ [x EXCEPT !.rcp = rcp].status = x.status
           /\ [x EXCEPT !.rcp = rcp].trigger = x.trigger /\ [x EXCEPT !.rcp = rcp].day = x.day
           /\ [x EXCEPT !.rcp = rcp].started = x.started
BY DEF DeliveryRow

\* The recipients of every delivery replaced at once.
LEMMA RecipientsUpdated ==
    ASSUME deliveries \in Seq(DeliveryRow),
           NEW g, \A d \in Ids : g[d] \in [Recipients -> RecipientRow],
           deliveries' = [d \in Ids |-> [deliveries[d] EXCEPT !.rcp = g[d]]]
    PROVE  /\ deliveries' \in Seq(DeliveryRow) /\ Ids' = Ids
           /\ \A d \in Ids : /\ deliveries'[d].rcp = g[d]
                             /\ deliveries'[d].status = deliveries[d].status
                             /\ deliveries'[d].trigger = deliveries[d].trigger
                             /\ deliveries'[d].day = deliveries[d].day
                             /\ deliveries'[d].started = deliveries[d].started
<1>1. ASSUME NEW d \in Ids
      PROVE  /\ deliveries'[d] \in DeliveryRow
             /\ deliveries'[d].rcp = g[d]
             /\ deliveries'[d].status = deliveries[d].status
             /\ deliveries'[d].trigger = deliveries[d].trigger
             /\ deliveries'[d].day = deliveries[d].day
             /\ deliveries'[d].started = deliveries[d].started
  <2>1. deliveries[d] \in DeliveryRow BY IdRange
  <2>2. deliveries'[d] = [deliveries[d] EXCEPT !.rcp = g[d]] OBVIOUS
  <2> QED BY <2>1, <2>2, NewRecipients
<1>2. deliveries' \in [Ids -> DeliveryRow] BY <1>1
<1> QED BY <1>1, <1>2, UpdatedAll

LEMMA SweepEffect ==
    ASSUME TypeOK, NEW p \in Procs, SweepPending(p)
    PROVE  /\ deliveries' \in Seq(DeliveryRow) /\ Ids' = Ids
           /\ \A d \in Ids :
                /\ deliveries'[d].status = deliveries[d].status
                /\ deliveries'[d].trigger = deliveries[d].trigger
                /\ deliveries'[d].day = deliveries[d].day
                /\ deliveries'[d].started = deliveries[d].started
                /\ \A r \in Recipients :
                     deliveries'[d].rcp[r] = IF Interrupted(d, r)
                                             THEN [deliveries[d].rcp[r] EXCEPT !.status = "FAILED"]
                                             ELSE deliveries[d].rcp[r]
<1> DEFINE g == [d \in Ids |-> [r \in Recipients |->
                    IF Interrupted(d, r) THEN [deliveries[d].rcp[r] EXCEPT !.status = "FAILED"]
                    ELSE deliveries[d].rcp[r]]]
<1>1. deliveries' = [d \in Ids |-> [deliveries[d] EXCEPT !.rcp = g[d]]] BY DEF SweepPending
<1>2. \A d \in Ids : g[d] \in [Recipients -> RecipientRow]
  <2> SUFFICES ASSUME NEW d \in Ids, NEW r \in Recipients PROVE g[d][r] \in RecipientRow OBVIOUS
  <2>1. deliveries[d].rcp[r] \in RecipientRow BY IdRange DEF TypeOK, DeliveryRow
  <2> QED BY <2>1 DEF RecipientRow, RecipientStatuses
<1>3. \A d \in Ids, r \in Recipients :
         g[d][r] = IF Interrupted(d, r) THEN [deliveries[d].rcp[r] EXCEPT !.status = "FAILED"]
                   ELSE deliveries[d].rcp[r]
  OBVIOUS
<1> HIDE DEF g
<1>4. /\ deliveries' \in Seq(DeliveryRow) /\ Ids' = Ids
      /\ \A d \in Ids : /\ deliveries'[d].rcp = g[d]
                        /\ deliveries'[d].status = deliveries[d].status
                        /\ deliveries'[d].trigger = deliveries[d].trigger
                        /\ deliveries'[d].day = deliveries[d].day
                        /\ deliveries'[d].started = deliveries[d].started
  BY <1>1, <1>2, RecipientsUpdated DEF TypeOK
<1> QED BY <1>3, <1>4

LEMMA PurgeEffect ==
    ASSUME TypeOK, NEW p \in Procs, PurgeAndSelect(p)
    PROVE  /\ deliveries' \in Seq(DeliveryRow) /\ Ids' = Ids
           /\ \A d \in Ids :
                /\ deliveries'[d].status = deliveries[d].status
                /\ deliveries'[d].trigger = deliveries[d].trigger
                /\ deliveries'[d].day = deliveries[d].day
                /\ deliveries'[d].started = deliveries[d].started
                /\ \A r \in Recipients :
                     \/ deliveries'[d].rcp[r] = deliveries[d].rcp[r]
                     \/ /\ deliveries[d].rcp[r].file
                        /\ deliveries'[d].rcp[r] = [deliveries[d].rcp[r] EXCEPT !.file = FALSE]
<1> DEFINE t == pass[p].tick
           g == [d \in Ids |-> [r \in Recipients |->
                    IF Expired(deliveries[d].rcp[r], t) THEN [deliveries[d].rcp[r] EXCEPT !.file = FALSE]
                    ELSE deliveries[d].rcp[r]]]
<1>1. deliveries' = [d \in Ids |-> [deliveries[d] EXCEPT !.rcp = g[d]]] BY DEF PurgeAndSelect
<1>2. \A d \in Ids : g[d] \in [Recipients -> RecipientRow]
  <2> SUFFICES ASSUME NEW d \in Ids, NEW r \in Recipients PROVE g[d][r] \in RecipientRow OBVIOUS
  <2>1. deliveries[d].rcp[r] \in RecipientRow BY IdRange DEF TypeOK, DeliveryRow
  <2> QED BY <2>1 DEF RecipientRow
<1>3. \A d \in Ids, r \in Recipients :
         \/ g[d][r] = deliveries[d].rcp[r]
         \/ /\ deliveries[d].rcp[r].file
            /\ g[d][r] = [deliveries[d].rcp[r] EXCEPT !.file = FALSE]
  BY DEF Expired
<1> HIDE DEF g
<1>4. /\ deliveries' \in Seq(DeliveryRow) /\ Ids' = Ids
      /\ \A d \in Ids : /\ deliveries'[d].rcp = g[d]
                        /\ deliveries'[d].status = deliveries[d].status
                        /\ deliveries'[d].trigger = deliveries[d].trigger
                        /\ deliveries'[d].day = deliveries[d].day
                        /\ deliveries'[d].started = deliveries[d].started
  BY <1>1, <1>2, RecipientsUpdated DEF TypeOK
<1> QED BY <1>3, <1>4

LEMMA FinishEffect ==
    ASSUME TypeOK, NEW d \in Ids, deliveries' = [deliveries EXCEPT ![d] = Finish(@)]
    PROVE  /\ deliveries' \in Seq(DeliveryRow) /\ Ids' = Ids
           /\ \A e \in Ids : /\ deliveries'[e].rcp = deliveries[e].rcp
                             /\ deliveries'[e].trigger = deliveries[e].trigger
                             /\ deliveries'[e].day = deliveries[e].day
                             /\ deliveries'[e].started = deliveries[e].started
           /\ \A e \in Ids \ {d} : deliveries'[e].status = deliveries[e].status
           /\ deliveries'[d].status = Outcome(deliveries'[d].rcp)
<1>1. deliveries[d] \in DeliveryRow BY IdRange DEF TypeOK
<1>2. deliveries' = [deliveries EXCEPT ![d] = Finish(deliveries[d])] OBVIOUS
<1>3. Finish(deliveries[d]) \in DeliveryRow BY <1>1, Finished
<1>4. /\ deliveries' \in Seq(DeliveryRow) /\ Ids' = Ids
      /\ deliveries'[d] = Finish(deliveries[d])
      /\ \A e \in Ids \ {d} : deliveries'[e] = deliveries[e]
  BY <1>2, <1>3, UpdatedOne DEF TypeOK
<1> QED BY <1>1, <1>4, Finished

\* The row a store writes for a recipient.
Result(x) == [status |-> x, file |-> x = "DELIVERED", at |-> IF x = "DELIVERED" THEN now ELSE 0]

LEMMA StoreEffect ==
    ASSUME TypeOK, NEW p \in Procs, StoreResult(p)
    PROVE  /\ deliveries' \in Seq(DeliveryRow) /\ Ids' = Ids
           /\ pass[p].delivery \in Ids /\ pass[p].result[1] \in Recipients
           /\ pass[p].result[2] \in {"DELIVERED", "FAILED"}
           /\ \A e \in Ids : /\ deliveries'[e].trigger = deliveries[e].trigger
                             /\ deliveries'[e].day = deliveries[e].day
                             /\ deliveries'[e].started = deliveries[e].started
                             /\ \A r \in Recipients :
                                  deliveries'[e].rcp[r] =
                                      IF e = pass[p].delivery /\ r = pass[p].result[1]
                                      THEN Result(pass[p].result[2]) ELSE deliveries[e].rcp[r]
           /\ \A e \in Ids \ {pass[p].delivery} : deliveries'[e] = deliveries[e]
           /\ deliveries'[pass[p].delivery].status = Outcome(deliveries'[pass[p].delivery].rcp)
<1> DEFINE d == pass[p].delivery
           r == pass[p].result[1]
           new == [deliveries[d].rcp EXCEPT ![r] = Result(pass[p].result[2])]
           x == [deliveries[d] EXCEPT !.rcp = new]
<1>1. d \in Ids /\ r \in Recipients /\ pass[p].result[2] \in {"DELIVERED", "FAILED"}
  BY DEF StoreResult, TypeOK, PassRow
<1>2. deliveries[d] \in DeliveryRow BY <1>1, IdRange DEF TypeOK
<1>3. now \in Nat BY DeliveryAssumption DEF TypeOK
<1>4. Result(pass[p].result[2]) \in RecipientRow
  BY <1>1, <1>3 DEF Result, RecipientRow, RecipientStatuses
<1>5. new \in [Recipients -> RecipientRow] BY <1>1, <1>2, <1>4 DEF DeliveryRow
<1>6. deliveries' = [deliveries EXCEPT ![d] = Finish(x)]
  BY <1>2 DEF StoreResult, Result, DeliveryRow
<1> HIDE DEF d, r
<1>7. /\ x \in DeliveryRow /\ x.rcp = new
      /\ x.trigger = deliveries[d].trigger /\ x.day = deliveries[d].day
      /\ x.started = deliveries[d].started
  BY <1>2, <1>5, NewRecipients
<1>8. \A s \in Recipients : new[s] = IF s = r THEN Result(pass[p].result[2]) ELSE deliveries[d].rcp[s]
  BY <1>1, <1>2 DEF DeliveryRow
<1> HIDE DEF new, x
<1>9. /\ Finish(x) \in DeliveryRow
      /\ Finish(x).status = Outcome(new) /\ Finish(x).rcp = new
      /\ Finish(x).trigger = deliveries[d].trigger /\ Finish(x).day = deliveries[d].day
      /\ Finish(x).started = deliveries[d].started
  BY <1>7, Finished
<1>10. /\ deliveries' \in Seq(DeliveryRow) /\ Ids' = Ids
       /\ deliveries'[d] = Finish(x)
       /\ \A e \in Ids \ {d} : deliveries'[e] = deliveries[e]
  BY <1>1, <1>6, <1>9, UpdatedOne DEF TypeOK
<1> QED BY <1>1, <1>8, <1>9, <1>10 DEF d, r

\* A delivery starts for the recipients who passed the checks, who are pending.
LEMMA StartEffect ==
    ASSUME TypeOK, NEW p \in Procs, NEW allowed \in SUBSET Recipients,
           deliveries' = Append(deliveries, NewDelivery(p, allowed)),
           NEW d, d = Len(deliveries) + 1
    PROVE  /\ deliveries' \in Seq(DeliveryRow) /\ Ids' = Ids \cup {d} /\ d \notin Ids /\ d \in Nat
           /\ \A e \in Ids : deliveries'[e] = deliveries[e]
           /\ deliveries'[d].trigger = "SCHEDULED" => p \notin Users
           /\ deliveries'[d].day = Day(pass[p].tick)
           /\ deliveries'[d].status = Outcome(deliveries'[d].rcp)
           /\ \A r \in Recipients : ~deliveries'[d].rcp[r].file
           /\ \A r \in allowed : deliveries'[d].rcp[r].status = "PENDING"
<1> DEFINE rcp == [r \in Recipients |-> [status |-> IF r \in allowed THEN "PENDING" ELSE "SKIPPED",
                                         file |-> FALSE, at |-> 0]]
           x == [trigger |-> IF p \in Users THEN "MANUAL" ELSE "SCHEDULED",
                 day |-> Day(pass[p].tick), started |-> now, status |-> "RUNNING", rcp |-> rcp]
<1>1. now \in Nat /\ Day(pass[p].tick) \in Nat
  <2>1. pass[p].tick \in Nat /\ now \in Nat BY DeliveryAssumption DEF TypeOK, PassRow
  <2>2. TicksPerDay \in Nat \ {0} BY DeliveryAssumption
  <2>3. Day(pass[p].tick) \in Nat BY <2>1, <2>2, Division DEF Day
  <2> QED BY <2>1, <2>3
<1>2. rcp \in [Recipients -> RecipientRow] BY DEF RecipientRow, RecipientStatuses
<1>3. x \in DeliveryRow BY <1>1, <1>2 DEF DeliveryRow, DeliveryStatuses
<1>4. NewDelivery(p, allowed) = Finish(x) BY DEF NewDelivery
<1>5. x.trigger = (IF p \in Users THEN "MANUAL" ELSE "SCHEDULED")
      /\ (x.trigger = "SCHEDULED" => p \notin Users)
      /\ x.day = Day(pass[p].tick) /\ x.rcp = rcp
  OBVIOUS
<1>6. /\ \A r \in Recipients : ~rcp[r].file
      /\ \A r \in allowed : rcp[r].status = "PENDING"
  OBVIOUS
<1> HIDE DEF x, rcp
<1>7. /\ Finish(x) \in DeliveryRow /\ Finish(x).status = Outcome(rcp) /\ Finish(x).rcp = rcp
      /\ (Finish(x).trigger = "SCHEDULED" => p \notin Users)
      /\ Finish(x).day = Day(pass[p].tick)
  BY <1>3, <1>5, Finished
<1>8. /\ deliveries' \in Seq(DeliveryRow) /\ Len(deliveries') = d /\ deliveries'[d] = Finish(x)
      /\ \A e \in 1..Len(deliveries) : deliveries'[e] = deliveries[e]
  BY <1>4, <1>7, AppendProperties DEF TypeOK
<1>9. Ids = 1..Len(deliveries) /\ Len(deliveries) \in Nat BY IdRange DEF TypeOK
<1>10. Ids' = 1..Len(deliveries') BY <1>8 DEF Ids
<1>11. Ids' = Ids \cup {d} /\ d \notin Ids /\ d \in Nat BY <1>8, <1>9, <1>10
<1> QED BY <1>6, <1>7, <1>8, <1>9, <1>11

-----------------------------------------------------------------------------
(* Types *)

LEMMA NoPassType == NoPass \in PassRow /\ NoPass.swept = {} /\ NoPass.pc = "idle"
BY DeliveryAssumption DEF NoPass, PassRow

LEMMA TypeInit == Init => TypeOK
<1> SUFFICES ASSUME Init PROVE TypeOK OBVIOUS
<1>1. /\ now \in 0..MaxTick /\ saves \in 0..MaxSaves /\ interrupts \in 0..MaxInterrupts
      /\ deliveries \in Seq(DeliveryRow) /\ orphans \subseteq Ids
  BY DeliveryAssumption DEF Init
<1>2. schedule \in ScheduleRow
  <2>1. \A f \in Frequencies : NextRun(f, 0) \in Nat BY NextRunType
  <2>2. PICK f \in Frequencies : schedule = [frequency |-> f, active |-> TRUE, next |-> NextRun(f, 0)]
    BY DEF Init
  <2> QED BY <2>1, <2>2 DEF ScheduleRow
<1>3. /\ pass \in [Procs -> PassRow]
      /\ \A p \in Procs : pass[p].pc = "idle"
  BY NoPassType DEF Init
<1> QED BY <1>1, <1>2, <1>3 DEF TypeOK

\* What TypeOK asks of the record a pass steps to.
RecordOK(x) == /\ x \in PassRow
               /\ x.pc \in {"produce", "store"} => x.delivery \in Ids
               /\ x.pc = "store" => x.result # <<>>

\* One pass moves on; no delivery goes away, so the others keep what they have.
LEMMA StepTypes ==
    ASSUME TypeOK, NEW p \in Procs, NEW x \in PassRow, Step(p, x),
           x.pc \in {"produce", "store"} => x.delivery \in Ids',
           x.pc = "store" => x.result # <<>>,
           deliveries' \in Seq(DeliveryRow), Ids \subseteq Ids', schedule' \in ScheduleRow,
           now' \in 0..MaxTick, saves' \in 0..MaxSaves, interrupts' \in 0..MaxInterrupts,
           orphans' \subseteq Ids'
    PROVE  TypeOK'
<1>1. pass' = [pass EXCEPT ![p] = x] /\ pass \in [Procs -> PassRow] BY DEF Step, TypeOK
<1>2. pass'[p] = x /\ \A q \in Procs \ {p} : pass'[q] = pass[q] BY <1>1
<1>3. PassRow \subseteq PassRow'
  <2> SUFFICES ASSUME NEW y \in PassRow PROVE y \in PassRow' OBVIOUS
  <2> QED BY DEF PassRow
<1>5. pass' \in [Procs -> PassRow'] BY <1>1, <1>3
<1>6. ASSUME NEW q \in Procs
      PROVE  /\ pass'[q].pc \in {"produce", "store"} => pass'[q].delivery \in Ids'
             /\ pass'[q].pc = "store" => pass'[q].result # <<>>
  <2>1. CASE q = p BY <1>2, <2>1
  <2>2. CASE q # p BY <1>2, <2>2 DEF TypeOK
  <2> QED BY <2>1, <2>2
<1> QED BY <1>5, <1>6 DEF TypeOK

\* Reading the record of a pass.
LEMMA RecordType ==
    ASSUME TypeOK, NEW p \in Procs
    PROVE  RecordOK(pass[p]) /\ RecordOK(NoPass)
BY NoPassType DEF TypeOK, RecordOK

LEMMA PassTypes ==
    ASSUME TypeOK, NEW p \in Procs, Pass(p) \/ StoreLost(p) \/ Interrupt(p)
    PROVE  TypeOK'
<1>1. pass[p] \in PassRow /\ RecordOK(pass[p]) /\ RecordOK(NoPass) BY RecordType DEF RecordOK
<1>2. /\ now \in 0..MaxTick /\ schedule \in ScheduleRow /\ saves \in 0..MaxSaves
      /\ interrupts \in 0..MaxInterrupts /\ orphans \subseteq Ids /\ deliveries \in Seq(DeliveryRow)
  BY DEF TypeOK
<1>3. CASE SweepPending(p)
  <2> DEFINE x == [NoPass EXCEPT !.pc = "finish", !.tick = now,
                                 !.swept = {d \in Ids : \E r \in Recipients : Interrupted(d, r)}]
  <2>1. Step(p, x) /\ UNCHANGED <<now, schedule, saves, interrupts, orphans>>
    BY <1>3 DEF SweepPending
  <2>2. deliveries' \in Seq(DeliveryRow) /\ Ids' = Ids BY <1>3, SweepEffect
  <2>3. x \in PassRow /\ x.pc = "finish" BY <1>1, <1>2 DEF PassRow, NoPass
  <2> HIDE DEF x
  <2> QED BY <1>2, <2>1, <2>2, <2>3, StepTypes
<1>4. CASE FinishSwept(p)
  <2>1. PICK d \in pass[p].swept :
            /\ deliveries' = [deliveries EXCEPT ![d] = Finish(@)]
            /\ Step(p, [pass[p] EXCEPT !.swept = @ \ {d}])
            /\ UNCHANGED <<now, schedule, saves, interrupts, orphans>>
    BY <1>4 DEF FinishSwept
  <2> DEFINE x == [pass[p] EXCEPT !.swept = @ \ {d}]
  <2>2. d \in Ids BY <1>1 DEF PassRow
  <2>3. deliveries' \in Seq(DeliveryRow) /\ Ids' = Ids BY <2>1, <2>2, FinishEffect
  <2>4. x \in PassRow /\ x.pc = "finish" BY <1>1, <1>4 DEF PassRow, FinishSwept
  <2>5. Step(p, x) BY <2>1
  <2> HIDE DEF x
  <2> QED BY <1>2, <2>1, <2>3, <2>4, <2>5, StepTypes
<1>5. CASE PurgeAndSelect(p)
  <2>1. PICK x \in {NoPass, [pass[p] EXCEPT !.pc = "start"]} : Step(p, x)
    BY <1>5 DEF PurgeAndSelect
  <2>2. deliveries' \in Seq(DeliveryRow) /\ Ids' = Ids BY <1>5, PurgeEffect
  <2>3. x \in PassRow /\ x.pc \notin {"produce", "store"}
    BY <1>1, <2>1, NoPassType DEF PassRow
  <2>4. UNCHANGED <<now, schedule, saves, interrupts, orphans>> BY <1>5 DEF PurgeAndSelect
  <2> QED BY <1>2, <2>1, <2>2, <2>3, <2>4, StepTypes
<1>6. CASE StartDelivery(p)
  <2>1. CASE Step(p, NoPass) /\ UNCHANGED <<schedule, deliveries>>
    <3>1. UNCHANGED <<now, saves, interrupts, orphans>> BY <1>6 DEF StartDelivery
    <3>2. Ids' = Ids BY <2>1 DEF Ids
    <3> QED BY <1>2, <2>1, <3>1, <3>2, NoPassType, StepTypes
  <2>2. ASSUME NEW allowed \in SUBSET Recipients,
               deliveries' = Append(deliveries, NewDelivery(p, allowed)),
               schedule' = IF p \in Users THEN schedule
                           ELSE [schedule EXCEPT
                                    !.next = NextRun(schedule.frequency, Day(pass[p].tick) + 1)],
               Step(p, [NoPass EXCEPT !.pc = "produce", !.delivery = Len(deliveries) + 1,
                                      !.todo = allowed])
        PROVE  TypeOK'
    <3> DEFINE d == Len(deliveries) + 1
               x == [NoPass EXCEPT !.pc = "produce", !.delivery = d, !.todo = allowed]
    <3>1. UNCHANGED <<now, saves, interrupts, orphans>> BY <1>6 DEF StartDelivery
    <3>2. deliveries' \in Seq(DeliveryRow) /\ Ids' = Ids \cup {d} /\ d \in Nat
      BY <2>2, StartEffect
    <3>3. schedule' \in ScheduleRow
      <4>1. pass[p].tick \in Nat BY <1>1, DeliveryAssumption DEF PassRow
      <4>2. Day(pass[p].tick) \in Nat BY <4>1, DeliveryAssumption, Division DEF Day
      <4>3. NextRun(schedule.frequency, Day(pass[p].tick) + 1) \in Nat
        <5>1. schedule.frequency \in Frequencies /\ Day(pass[p].tick) + 1 \in Nat
          BY <1>2, <4>2 DEF ScheduleRow
        <5> QED BY <5>1, NextRunType
      <4> QED BY <1>2, <2>2, <4>3 DEF ScheduleRow
    <3>4. x \in PassRow /\ x.pc = "produce" /\ x.delivery = d
      BY <1>1, <3>2 DEF NoPass, RecordOK, PassRow
    <3>5. Step(p, x) BY <2>2
    <3> HIDE DEF x, d
    <3>6. d \in Ids' BY <3>2
    <3> QED BY <1>2, <3>1, <3>2, <3>3, <3>4, <3>5, <3>6, StepTypes
  <2> QED BY <1>6, <2>1, <2>2 DEF StartDelivery
<1>7. CASE Produce(p)
  <2>1. PICK r \in pass[p].todo, result \in {"DELIVERED", "FAILED"} :
            \/ Step(p, [pass[p] EXCEPT !.pc = "store", !.todo = @ \ {r}, !.result = <<r, result>>])
            \/ Step(p, [pass[p] EXCEPT !.todo = @ \ {r}])
    BY <1>7 DEF Produce
  <2>2. PICK x \in {[pass[p] EXCEPT !.pc = "store", !.todo = @ \ {r}, !.result = <<r, result>>],
                    [pass[p] EXCEPT !.todo = @ \ {r}]} : Step(p, x)
    BY <2>1
  <2>3. UNCHANGED <<now, schedule, deliveries, saves, interrupts, orphans>> /\ pass[p].pc = "produce"
    BY <1>7 DEF Produce
  <2>4. Ids' = Ids BY <2>3 DEF Ids
  <2>5. r \in Recipients /\ <<r, result>> # <<>> BY <1>1 DEF PassRow
  <2>6. pass[p].delivery \in Ids BY <1>1, <2>3 DEF RecordOK
  <2>7. x \in PassRow /\ x.delivery = pass[p].delivery /\ (x.pc = "store" => x.result = <<r, result>>)
    <3>1. CASE x = [pass[p] EXCEPT !.todo = @ \ {r}]
      BY <1>1, <2>3, <3>1 DEF PassRow
    <3>2. CASE x = [pass[p] EXCEPT !.pc = "store", !.todo = @ \ {r}, !.result = <<r, result>>]
      <4>1. <<r, result>> \in Recipients \X {"DELIVERED", "FAILED"} BY <2>5
      <4>2. /\ x.pc = "store" /\ x.tick = pass[p].tick /\ x.swept = pass[p].swept
            /\ x.delivery = pass[p].delivery /\ x.todo = pass[p].todo \ {r}
            /\ x.result = <<r, result>>
        BY <1>1, <3>2 DEF PassRow
      <4> QED BY <1>1, <3>2, <4>1, <4>2 DEF PassRow
    <3> QED BY <2>2, <3>1, <3>2
  <2> QED BY <1>2, <2>2, <2>3, <2>4, <2>5, <2>6, <2>7, StepTypes
<1>8. CASE StoreResult(p) \/ StoreLost(p)
  <2> DEFINE x == [pass[p] EXCEPT !.pc = "produce", !.result = <<>>]
  <2>1. /\ Step(p, x) /\ UNCHANGED <<now, schedule, saves, orphans>>
        /\ interrupts' \in 0..MaxInterrupts
    BY <1>2, <1>8, DeliveryAssumption DEF StoreResult, StoreLost
  <2>2. deliveries' \in Seq(DeliveryRow) /\ Ids' = Ids
    BY <1>2, <1>8, StoreEffect DEF StoreLost, Ids
  <2>3. x \in PassRow /\ x.pc = "produce" /\ x.delivery \in Ids
    BY <1>1, <1>8 DEF PassRow, RecordOK, StoreResult, StoreLost
  <2> HIDE DEF x
  <2> QED BY <1>2, <2>1, <2>2, <2>3, StepTypes
<1>9. CASE EndPass(p) \/ Interrupt(p)
  <2>1. /\ Step(p, NoPass) /\ UNCHANGED <<now, schedule, deliveries, saves>>
        /\ interrupts' \in 0..MaxInterrupts /\ orphans' \subseteq Ids
    BY <1>1, <1>2, <1>9, DeliveryAssumption DEF EndPass, Interrupt, PassRow
  <2>2. Ids' = Ids BY <2>1 DEF Ids
  <2> QED BY <1>2, <2>1, <2>2, NoPassType, StepTypes
<1> QED BY <1>3, <1>4, <1>5, <1>6, <1>7, <1>8, <1>9 DEF Pass

LEMMA TypeStep == TypeOK /\ [Next]_vars => TypeOK'
<1> SUFFICES ASSUME TypeOK, [Next]_vars PROVE TypeOK' OBVIOUS
<1>1. CASE SaveSchedule
  <2>1. PICK frequency \in Frequencies, active \in BOOLEAN :
            schedule' = [frequency |-> frequency, active |-> active,
                         next |-> IF frequency # schedule.frequency \/ (active /\ ~schedule.active)
                                  THEN NextRun(frequency, Day(now)) ELSE schedule.next]
    BY <1>1 DEF SaveSchedule
  <2>2. NextRun(frequency, Day(now)) \in Nat
    <3>1. now \in Nat BY DeliveryAssumption DEF TypeOK
    <3>2. Day(now) \in Nat BY <3>1, DeliveryAssumption, Division DEF Day
    <3> QED BY <3>2, NextRunType
  <2>3. schedule' \in ScheduleRow BY <2>1, <2>2 DEF TypeOK, ScheduleRow
  <2>4. saves' \in 0..MaxSaves /\ UNCHANGED <<now, deliveries, pass, interrupts, orphans>>
    BY <1>1, DeliveryAssumption DEF SaveSchedule, TypeOK
  <2> QED BY <2>3, <2>4 DEF TypeOK, Ids, PassRow
<1>2. CASE Tick
  BY <1>2, DeliveryAssumption DEF Tick, TypeOK, Ids, PassRow
<1>3. CASE UNCHANGED vars BY <1>3 DEF vars, TypeOK, Ids, PassRow
<1> QED BY <1>1, <1>2, <1>3, PassTypes DEF Next

\* Passes of any number of processes, edits and faults keep every row and every
\* pass within its types; a weekly schedule always finds its next run date.
THEOREM TypeCorrect == Spec => []TypeOK
<1> QED BY TypeInit, TypeStep, PTL DEF Spec

-----------------------------------------------------------------------------
(* The invariant *)

\* Who may still write a result, after the step of one pass.
LEMMA OwnWorkStep ==
    ASSUME IInv, NEW p \in Procs, NEW x \in PassRow, Step(p, x),
           \A d \in Ids, r \in Recipients :
               deliveries[d].rcp[r].status \in {"PENDING", "FAILED"} =>
                   \/ deliveries'[d].rcp[r].status \in {"PENDING", "FAILED"}
                   \/ Producing(pass[p]) /\ d = pass[p].delivery,
           Producing(x) =>
               /\ \/ Producing(pass[p]) /\ x.delivery = pass[p].delivery
                  \/ x.delivery \notin Ids
               /\ \A r \in InWork(x) : deliveries'[x.delivery].rcp[r].status \in {"PENDING", "FAILED"},
           x.pc = "store" => x.result[1] \notin x.todo
    PROVE  OwnWork'
<1>1. pass'[p] = x /\ \A q \in Procs \ {p} : pass'[q] = pass[q] BY DEF Step, IInv, TypeOK
<1>2. \A q \in Procs : Producing(pass[q]) => pass[q].delivery \in Ids
  BY DEF IInv, TypeOK, Producing
<1>3. \A q \in Procs : InWork(pass[q]) \subseteq Recipients
  <2> SUFFICES ASSUME NEW q \in Procs PROVE InWork(pass[q]) \subseteq Recipients OBVIOUS
  <2>1. pass[q] \in PassRow /\ (pass[q].pc = "store" => pass[q].result # <<>>) BY DEF IInv, TypeOK
  <2>2. pass[q].todo \subseteq Recipients BY <2>1 DEF PassRow
  <2>3. pass[q].pc = "store" => pass[q].result[1] \in Recipients BY <2>1 DEF PassRow
  <2> QED BY <2>2, <2>3 DEF InWork
<1>4. ASSUME NEW q \in Procs, NEW s \in Procs, q # s,
             Producing(pass'[q]), Producing(pass'[s]), pass'[q].delivery = pass'[s].delivery
      PROVE  FALSE
  BY <1>1, <1>2, <1>4 DEF IInv, OwnWork
<1>5. ASSUME NEW q \in Procs, Producing(pass'[q]), NEW r \in InWork(pass'[q])
      PROVE  deliveries'[pass'[q].delivery].rcp[r].status \in {"PENDING", "FAILED"}
  <2>1. CASE q = p BY <1>1, <1>5, <2>1
  <2>2. CASE q # p
    <3>1. pass'[q] = pass[q] /\ Producing(pass[q]) /\ r \in InWork(pass[q]) /\ r \in Recipients
      BY <1>1, <1>3, <1>5, <2>2
    <3>2. pass[q].delivery \in Ids
          /\ deliveries[pass[q].delivery].rcp[r].status \in {"PENDING", "FAILED"}
          /\ ~(Producing(pass[p]) /\ pass[q].delivery = pass[p].delivery)
      BY <1>2, <2>2, <3>1 DEF IInv, OwnWork
    <3> QED BY <3>1, <3>2
  <2> QED BY <2>1, <2>2
<1>6. \A q \in Procs : pass'[q].pc = "store" => pass'[q].result[1] \notin pass'[q].todo
  BY <1>1 DEF IInv, OwnWork
<1>7. \A q \in Procs : Producing(pass[q])' = Producing(pass'[q]) /\ InWork(pass[q])' = InWork(pass'[q])
  BY DEF Producing, InWork
<1> QED BY <1>4, <1>5, <1>6, <1>7 DEF OwnWork

LEMMA KeepDays ==
    ASSUME OneScheduledPerDay, Ids' = Ids,
           \A d \in Ids : /\ deliveries'[d].trigger = deliveries[d].trigger
                         /\ deliveries'[d].day = deliveries[d].day
    PROVE  OneScheduledPerDay'
BY DEF OneScheduledPerDay

\* A step of a pass that starts no delivery: what it has to keep.
LEMMA KeepSafe ==
    ASSUME IInv, TypeOK', NEW p \in Procs, NEW x \in PassRow, Step(p, x), Ids' = Ids,
           \A d \in Ids :
               /\ deliveries'[d].trigger = deliveries[d].trigger
               /\ deliveries'[d].day = deliveries[d].day
               /\ deliveries'[d].status \in {"RUNNING", Outcome(deliveries'[d].rcp)}
               /\ deliveries'[d].status = "RUNNING" =>
                     \/ HasAny(deliveries'[d].rcp, "PENDING")
                     \/ d \in x.swept
                     \/ \E q \in Procs \ {p} : d \in pass[q].swept
                     \/ d \in orphans',
           x.pc # "finish" => x.swept = {},
           \A d \in Ids, r \in Recipients :
               /\ deliveries'[d].rcp[r].file => deliveries'[d].rcp[r].status = "DELIVERED"
               /\ deliveries[d].rcp[r].status \in {"PENDING", "FAILED"} =>
                     \/ deliveries'[d].rcp[r].status \in {"PENDING", "FAILED"}
                     \/ Producing(pass[p]) /\ d = pass[p].delivery,
           Producing(x) =>
               /\ Producing(pass[p]) /\ x.delivery = pass[p].delivery
               /\ \A r \in InWork(x) : deliveries'[x.delivery].rcp[r].status \in {"PENDING", "FAILED"},
           x.pc = "store" => x.result[1] \notin x.todo
    PROVE  IInv'
<1>1. pass'[p] = x /\ \A q \in Procs \ {p} : pass'[q] = pass[q] BY DEF Step, IInv, TypeOK
<1>2. OwnWork' BY OwnWorkStep
<1>3. OneScheduledPerDay' BY KeepDays DEF IInv
<1>4. StatusIsReal' BY DEF StatusIsReal, Outcome, HasAny
<1>5. RunningIsPending'
  <2> SUFFICES ASSUME NEW d \in Ids, deliveries'[d].status = "RUNNING"
               PROVE  \/ HasAny(deliveries'[d].rcp, "PENDING")
                      \/ \E q \in Procs : d \in pass'[q].swept
                      \/ d \in orphans'
    BY DEF RunningIsPending, HasAny
  <2> QED BY <1>1
<1>6. SweptAtFinish' BY <1>1 DEF IInv, SweptAtFinish
<1>7. FileMeansDelivered' BY DEF FileMeansDelivered
<1> QED BY <1>2, <1>3, <1>4, <1>5, <1>6, <1>7 DEF IInv

LEMMA SweepSafe ==
    ASSUME IInv, TypeOK', NEW p \in Procs, SweepPending(p)
    PROVE  IInv'
<1> DEFINE x == [NoPass EXCEPT !.pc = "finish", !.tick = now,
                               !.swept = {d \in Ids : \E r \in Recipients : Interrupted(d, r)}]
<1>1. Step(p, x) /\ pass[p].pc = "idle" /\ orphans' = orphans BY DEF SweepPending
<1>2. /\ x \in PassRow /\ x.pc = "finish"
      /\ x.swept = {d \in Ids : \E r \in Recipients : Interrupted(d, r)}
  BY NoPassType DEF IInv, TypeOK, PassRow, NoPass
<1>3. /\ Ids' = Ids
      /\ \A d \in Ids :
           /\ deliveries'[d].status = deliveries[d].status
           /\ deliveries'[d].trigger = deliveries[d].trigger
           /\ deliveries'[d].day = deliveries[d].day
           /\ \A r \in Recipients :
                deliveries'[d].rcp[r] = IF Interrupted(d, r)
                                        THEN [deliveries[d].rcp[r] EXCEPT !.status = "FAILED"]
                                        ELSE deliveries[d].rcp[r]
  BY SweepEffect DEF IInv
<1>4. ASSUME NEW d \in Ids, NEW r \in Recipients
      PROVE  /\ deliveries'[d].rcp[r].file = deliveries[d].rcp[r].file
             /\ deliveries'[d].rcp[r].status = IF Interrupted(d, r) THEN "FAILED"
                                               ELSE deliveries[d].rcp[r].status
  <2>1. deliveries[d].rcp[r] \in RecipientRow BY IdRange DEF IInv, TypeOK, DeliveryRow
  <2> QED BY <1>3, <2>1 DEF RecipientRow
<1>5. \A d \in Ids, r \in Recipients : Interrupted(d, r) => deliveries[d].rcp[r].status = "PENDING"
  BY DEF Interrupted
<1> HIDE DEF x
<1>6. ASSUME NEW d \in Ids
      PROVE  deliveries'[d].status \in {"RUNNING", Outcome(deliveries'[d].rcp)}
  <2>1. CASE \E r \in Recipients : Interrupted(d, r)
    <3>1. HasAny(deliveries[d].rcp, "PENDING") BY <1>5, <2>1 DEF HasAny
    <3>2. deliveries[d].status = "RUNNING" BY <3>1, OutcomeStatus DEF IInv, StatusIsReal
    <3> QED BY <1>3, <3>2
  <2>2. CASE ~\E r \in Recipients : Interrupted(d, r)
    <3>1. Outcome(deliveries'[d].rcp) = Outcome(deliveries[d].rcp)
      BY <1>4, <2>2, OutcomeOfStatuses
    <3> QED BY <1>3, <3>1 DEF IInv, StatusIsReal
  <2> QED BY <2>1, <2>2
<1>7. ASSUME NEW d \in Ids, deliveries'[d].status = "RUNNING"
      PROVE  \/ HasAny(deliveries'[d].rcp, "PENDING")
             \/ d \in x.swept
             \/ \E q \in Procs \ {p} : d \in pass[q].swept
             \/ d \in orphans'
  <2>1. pass[p].swept = {} BY <1>1 DEF IInv, SweptAtFinish
  <2>2. CASE HasAny(deliveries[d].rcp, "PENDING")
    <3>1. PICK r \in Recipients : deliveries[d].rcp[r].status = "PENDING" BY <2>2 DEF HasAny
    <3> QED BY <1>2, <1>4, <3>1 DEF HasAny
  <2> QED BY <1>1, <1>3, <1>7, <2>1, <2>2 DEF IInv, RunningIsPending
<1>8. ASSUME NEW d \in Ids, NEW r \in Recipients
      PROVE  /\ deliveries'[d].rcp[r].file => deliveries'[d].rcp[r].status = "DELIVERED"
             /\ deliveries[d].rcp[r].status \in {"PENDING", "FAILED"} =>
                   deliveries'[d].rcp[r].status \in {"PENDING", "FAILED"}
  BY <1>4, <1>5 DEF IInv, FileMeansDelivered
<1>9. ~Producing(x) /\ x.pc # "store" BY <1>2 DEF Producing
<1> QED BY <1>1, <1>2, <1>3, <1>6, <1>7, <1>8, <1>9, KeepSafe

LEMMA FinishSafe ==
    ASSUME IInv, TypeOK', NEW p \in Procs, FinishSwept(p)
    PROVE  IInv'
<1>1. PICK d \in pass[p].swept :
          /\ deliveries' = [deliveries EXCEPT ![d] = Finish(@)]
          /\ Step(p, [pass[p] EXCEPT !.swept = @ \ {d}])
          /\ orphans' = orphans
  BY DEF FinishSwept
<1> DEFINE x == [pass[p] EXCEPT !.swept = @ \ {d}]
<1>2. pass[p] \in PassRow BY DEF IInv, TypeOK
<1>3. d \in Ids BY <1>2 DEF PassRow
<1>4. x \in PassRow /\ x.pc = "finish" /\ x.swept = pass[p].swept \ {d}
  BY <1>2 DEF PassRow, FinishSwept
<1>5. Step(p, x) BY <1>1
<1> HIDE DEF x
<1>6. /\ Ids' = Ids
      /\ \A e \in Ids : /\ deliveries'[e].rcp = deliveries[e].rcp
                        /\ deliveries'[e].trigger = deliveries[e].trigger
                        /\ deliveries'[e].day = deliveries[e].day
      /\ \A e \in Ids \ {d} : deliveries'[e].status = deliveries[e].status
      /\ deliveries'[d].status = Outcome(deliveries'[d].rcp)
  BY <1>1, <1>3, FinishEffect DEF IInv
<1>7. \A e \in Ids : deliveries'[e].status \in {"RUNNING", Outcome(deliveries'[e].rcp)}
  BY <1>6 DEF IInv, StatusIsReal
<1>8. ASSUME NEW e \in Ids, deliveries'[e].status = "RUNNING"
      PROVE  \/ HasAny(deliveries'[e].rcp, "PENDING")
             \/ e \in x.swept
             \/ \E q \in Procs \ {p} : e \in pass[q].swept
             \/ e \in orphans'
  <2>1. CASE e = d BY <1>6, <1>8, <2>1, OutcomeStatus
  <2>2. CASE e # d BY <1>1, <1>4, <1>6, <1>8, <2>2 DEF IInv, RunningIsPending
  <2> QED BY <2>1, <2>2
<1>9. \A e \in Ids, r \in Recipients :
         /\ deliveries'[e].rcp[r].file => deliveries'[e].rcp[r].status = "DELIVERED"
         /\ deliveries[e].rcp[r].status \in {"PENDING", "FAILED"} =>
               deliveries'[e].rcp[r].status \in {"PENDING", "FAILED"}
  BY <1>6 DEF IInv, FileMeansDelivered
<1>10. ~Producing(x) /\ x.pc # "store" BY <1>4 DEF Producing
<1> QED BY <1>4, <1>5, <1>6, <1>7, <1>8, <1>9, <1>10, KeepSafe

LEMMA PurgeSafe ==
    ASSUME IInv, TypeOK', NEW p \in Procs, PurgeAndSelect(p)
    PROVE  IInv'
<1>1. PICK x \in {NoPass, [pass[p] EXCEPT !.pc = "start"]} : Step(p, x)
  BY DEF PurgeAndSelect
<1>2. pass[p] \in PassRow /\ pass[p].swept = {} /\ orphans' = orphans
  BY DEF PurgeAndSelect, IInv, TypeOK
<1>3. x \in PassRow /\ x.swept = {} /\ ~Producing(x) /\ x.pc # "store"
  BY <1>1, <1>2, NoPassType DEF PassRow, Producing
<1>4. /\ Ids' = Ids
      /\ \A d \in Ids :
           /\ deliveries'[d].status = deliveries[d].status
           /\ deliveries'[d].trigger = deliveries[d].trigger
           /\ deliveries'[d].day = deliveries[d].day
           /\ \A r \in Recipients :
                \/ deliveries'[d].rcp[r] = deliveries[d].rcp[r]
                \/ /\ deliveries[d].rcp[r].file
                   /\ deliveries'[d].rcp[r] = [deliveries[d].rcp[r] EXCEPT !.file = FALSE]
  BY PurgeEffect DEF IInv
<1>5. ASSUME NEW d \in Ids, NEW r \in Recipients
      PROVE  /\ deliveries'[d].rcp[r].status = deliveries[d].rcp[r].status
             /\ deliveries'[d].rcp[r].file => deliveries[d].rcp[r].file
  <2>1. deliveries[d].rcp[r] \in RecipientRow BY IdRange DEF IInv, TypeOK, DeliveryRow
  <2>2. CASE deliveries'[d].rcp[r] = deliveries[d].rcp[r] BY <2>2
  <2>3. CASE /\ deliveries[d].rcp[r].file
             /\ deliveries'[d].rcp[r] = [deliveries[d].rcp[r] EXCEPT !.file = FALSE]
    BY <2>1, <2>3 DEF RecipientRow
  <2> QED BY <1>4, <2>2, <2>3
<1>6. \A d \in Ids : /\ Outcome(deliveries'[d].rcp) = Outcome(deliveries[d].rcp)
                     /\ HasAny(deliveries'[d].rcp, "PENDING") <=> HasAny(deliveries[d].rcp, "PENDING")
  BY <1>5, OutcomeOfStatuses
<1>7. \A d \in Ids : deliveries'[d].status \in {"RUNNING", Outcome(deliveries'[d].rcp)}
  BY <1>4, <1>6 DEF IInv, StatusIsReal
<1>8. \A d \in Ids : deliveries'[d].status = "RUNNING" =>
         \/ HasAny(deliveries'[d].rcp, "PENDING")
         \/ d \in x.swept
         \/ \E q \in Procs \ {p} : d \in pass[q].swept
         \/ d \in orphans'
  BY <1>2, <1>4, <1>6 DEF IInv, RunningIsPending
<1>9. \A d \in Ids, r \in Recipients :
         /\ deliveries'[d].rcp[r].file => deliveries'[d].rcp[r].status = "DELIVERED"
         /\ deliveries[d].rcp[r].status \in {"PENDING", "FAILED"} =>
               deliveries'[d].rcp[r].status \in {"PENDING", "FAILED"}
  BY <1>5 DEF IInv, FileMeansDelivered
<1> QED BY <1>1, <1>3, <1>4, <1>7, <1>8, <1>9, KeepSafe

\* Steps of a pass that write no delivery.
LEMMA IdleSafe ==
    ASSUME IInv, TypeOK', NEW p \in Procs, NEW x \in PassRow, Step(p, x), UNCHANGED deliveries,
           orphans \subseteq orphans', pass[p].swept \subseteq orphans' \cup x.swept,
           x.pc # "finish" => x.swept = {},
           Producing(x) => /\ Producing(pass[p]) /\ x.delivery = pass[p].delivery
                           /\ InWork(x) \subseteq InWork(pass[p]),
           x.pc = "store" => x.result[1] \notin x.todo
    PROVE  IInv'
<1>1. Ids' = Ids BY DEF Ids
<1>2. \A d \in Ids : deliveries'[d].status \in {"RUNNING", Outcome(deliveries'[d].rcp)}
  BY DEF IInv, StatusIsReal
<1>3. \A d \in Ids : deliveries'[d].status = "RUNNING" =>
         \/ HasAny(deliveries'[d].rcp, "PENDING")
         \/ d \in x.swept
         \/ \E q \in Procs \ {p} : d \in pass[q].swept
         \/ d \in orphans'
  BY DEF IInv, RunningIsPending
<1>4. \A d \in Ids, r \in Recipients :
         deliveries'[d].rcp[r].file => deliveries'[d].rcp[r].status = "DELIVERED"
  BY DEF IInv, FileMeansDelivered
<1>5. Producing(x) =>
         \A r \in InWork(x) : deliveries'[x.delivery].rcp[r].status \in {"PENDING", "FAILED"}
  BY DEF IInv, OwnWork
<1> QED BY <1>1, <1>2, <1>3, <1>4, <1>5, KeepSafe

LEMMA ProduceSafe ==
    ASSUME IInv, TypeOK', NEW p \in Procs, Produce(p)
    PROVE  IInv'
<1>1. PICK r \in pass[p].todo, result \in {"DELIVERED", "FAILED"} :
          \/ Step(p, [pass[p] EXCEPT !.pc = "store", !.todo = @ \ {r}, !.result = <<r, result>>])
          \/ Step(p, [pass[p] EXCEPT !.todo = @ \ {r}])
  BY DEF Produce
<1>2. /\ pass[p] \in PassRow /\ pass[p].pc = "produce" /\ Producing(pass[p])
      /\ deliveries' = deliveries /\ orphans' = orphans /\ pass[p].swept = {}
  BY DEF Produce, Producing, IInv, TypeOK, SweptAtFinish
<1>3. CASE Step(p, [pass[p] EXCEPT !.todo = @ \ {r}])
  <2> DEFINE x == [pass[p] EXCEPT !.todo = @ \ {r}]
  <2>1. /\ x \in PassRow /\ x.pc = "produce" /\ x.delivery = pass[p].delivery
        /\ x.todo = pass[p].todo \ {r} /\ x.swept = pass[p].swept
    BY <1>2 DEF PassRow
  <2>2. Step(p, x) BY <1>3
  <2> HIDE DEF x
  <2>3. InWork(x) \subseteq InWork(pass[p]) BY <2>1 DEF InWork
  <2> QED BY <1>2, <2>1, <2>2, <2>3, IdleSafe
<1>4. CASE Step(p, [pass[p] EXCEPT !.pc = "store", !.todo = @ \ {r}, !.result = <<r, result>>])
  <2> DEFINE x == [pass[p] EXCEPT !.pc = "store", !.todo = @ \ {r}, !.result = <<r, result>>]
  <2>1. r \in Recipients BY <1>2 DEF PassRow
  <2>2. <<r, result>> \in Recipients \X {"DELIVERED", "FAILED"} BY <2>1
  <2>3. /\ x.pc = "store" /\ x.tick = pass[p].tick /\ x.swept = pass[p].swept
        /\ x.delivery = pass[p].delivery /\ x.todo = pass[p].todo \ {r}
        /\ x.result = <<r, result>>
    BY <1>2 DEF PassRow
  <2>4. x \in PassRow BY <1>2, <2>2, <2>3 DEF PassRow
  <2>5. Step(p, x) BY <1>4
  <2> HIDE DEF x
  <2>6. x.result[1] = r BY <2>3
  <2>7. InWork(x) \subseteq InWork(pass[p]) BY <2>3, <2>6 DEF InWork
  <2> QED BY <1>2, <2>3, <2>4, <2>5, <2>6, <2>7, IdleSafe
<1> QED BY <1>1, <1>3, <1>4

LEMMA StoreSafe ==
    ASSUME IInv, TypeOK', NEW p \in Procs, StoreResult(p)
    PROVE  IInv'
<1> DEFINE x == [pass[p] EXCEPT !.pc = "produce", !.result = <<>>]
           d == pass[p].delivery
           r == pass[p].result[1]
<1>1. Step(p, x) /\ orphans' = orphans /\ pass[p].pc = "store" BY DEF StoreResult
<1>2. pass[p] \in PassRow /\ Producing(pass[p]) /\ pass[p].swept = {}
  BY <1>1 DEF IInv, TypeOK, Producing, SweptAtFinish
<1>3. /\ x \in PassRow /\ x.pc = "produce" /\ x.delivery = d /\ x.todo = pass[p].todo
      /\ x.swept = {}
  BY <1>2 DEF PassRow
<1> HIDE DEF x
<1>4. /\ Ids' = Ids /\ d \in Ids /\ r \in Recipients
      /\ pass[p].result[2] \in {"DELIVERED", "FAILED"}
      /\ \A e \in Ids : /\ deliveries'[e].trigger = deliveries[e].trigger
                        /\ deliveries'[e].day = deliveries[e].day
                        /\ \A s \in Recipients :
                             deliveries'[e].rcp[s] = IF e = d /\ s = r THEN Result(pass[p].result[2])
                                                     ELSE deliveries[e].rcp[s]
      /\ \A e \in Ids \ {d} : deliveries'[e] = deliveries[e]
      /\ deliveries'[d].status = Outcome(deliveries'[d].rcp)
  BY StoreEffect DEF IInv
<1>5. Result(pass[p].result[2]).file => Result(pass[p].result[2]).status = "DELIVERED"
  BY DEF Result
<1> HIDE DEF d, r
<1>6. \A e \in Ids : deliveries'[e].status \in {"RUNNING", Outcome(deliveries'[e].rcp)}
  BY <1>4 DEF IInv, StatusIsReal
<1>7. ASSUME NEW e \in Ids, deliveries'[e].status = "RUNNING"
      PROVE  \/ HasAny(deliveries'[e].rcp, "PENDING")
             \/ e \in x.swept
             \/ \E q \in Procs \ {p} : e \in pass[q].swept
             \/ e \in orphans'
  <2>1. CASE e = d BY <1>4, <1>7, <2>1, OutcomeStatus
  <2>2. CASE e # d
    <3>1. deliveries'[e] = deliveries[e] BY <1>4, <2>2
    <3> QED BY <1>1, <1>2, <1>7, <3>1 DEF IInv, RunningIsPending
  <2> QED BY <2>1, <2>2
<1>8. ASSUME NEW e \in Ids, NEW s \in Recipients
      PROVE  /\ deliveries'[e].rcp[s].file => deliveries'[e].rcp[s].status = "DELIVERED"
             /\ deliveries[e].rcp[s].status \in {"PENDING", "FAILED"} =>
                   \/ deliveries'[e].rcp[s].status \in {"PENDING", "FAILED"}
                   \/ Producing(pass[p]) /\ e = pass[p].delivery
  <2>1. CASE e = d /\ s = r BY <1>2, <1>4, <1>5, <2>1 DEF d
  <2>2. CASE ~(e = d /\ s = r)
    <3>1. deliveries'[e].rcp[s] = deliveries[e].rcp[s] BY <1>4, <2>2
    <3> QED BY <3>1 DEF IInv, FileMeansDelivered
  <2> QED BY <2>1, <2>2
<1>9. ASSUME NEW s \in InWork(x)
      PROVE  deliveries'[x.delivery].rcp[s].status \in {"PENDING", "FAILED"}
  <2>1. s \in pass[p].todo /\ s \in InWork(pass[p]) BY <1>3 DEF InWork
  <2>2. s # r BY <1>1, <2>1 DEF IInv, OwnWork, r
  <2>3. s \in Recipients BY <1>2, <2>1 DEF PassRow
  <2>4. deliveries'[d].rcp[s] = deliveries[d].rcp[s] BY <1>4, <2>2, <2>3
  <2> QED BY <1>2, <1>3, <2>1, <2>4 DEF IInv, OwnWork, d
<1> QED BY <1>1, <1>2, <1>3, <1>4, <1>6, <1>7, <1>8, <1>9, KeepSafe DEF d

LEMMA StartDays ==
    ASSUME OneScheduledPerDay, NEW d, Ids' = Ids \cup {d},
           \A e \in Ids : deliveries'[e] = deliveries[e],
           \A e \in Ids : deliveries'[d].trigger = "SCHEDULED" /\ deliveries'[e].trigger = "SCHEDULED"
                         => deliveries'[d].day # deliveries'[e].day
    PROVE  OneScheduledPerDay'
<1>1. ASSUME NEW e \in Ids', NEW f \in Ids',
             {deliveries'[e].trigger, deliveries'[f].trigger} = {"SCHEDULED"},
             deliveries'[e].day = deliveries'[f].day
      PROVE  e = f
  <2>1. deliveries'[e].trigger = "SCHEDULED" /\ deliveries'[f].trigger = "SCHEDULED" BY <1>1
  <2>2. CASE e \in Ids /\ f \in Ids BY <1>1, <2>2 DEF OneScheduledPerDay
  <2>3. CASE e \notin Ids \/ f \notin Ids BY <1>1, <2>1, <2>3
  <2> QED BY <2>2, <2>3
<1> QED BY <1>1 DEF OneScheduledPerDay

\* A new delivery: the run date is free, every allowed recipient is pending.
LEMMA StartSafe ==
    ASSUME IInv, TypeOK', NEW p \in Procs, StartDelivery(p)
    PROVE  IInv'
<1>1. pass[p].pc = "start" /\ pass[p].swept = {} /\ orphans' = orphans /\ pass[p] \in PassRow
  BY DEF StartDelivery, IInv, SweptAtFinish, TypeOK
<1>2. CASE Step(p, NoPass) /\ UNCHANGED deliveries
  <2>1. ~Producing(NoPass) /\ NoPass.pc # "store" BY NoPassType DEF Producing
  <2> QED BY <1>1, <1>2, <2>1, NoPassType, IdleSafe
<1>3. ASSUME ~RunDateTaken(p), NEW allowed \in SUBSET Recipients,
             deliveries' = Append(deliveries, NewDelivery(p, allowed)),
             Step(p, [NoPass EXCEPT !.pc = "produce", !.delivery = Len(deliveries) + 1,
                                    !.todo = allowed])
      PROVE  IInv'
  <2>1. PICK d : d = Len(deliveries) + 1 OBVIOUS
  <2> DEFINE x == [NoPass EXCEPT !.pc = "produce", !.delivery = d, !.todo = allowed]
  <2>2. /\ Ids' = Ids \cup {d} /\ d \notin Ids /\ d \in Nat
        /\ \A e \in Ids : deliveries'[e] = deliveries[e]
        /\ deliveries'[d].trigger = "SCHEDULED" => p \notin Users
        /\ deliveries'[d].day = Day(pass[p].tick)
        /\ deliveries'[d].status = Outcome(deliveries'[d].rcp)
        /\ \A r \in Recipients : ~deliveries'[d].rcp[r].file
        /\ \A r \in allowed : deliveries'[d].rcp[r].status = "PENDING"
    <3>1. TypeOK BY DEF IInv
    <3>2. deliveries' = Append(deliveries, NewDelivery(p, allowed)) BY <1>3
    <3> HIDE DEF x
    <3>3. d = Len(deliveries) + 1 BY <2>1
    <3>4. Ids' = Ids \cup {d} /\ d \notin Ids /\ d \in Nat BY <3>1, <3>2, <3>3, StartEffect
    <3>5. \A e \in Ids : deliveries'[e] = deliveries[e] BY <3>1, <3>2, <3>3, StartEffect
    <3>6. /\ deliveries'[d].trigger = "SCHEDULED" => p \notin Users
          /\ deliveries'[d].day = Day(pass[p].tick)
          /\ deliveries'[d].status = Outcome(deliveries'[d].rcp)
      BY <3>1, <3>2, <3>3, StartEffect
    <3>7. /\ \A r \in Recipients : ~deliveries'[d].rcp[r].file
          /\ \A r \in allowed : deliveries'[d].rcp[r].status = "PENDING"
      BY <3>1, <3>2, <3>3, StartEffect
    <3> QED BY <3>4, <3>5, <3>6, <3>7
  <2>3. /\ x \in PassRow /\ x.pc = "produce" /\ x.delivery = d /\ x.todo = allowed
        /\ x.swept = {}
    BY <2>2, NoPassType DEF NoPass, PassRow
  <2>4. Step(p, x) BY <1>3, <2>1
  <2> HIDE DEF x
  <2>5. pass'[p] = x /\ \A q \in Procs \ {p} : pass'[q] = pass[q] BY <2>4 DEF Step, IInv, TypeOK
  <2>6. OneScheduledPerDay'
    <3>1. \A e \in Ids : deliveries'[d].trigger = "SCHEDULED" /\ deliveries'[e].trigger = "SCHEDULED"
                         => deliveries'[d].day # deliveries'[e].day
      BY <1>3, <2>2 DEF RunDateTaken, DeliveredOn, Procs
    <3>2. OneScheduledPerDay BY DEF IInv
    <3> QED BY ONLY <2>2, <3>1, <3>2, StartDays
  <2>7. StatusIsReal' BY <2>2 DEF IInv, StatusIsReal, Outcome, HasAny
  <2>8. RunningIsPending'
    <3>1. HasAny(deliveries'[d].rcp, "PENDING") \/ deliveries'[d].status # "RUNNING"
      BY <2>2, OutcomeStatus
    <3>2. ASSUME NEW e \in Ids, deliveries[e].status = "RUNNING"
          PROVE  \/ HasAny(deliveries[e].rcp, "PENDING")
                 \/ \E q \in Procs : e \in pass'[q].swept
                 \/ e \in orphans'
      BY <1>1, <2>5, <3>2 DEF IInv, RunningIsPending
    <3> QED BY <2>2, <3>1, <3>2 DEF RunningIsPending, HasAny
  <2>9. SweptAtFinish' BY <2>3, <2>5 DEF IInv, SweptAtFinish
  <2>10. OwnWork'
    <3>1. Producing(x) =>
              /\ x.delivery \notin Ids
              /\ \A r \in InWork(x) : deliveries'[x.delivery].rcp[r].status \in {"PENDING", "FAILED"}
      BY <2>2, <2>3 DEF InWork
    <3> QED BY <2>2, <2>3, <2>4, <3>1, OwnWorkStep
  <2>11. FileMeansDelivered' BY <2>2 DEF IInv, FileMeansDelivered
  <2> QED BY <2>6, <2>7, <2>8, <2>9, <2>10, <2>11 DEF IInv
<1> QED BY <1>2, <1>3 DEF StartDelivery

LEMMA EndSafe ==
    ASSUME IInv, TypeOK', NEW p \in Procs, StoreLost(p) \/ EndPass(p) \/ Interrupt(p)
    PROVE  IInv'
<1>1. pass[p] \in PassRow /\ (pass[p].pc # "finish" => pass[p].swept = {})
  BY DEF IInv, TypeOK, SweptAtFinish
<1>2. CASE StoreLost(p)
  <2> DEFINE x == [pass[p] EXCEPT !.pc = "produce", !.result = <<>>]
  <2>1. /\ Step(p, x) /\ UNCHANGED deliveries /\ orphans' = orphans /\ pass[p].pc = "store"
        /\ Producing(pass[p])
    BY <1>2 DEF StoreLost, Producing
  <2>2. /\ x \in PassRow /\ x.pc = "produce" /\ x.delivery = pass[p].delivery
        /\ x.todo = pass[p].todo /\ x.swept = pass[p].swept
    BY <1>1 DEF PassRow
  <2> HIDE DEF x
  <2>3. InWork(x) \subseteq InWork(pass[p]) BY <2>2 DEF InWork
  <2> QED BY <1>1, <2>1, <2>2, <2>3, IdleSafe
<1>3. CASE EndPass(p) \/ Interrupt(p)
  <2>1. /\ Step(p, NoPass) /\ UNCHANGED deliveries /\ orphans \subseteq orphans'
        /\ pass[p].swept \subseteq orphans'
    BY <1>1, <1>3 DEF EndPass, Interrupt
  <2>2. ~Producing(NoPass) /\ NoPass.pc # "store" BY NoPassType DEF Producing
  <2> QED BY <2>1, <2>2, NoPassType, IdleSafe
<1> QED BY <1>2, <1>3

LEMMA InvInit == Init => IInv
<1> SUFFICES ASSUME Init PROVE IInv OBVIOUS
<1>1. TypeOK BY TypeInit
<1>2. Ids = {} BY DEF Init, Ids
<1>3. \A p \in Procs : pass[p].swept = {} /\ pass[p].pc = "idle" BY NoPassType DEF Init
<1>4. OneScheduledPerDay /\ StatusIsReal /\ RunningIsPending /\ FileMeansDelivered
  BY <1>2 DEF OneScheduledPerDay, StatusIsReal, RunningIsPending, FileMeansDelivered
<1>5. SweptAtFinish /\ OwnWork BY <1>3 DEF SweptAtFinish, OwnWork, Producing
<1> QED BY <1>1, <1>4, <1>5 DEF IInv

LEMMA InvStep == IInv /\ [Next]_vars => IInv'
<1> SUFFICES ASSUME IInv, [Next]_vars PROVE IInv' OBVIOUS
<1>1. TypeOK' BY TypeStep DEF IInv
<1>2. ASSUME NEW p \in Procs, Pass(p) \/ StoreLost(p) \/ Interrupt(p) PROVE IInv'
  BY <1>1, <1>2, SweepSafe, FinishSafe, PurgeSafe, StartSafe, ProduceSafe, StoreSafe, EndSafe DEF Pass
<1>3. CASE UNCHANGED <<deliveries, pass, orphans>>
  BY <1>1, <1>3 DEF IInv, OneScheduledPerDay, StatusIsReal, RunningIsPending, SweptAtFinish, OwnWork,
                    FileMeansDelivered, Ids, Producing, InWork, Outcome, HasAny
<1> QED BY <1>2, <1>3 DEF Next, SaveSchedule, Tick, vars

\* Passes of several processes, edits and reactivations of the schedule start
\* one scheduled delivery a day: the check of the pass and the unique index.
THEOREM OneScheduled == Spec => []OneScheduledPerDay
<1>1. IInv => OneScheduledPerDay BY DEF IInv
<1> QED BY <1>1, InvInit, InvStep, PTL DEF Spec

\* A delivery that shows a result shows that of its recipients, though the sweep
\* and a slow pass write it in any order.
THEOREM StatusHolds == Spec => []StatusIsReal
<1>1. IInv => StatusIsReal BY DEF IInv
<1> QED BY <1>1, InvInit, InvStep, PTL DEF Spec

\* A delivery stays RUNNING without a pending recipient only after a sweep that
\* is not over or was interrupted.
THEOREM RunningHolds == Spec => []RunningIsPending
<1>1. IInv => RunningIsPending BY DEF IInv
<1> QED BY <1>1, InvInit, InvStep, PTL DEF Spec

-----------------------------------------------------------------------------
(* Results over time *)

\* A store that is overtaken by the sweep is late: between its check and its
\* UPDATE the recipient is pending as long as the delivery is younger than the
\* six hours.
OvertakenIsLate ==
    \A p \in Procs : pass[p].pc = "store" =>
        \/ deliveries[pass[p].delivery].rcp[pass[p].result[1]].status = "PENDING"
        \/ Stale(pass[p].delivery)

\* A delivery started when it started, and time does not go back.
LEMMA StartedStep ==
    ASSUME IInv, [Next]_vars, NEW d \in Ids
    PROVE  /\ deliveries'[d].started = deliveries[d].started
           /\ Stale(d) => Stale(d)'
<1>1. deliveries'[d].started = deliveries[d].started
  <2>1. ASSUME NEW p \in Procs, FinishSwept(p) PROVE deliveries'[d].started = deliveries[d].started
    <3>1. PICK e \in pass[p].swept : deliveries' = [deliveries EXCEPT ![e] = Finish(@)]
      BY <2>1 DEF FinishSwept
    <3>2. e \in Ids BY DEF IInv, TypeOK, PassRow
    <3> QED BY <3>1, <3>2, FinishEffect DEF IInv
  <2>2. ASSUME NEW p \in Procs, StartDelivery(p) PROVE deliveries'[d] = deliveries[d]
    <3>1. CASE UNCHANGED deliveries BY <3>1
    <3>2. ASSUME NEW allowed \in SUBSET Recipients,
                 deliveries' = Append(deliveries, NewDelivery(p, allowed))
          PROVE  deliveries'[d] = deliveries[d]
      <4>1. TypeOK BY DEF IInv
      <4>2. PICK e : e = Len(deliveries) + 1 OBVIOUS
      <4> QED BY <3>2, <4>1, <4>2, StartEffect
    <3> QED BY <2>2, <3>1, <3>2 DEF StartDelivery
  <2>3. ASSUME NEW p \in Procs, SweepPending(p) PROVE deliveries'[d].started = deliveries[d].started
    BY <2>3, SweepEffect DEF IInv
  <2>4. ASSUME NEW p \in Procs, PurgeAndSelect(p) PROVE deliveries'[d].started = deliveries[d].started
    BY <2>4, PurgeEffect DEF IInv
  <2>5. ASSUME NEW p \in Procs, StoreResult(p) PROVE deliveries'[d].started = deliveries[d].started
    BY <2>5, StoreEffect DEF IInv
  <2>6. \/ \E p \in Procs : \/ SweepPending(p) \/ FinishSwept(p) \/ PurgeAndSelect(p)
                            \/ StartDelivery(p) \/ StoreResult(p)
        \/ UNCHANGED deliveries
    BY DEF Next, Pass, Produce, EndPass, StoreLost, Interrupt, SaveSchedule, Tick, vars
  <2> QED BY <2>1, <2>2, <2>3, <2>4, <2>5, <2>6
<1>2. now' = now \/ now' = now + 1
  BY DEF Next, Pass, SweepPending, FinishSwept, PurgeAndSelect, StartDelivery, Produce, StoreResult,
         EndPass, StoreLost, Interrupt, SaveSchedule, Tick, vars
<1>3. now \in Nat /\ deliveries[d].started \in Nat
  BY IdRange, DeliveryAssumption DEF IInv, TypeOK, DeliveryRow
<1> QED BY <1>1, <1>2, <1>3 DEF Stale

\* What a step may do to the result of a recipient.
KeepsResult(d, r) ==
    LET old == deliveries[d].rcp[r]
        new == deliveries'[d].rcp[r]
    IN old.status # "PENDING" /\ new # old =>
          \/ new = [old EXCEPT !.file = FALSE]
          \/ /\ old.status = "FAILED" /\ Stale(d)
             /\ \E p \in Procs : /\ pass[p].pc = "store" /\ pass[p].delivery = d
                                 /\ pass[p].result[1] = r

\* And to a recipient who is pending: the sweep fails him late, and otherwise
\* only the store of the pass that produces for him.
LeavesPending(d, r) ==
    LET old == deliveries[d].rcp[r]
        new == deliveries'[d].rcp[r]
    IN old.status = "PENDING" =>
          \/ new.status = "PENDING" \/ Stale(d)
          \/ \E p \in Procs : StoreResult(p) /\ pass[p].delivery = d /\ pass[p].result[1] = r

LEMMA FinalStep ==
    ASSUME IInv, OvertakenIsLate, [Next]_vars, NEW d \in Ids, NEW r \in Recipients
    PROVE  KeepsResult(d, r) /\ LeavesPending(d, r)
<1> DEFINE old == deliveries[d].rcp[r]
           new == deliveries'[d].rcp[r]
<1>1. old \in RecipientRow BY IdRange DEF IInv, TypeOK, DeliveryRow
<1>2. CASE new = old BY <1>2 DEF KeepsResult, LeavesPending
<1>3. ASSUME NEW p \in Procs, SweepPending(p) PROVE KeepsResult(d, r) /\ LeavesPending(d, r)
  <2>1. CASE Interrupted(d, r)
    <3>1. old.status = "PENDING" /\ Stale(d) BY <2>1 DEF Interrupted
    <3> QED BY <3>1 DEF KeepsResult, LeavesPending
  <2>2. CASE ~Interrupted(d, r) BY <1>2, <1>3, <2>2, SweepEffect DEF IInv
  <2> QED BY <2>1, <2>2
<1>4. ASSUME NEW p \in Procs, FinishSwept(p) PROVE KeepsResult(d, r) /\ LeavesPending(d, r)
  <2>1. PICK e \in pass[p].swept : deliveries' = [deliveries EXCEPT ![e] = Finish(@)]
    BY <1>4 DEF FinishSwept
  <2>2. e \in Ids BY DEF IInv, TypeOK, PassRow
  <2> QED BY <1>2, <2>1, <2>2, FinishEffect DEF IInv
<1>5. ASSUME NEW p \in Procs, PurgeAndSelect(p) PROVE KeepsResult(d, r) /\ LeavesPending(d, r)
  <2>1. CASE new = [old EXCEPT !.file = FALSE]
    <3>1. new.status = old.status BY <1>1, <2>1 DEF RecipientRow
    <3> QED BY <2>1, <3>1 DEF KeepsResult, LeavesPending
  <2> QED BY <1>2, <1>5, <2>1, PurgeEffect DEF IInv
<1>6. ASSUME NEW p \in Procs, StartDelivery(p) PROVE KeepsResult(d, r) /\ LeavesPending(d, r)
  <2>1. CASE UNCHANGED deliveries BY <1>2, <2>1
  <2>2. ASSUME NEW allowed \in SUBSET Recipients,
               deliveries' = Append(deliveries, NewDelivery(p, allowed))
        PROVE  new = old
    <3>1. TypeOK BY DEF IInv
    <3>2. PICK e : e = Len(deliveries) + 1 OBVIOUS
    <3> QED BY <2>2, <3>1, <3>2, StartEffect
  <2> QED BY <1>2, <1>6, <2>1, <2>2 DEF StartDelivery
<1>7. ASSUME NEW p \in Procs, StoreResult(p) PROVE KeepsResult(d, r) /\ LeavesPending(d, r)
  <2>1. CASE d = pass[p].delivery /\ r = pass[p].result[1]
    <3>1. pass[p].pc = "store" /\ r \in InWork(pass[p]) /\ Producing(pass[p])
      BY <1>7, <2>1 DEF StoreResult, InWork, Producing
    <3>2. old.status \in {"PENDING", "FAILED"} BY <2>1, <3>1 DEF IInv, OwnWork
    <3>3. old.status = "PENDING" \/ Stale(d) BY <2>1, <3>1 DEF OvertakenIsLate
    <3>4. KeepsResult(d, r) BY <2>1, <3>1, <3>2, <3>3 DEF KeepsResult
    <3>5. LeavesPending(d, r) BY <1>7, <2>1 DEF LeavesPending
    <3> QED BY <3>4, <3>5
  <2>2. CASE ~(d = pass[p].delivery /\ r = pass[p].result[1])
    BY <1>2, <1>7, <2>2, StoreEffect DEF IInv
  <2> QED BY <2>1, <2>2
<1>8. CASE UNCHANGED deliveries BY <1>2, <1>8
<1>9. \/ \E p \in Procs : \/ SweepPending(p) \/ FinishSwept(p) \/ PurgeAndSelect(p)
                          \/ StartDelivery(p) \/ StoreResult(p)
      \/ UNCHANGED deliveries
  BY DEF Next, Pass, Produce, EndPass, StoreLost, Interrupt, SaveSchedule, Tick, vars
<1> QED BY <1>3, <1>4, <1>5, <1>6, <1>7, <1>8, <1>9

\* Only Produce brings a pass to its store, with a recipient it finds pending.
LEMMA StoringStep ==
    ASSUME IInv, [Next]_vars, NEW p \in Procs, pass'[p].pc = "store"
    PROVE  \/ pass'[p] = pass[p]
           \/ /\ UNCHANGED <<deliveries, now>>
              /\ deliveries[pass'[p].delivery].rcp[pass'[p].result[1]].status = "PENDING"
<1>1. pass \in [Procs -> PassRow] BY DEF IInv, TypeOK
<1>2. ASSUME NEW q \in Procs, NEW x, Step(q, x), q # p \/ x.pc # "store"
      PROVE  pass'[p] = pass[p]
  BY <1>1, <1>2 DEF Step
<1>3. NoPass.pc # "store" BY NoPassType
<1>4. \A q \in Procs : pass[q] \in PassRow BY <1>1
<1>5. ASSUME NEW q \in Procs, SweepPending(q) PROVE pass'[p] = pass[p]
  <2> DEFINE x == [NoPass EXCEPT !.pc = "finish", !.tick = now,
                                 !.swept = {d \in Ids : \E r \in Recipients : Interrupted(d, r)}]
  <2>1. Step(q, x) BY <1>5 DEF SweepPending
  <2>2. x.pc # "store" BY DEF NoPass
  <2> QED BY <1>2, <2>1, <2>2
<1>6. ASSUME NEW q \in Procs, FinishSwept(q) PROVE pass'[p] = pass[p]
  <2>1. PICK d \in pass[q].swept : Step(q, [pass[q] EXCEPT !.swept = @ \ {d}])
    BY <1>6 DEF FinishSwept
  <2>2. [pass[q] EXCEPT !.swept = @ \ {d}].pc # "store" BY <1>4, <1>6 DEF FinishSwept, PassRow
  <2> QED BY <1>2, <2>1, <2>2
<1>7. ASSUME NEW q \in Procs, PurgeAndSelect(q) PROVE pass'[p] = pass[p]
  <2>1. Step(q, [pass[q] EXCEPT !.pc = "start"]) \/ Step(q, NoPass) BY <1>7 DEF PurgeAndSelect
  <2>2. [pass[q] EXCEPT !.pc = "start"].pc # "store" BY <1>4 DEF PassRow
  <2> QED BY <1>2, <1>3, <2>1, <2>2
<1>8. ASSUME NEW q \in Procs, StartDelivery(q) PROVE pass'[p] = pass[p]
  <2>1. CASE Step(q, NoPass) BY <1>2, <1>3, <2>1
  <2>2. ASSUME NEW allowed \in SUBSET Recipients,
               Step(q, [NoPass EXCEPT !.pc = "produce", !.delivery = Len(deliveries) + 1,
                                      !.todo = allowed])
        PROVE  pass'[p] = pass[p]
    <3>1. [NoPass EXCEPT !.pc = "produce", !.delivery = Len(deliveries) + 1,
                         !.todo = allowed].pc # "store"
      BY DEF NoPass
    <3> QED BY <1>2, <2>2, <3>1
  <2> QED BY <1>8, <2>1, <2>2 DEF StartDelivery
<1>9. ASSUME NEW q \in Procs, StoreResult(q) \/ StoreLost(q) PROVE pass'[p] = pass[p]
  <2>1. Step(q, [pass[q] EXCEPT !.pc = "produce", !.result = <<>>])
    BY <1>9 DEF StoreResult, StoreLost
  <2>2. [pass[q] EXCEPT !.pc = "produce", !.result = <<>>].pc # "store" BY <1>4 DEF PassRow
  <2> QED BY <1>2, <2>1, <2>2
<1>10. ASSUME NEW q \in Procs, EndPass(q) \/ Interrupt(q) PROVE pass'[p] = pass[p]
  BY <1>2, <1>3, <1>10 DEF EndPass, Interrupt
<1>11. ASSUME NEW q \in Procs, Produce(q)
       PROVE  \/ pass'[p] = pass[p]
              \/ /\ UNCHANGED <<deliveries, now>>
                 /\ deliveries[pass'[p].delivery].rcp[pass'[p].result[1]].status = "PENDING"
  <2>1. PICK r \in pass[q].todo, result \in {"DELIVERED", "FAILED"} :
            Step(q, IF deliveries[pass[q].delivery].rcp[r].status = "PENDING"
                    THEN [pass[q] EXCEPT !.pc = "store", !.todo = @ \ {r}, !.result = <<r, result>>]
                    ELSE [pass[q] EXCEPT !.todo = @ \ {r}])
    BY <1>11 DEF Produce
  <2>2. pass[q].pc = "produce" /\ UNCHANGED <<deliveries, now>> BY <1>11 DEF Produce
  <2>3. CASE q # p BY <1>2, <2>1, <2>3
  <2>4. CASE q = p /\ deliveries[pass[p].delivery].rcp[r].status = "PENDING"
    <3> DEFINE x == [pass[p] EXCEPT !.pc = "store", !.todo = @ \ {r}, !.result = <<r, result>>]
    <3>1. x.delivery = pass[p].delivery /\ x.result = <<r, result>>
      BY <1>4 DEF PassRow
    <3>2. Step(p, x) BY <2>1, <2>4
    <3> HIDE DEF x
    <3>3. pass'[p] = x BY <1>1, <3>2 DEF Step
    <3>4. x.result[1] = r BY <3>1
    <3> QED BY <2>2, <2>4, <3>1, <3>3, <3>4
  <2>5. CASE q = p /\ deliveries[pass[p].delivery].rcp[r].status # "PENDING"
    <3>1. Step(p, [pass[p] EXCEPT !.todo = @ \ {r}]) BY <2>1, <2>5
    <3>2. [pass[p] EXCEPT !.todo = @ \ {r}].pc # "store" BY <1>4, <2>2, <2>5 DEF PassRow
    <3> QED BY <1>2, <3>1, <3>2
  <2> QED BY <2>3, <2>4, <2>5
<1>12. CASE UNCHANGED pass BY <1>12
<1> QED
  BY <1>5, <1>6, <1>7, <1>8, <1>9, <1>10, <1>11, <1>12 DEF Next, Pass, SaveSchedule, Tick, vars

LEMMA OvertakenStep ==
    ASSUME IInv, OvertakenIsLate, [Next]_vars
    PROVE  OvertakenIsLate'
<1> SUFFICES ASSUME NEW p \in Procs, pass'[p].pc = "store"
             PROVE  \/ deliveries'[pass'[p].delivery].rcp[pass'[p].result[1]].status = "PENDING"
                    \/ deliveries'[pass'[p].delivery].started < now'
  BY DEF OvertakenIsLate, Stale
<1>1. CASE /\ UNCHANGED <<deliveries, now>>
           /\ deliveries[pass'[p].delivery].rcp[pass'[p].result[1]].status = "PENDING"
  BY <1>1
<1>2. CASE pass'[p] = pass[p]
  <2>1. PICK d, r : d = pass[p].delivery /\ r = pass[p].result[1] OBVIOUS
  <2>2. pass[p].pc = "store" /\ Producing(pass[p]) BY <1>2 DEF Producing
  <2>3. d \in Ids /\ r \in Recipients BY <2>1, <2>2 DEF IInv, TypeOK, PassRow
  <2>4. deliveries[d].rcp[r].status = "PENDING" \/ Stale(d) BY <2>1, <2>2 DEF OvertakenIsLate
  <2>5. Stale(d) => deliveries'[d].started < now' BY <2>3, StartedStep DEF Stale
  <2>6. CASE \E q \in Procs : StoreResult(q) /\ pass[q].delivery = d
    <3>1. PICK q \in Procs : StoreResult(q) /\ pass[q].delivery = d BY <2>6
    <3>2. Producing(pass[q]) BY <3>1 DEF StoreResult, Producing
    <3>3. q = p BY <2>1, <2>2, <3>1, <3>2 DEF IInv, OwnWork
    <3>4. pass[p] \in PassRow BY DEF IInv, TypeOK
    <3>5. pass' = [pass EXCEPT ![p] = [pass[p] EXCEPT !.pc = "produce", !.result = <<>>]]
      BY <3>1, <3>3 DEF StoreResult, Step
    <3>6. pass'[p].pc = "produce" BY <3>4, <3>5 DEF IInv, TypeOK, PassRow
    <3> QED BY <3>6
  <2>7. CASE ~\E q \in Procs : StoreResult(q) /\ pass[q].delivery = d
    <3>1. LeavesPending(d, r) BY <2>3, FinalStep
    <3>2. deliveries'[d].rcp[r].status = "PENDING" \/ Stale(d)
      BY <2>1, <2>4, <2>7, <3>1 DEF LeavesPending
    <3> QED BY <1>2, <2>1, <2>5, <3>2
  <2> QED BY <2>6, <2>7
<1> QED BY <1>1, <1>2, StoringStep

LEMMA OvertakenInvariance == Spec => []OvertakenIsLate
<1>1. Init => OvertakenIsLate BY NoPassType DEF Init, OvertakenIsLate
<1>2. IInv /\ OvertakenIsLate /\ [Next]_vars => OvertakenIsLate' BY OvertakenStep
<1> QED BY <1>1, <1>2, InvInit, InvStep, PTL DEF Spec

\* A result loses at most its file; the one overwrite is that of a failure the
\* sweep recorded, by the pass that produces for the recipient and no earlier
\* than six hours after the delivery started.
THEOREM ResultsFinal == Spec => ResultIsFinal
<1>1. IInv /\ OvertakenIsLate /\ [Next]_vars =>
         [\A d \in Ids, r \in Recipients :
             LET old == deliveries[d].rcp[r]
                 new == deliveries'[d].rcp[r]
             IN old.status # "PENDING" /\ new # old =>
                   \/ new = [old EXCEPT !.file = FALSE]
                   \/ /\ old.status = "FAILED" /\ Stale(d)
                      /\ \E p \in Procs : /\ pass[p].pc = "store" /\ pass[p].delivery = d
                                          /\ pass[p].result[1] = r]_vars
  BY FinalStep DEF KeepsResult
<1> QED BY <1>1, InvInit, InvStep, OvertakenInvariance, PTL DEF Spec, ResultIsFinal

\* No store is under way on a delivery older than the six hours.
StoresInTime == \A p \in Procs : pass[p].pc = "store" => ~Stale(pass[p].delivery)

\* "Only a pending recipient is written" (453:753) holds of every behaviour in which
\* no store is under way on a delivery older than the six hours: the code's promise
\* rests on the speed of its passes.
THEOREM PendingWrittenInTime == Spec /\ []StoresInTime => OnlyPendingWritten
<1>1. ASSUME IInv, OvertakenIsLate, StoresInTime, [Next]_vars, NEW d \in Ids, NEW r \in Recipients
      PROVE  ~Overwrites(d, r)
  <2>1. KeepsResult(d, r) BY <1>1, FinalStep
  <2>2. deliveries[d].rcp[r] \in RecipientRow BY <1>1, IdRange DEF IInv, TypeOK, DeliveryRow
  <2>3. CASE deliveries'[d].rcp[r] = [deliveries[d].rcp[r] EXCEPT !.file = FALSE]
    BY <2>2, <2>3 DEF RecipientRow, Overwrites
  <2>4. CASE \E p \in Procs : /\ pass[p].pc = "store" /\ pass[p].delivery = d
                              /\ Stale(d)
    BY <1>1, <2>4 DEF StoresInTime
  <2> QED BY <2>1, <2>3, <2>4 DEF KeepsResult, Overwrites
<1>2. IInv /\ OvertakenIsLate /\ StoresInTime /\ [Next]_vars =>
         [\A d \in Ids, r \in Recipients : ~Overwrites(d, r)]_vars
  BY <1>1
<1> QED BY <1>2, InvInit, InvStep, OvertakenInvariance, PTL DEF Spec, OnlyPendingWritten
=============================================================================
