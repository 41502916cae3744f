------------------------ MODULE TaskCandidatesProofs ------------------------
(***************************************************************************)
(* Safety of the candidate procedures for any candidates, tasks, sources,   *)
(* priorities and connections.                                              *)
(*                                                                          *)
(* Each property is inductive beside the types and the one fact that an     *)
(* INSERT under way carries a New row.  A write changes one row: what keeps *)
(* an approved candidate is that its task column makes the CHECK refuse a   *)
(* late validation or discard, and what keeps the key unique is that a row  *)
(* which opens, or stays open, has passed the index.                        *)
(***************************************************************************)
EXTENDS TaskCandidates, TLAPS

\* What an INSERT under way writes.
InsertsNew == \A s \in Sessions : sess[s].pc = "insert" => sess[s].row.status = "New"

IInv == TypeOK /\ InsertsNew /\ OneOpenPerKey /\ ApprovedOnce /\ SlaFollowsPriority

-----------------------------------------------------------------------------
(* Rows and sessions *)

LEMMA IdleSession == Idle \in SessionRow /\ NoRow \in CandidateRow
<1>1. NoRow \in CandidateRow BY DEF NoRow, CandidateRow
<1> QED BY <1>1 DEF Idle, SessionRow, Pcs

\* What a session may hold.
LEMMA SessionTypes ==
    ASSUME TypeOK, NEW s \in Sessions
    PROVE  /\ sess[s] \in SessionRow
           /\ sess[s].row \in CandidateRow /\ sess[s].old \in Priorities \cup {Null}
           /\ sess[s].pc \in {"validate", "approve", "discard", "derive", "store"} =>
                /\ sess[s].id \in Candidates
                /\ candidate[sess[s].id] \in CandidateRow /\ Created(sess[s].id)
<1>1. sess[s] \in SessionRow BY DEF TypeOK
<1>2. /\ sess[s].row \in CandidateRow /\ sess[s].old \in Priorities \cup {Null}
      /\ sess[s].id \in Candidates \cup {Null}
  BY <1>1 DEF SessionRow
<1> QED BY <1>1, <1>2 DEF TypeOK

\* One row of the table is written.
LEMMA Written ==
    ASSUME candidate \in [Candidates -> CandidateRow], NEW id \in Candidates, NEW r \in CandidateRow,
           candidate' = [candidate EXCEPT ![id] = r]
    PROVE  /\ candidate' \in [Candidates -> CandidateRow]
           /\ candidate'[id] = r
           /\ \A c \in Candidates \ {id} : candidate'[c] = candidate[c]
OBVIOUS

\* A validation leaves the source, the key and the task of the row alone.
LEMMA ValidatedRow ==
    ASSUME NEW id \in Candidates, candidate[id] \in CandidateRow, NEW row \in CandidateRow
    PROVE  LET after == Validated(id, row)
           IN /\ after \in CandidateRow
              /\ after.status = "Validated" /\ after.task = candidate[id].task
              /\ after.priority = row.priority /\ after.sla = candidate[id].sla
BY DEF Validated, CandidateRow, Statuses, OpenStatuses

\* So does a discard.
LEMMA DiscardedRow ==
    ASSUME NEW id \in Candidates, candidate[id] \in CandidateRow
    PROVE  LET after == [candidate[id] EXCEPT !.status = "Discarded"]
           IN /\ after \in CandidateRow
              /\ after.status = "Discarded" /\ after.task = candidate[id].task
BY DEF CandidateRow, Statuses

\* The row of an approval.
LEMMA ApprovedRow ==
    ASSUME candidate \in [Candidates -> CandidateRow], NEW id \in Candidates, NEW t \in Tasks,
           candidate' = [candidate EXCEPT ![id].status = "Approved", ![id].task = t]
    PROVE  \E r \in CandidateRow : /\ candidate' = [candidate EXCEPT ![id] = r]
                                   /\ r.status = "Approved" /\ r.task = t
<1> DEFINE r == [[candidate[id] EXCEPT !.status = "Approved"] EXCEPT !.task = t]
<1>1. candidate' = [candidate EXCEPT ![id] = r] OBVIOUS
<1>2. r \in CandidateRow /\ r.status = "Approved" /\ r.task = t BY DEF CandidateRow, Statuses
<1> HIDE DEF r
<1> QED BY <1>1, <1>2

\* The row of a derivation.
LEMMA StoredRow ==
    ASSUME candidate \in [Candidates -> CandidateRow], NEW id \in Candidates,
           NEW p \in Priorities \cup {Null}, candidate' = [candidate EXCEPT ![id].sla = p]
    PROVE  \E r \in CandidateRow :
              /\ candidate' = [candidate EXCEPT ![id] = r]
              /\ r.sla = p /\ r.status = candidate[id].status /\ r.task = candidate[id].task
              /\ r.source = candidate[id].source /\ r.keyed = candidate[id].keyed
              /\ r.priority = candidate[id].priority
<1> DEFINE r == [candidate[id] EXCEPT !.sla = p]
<1>1. candidate' = [candidate EXCEPT ![id] = r] OBVIOUS
<1>2. /\ r \in CandidateRow
      /\ r.sla = p /\ r.status = candidate[id].status /\ r.task = candidate[id].task
      /\ r.source = candidate[id].source /\ r.keyed = candidate[id].keyed
      /\ r.priority = candidate[id].priority
  BY DEF CandidateRow
<1> HIDE DEF r
<1> QED BY <1>1, <1>2
-----------------------------------------------------------------------------
(* What a step does to the table and to the connection that takes it *)

Reads(s) == \/ BeginCreate(s) \/ BeginValidate(s) \/ BeginApprove(s) \/ BeginDiscard(s)
            \/ Refused(s) \/ ReadProposal(s) \/ Abandon(s)

Writes(s) == \/ CommitCreate(s) \/ CommitValidate(s) \/ CommitApprove(s) \/ CommitDiscard(s)
             \/ StoreProposal(s)

\* A step writes at most one row; one that is open afterwards has passed the index.
LEMMA OneRow ==
    ASSUME TypeOK, InsertsNew, OneOpenPerKey, NEW s \in Sessions, Writes(s)
    PROVE  \/ UNCHANGED candidate
           \/ \E id \in Candidates, r \in CandidateRow :
                 /\ candidate' = [candidate EXCEPT ![id] = r]
                 /\ r.status \in Statuses
                 /\ r.status \in OpenStatuses =>
                      \A source \in Sources : r.keyed /\ r.source = source => OpenKeyed(source) \subseteq {id}
<1> USE SessionTypes
<1>1. CASE CommitCreate(s)
  <2>1. CASE KeyTaken(sess[s].row, Candidates) BY <1>1, <2>1 DEF CommitCreate
  <2>2. CASE ~KeyTaken(sess[s].row, Candidates)
    <3>1. PICK c \in Candidates : candidate' = [candidate EXCEPT ![c] = sess[s].row]
      BY <1>1, <2>2 DEF CommitCreate
    <3>2. sess[s].row.status = "New" BY <1>1 DEF CommitCreate, InsertsNew
    <3>3. \A source \in Sources :
             sess[s].row.keyed /\ sess[s].row.source = source => OpenKeyed(source) \subseteq {c}
      BY <2>2 DEF KeyTaken, OpenKeyed
    <3> QED BY <3>1, <3>2, <3>3 DEF Statuses, OpenStatuses
  <2> QED BY <2>1, <2>2
<1>2. CASE CommitValidate(s)
  <2> DEFINE id == sess[s].id
             after == Validated(id, sess[s].row)
  <2>1. id \in Candidates /\ candidate[id] \in CandidateRow /\ sess[s].row \in CandidateRow
    BY <1>2 DEF CommitValidate
  <2>2. after \in CandidateRow /\ after.status = "Validated" BY <2>1, ValidatedRow
  <2>3. candidate' = [candidate EXCEPT ![id] = after] /\ ~KeyTaken(after, Candidates \ {id})
    BY <1>2 DEF CommitValidate
  <2> HIDE DEF id, after
  <2>4. \A source \in Sources : after.keyed /\ after.source = source => OpenKeyed(source) \subseteq {id}
    BY <2>3 DEF KeyTaken, OpenKeyed
  <2> QED BY <2>1, <2>2, <2>3, <2>4 DEF Statuses, OpenStatuses
<1>3. CASE CommitApprove(s)
  <2>1. PICK t \in Tasks :
            candidate' = [candidate EXCEPT ![sess[s].id].status = "Approved", ![sess[s].id].task = t]
    BY <1>3 DEF CommitApprove
  <2>2. sess[s].id \in Candidates BY <1>3 DEF CommitApprove
  <2> QED BY <2>1, <2>2, ApprovedRow DEF TypeOK, Statuses, OpenStatuses
<1>4. CASE CommitDiscard(s)
  <2>1. sess[s].id \in Candidates /\ candidate[sess[s].id] \in CandidateRow BY <1>4 DEF CommitDiscard
  <2> QED BY <1>4, <2>1, DiscardedRow DEF CommitDiscard, Statuses, OpenStatuses
<1>5. CASE StoreProposal(s)
  <2> DEFINE id == sess[s].id
  <2>1. id \in Candidates /\ candidate[id] \in CandidateRow /\ sess[s].old \in Priorities \cup {Null}
        /\ Created(id)
    BY <1>5 DEF StoreProposal
  <2>2. candidate' = [candidate EXCEPT ![id].sla = sess[s].old] BY <1>5 DEF StoreProposal
  <2>3. PICK r \in CandidateRow :
            /\ candidate' = [candidate EXCEPT ![id] = r]
            /\ r.status = candidate[id].status
            /\ r.source = candidate[id].source /\ r.keyed = candidate[id].keyed
    BY <2>1, <2>2, StoredRow DEF TypeOK
  <2> HIDE DEF id
  <2>4. candidate[id].status \in Statuses BY <2>1 DEF CandidateRow, Created
  <2>5. r.status \in OpenStatuses =>
          \A source \in Sources : r.keyed /\ r.source = source => OpenKeyed(source) \subseteq {id}
    BY <2>1, <2>3 DEF OneOpenPerKey, OpenKeyed, Open
  <2> QED BY <2>1, <2>3, <2>4, <2>5
<1> QED BY <1>1, <1>2, <1>3, <1>4, <1>5 DEF Writes

\* The row sp_task_candidate_create is about to insert.
LEMMA NewRow ==
    ASSUME NEW source \in Sources, NEW keyed \in BOOLEAN, NEW owned \in BOOLEAN,
           NEW priority \in Priorities
    PROVE  LET r == [NoRow EXCEPT !.status = "New", !.source = source, !.keyed = keyed,
                                  !.owned = owned, !.priority = priority]
           IN r \in CandidateRow /\ r.status = "New"
<1>1. NoRow \in CandidateRow BY DEF NoRow, CandidateRow, Statuses, OpenStatuses
<1>2. "New" \in Statuses BY DEF Statuses, OpenStatuses
<1> QED BY <1>1, <1>2 DEF CandidateRow

\* The connection ends idle, or with an order that names an existing candidate.
LEMMA OneSession ==
    ASSUME TypeOK, InsertsNew, NEW s \in Sessions, Reads(s) \/ Writes(s)
    PROVE  \E record \in SessionRow :
              /\ sess' = [sess EXCEPT ![s] = record]
              /\ record.pc = "insert" => record.row.status = "New"
              /\ record.pc \notin {"idle", "insert"} =>
                   record.id \in Candidates /\ (Created(record.id) \/ Created(record.id)')
<1> USE SessionTypes, IdleSession
<1>i. Idle.pc = "idle" BY DEF Idle
<1>1. CASE sess' = [sess EXCEPT ![s] = Idle] BY <1>1, <1>i
<1>2. CASE BeginCreate(s)
  <2>1. PICK source \in Sources, keyed, owned \in BOOLEAN, priority \in Priorities :
            Step(s, [Idle EXCEPT !.pc = "insert",
                                 !.row = [NoRow EXCEPT !.status = "New", !.source = source, !.keyed = keyed,
                                                       !.owned = owned, !.priority = priority]])
    BY <1>2 DEF BeginCreate
  <2> DEFINE r == [NoRow EXCEPT !.status = "New", !.source = source, !.keyed = keyed,
                                !.owned = owned, !.priority = priority]
  <2>2. r \in CandidateRow /\ r.status = "New" BY <2>1, NewRow
  <2>3. sess' = [sess EXCEPT ![s] = [Idle EXCEPT !.pc = "insert", !.row = r]] BY <2>1 DEF Step
  <2> HIDE DEF r
  <2>4. LET record == [Idle EXCEPT !.pc = "insert", !.row = r]
        IN record \in SessionRow /\ record.pc = "insert" /\ record.row = r
    BY <2>2 DEF Idle, SessionRow, Pcs
  <2> QED BY <2>2, <2>3, <2>4
<1>3. CASE BeginValidate(s)
  <2>1. PICK c \in Candidates, named \in BOOLEAN, priority \in Priorities :
          /\ Open(c)
          /\ Step(s, [pc |-> "validate", id |-> c, old |-> candidate[c].priority,
                      row |-> [candidate[c] EXCEPT !.status = "Validated", !.owned = @ \/ named,
                                                   !.priority = priority]])
    BY <1>3 DEF BeginValidate
  <2> DEFINE own == candidate[c].owned \/ named
             r == [candidate[c] EXCEPT !.status = "Validated", !.owned = own, !.priority = priority]
             record == [pc |-> "validate", id |-> c, old |-> candidate[c].priority, row |-> r]
  <2>2. candidate[c] \in CandidateRow BY DEF TypeOK
  <2>a. own \in BOOLEAN OBVIOUS
  <2> HIDE DEF own
  <2>3. r \in CandidateRow BY <2>2, <2>a DEF CandidateRow, Statuses, OpenStatuses
  <2> USE DEF own
  <2>4. record \in SessionRow BY <2>2, <2>3 DEF SessionRow, Pcs, CandidateRow
  <2>5. Created(c) BY <2>1, NullAssumption DEF Open, Created, Statuses, OpenStatuses
  <2> QED BY <2>1, <2>4, <2>5 DEF Step
<1>4. CASE BeginApprove(s)
  <2>1. PICK c \in Candidates :
            /\ Open(c)
            /\ sess' = [sess EXCEPT ![s] = [Idle EXCEPT !.pc = "approve", !.id = c, !.old = candidate[c].priority]]
    BY <1>4 DEF BeginApprove, Step
  <2>2. candidate[c] \in CandidateRow BY DEF TypeOK
  <2>3. Created(c) BY <2>1, NullAssumption DEF Open, Created, Statuses, OpenStatuses
  <2> DEFINE record == [Idle EXCEPT !.pc = "approve", !.id = c, !.old = candidate[c].priority]
  <2>4. record \in SessionRow /\ record.pc = "approve" /\ record.id = c
    BY <2>2 DEF Idle, SessionRow, Pcs, CandidateRow
  <2> QED BY <2>1, <2>3, <2>4
<1>5. CASE BeginDiscard(s)
  <2>1. PICK c \in Candidates :
            /\ Open(c)
            /\ sess' = [sess EXCEPT ![s] = [Idle EXCEPT !.pc = "discard", !.id = c]]
    BY <1>5 DEF BeginDiscard, Step
  <2>2. Created(c) BY <2>1, NullAssumption DEF Open, Created, Statuses, OpenStatuses
  <2> DEFINE record == [Idle EXCEPT !.pc = "discard", !.id = c]
  <2>3. record \in SessionRow /\ record.pc = "discard" /\ record.id = c BY DEF Idle, SessionRow, Pcs
  <2> QED BY <2>1, <2>2, <2>3
<1>6. CASE Refused(s) \/ Abandon(s) \/ CommitApprove(s) \/ CommitDiscard(s) \/ StoreProposal(s)
  BY <1>1, <1>6 DEF Refused, Abandon, CommitApprove, CommitDiscard, StoreProposal, Step
<1>7. CASE ReadProposal(s)
  <2>1. CASE Open(sess[s].id)
    <3> DEFINE record == [sess[s] EXCEPT !.pc = "store", !.old = candidate[sess[s].id].priority]
    <3>1. sess' = [sess EXCEPT ![s] = record] BY <1>7, <2>1 DEF ReadProposal, Step
    <3>2. sess[s] \in SessionRow /\ sess[s].id \in Candidates /\ candidate[sess[s].id] \in CandidateRow
          /\ Created(sess[s].id)
      BY <1>7 DEF ReadProposal
    <3>3. record \in SessionRow /\ record.pc = "store" /\ record.id = sess[s].id
      BY <3>2 DEF SessionRow, Pcs, CandidateRow
    <3> QED BY <3>1, <3>2, <3>3
  <2>2. CASE ~Open(sess[s].id) BY <1>1, <1>7, <2>2 DEF ReadProposal, Step
  <2> QED BY <2>1, <2>2
<1>8. CASE CommitCreate(s)
  <2>1. CASE KeyTaken(sess[s].row, Candidates) BY <1>1, <1>8, <2>1 DEF CommitCreate, Step
  <2>2. CASE ~KeyTaken(sess[s].row, Candidates)
    <3>1. PICK c \in Candidates : /\ candidate' = [candidate EXCEPT ![c] = sess[s].row]
                                  /\ sess' = [sess EXCEPT ![s] = [Idle EXCEPT !.pc = "derive", !.id = c]]
      BY <1>8, <2>2 DEF CommitCreate, Step
    <3>2. candidate'[c].status = "New" BY <1>8, <3>1 DEF CommitCreate, InsertsNew, TypeOK
    <3>3. Created(c)' BY <3>2, NullAssumption DEF Created, Statuses, OpenStatuses
    <3> DEFINE record == [Idle EXCEPT !.pc = "derive", !.id = c]
    <3>4. record \in SessionRow /\ record.pc = "derive" /\ record.id = c BY DEF Idle, SessionRow, Pcs
    <3> QED BY <3>1, <3>3, <3>4
  <2> QED BY <2>1, <2>2
<1>9. CASE CommitValidate(s)
  <2> DEFINE record == [Idle EXCEPT !.pc = "derive", !.id = sess[s].id]
  <2>1. sess[s].id \in Candidates /\ Created(sess[s].id) BY <1>9 DEF CommitValidate
  <2>2. record \in SessionRow /\ record.pc = "derive" /\ record.id = sess[s].id
    BY <2>1 DEF Idle, SessionRow, Pcs
  <2>3. sess' = [sess EXCEPT ![s] = record] \/ sess' = [sess EXCEPT ![s] = Idle]
    BY <1>9 DEF CommitValidate, Step
  <2> QED BY <1>1, <2>1, <2>2, <2>3
<1> QED BY <1>2, <1>3, <1>4, <1>5, <1>6, <1>7, <1>8, <1>9 DEF Reads, Writes-----------------------------------------------------------------------------
(* Types *)

LEMMA ReadsNothing ==
    ASSUME NEW s \in Sessions, Reads(s)
    PROVE  UNCHANGED <<candidate, origin>> /\ disturbed \subseteq disturbed'
BY DEF Reads, BeginCreate, BeginValidate, BeginApprove, BeginDiscard, Refused, ReadProposal, Abandon, Disturb

LEMMA Steps ==
    ASSUME [Next]_vars
    PROVE  UNCHANGED vars \/ \E s \in Sessions : Reads(s) \/ Writes(s)
BY DEF Next, Reads, Writes

\* A row is never deleted.
LEMMA CreatedStays ==
    ASSUME TypeOK, InsertsNew, OneOpenPerKey, NEW s \in Sessions, Reads(s) \/ Writes(s)
    PROVE  /\ candidate' \in [Candidates -> CandidateRow]
           /\ \A c \in Candidates : Created(c) => Created(c)'
<1>1. candidate \in [Candidates -> CandidateRow] BY DEF TypeOK
<1>2. CASE UNCHANGED candidate BY <1>1, <1>2 DEF Created
<1>3. CASE Writes(s) /\ ~UNCHANGED candidate
  <2>1. PICK id \in Candidates, r \in CandidateRow :
            candidate' = [candidate EXCEPT ![id] = r] /\ r.status \in Statuses
    BY <1>3, OneRow
  <2>2. r.status # Null BY <2>1, NullAssumption
  <2> QED BY <1>1, <2>1, <2>2, Written DEF Created
<1> QED BY <1>2, <1>3, ReadsNothing

LEMMA TypeStep ==
    ASSUME TypeOK, InsertsNew, OneOpenPerKey, NEW s \in Sessions, Reads(s) \/ Writes(s)
    PROVE  TypeOK' /\ InsertsNew'
<1>1. PICK record \in SessionRow :
          /\ sess' = [sess EXCEPT ![s] = record]
          /\ record.pc = "insert" => record.row.status = "New"
          /\ record.pc \notin {"idle", "insert"} =>
               record.id \in Candidates /\ (Created(record.id) \/ Created(record.id)')
  BY OneSession
<1>2. sess' \in [Sessions -> SessionRow] /\ sess'[s] = record
      /\ \A u \in Sessions \ {s} : sess'[u] = sess[u]
  BY <1>1 DEF TypeOK
<1>3. candidate' \in [Candidates -> CandidateRow] BY CreatedStays
<1>4. origin' \in [Tasks -> Candidates \cup {Null}] /\ disturbed' \subseteq Candidates
  <2>1. origin \in [Tasks -> Candidates \cup {Null}] /\ disturbed \subseteq Candidates BY DEF TypeOK
  <2>2. CASE BeginCreate(s) \/ BeginValidate(s) \/ BeginApprove(s) \/ BeginDiscard(s)
             \/ Refused(s) \/ ReadProposal(s) \/ CommitCreate(s) \/ CommitDiscard(s)
    BY <2>1, <2>2 DEF BeginCreate, BeginValidate, BeginApprove, BeginDiscard, Refused, ReadProposal,
                      CommitCreate, CommitDiscard
  <2>3. CASE Abandon(s) BY <2>1, <2>3, SessionTypes DEF Abandon, Disturb
  <2>4. CASE CommitValidate(s) BY <2>1, <2>4, SessionTypes DEF CommitValidate, Disturb
  <2>5. CASE CommitApprove(s) BY <2>1, <2>5, SessionTypes DEF CommitApprove, Disturb
  <2>6. CASE StoreProposal(s) BY <2>1, <2>6, SessionTypes DEF StoreProposal, Disturb
  <2> QED BY <2>2, <2>3, <2>4, <2>5, <2>6 DEF Reads, Writes
<1>5. \A u \in Sessions : sess'[u].pc \notin {"idle", "insert"} =>
                            sess'[u].id \in Candidates /\ candidate'[sess'[u].id].status # Null
  <2> SUFFICES ASSUME NEW u \in Sessions, sess'[u].pc \notin {"idle", "insert"}
               PROVE  sess'[u].id \in Candidates /\ candidate'[sess'[u].id].status # Null
    OBVIOUS
  <2>1. CASE u = s BY <1>1, <1>2, <2>1, CreatedStays DEF Created
  <2>2. CASE u # s
    <3>1. sess'[u] = sess[u] /\ sess[u] \in SessionRow BY <1>2, <2>2 DEF TypeOK
    <3>2. sess[u].id \in Candidates /\ Created(sess[u].id) BY <3>1 DEF TypeOK, SessionRow
    <3> QED BY <3>1, <3>2, CreatedStays DEF Created
  <2> QED BY <2>1, <2>2
<1>6. \A u \in Sessions : sess'[u].id \in Candidates => sess'[u].id # Null BY NullAssumption
<1>7. InsertsNew' BY <1>1, <1>2 DEF InsertsNew
<1>8. TypeOK' BY <1>2, <1>3, <1>4, <1>5, <1>6 DEF TypeOK, Created
<1> QED BY <1>7, <1>8-----------------------------------------------------------------------------
(* The key *)

LEMMA KeyStep ==
    ASSUME TypeOK, InsertsNew, OneOpenPerKey, NEW s \in Sessions, Reads(s) \/ Writes(s)
    PROVE  OneOpenPerKey'
<1>1. CASE UNCHANGED candidate BY <1>1 DEF OneOpenPerKey, OpenKeyed, Open
<1>2. CASE Writes(s) /\ ~UNCHANGED candidate
  <2>1. PICK id \in Candidates, r \in CandidateRow :
          /\ candidate' = [candidate EXCEPT ![id] = r]
          /\ r.status \in OpenStatuses =>
               \A source \in Sources : r.keyed /\ r.source = source => OpenKeyed(source) \subseteq {id}
    BY <1>2, OneRow
  <2>2. candidate'[id] = r /\ \A c \in Candidates \ {id} : candidate'[c] = candidate[c]
    BY <2>1, Written DEF TypeOK
  <2>3. ASSUME NEW source \in Sources, NEW c \in OpenKeyed(source)'
        PROVE  /\ c \in Candidates
               /\ c # id => c \in OpenKeyed(source)
               /\ c = id => OpenKeyed(source) \subseteq {id}
    <3>1. c \in Candidates /\ candidate'[c].status \in OpenStatuses /\ candidate'[c].keyed
          /\ candidate'[c].source = source
      BY <2>3 DEF OpenKeyed, Open
    <3> QED BY <2>1, <2>2, <3>1 DEF OpenKeyed, Open
  <2>4. ASSUME NEW source \in Sources, NEW c \in OpenKeyed(source)', NEW d \in OpenKeyed(source)'
        PROVE  c = d
    BY <2>3, <2>4 DEF OneOpenPerKey
  <2> QED BY <2>4 DEF OneOpenPerKey
<1> QED BY <1>1, <1>2, ReadsNothing

-----------------------------------------------------------------------------
(* One candidate, one task *)

\* A row that no task came from may be rewritten.
LEMMA OtherRow ==
    ASSUME TypeOK, ApprovedOnce, NEW id \in Candidates, NEW r \in CandidateRow,
           candidate' = [candidate EXCEPT ![id] = r], UNCHANGED origin, disturbed \subseteq disturbed',
           \/ candidate[id].status # "Approved"
           \/ candidate[id].task \notin Tasks
           \/ r.status = candidate[id].status /\ r.task = candidate[id].task
    PROVE  ApprovedOnce'
<1>1. \A t \in Tasks : origin[t] # Null => origin[t] \in Candidates BY DEF TypeOK
<1>2. \A c \in Candidates \ {id} : candidate'[c] = candidate[c] BY DEF TypeOK
<1>3. candidate'[id] = r BY DEF TypeOK
<1> QED BY <1>1, <1>2, <1>3 DEF ApprovedOnce

LEMMA ApprovedStep ==
    ASSUME TypeOK, InsertsNew, ApprovedOnce, NEW s \in Sessions, Reads(s) \/ Writes(s)
    PROVE  ApprovedOnce'
<1>t. /\ sess[s].row \in CandidateRow /\ sess[s].old \in Priorities \cup {Null}
      /\ sess[s].pc \in {"validate", "approve", "discard", "derive", "store"} =>
           /\ sess[s].id \in Candidates
           /\ candidate[sess[s].id] \in CandidateRow /\ Created(sess[s].id)
  BY SessionTypes
<1>c. candidate \in [Candidates -> CandidateRow] BY DEF TypeOK
<1>1. CASE UNCHANGED <<candidate, origin>> /\ disturbed \subseteq disturbed' BY <1>1 DEF ApprovedOnce
<1>2. CASE CommitCreate(s) /\ ~UNCHANGED candidate
  <2>1. PICK c \in Candidates : ~Created(c) /\ candidate' = [candidate EXCEPT ![c] = sess[s].row]
    BY <1>2 DEF CommitCreate
  <2>2. candidate[c].status # "Approved" BY <2>1, NullAssumption DEF Created, Statuses
  <2> DEFINE r == sess[s].row
  <2>3. r \in CandidateRow /\ candidate' = [candidate EXCEPT ![c] = r]
        /\ UNCHANGED origin /\ disturbed \subseteq disturbed'
    BY <1>2, <1>t, <2>1 DEF CommitCreate
  <2> HIDE DEF r
  <2> QED BY <2>2, <2>3, OtherRow
<1>3. CASE CommitValidate(s)
  <2> DEFINE id == sess[s].id
             after == Validated(id, sess[s].row)
  <2>1. id \in Candidates /\ candidate[id] \in CandidateRow /\ sess[s].row \in CandidateRow
    BY <1>3, <1>t DEF CommitValidate
  <2>2. after \in CandidateRow /\ after.status = "Validated" /\ after.task = candidate[id].task BY <2>1, ValidatedRow
  <2>3. candidate' = [candidate EXCEPT ![id] = after] /\ Consistent(after) /\ UNCHANGED origin
        /\ disturbed \subseteq disturbed'
    BY <1>3 DEF CommitValidate, Disturb
  <2> HIDE DEF id, after
  <2>4. candidate[id].task \notin Tasks BY <2>2, <2>3, NullAssumption DEF Consistent
  <2> QED BY <2>1, <2>2, <2>3, <2>4, OtherRow
<1>4. CASE CommitDiscard(s)
  <2> DEFINE id == sess[s].id
             after == [candidate[id] EXCEPT !.status = "Discarded"]
  <2>1. id \in Candidates /\ candidate[id] \in CandidateRow BY <1>4, <1>t DEF CommitDiscard
  <2>2. after \in CandidateRow /\ after.status = "Discarded" /\ after.task = candidate[id].task BY <2>1, DiscardedRow
  <2>3. candidate' = [candidate EXCEPT ![id] = after] /\ Consistent(after)
        /\ UNCHANGED <<origin, disturbed>>
    BY <1>4 DEF CommitDiscard
  <2> HIDE DEF id, after
  <2>4. candidate[id].task \notin Tasks BY <2>2, <2>3, NullAssumption DEF Consistent
  <2> QED BY <2>1, <2>2, <2>3, <2>4, OtherRow
<1>5. CASE StoreProposal(s)
  <2> DEFINE id == sess[s].id
             p == sess[s].old
  <2>1. id \in Candidates /\ p \in Priorities \cup {Null} BY <1>5, <1>t DEF StoreProposal
  <2>2. candidate' = [candidate EXCEPT ![id].sla = p] /\ UNCHANGED origin
        /\ disturbed \subseteq disturbed'
    BY <1>5 DEF StoreProposal, Disturb
  <2> HIDE DEF id, p
  <2>w. \E r \in CandidateRow :
            /\ candidate' = [candidate EXCEPT ![id] = r]
            /\ r.sla = p /\ r.status = candidate[id].status /\ r.task = candidate[id].task
            /\ r.source = candidate[id].source /\ r.keyed = candidate[id].keyed
            /\ r.priority = candidate[id].priority
    BY <1>c, <2>1, <2>2, StoredRow
  <2>3. PICK r \in CandidateRow : /\ candidate' = [candidate EXCEPT ![id] = r]
                                  /\ r.status = candidate[id].status /\ r.task = candidate[id].task
    BY <2>w
  <2> QED BY <2>1, <2>2, <2>3, OtherRow
<1>6. CASE CommitApprove(s)
  <2> DEFINE id == sess[s].id
  <2>1. id \in Candidates BY <1>6, <1>t DEF CommitApprove
  <2>2. PICK t \in Tasks :
          /\ origin[t] = Null
          /\ origin' = [origin EXCEPT ![t] = id]
          /\ candidate' = [candidate EXCEPT ![id].status = "Approved", ![id].task = t]
    BY <1>6 DEF CommitApprove
  <2>3. PICK r \in CandidateRow : /\ candidate' = [candidate EXCEPT ![id] = r]
                                  /\ r.status = "Approved" /\ r.task = t
    BY <2>1, <2>2, ApprovedRow DEF TypeOK
  <2>4. disturbed' = IF ~Open(id) THEN disturbed \cup {id} ELSE disturbed
    BY <1>6 DEF CommitApprove, Disturb
  <2>5. candidate[id].status = "Approved" => id \in disturbed'
    BY <2>4 DEF Open, OpenStatuses
  <2> HIDE DEF id
  <2>6. candidate'[id] = r /\ \A c \in Candidates \ {id} : candidate'[c] = candidate[c]
    BY <2>1, <2>3 DEF TypeOK
  <2>7. origin'[t] = id /\ \A u \in Tasks \ {t} : origin'[u] = origin[u]
    BY <2>2 DEF TypeOK
  <2>8. id # Null BY <2>1, NullAssumption
  <2>9. ASSUME NEW u \in Tasks, origin'[u] # Null
        PROVE  /\ candidate'[origin'[u]].status = "Approved"
               /\ candidate'[origin'[u]].task \in Tasks
               /\ origin'[candidate'[origin'[u]].task] = origin'[u]
               /\ origin'[u] \notin disturbed' => candidate'[origin'[u]].task = u
    <3>1. CASE u = t BY <2>3, <2>6, <2>7, <3>1
    <3>2. CASE u # t /\ origin[u] = id
      <4>1. origin'[u] = id /\ candidate[id].status = "Approved"
        BY <2>7, <2>8, <3>2 DEF ApprovedOnce
      <4> QED BY <2>3, <2>5, <2>6, <2>7, <4>1
    <3>3. CASE u # t /\ origin[u] # id
      <4>1. origin'[u] = origin[u] /\ origin[u] # Null BY <2>7, <2>9, <3>3
      <4>2. origin[u] \in Candidates \ {id} BY <3>3, <4>1 DEF TypeOK
      <4>3. candidate'[origin[u]] = candidate[origin[u]] BY <2>6, <4>2
      <4>4. /\ candidate[origin[u]].status = "Approved"
            /\ candidate[origin[u]].task \in Tasks
            /\ origin[candidate[origin[u]].task] = origin[u]
            /\ origin[u] \notin disturbed => candidate[origin[u]].task = u
        BY <4>1 DEF ApprovedOnce
      <4>5. candidate[origin[u]].task # t BY <2>2, <4>1, <4>4
      <4>6. origin'[candidate[origin[u]].task] = origin[u] BY <2>7, <4>4, <4>5
      <4>7. disturbed \subseteq disturbed' BY <2>4
      <4> QED BY <4>1, <4>3, <4>4, <4>6, <4>7
    <3> QED BY <3>1, <3>2, <3>3
  <2> QED BY <2>9 DEF ApprovedOnce
<1>7. CASE CommitCreate(s) /\ UNCHANGED candidate BY <1>1, <1>7 DEF CommitCreate
<1> QED BY <1>1, <1>2, <1>3, <1>4, <1>5, <1>6, <1>7, ReadsNothing DEF Writes-----------------------------------------------------------------------------
(* The SLA proposal *)

\* A candidate whose row a step leaves alone, unless it ends a derivation of it.
LEMMA SlaOther ==
    ASSUME TypeOK, SlaFollowsPriority, NEW s \in Sessions, NEW record \in SessionRow,
           sess' = [sess EXCEPT ![s] = record], disturbed \subseteq disturbed',
           NEW c \in Candidates, candidate'[c] = candidate[c],
           \/ sess[s].id # c
           \/ sess[s].pc \notin {"derive", "store"}
           \/ record.id = c /\ record.pc \in {"derive", "store"}
           \/ ~Open(c) \/ c \in disturbed',
           Open(c)', c \notin disturbed', ~Deriving(c)'
    PROVE  candidate'[c].sla = candidate'[c].priority
<1>1. sess'[s] = record /\ \A u \in Sessions \ {s} : sess'[u] = sess[u] BY DEF TypeOK
<1>2. Open(c) /\ c \notin disturbed BY DEF Open
<1>3. ~Deriving(c) BY <1>1, <1>2 DEF Deriving
<1> QED BY <1>2, <1>3 DEF SlaFollowsPriority

LEMMA SlaStep ==
    ASSUME TypeOK, InsertsNew, SlaFollowsPriority, NEW s \in Sessions, Reads(s) \/ Writes(s)
    PROVE  SlaFollowsPriority'
<1>t. /\ sess[s].row \in CandidateRow /\ sess[s].old \in Priorities \cup {Null}
      /\ sess[s].pc \in {"validate", "approve", "discard", "derive", "store"} =>
           /\ sess[s].id \in Candidates
           /\ candidate[sess[s].id] \in CandidateRow /\ Created(sess[s].id)
  BY SessionTypes
<1>c. candidate \in [Candidates -> CandidateRow] BY DEF TypeOK
<1>0. PICK record \in SessionRow : sess' = [sess EXCEPT ![s] = record] BY OneSession
<1>r. sess'[s] = record /\ \A u \in Sessions \ {s} : sess'[u] = sess[u] BY <1>0 DEF TypeOK
<1>d. disturbed \subseteq disturbed'
  BY ReadsNothing DEF Writes, CommitCreate, CommitValidate, CommitApprove, CommitDiscard, StoreProposal, Disturb
<1> SUFFICES ASSUME NEW c \in Candidates, Open(c)', c \notin disturbed', ~Deriving(c)'
             PROVE  candidate'[c].sla = candidate'[c].priority
  BY DEF SlaFollowsPriority
<1>i. sess[s].pc \in {"idle", "insert", "validate", "discard", "approve"} => sess[s].pc \notin {"derive", "store"}
  OBVIOUS
<1>1. CASE BeginCreate(s) \/ BeginValidate(s) \/ BeginApprove(s) \/ BeginDiscard(s) \/ Refused(s)
  <2>1. sess[s].pc \notin {"derive", "store"} /\ UNCHANGED candidate
    BY <1>1 DEF BeginCreate, BeginValidate, BeginApprove, BeginDiscard, Refused
  <2> QED BY <1>0, <1>d, <2>1, SlaOther
<1>2. CASE ReadProposal(s)
  <2>1. CASE Open(sess[s].id)
    <3>1. record.id = sess[s].id /\ record.pc = "store" /\ UNCHANGED candidate
      BY <1>2, <1>r, <2>1 DEF ReadProposal, Step, SessionRow, TypeOK
    <3>2. candidate'[c] = candidate[c] BY <3>1
    <3>3. sess[s].id # c \/ (record.id = c /\ record.pc \in {"derive", "store"}) BY <3>1
    <3> QED BY <1>0, <1>d, <3>2, <3>3, SlaOther
  <2>2. CASE ~Open(sess[s].id)
    BY <1>0, <1>2, <1>d, <2>2, SlaOther DEF ReadProposal
  <2> QED BY <2>1, <2>2
<1>3. CASE Abandon(s)
  <2>1. UNCHANGED candidate /\ (sess[s].pc \in {"derive", "store"} => sess[s].id \in disturbed')
    BY <1>3 DEF Abandon, Disturb
  <2> QED BY <1>0, <1>d, <2>1, SlaOther
<1>4. CASE CommitCreate(s)
  <2>1. CASE UNCHANGED candidate
    BY <1>0, <1>4, <1>d, <1>i, <2>1, SlaOther DEF CommitCreate
  <2>2. CASE ~UNCHANGED candidate
    <3>1. PICK new \in Candidates : /\ candidate' = [candidate EXCEPT ![new] = sess[s].row]
                                    /\ sess' = [sess EXCEPT ![s] = [Idle EXCEPT !.pc = "derive", !.id = new]]
      BY <1>4, <2>2 DEF CommitCreate, Step
    <3>2. sess'[s].id = new /\ sess'[s].pc = "derive" BY <3>1 DEF TypeOK, Idle
    <3>3. c # new BY <3>2 DEF Deriving
    <3>4. candidate'[c] = candidate[c] BY <3>1, <3>3 DEF TypeOK
    <3> QED BY <1>0, <1>4, <1>d, <1>i, <3>4, SlaOther DEF CommitCreate
  <2> QED BY <2>1, <2>2
<1>5. CASE CommitValidate(s)
  <2> DEFINE id == sess[s].id
             after == Validated(id, sess[s].row)
  <2>1. id \in Candidates /\ candidate[id] \in CandidateRow /\ sess[s].row \in CandidateRow
        /\ sess[s].pc = "validate"
    BY <1>5, <1>t DEF CommitValidate
  <2>2. after \in CandidateRow /\ after.priority = sess[s].row.priority /\ after.sla = candidate[id].sla
    BY <2>1, ValidatedRow
  <2>3. candidate' = [candidate EXCEPT ![id] = after] BY <1>5 DEF CommitValidate
  <2>4. id \notin disturbed' => Open(id) /\ candidate[id].priority = sess[s].old
    BY <1>5, <2>1 DEF CommitValidate, Disturb, Overtaken
  <2>5. sess[s].row.priority # sess[s].old => sess'[s].pc = "derive" /\ sess'[s].id = id
    BY <1>5 DEF CommitValidate, Step, TypeOK, Idle
  <2>6. c = id => sess[s].row.priority = sess[s].old BY <2>5 DEF Deriving
  <2> HIDE DEF id, after
  <2>7. CASE c # id
    <3>1. candidate'[c] = candidate[c] BY <2>3, <2>7 DEF TypeOK
    <3> QED BY <1>0, <1>d, <1>i, <2>1, <3>1, SlaOther
  <2>8. CASE c = id
    <3>1. candidate'[c] = after BY <2>1, <2>3, <2>8 DEF TypeOK
    <3>2. sess[s].row.priority = sess[s].old BY <2>6, <2>8
    <3>3. ~Deriving(c) BY <1>r, <1>i, <2>1 DEF Deriving
    <3>4. candidate[c].sla = candidate[c].priority
      BY <1>d, <2>4, <2>8, <3>3 DEF SlaFollowsPriority
    <3> QED BY <2>2, <2>4, <2>8, <3>1, <3>2, <3>4
  <2> QED BY <2>7, <2>8
<1>6. CASE CommitApprove(s) \/ CommitDiscard(s)
  <2> DEFINE id == sess[s].id
  <2>1. id \in Candidates /\ candidate[id] \in CandidateRow /\ sess[s].pc \in {"approve", "discard"}
    BY <1>6, <1>t DEF CommitApprove, CommitDiscard
  <2>2. \E r \in CandidateRow : /\ candidate' = [candidate EXCEPT ![id] = r]
                                /\ r.status \in {"Approved", "Discarded"}
    <3>1. CASE CommitApprove(s)
      <4>1. PICK t \in Tasks : candidate' = [candidate EXCEPT ![id].status = "Approved", ![id].task = t]
        BY <3>1 DEF CommitApprove
      <4> HIDE DEF id
      <4>2. \E r \in CandidateRow : /\ candidate' = [candidate EXCEPT ![id] = r]
                                     /\ r.status = "Approved" /\ r.task = t
        <5>1. id \in Candidates BY <2>1
        <5> QED BY <1>c, <4>1, <5>1, ApprovedRow
      <4> QED BY <4>2
    <3>2. CASE CommitDiscard(s) BY <2>1, <3>2, DiscardedRow DEF CommitDiscard
    <3> QED BY <1>6, <3>1, <3>2
  <2> HIDE DEF id
  <2>3. c # id BY <2>1, <2>2, Written DEF Open, OpenStatuses, TypeOK
  <2>4. candidate'[c] = candidate[c] BY <2>2, <2>3 DEF TypeOK
  <2> QED BY <1>0, <1>d, <1>i, <2>1, <2>4, SlaOther
<1>7. CASE StoreProposal(s)
  <2> DEFINE id == sess[s].id
             p == sess[s].old
  <2>1. id \in Candidates /\ p \in Priorities \cup {Null} BY <1>7, <1>t DEF StoreProposal
  <2>2. candidate' = [candidate EXCEPT ![id].sla = p] BY <1>7 DEF StoreProposal
  <2>3. id \notin disturbed' => candidate[id].priority = p
    BY <1>7, <2>1 DEF StoreProposal, Disturb, Overtaken
  <2> HIDE DEF id, p
  <2>w. \E r \in CandidateRow :
            /\ candidate' = [candidate EXCEPT ![id] = r]
            /\ r.sla = p /\ r.status = candidate[id].status /\ r.task = candidate[id].task
            /\ r.source = candidate[id].source /\ r.keyed = candidate[id].keyed
            /\ r.priority = candidate[id].priority
    BY <1>c, <2>1, <2>2, StoredRow
  <2>4. PICK r \in CandidateRow : /\ candidate' = [candidate EXCEPT ![id] = r]
                                  /\ r.sla = p /\ r.priority = candidate[id].priority
    BY <2>w
  <2>5. candidate'[id] = r /\ \A d \in Candidates \ {id} : candidate'[d] = candidate[d]
    BY <1>c, <2>1, <2>4, Written
  <2>6. CASE c = id BY <2>3, <2>4, <2>5, <2>6
  <2>7. CASE c # id BY <1>0, <1>d, <2>5, <2>7, SlaOther DEF id
  <2> QED BY <2>6, <2>7
<1> QED BY <1>1, <1>2, <1>3, <1>4, <1>5, <1>6, <1>7 DEF Reads, Writes

-----------------------------------------------------------------------------
(* The theorems *)

LEMMA IInvInit == Init => IInv
<1> SUFFICES ASSUME Init PROVE IInv OBVIOUS
<1>1. \A c \in Candidates : candidate[c] = NoRow /\ NoRow.status = Null BY DEF Init, NoRow
<1>2. \A s \in Sessions : sess[s] = Idle /\ Idle.pc = "idle" BY DEF Init, Idle
<1>3. \A c \in Candidates : ~Open(c) BY <1>1, NullAssumption DEF Open, Statuses, OpenStatuses
<1>4. TypeOK BY <1>2, IdleSession DEF Init, TypeOK
<1>5. ApprovedOnce BY DEF Init, ApprovedOnce
<1> QED BY <1>2, <1>3, <1>4, <1>5 DEF IInv, InsertsNew, OneOpenPerKey, OpenKeyed, SlaFollowsPriority

LEMMA IInvStep == IInv /\ [Next]_vars => IInv'
<1> SUFFICES ASSUME IInv, [Next]_vars PROVE IInv' OBVIOUS
<1>1. CASE UNCHANGED vars
  BY <1>1 DEF IInv, vars, TypeOK, Created, InsertsNew, OneOpenPerKey, OpenKeyed, Open, ApprovedOnce,
              SlaFollowsPriority, Deriving
<1>2. ASSUME NEW s \in Sessions, Reads(s) \/ Writes(s) PROVE IInv'
  BY <1>2, TypeStep, KeyStep, ApprovedStep, SlaStep DEF IInv
<1> QED BY <1>1, <1>2, Steps

LEMMA InvHolds == Spec => []IInv
<1> QED BY IInvInit, IInvStep, PTL DEF Spec

\* Calls stay on candidates that exist, and rows keep their types, in every
\* interleaving of the procedures of 198 and however they are cut off.
THEOREM TypeCorrect == Spec => []TypeOK
<1>1. IInv => TypeOK BY DEF IInv
<1> QED BY <1>1, InvHolds, PTL

\* With any number of generators, and late validations that reopen a discarded
\* candidate, a source has one open candidate per key.
THEOREM KeyIsUnique == Spec => []OneOpenPerKey
<1>1. IInv => OneOpenPerKey BY DEF IInv
<1> QED BY <1>1, InvHolds, PTL

\* A candidate that became a task is Approved for ever after and names a task of
\* its own, the only one unless two approvals overlapped (the CHECK of 197).
THEOREM StaysApproved == Spec => []ApprovedOnce
<1>1. IInv => ApprovedOnce BY DEF IInv
<1> QED BY <1>1, InvHolds, PTL

\* Between undisturbed calls the SLA proposal of an open candidate is the one of
\* its priority, although it is derived after the COMMIT.
THEOREM ProposalHolds == Spec => []SlaFollowsPriority
<1>1. IInv => SlaFollowsPriority BY DEF IInv
<1> QED BY <1>1, InvHolds, PTL
=============================================================================
