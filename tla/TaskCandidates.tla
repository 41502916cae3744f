--------------------------- MODULE TaskCandidates ---------------------------
(***************************************************************************)
(* Task candidates (migrations 197 and 198): work that the risk and the     *)
(* assurance centres propose, or a user adds by hand.  A candidate is       *)
(* created, validated, and then approved, which opens its task, or          *)
(* discarded.                                                               *)
(*                                                                          *)
(* Every procedure reads the candidate and checks its status before BEGIN   *)
(* TRAN, and its UPDATE names the row only, so another connection may have  *)
(* decided in between: what is left then is a CHECK constraint and a unique *)
(* index.  The SLA proposal is derived after the COMMIT.                    *)
(*                                                                          *)
(* A task that is opened here is followed in TaskEngine.  The task type     *)
(* Implementation, for which sp_task_open may return an existing task, is   *)
(* not proposed by any source and left out.                                 *)
(***************************************************************************)
EXTENDS FiniteSets

CONSTANTS Candidates, Tasks,   \* row identities
          Sources,             \* records work is proposed for
          Priorities,
          Sessions,            \* database connections
          Null

VARIABLES candidate,  \* task_candidate
          origin,     \* practice_task.task_candidate_id, Null for an unused identity
          sess,       \* the procedure each connection is in, and what it has read
          disturbed   \* history: candidates on which a call was overtaken or cut short

vars == <<candidate, origin, sess, disturbed>>

-----------------------------------------------------------------------------
(* The table *)

OpenStatuses == {"New", "Validated"}

Statuses == OpenStatuses \cup {"Approved", "Discarded"}

ASSUME NullAssumption == Null \notin Candidates \cup Tasks \cup Sources \cup Priorities \cup Statuses

\* keyed: with the dedupe key of a generator.  sla is the priority that
\* proposed_sla_days was derived from, owned stands for a proposed owner.
CandidateRow ==
    [status : Statuses \cup {Null}, source : Sources \cup {Null}, keyed : BOOLEAN, owned : BOOLEAN,
     priority : Priorities \cup {Null}, sla : Priorities \cup {Null}, task : Tasks \cup {Null}]

NoRow == [status |-> Null, source |-> Null, keyed |-> FALSE, owned |-> FALSE,
          priority |-> Null, sla |-> Null, task |-> Null]

Created(c) == candidate[c].status # Null

Open(c) == candidate[c].status \in OpenStatuses

OpenKeyed(source) == {c \in Candidates : Open(c) /\ candidate[c].keyed /\ candidate[c].source = source}

\* Mutant of KeyTaken: no unique index behind the look-up.
KeyNeverTaken(row, others) == FALSE

\* ux_pm_task_candidate_source_dedupe, over the open candidates with a key.
KeyTaken(row, others) == row.keyed /\ OpenKeyed(row.source) \cap others # {}

\* Mutant of Consistent: the table has no such constraint.
ConsistentAlways(row) == TRUE

\* ck_pm_task_candidate_approved_task.
Consistent(row) == row.status = "Approved" <=> row.task # Null

-----------------------------------------------------------------------------
(* Procedures *)

Idle == [pc |-> "idle", id |-> Null, row |-> NoRow, old |-> Null]

Step(s, record) == sess' = [sess EXCEPT ![s] = record]

\* Another call has decided the candidate, or changed its priority, since it was read.
Overtaken(id, old) == ~Open(id) \/ candidate[id].priority # old

Disturb(id, moved) == disturbed' = IF moved THEN disturbed \cup {id} ELSE disturbed

\* sp_task_candidate_create: a generator gets the open candidate of its key; the
\* owner is the caller's or the one the ladder resolves, if any.
BeginCreate(s) ==
    /\ sess[s].pc = "idle"
    /\ \E source \in Sources, keyed, owned \in BOOLEAN, priority \in Priorities :
         /\ keyed => OpenKeyed(source) = {}
         /\ Step(s, [Idle EXCEPT !.pc = "insert",
                                 !.row = [NoRow EXCEPT !.status = "New", !.source = source, !.keyed = keyed,
                                                       !.owned = owned, !.priority = priority]])
    /\ UNCHANGED <<candidate, origin, disturbed>>

\* Mutant of CommitCreate: the identity of the new row is not taken over.
CommitCreateUnnamed(s) ==
    /\ sess[s].pc = "insert"
    /\ \E c \in Candidates :
         /\ ~Created(c)
         /\ candidate' = [candidate EXCEPT ![c] = sess[s].row]
         /\ Step(s, [Idle EXCEPT !.pc = "derive"])
    /\ UNCHANGED <<origin, disturbed>>

\* The INSERT; the index refuses the second of two generators.
CommitCreate(s) ==
    /\ sess[s].pc = "insert"
    /\ IF KeyTaken(sess[s].row, Candidates)
       THEN Step(s, Idle) /\ UNCHANGED candidate
       ELSE \E c \in Candidates :
              /\ ~Created(c)
              /\ candidate' = [candidate EXCEPT ![c] = sess[s].row]
              /\ Step(s, [Idle EXCEPT !.pc = "derive", !.id = c])
    /\ UNCHANGED <<origin, disturbed>>

\* sp_task_candidate_validate_save: what the validator does not name stays as read.
BeginValidate(s) ==
    /\ sess[s].pc = "idle"
    /\ \E c \in Candidates, named \in BOOLEAN, priority \in Priorities :
         /\ Open(c)
         /\ Step(s, [pc |-> "validate", id |-> c, old |-> candidate[c].priority,
                     row |-> [candidate[c] EXCEPT !.status = "Validated", !.owned = @ \/ named,
                                                  !.priority = priority]])
    /\ UNCHANGED <<candidate, origin, disturbed>>

\* The row with the columns the UPDATE of a validation writes.
Validated(id, row) ==
    [candidate[id] EXCEPT !.status = "Validated", !.owned = row.owned, !.priority = row.priority]

\* Mutant of CommitValidate: the SLA is derived at the first validation only.
CommitValidateOnce(s) ==
    /\ sess[s].pc = "validate"
    /\ LET id == sess[s].id
           after == Validated(id, sess[s].row)
       IN /\ Consistent(after) /\ ~KeyTaken(after, Candidates \ {id})
          /\ candidate' = [candidate EXCEPT ![id] = after]
          /\ Disturb(id, Overtaken(id, sess[s].old))
          /\ Step(s, IF candidate[id].status = "New" THEN [Idle EXCEPT !.pc = "derive", !.id = id] ELSE Idle)
    /\ UNCHANGED origin

\* A changed priority has its SLA derived after the COMMIT.
CommitValidate(s) ==
    /\ sess[s].pc = "validate"
    /\ LET id == sess[s].id
           after == Validated(id, sess[s].row)
       IN /\ Consistent(after) /\ ~KeyTaken(after, Candidates \ {id})
          /\ candidate' = [candidate EXCEPT ![id] = after]
          /\ Disturb(id, Overtaken(id, sess[s].old))
          /\ Step(s, IF sess[s].row.priority # sess[s].old
                     THEN [Idle EXCEPT !.pc = "derive", !.id = id] ELSE Idle)
    /\ UNCHANGED origin

\* sp_task_candidate_approve: open, with an owner.
BeginApprove(s) ==
    /\ sess[s].pc = "idle"
    /\ \E c \in Candidates :
         /\ Open(c)
         /\ candidate[c].owned
         /\ Step(s, [Idle EXCEPT !.pc = "approve", !.id = c, !.old = candidate[c].priority])
    /\ UNCHANGED <<candidate, origin, disturbed>>

\* One transaction: sp_task_open, the link back, and the status.
CommitApprove(s) ==
    /\ sess[s].pc = "approve"
    /\ \E t \in Tasks :
         /\ origin[t] = Null
         /\ origin' = [origin EXCEPT ![t] = sess[s].id]
         /\ candidate' = [candidate EXCEPT ![sess[s].id].status = "Approved", ![sess[s].id].task = t]
    /\ Disturb(sess[s].id, ~Open(sess[s].id))
    /\ Step(s, Idle)

\* sp_task_candidate_discard.
BeginDiscard(s) ==
    /\ sess[s].pc = "idle"
    /\ \E c \in Candidates : Open(c) /\ Step(s, [Idle EXCEPT !.pc = "discard", !.id = c])
    /\ UNCHANGED <<candidate, origin, disturbed>>

CommitDiscard(s) ==
    /\ sess[s].pc = "discard"
    /\ LET after == [candidate[sess[s].id] EXCEPT !.status = "Discarded"]
       IN /\ Consistent(after)
          /\ candidate' = [candidate EXCEPT ![sess[s].id] = after]
    /\ Step(s, Idle)
    /\ UNCHANGED <<origin, disturbed>>

\* A constraint refuses the UPDATE, and XACT_ABORT rolls back.
Refused(s) ==
    LET id == sess[s].id
    IN /\ \/ /\ sess[s].pc = "validate"
             /\ LET after == Validated(id, sess[s].row)
                IN ~Consistent(after) \/ KeyTaken(after, Candidates \ {id})
          \/ /\ sess[s].pc = "discard"
             /\ ~Consistent([candidate[id] EXCEPT !.status = "Discarded"])
       /\ Step(s, Idle)
       /\ UNCHANGED <<candidate, origin, disturbed>>

\* sp_task_candidate_apply_sla runs outside of a transaction: its SELECT, and
\* nothing more for a candidate that has been decided ...
ReadProposal(s) ==
    /\ sess[s].pc = "derive"
    /\ Step(s, IF Open(sess[s].id)
               THEN [sess[s] EXCEPT !.pc = "store", !.old = candidate[sess[s].id].priority]
               ELSE Idle)
    /\ UNCHANGED <<candidate, origin, disturbed>>

\* ... and its UPDATE, which names the row only.
StoreProposal(s) ==
    /\ sess[s].pc = "store"
    /\ candidate' = [candidate EXCEPT ![sess[s].id].sla = sess[s].old]
    /\ Disturb(sess[s].id, Overtaken(sess[s].id, sess[s].old))
    /\ Step(s, Idle)
    /\ UNCHANGED origin

\* The call fails or its client is gone; what was committed stays.
Abandon(s) ==
    /\ sess[s].pc # "idle"
    /\ IF sess[s].pc \in {"derive", "store"} THEN Disturb(sess[s].id, TRUE) ELSE UNCHANGED disturbed
    /\ Step(s, Idle)
    /\ UNCHANGED <<candidate, origin>>

-----------------------------------------------------------------------------
Init ==
    /\ candidate = [c \in Candidates |-> NoRow]
    /\ origin = [t \in Tasks |-> Null]
    /\ sess = [s \in Sessions |-> Idle]
    /\ disturbed = {}

Next ==
    \E s \in Sessions :
        \/ BeginCreate(s) \/ CommitCreate(s)
        \/ BeginValidate(s) \/ CommitValidate(s)
        \/ BeginApprove(s) \/ CommitApprove(s)
        \/ BeginDiscard(s) \/ CommitDiscard(s)
        \/ Refused(s) \/ ReadProposal(s) \/ StoreProposal(s) \/ Abandon(s)

Spec == Init /\ [][Next]_vars

-----------------------------------------------------------------------------
(* Properties *)

Pcs == {"idle", "insert", "validate", "approve", "discard", "derive", "store"}

SessionRow == [pc : Pcs, id : Candidates \cup {Null}, row : CandidateRow, old : Priorities \cup {Null}]

\* Types; a call works on a candidate that exists (task_candidate, practice_task).
TypeOK ==
    /\ candidate \in [Candidates -> CandidateRow]
    /\ origin \in [Tasks -> Candidates \cup {Null}]
    /\ sess \in [Sessions -> SessionRow]
    /\ disturbed \subseteq Candidates
    /\ \A s \in Sessions : sess[s].pc \notin {"idle", "insert"} =>
                             sess[s].id # Null /\ Created(sess[s].id)

\* "One open candidate per (source, key)": generators that run at the same time,
\* and a late validation that reopens a discarded candidate, find the key taken
\* (ux_pm_task_candidate_source_dedupe).
OneOpenPerKey == \A source \in Sources : \A c, d \in OpenKeyed(source) : c = d

\* A task that came from a candidate has it Approved for ever after, however late
\* a validation or a discard of it commits, and each candidate has one task
\* unless two approvals were under way at once (ck_pm_task_candidate_approved_task,
\* sp_task_candidate_approve).
ApprovedOnce ==
    \A t \in Tasks : origin[t] # Null =>
        /\ candidate[origin[t]].status = "Approved"
        /\ candidate[origin[t]].task \in Tasks
        /\ origin[candidate[origin[t]].task] = origin[t]
        /\ origin[t] \notin disturbed => candidate[origin[t]].task = t

Deriving(c) == \E s \in Sessions : sess[s].id = c /\ sess[s].pc \in {"derive", "store"}

\* "The derived SLA has to follow" the priority of an open candidate, once the
\* derivation is done and if no other call came in between (198, section 5).
SlaFollowsPriority ==
    \A c \in Candidates :
        Open(c) /\ c \notin disturbed /\ ~Deriving(c) => candidate[c].sla = candidate[c].priority
=============================================================================
