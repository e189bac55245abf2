------------------------------ MODULE Eea2Draft ------------------------------
(***************************************************************************)
(* The EEA2 draft of one tenant and reporting year, and the HTTP handlers  *)
(* that change it (apps/api/src/routes/eea2.routes.ts).                    *)
(*                                                                         *)
(* Every handler is one PostgreSQL transaction at READ COMMITTED: it reads *)
(* the draft, decides on what it read, and then issues an UPDATE by        *)
(* primary key that repeats none of the conditions.  An UPDATE takes the   *)
(* row lock, which is held to COMMIT or ROLLBACK; what a transaction wrote *)
(* is visible to the others only after COMMIT.  The read, the insertion of *)
(* the audit event, the UPDATE and the COMMIT are therefore separate steps *)
(* here, and other handlers run between them.  Two of the handlers answer   *)
(* the client from inside the transaction, before it commits.               *)
(***************************************************************************)
EXTENDS Naturals, Sequences, FiniteSets

CONSTANTS
    Requests,   \* HTTP requests; each runs its handler once
    Keys,       \* top-level keys of the draft's JSON state
    Managers,   \* the tenant's users with role EE_MANAGER
    PoolSize,   \* connections of the pool: transactions that can be open at once
    MaxClock,   \* bound on the server clock
    NoOne       \* a value that is no request

ASSUME RequestsAssumption == IsFiniteSet(Requests) /\ NoOne \notin Requests
ASSUME PoolAssumption == PoolSize \in Nat \ {0}
ASSUME ClockAssumption == MaxClock \in Nat

VARIABLES
    row,        \* the committed eea2_drafts row
    decisions,  \* committed EEA2_SIGNED and EEA2_REJECTED events, in commit order
    notes,      \* committed notifications: <<manager, rejecting request>>
    lock,       \* the transaction that holds the row lock, or NoOne
    clock,      \* server clock; stamps createdAt of events
    pc,         \* where each request's handler is
    tx,         \* what each request's transaction remembers
    reply,      \* HTTP status each request was answered with; 0 while unanswered
    signedAt,   \* history: version of the row written by the last signature
    due         \* history: the values each key may hold (see DueAfter)

vars == <<row, decisions, notes, lock, clock, pc, tx, reply, signedAt, due>>

----------------------------------------------------------------------------
OpenStatus == {"draft", "pending_ceo", "submitted"}  \* what statusBodySchema admits
Status == OpenStatus \cup {"absent", "signed"}

\* The value of a key is named by the request that wrote it.
DraftState == [Keys -> Requests \cup {NoOne}]

\* ver counts the committed writes of the row; the code keeps no such column.
Row == [status : Status, state : DraftState, ver : Nat]

NoRow == [status |-> "absent", state |-> [k \in Keys |-> NoOne], ver |-> 0]

\* after is a history: how many decisions were in the trail when the handler that took
\* this one read the draft.
Decision == [type : {"EEA2_SIGNED", "EEA2_REJECTED"}, by : Requests, at : Nat, after : Nat]

\* What an UPDATE sets: a status (or "same"), and the whole state column when
\* writesState, in which the body named only keys.
Write == [status : OpenStatus \cup {"signed", "same"},
          writesState : BOOLEAN, keys : SUBSET Keys]

StateWrites  == [status : {"same"}, writesState : {TRUE}, keys : SUBSET Keys]
StatusWrites == [status : OpenStatus, writesState : {FALSE}, keys : {{}}]
\* patchDraftBodySchema: both parts optional.
DraftWrites  == [status : OpenStatus \cup {"same"}, writesState : {TRUE}, keys : SUBSET Keys]
                \cup [status : OpenStatus \cup {"same"}, writesState : {FALSE}, keys : {{}}]

RejectWrite_EventOnly == [status |-> "same", writesState |-> FALSE, keys |-> {}]

SignWrite   == [status |-> "signed", writesState |-> FALSE, keys |-> {}]
RejectWrite == [status |-> "draft",  writesState |-> FALSE, keys |-> {}]

Tx == [kind : {"create", "patch", "edit", "sign", "reject"}, write : Write, seen : Row,
       at : Nat, after : Nat]

\* A transaction that has ended remembers nothing but the decision it was about.
Ended(kind) ==
    [kind |-> IF kind \in {"sign", "reject"} THEN kind ELSE "edit",
     write |-> RejectWrite, seen |-> NoRow, at |-> 0, after |-> 0]

Working == {"read", "audited", "written", "told"}
InFlight == {r \in Requests : pc[r] \in Working}

----------------------------------------------------------------------------
\* The draft may exist already, in any open status.
Init ==
    /\ \E s \in {"absent"} \cup OpenStatus :
          row = [status |-> s, state |-> [k \in Keys |-> NoOne], ver |-> 0]
    /\ decisions = <<>>
    /\ notes = {}
    /\ lock = NoOne
    /\ clock = 0
    /\ pc = [r \in Requests |-> "idle"]
    /\ tx = [r \in Requests |-> Ended("edit")]
    /\ reply = [r \in Requests |-> 0]
    /\ signedAt = 0
    /\ due = [k \in Keys |-> {NoOne}]

\* The handler returns without having written; its transaction ends.
Answer(r, code) ==
    /\ pc' = [pc EXCEPT ![r] = "done"]
    /\ reply' = [reply EXCEPT ![r] = code]
    /\ UNCHANGED <<row, decisions, notes, lock, clock, tx, signedAt, due>>

\* The transaction goes on with the draft it has just read.
Proceed(r, kind, write) ==
    /\ pc' = [pc EXCEPT ![r] = "read"]
    /\ tx' = [tx EXCEPT ![r] = [kind |-> kind, write |-> write, seen |-> row, at |-> 0,
                                  after |-> Len(decisions)]]
    /\ UNCHANGED <<row, decisions, notes, lock, clock, reply, signedAt, due>>

CanOpenTransaction(r) == pc[r] = "idle" /\ Cardinality(InFlight) < PoolSize

Immutable_Never == FALSE

Immutable == row.status = "signed"

\* The part the four editing handlers share: look the draft up, refuse a
\* missing and a signed one, and only then parse the body.
ReadForEdit(r, kind, writes) ==
    /\ CanOpenTransaction(r)
    /\ \/ row.status = "absent" /\ Answer(r, 404)
       \/ Immutable /\ Answer(r, 409)
       \/ row.status # "absent" /\ ~Immutable /\ Answer(r, 400)
       \/ row.status # "absent" /\ ~Immutable /\ \E w \in writes : Proceed(r, kind, w)

PatchDraftState(r)  == ReadForEdit(r, "patch", StateWrites)
PatchDraftStatus(r) == ReadForEdit(r, "patch", StatusWrites)
PatchDraft(r)       == ReadForEdit(r, "edit", DraftWrites)
PutDraft(r)         == ReadForEdit(r, "edit", DraftWrites)

\* POST /eea2/:formId/sign up to the read of the draft.  403 stands for an
\* unknown user, a missing or wrong TOTP code and a name that does not match;
\* any open status may be signed.
ReadForSign(r) ==
    \/ pc[r] = "idle" /\ Answer(r, 400)
    \/ /\ CanOpenTransaction(r)
       /\ \/ Answer(r, 403)
          \/ row.status = "absent" /\ Answer(r, 404)
          \/ Immutable /\ Answer(r, 409)
          \/ row.status # "absent" /\ ~Immutable /\ Proceed(r, "sign", SignWrite)

AwaitsCeo == row.status = "pending_ceo"

\* POST /eea2/:formId/reject up to the read of the draft.
ReadForReject(r) ==
    \/ pc[r] = "idle" /\ Answer(r, 400)
    \/ /\ CanOpenTransaction(r)
       /\ \/ row.status = "absent" /\ Answer(r, 404)
          \/ row.status # "absent" /\ ~AwaitsCeo /\ Answer(r, 409)
          \/ AwaitsCeo /\ Proceed(r, "reject", RejectWrite)

\* The INSERT of POST /eea2 waits on the unique index (tenantId, reportingYear)
\* while another transaction is inserting or updating the row.
InsertDraft(r) ==
    /\ CanOpenTransaction(r)
    /\ lock = NoOne
    /\ row.status = "absent"
    /\ lock' = r
    /\ pc' = [pc EXCEPT ![r] = "written"]
    /\ \E keys \in SUBSET Keys :
          tx' = [tx EXCEPT ![r] =
                   [kind |-> "create", seen |-> row, at |-> 0, after |-> Len(decisions),
                    write |-> [status |-> "draft", writesState |-> TRUE, keys |-> keys]]]
    /\ UNCHANGED <<row, decisions, notes, clock, reply, signedAt, due>>

\* POST /eea2 fails once the year has a draft.
CreateDraft(r) ==
    \/ pc[r] = "idle" /\ Answer(r, 400)
    \/ CanOpenTransaction(r) /\ lock = NoOne /\ row.status # "absent" /\ Answer(r, 500)
    \/ InsertDraft(r)

CreatedAt_FromClient(now) == 0..now

CreatedAt(now) == {now}

\* eeaEvent.create inside a sign or reject transaction: the event gets its
\* createdAt here, before the row lock is asked for.  The clock may not have
\* moved since the last event.
AppendDecision(r) ==
    /\ pc[r] = "read"
    /\ tx[r].kind \in {"sign", "reject"}
    /\ clock' \in {clock, clock + 1} \cap 0..MaxClock
    /\ \E t \in CreatedAt(clock') : tx' = [tx EXCEPT ![r] = [@ EXCEPT !.at = t]]
    /\ pc' = [pc EXCEPT ![r] = "audited"]
    /\ UNCHANGED <<row, decisions, notes, lock, reply, signedAt, due>>

CanUpdate_OnSecondConnection == lock = NoOne /\ Cardinality(InFlight) < PoolSize

\* The statement runs on the transaction's own connection and takes the row lock.
CanUpdate == lock = NoOne

\* eea2Draft.update, waiting for the holder of the row lock.
UpdateDraft(r) ==
    /\ \/ pc[r] = "read" /\ tx[r].kind \in {"patch", "edit"}
       \/ pc[r] = "audited"
    /\ CanUpdate
    /\ lock' = r
    /\ pc' = [pc EXCEPT ![r] = "written"]
    /\ UNCHANGED <<row, decisions, notes, clock, tx, reply, signedAt, due>>

\* PATCH state and PATCH status call reply.send inside the transaction callback,
\* and the callback returns to be committed only after that.
AnswerBeforeCommit(r) ==
    /\ pc[r] = "written" /\ tx[r].kind = "patch"
    /\ pc' = [pc EXCEPT ![r] = "told"]
    /\ reply' = [reply EXCEPT ![r] = 200]
    /\ UNCHANGED <<row, decisions, notes, lock, clock, tx, signedAt, due>>

\* The columns the UPDATE sets replace those of the committed row.  The state
\* column is the one the handler read, overlaid with the keys of the body.
MergedState_BodyOnly(r) ==
    [k \in Keys |-> IF k \in tx[r].write.keys THEN r ELSE NoOne]

MergedState(r) ==
    [k \in Keys |-> IF k \in tx[r].write.keys THEN r ELSE tx[r].seen.state[k]]

StatusAfter_Unfiltered(r) == tx[r].write.status

StatusAfter(r) == IF tx[r].write.status = "same" THEN row.status ELSE tx[r].write.status

StateAfter(r) == IF tx[r].write.writesState THEN MergedState(r) ELSE row.state

DecisionOf(r) ==
    [type |-> IF tx[r].kind = "sign" THEN "EEA2_SIGNED" ELSE "EEA2_REJECTED",
     by |-> r, at |-> tx[r].at, after |-> tx[r].after]

DecisionsAfter_RejectOnly(r) ==
    IF tx[r].kind = "reject" THEN Append(decisions, DecisionOf(r)) ELSE decisions

DecisionsAfter(r) ==
    IF tx[r].kind \in {"sign", "reject"} THEN Append(decisions, DecisionOf(r)) ELSE decisions

NotesAfter_AnyReturnToDraft(r) ==
    IF StatusAfter(r) = "draft" THEN notes \cup (Managers \X {r}) ELSE notes

\* A rejection notifies every EE manager in the same transaction.
NotesAfter(r) ==
    IF tx[r].kind = "reject" THEN notes \cup (Managers \X {r}) ELSE notes

\* History.  A change of a key that commits while no other handler holds a draft it
\* is going to write back is the only value the key may have from then on; one that
\* commits beside such a handler may be lost to it, and then what was due before stays.
DueAfter(r) ==
    [k \in Keys |->
       IF ~tx[r].write.writesState \/ k \notin tx[r].write.keys THEN due[k]
       ELSE IF \E q \in InFlight \ {r} : tx[q].write.writesState THEN due[k] \cup {r}
       ELSE {r}]

MayCommit(r) == IF tx[r].kind = "patch" THEN pc[r] = "told" ELSE pc[r] = "written"

\* What a handler answers once its transaction has ended: nothing more if it has
\* answered already.
Answers(r, codes) == IF pc[r] = "told" THEN {reply[r]} ELSE codes

\* The transaction commits.  The client is told, unless the connection to the
\* database is lost before the acknowledgement: then the handler throws.
Commit(r) ==
    /\ MayCommit(r)
    /\ row' = [status |-> StatusAfter(r), state |-> StateAfter(r), ver |-> row.ver + 1]
    /\ decisions' = DecisionsAfter(r)
    /\ notes' = NotesAfter(r)
    /\ signedAt' = IF tx[r].kind = "sign" THEN row.ver + 1 ELSE signedAt
    /\ due' = DueAfter(r)
    /\ lock' = NoOne
    /\ pc' = [pc EXCEPT ![r] = "done"]
    /\ \E code \in Answers(r, {IF tx[r].kind = "create" THEN 201 ELSE 200, 500}) :
          reply' = [reply EXCEPT ![r] = code]
    /\ tx' = [tx EXCEPT ![r] = Ended(tx[r].kind)]
    /\ UNCHANGED clock

LockAfter(r) == IF lock = r THEN NoOne ELSE lock

\* A statement fails, the transaction times out or the process dies: nothing of
\* it stays, and the row lock is released.
Rollback(r) ==
    /\ pc[r] \in Working
    /\ pc' = [pc EXCEPT ![r] = "done"]
    /\ tx' = [tx EXCEPT ![r] = Ended(tx[r].kind)]
    /\ \E code \in Answers(r, {500}) : reply' = [reply EXCEPT ![r] = code]
    /\ lock' = LockAfter(r)
    /\ UNCHANGED <<row, decisions, notes, clock, signedAt, due>>

AllAnswered == (\A r \in Requests : pc[r] = "done") /\ UNCHANGED vars

Arrive(r) ==
    \/ CreateDraft(r)
    \/ PatchDraftState(r)
    \/ PatchDraftStatus(r)
    \/ PatchDraft(r)
    \/ PutDraft(r)
    \/ ReadForSign(r)
    \/ ReadForReject(r)

Continue(r) == AppendDecision(r) \/ UpdateDraft(r) \/ AnswerBeforeCommit(r) \/ Commit(r)

Next == (\E r \in Requests : Arrive(r) \/ Continue(r) \/ Rollback(r)) \/ AllAnswered

Spec == Init /\ [][Next]_vars

\* The server keeps running the handlers it has started: node's event loop
\* delivers every statement result, and PostgreSQL grants a free row lock.
Fairness == \A r \in Requests : WF_vars(Continue(r))

FairSpec == Spec /\ Fairness

----------------------------------------------------------------------------
(* Properties *)

TypeOK ==
    /\ row \in Row
    /\ decisions \in Seq(Decision)
    /\ notes \subseteq Managers \X Requests
    /\ lock \in Requests \cup {NoOne}
    /\ clock \in Nat
    /\ pc \in [Requests -> {"idle", "done"} \cup Working]
    /\ tx \in [Requests -> Tx]
    /\ reply \in [Requests -> {0, 200, 201, 400, 403, 404, 409, 500}]
    /\ signedAt \in Nat
    /\ due \in [Keys -> SUBSET (Requests \cup {NoOne})]

\* Whoever is still inside a handler while the draft is signed read the draft
\* before the signature was committed: a request that arrives afterwards is
\* turned away, so once the stragglers have finished the form stays as it is.
SignatureSealsNewcomers ==
    row.status = "signed" => \A r \in InFlight : tx[r].seen.ver < signedAt

\* A signed draft has its signature as the last decision of the audit trail (in
\* commit order): no schedule of sign, reject and edit requests leaves the row
\* signed on top of a rejection that took effect later, or without any event.
SignatureIsLastDecision ==
    row.status = "signed" =>
        /\ decisions # <<>>
        /\ decisions[Len(decisions)].type = "EEA2_SIGNED"

\* Events and notifications stand or fall together: every manager has exactly
\* one notification per committed rejection, whatever was rolled back.
RejectionReachesManagers ==
    notes = Managers \X {decisions[i].by : i \in {j \in DOMAIN decisions :
                                                    decisions[j].type = "EEA2_REJECTED"}}

\* An answer can be relied on: a signature or rejection answered with success is
\* in the audit trail exactly once, and a request that was refused left no trace.
\* (A request answered 500 may have committed.)
AnswersAreTruthful ==
    \A r \in Requests :
        LET mine == {i \in DOMAIN decisions : decisions[i].by = r} IN
        /\ reply[r] = 200 /\ tx[r].kind \in {"sign", "reject"} => \E i \in mine : mine = {i}
        /\ reply[r] \in {400, 403, 404, 409} => mine = {}

\* "Form is immutable": no step changes the status or state of a signed draft.
SignedIsImmutable ==
    [][row.status = "signed" => row' = row]_vars

\* The state column is written back as a whole, merged with what the handler had read.
\* A change is lost only to a handler that was open when it committed; every other
\* change stays until its key is named again, whatever else is edited, signed, rejected
\* or rolled back, and whoever was told before the COMMIT.
OnlyOverlapLosesChanges ==
    \A k \in Keys : row.state[k] \in due[k]

\* createdAt respects causality, though it does not follow the order of the effects: an
\* event is stamped before its transaction waits for the row lock, so a decision may be
\* committed after one with a later stamp, but never after one its handler had seen.
StampsFollowCauses ==
    \A i, j \in DOMAIN decisions :
        i <= decisions[j].after => decisions[i].at <= decisions[j].at

\* Every handler that got past its checks is answered: there are finitely many
\* requests, and none waits forever for the row lock.
EveryRequestIsAnswered == <>[](InFlight = {})
=============================================================================
