--------------------------- MODULE Eea2DraftProofs ---------------------------
(***************************************************************************)
(* Theorems about Eea2Draft for every set of requests, keys and managers    *)
(* and every size of the pool.                                              *)
(***************************************************************************)
EXTENDS Eea2Refinement, FiniteSetTheorems, SequenceTheorems, TLAPS

\* The writes an editing handler may be sent on with.
EditWrites == StateWrites \cup StatusWrites \cup DraftWrites

\* The transactions of the editing handlers.
EditKinds == {"patch", "edit"}

USE DEF EditKinds

\* The kinds of step, without the HTTP routes they come from.
Turned(r)  == pc[r] = "idle" /\ \E code \in {400, 403, 404, 409, 500} : Answer(r, code)
Editing(r) == /\ CanOpenTransaction(r) /\ row.status \notin {"absent", "signed"}
              /\ \E kind \in EditKinds, w \in EditWrites : Proceed(r, kind, w)
Signing(r) == /\ CanOpenTransaction(r) /\ row.status \notin {"absent", "signed"}
              /\ Proceed(r, "sign", SignWrite)
Rejecting(r) == /\ CanOpenTransaction(r) /\ row.status = "pending_ceo"
                /\ Proceed(r, "reject", RejectWrite)

\* A request that arrives is turned away, goes on with what it read, or inserts.
LEMMA ArrivalCases ==
    ASSUME NEW r \in Requests, Arrive(r)
    PROVE  Turned(r) \/ Editing(r) \/ Signing(r) \/ Rejecting(r) \/ InsertDraft(r)
  <1>1. ASSUME NEW kind \in EditKinds, NEW writes, writes \subseteq EditWrites,
               ReadForEdit(r, kind, writes)
        PROVE  Turned(r) \/ Editing(r)
    BY <1>1 DEF ReadForEdit, CanOpenTransaction, Immutable, Turned, Editing
  <1>2. CASE PatchDraftState(r)
    BY <1>2, <1>1 DEF PatchDraftState, EditWrites, EditKinds
  <1>3. CASE PatchDraftStatus(r)
    BY <1>3, <1>1 DEF PatchDraftStatus, EditWrites, EditKinds
  <1>4. CASE PatchDraft(r) \/ PutDraft(r)
    BY <1>4, <1>1 DEF PatchDraft, PutDraft, EditWrites, EditKinds
  <1>5. CASE ReadForSign(r)
    BY <1>5 DEF ReadForSign, CanOpenTransaction, Immutable, Turned, Signing
  <1>6. CASE ReadForReject(r)
    BY <1>6 DEF ReadForReject, CanOpenTransaction, AwaitsCeo, Turned, Rejecting
  <1>7. CASE CreateDraft(r)
    BY <1>7 DEF CreateDraft, CanOpenTransaction, Turned
  <1>8. QED
    BY <1>2, <1>3, <1>4, <1>5, <1>6, <1>7 DEF Arrive

\* Every step is one of eleven kinds.
LEMMA StepCases ==
    ASSUME [Next]_vars
    PROVE  \/ \E r \in Requests : \/ Turned(r) \/ Editing(r) \/ Signing(r) \/ Rejecting(r)
                                  \/ InsertDraft(r) \/ AppendDecision(r) \/ UpdateDraft(r)
                                  \/ AnswerBeforeCommit(r) \/ Commit(r) \/ Rollback(r)
           \/ UNCHANGED vars
  BY ArrivalCases DEF Next, Continue, AllAnswered

\* The bodies the editing routes admit are well-typed UPDATEs, none of which signs.
LEMMA EditWritesAreWrites ==
    ASSUME NEW w \in EditWrites
    PROVE  w \in Write /\ w.status # "signed"
  BY DEF EditWrites, StateWrites, StatusWrites, DraftWrites, Write, OpenStatus

\* The variables keep their types whatever the schedule of the handlers.
THEOREM TypeCorrect == Spec => []TypeOK
  <1>1. Init => TypeOK
    BY DEF Init, TypeOK, NoRow, Row, Status, DraftState, Decision, Ended, Tx, Write,
           RejectWrite, OpenStatus, Working
  <1>2. TypeOK /\ [Next]_vars => TypeOK'
    <2> SUFFICES ASSUME TypeOK, [Next]_vars PROVE TypeOK'
      OBVIOUS
    <2> USE DEF TypeOK
    <2>1. ASSUME NEW r \in Requests, Turned(r) PROVE TypeOK'
      BY <2>1 DEF Turned, Answer
    <2>2. ASSUME NEW r \in Requests, Editing(r) PROVE TypeOK'
      <3>1. PICK kind \in EditKinds, w \in EditWrites : Proceed(r, kind, w)
        BY <2>2 DEF Editing
      <3>2. w \in Write
        BY EditWritesAreWrites
      <3>3. QED
        BY <3>1, <3>2 DEF Proceed, Tx, Working, EditKinds
    <2>3. ASSUME NEW r \in Requests, Signing(r) PROVE TypeOK'
      BY <2>3 DEF Signing, Proceed, SignWrite, Tx, Write, Working
    <2>4. ASSUME NEW r \in Requests, Rejecting(r) PROVE TypeOK'
      BY <2>4 DEF Rejecting, Proceed, RejectWrite, Tx, Write, Working, OpenStatus
    <2>5. ASSUME NEW r \in Requests, InsertDraft(r) PROVE TypeOK'
      BY <2>5 DEF InsertDraft, Tx, Write, Working, OpenStatus
    <2>6. ASSUME NEW r \in Requests, AppendDecision(r) PROVE TypeOK'
      <3>1. clock' \in Nat /\ tx' = [tx EXCEPT ![r] = [tx[r] EXCEPT !.at = clock']]
        BY <2>6 DEF AppendDecision, CreatedAt
      <3>2. [tx[r] EXCEPT !.at = clock'] \in Tx
        <4>1. tx[r] \in Tx
          OBVIOUS
        <4>2. QED
          BY <3>1, <4>1 DEF Tx
      <3>3. tx' \in [Requests -> Tx]
        BY <3>1, <3>2
      <3>4. QED
        BY <2>6, <3>1, <3>3 DEF AppendDecision, Working
    <2>7. ASSUME NEW r \in Requests, UpdateDraft(r) PROVE TypeOK'
      BY <2>7 DEF UpdateDraft, Working
    <2>8. ASSUME NEW r \in Requests, AnswerBeforeCommit(r) PROVE TypeOK'
      BY <2>8 DEF AnswerBeforeCommit, Working
    <2>9. ASSUME NEW r \in Requests, Commit(r) PROVE TypeOK'
      <3>1. tx[r] \in Tx /\ Ended(tx[r].kind) \in Tx
        BY DEF Tx, Ended, RejectWrite, Write, NoRow, Row, Status, DraftState, OpenStatus
      <3>2. row' \in Row
        <4>1. StatusAfter(r) \in Status
          BY <3>1 DEF StatusAfter, Tx, Write, Status, Row
        <4>2. StateAfter(r) \in DraftState
          BY <3>1 DEF StateAfter, MergedState, Tx, Row, DraftState
        <4>3. QED
          BY <4>1, <4>2, <2>9 DEF Commit, MayCommit, Row
      <3>3. decisions' \in Seq(Decision)
        <4>1. tx[r].kind \in {"sign", "reject"} => DecisionOf(r) \in Decision
          BY <3>1 DEF DecisionOf, Decision, Tx
        <4>2. QED
          BY <2>9, <4>1 DEF Commit, MayCommit, DecisionsAfter
      <3>4. notes' \subseteq Managers \X Requests
        BY <2>9 DEF Commit, MayCommit, NotesAfter
      <3>5. signedAt' \in Nat
        BY <2>9 DEF Commit, MayCommit, Row
      <3>6. reply' \in [Requests -> {0, 200, 201, 400, 403, 404, 409, 500}]
        <4>1. PICK code \in Answers(r, {IF tx[r].kind = "create" THEN 201 ELSE 200, 500}) :
                     reply' = [reply EXCEPT ![r] = code]
          BY <2>9, Zenon DEF Commit
        <4>2. code \in {200, 201, 500, reply[r]}
          BY <4>1 DEF Answers
        <4>3. QED
          BY <4>1, <4>2
      <3>7. due' \in [Keys -> SUBSET (Requests \cup {NoOne})]
        BY <2>9 DEF Commit, MayCommit, DueAfter
      <3>8. QED
        BY <2>9, <3>1, <3>2, <3>3, <3>4, <3>5, <3>6, <3>7 DEF Commit, MayCommit, Working
    <2>10. ASSUME NEW r \in Requests, Rollback(r) PROVE TypeOK'
      <3>1. Ended(tx[r].kind) \in Tx
        BY DEF Tx, Ended, RejectWrite, Write, NoRow, Row, Status, DraftState, OpenStatus
      <3>2. QED
        BY <2>10, <3>1 DEF Rollback, LockAfter, Answers, Working
    <2>11. CASE UNCHANGED vars
      BY <2>11 DEF vars
    <2>12. QED
      BY <2>1, <2>2, <2>3, <2>4, <2>5, <2>6, <2>7, <2>9, <2>10, <2>11, <2>8, StepCases
  <1>3. QED
    BY <1>1, <1>2, PTL DEF Spec

(***************************************************************************)
(* The invariant the safety theorems rest on: who holds the row lock, what  *)
(* each kind of handler is about to write, and that no handler has read a   *)
(* version of the draft newer than the committed one.                       *)
(***************************************************************************)
WriteOfKind(t) ==
    /\ t.kind \in EditKinds => t.write.status # "signed"
    /\ t.kind = "sign" => t.write = SignWrite
    /\ t.kind = "reject" => t.write = RejectWrite
    /\ t.kind = "create" => t.write.status = "draft"

HandlerInv ==
    \A r \in InFlight :
        /\ pc[r] \in {"written", "told"} => lock = r
        /\ pc[r] = "told" => tx[r].kind = "patch"
        /\ pc[r] = "audited" => tx[r].kind \in {"sign", "reject"}
        /\ WriteOfKind(tx[r])
        /\ tx[r].kind = "create" => pc[r] = "written" /\ row.status = "absent"
        /\ tx[r].kind # "create" => row.status # "absent" /\ tx[r].seen.ver <= row.ver

IInv == HandlerInv /\ SignatureSealsNewcomers /\ signedAt <= row.ver

\* What a committed write does to the status of the row.
LEMMA CommitStatus ==
    ASSUME TypeOK, HandlerInv, NEW r \in Requests, Commit(r)
    PROVE  /\ row'.ver = row.ver + 1
           /\ row'.status # "absent"
           /\ tx[r].kind = "sign" => row'.status = "signed"
           /\ tx[r].kind = "reject" => row'.status = "draft"
           /\ tx[r].kind = "create" => row.status = "absent" /\ row'.status = "draft"
           /\ tx[r].kind \in EditKinds => /\ row.status # "absent"
                                     /\ row'.status \in OpenStatus \cup {row.status}
  <1>1. r \in InFlight /\ tx[r] \in Tx /\ tx[r].write \in Write
    BY DEF Commit, MayCommit, InFlight, Working, TypeOK, Tx
  <1>2. row' = [status |-> StatusAfter(r), state |-> StateAfter(r), ver |-> row.ver + 1]
    BY DEF Commit, MayCommit
  <1>3. QED
    BY <1>1, <1>2 DEF HandlerInv, WriteOfKind, StatusAfter, SignWrite, RejectWrite, Write,
                      Tx, OpenStatus

\* Steps that leave the row and the running handlers' memories alone.
LEMMA IInvLocal ==
    ASSUME TypeOK, IInv, NEW r \in Requests,
           row' = row, signedAt' = signedAt,
           \A q \in Requests \ {r} : pc'[q] = pc[q] /\ tx'[q] = tx[q],
           \A q \in Requests \ {r} : lock = q => lock' = q,
           pc'[r] \notin Working
    PROVE  IInv'
  BY DEF IInv, HandlerInv, SignatureSealsNewcomers, InFlight, WriteOfKind, Working

\* The strengthened invariant holds in every reachable state of every schedule.
THEOREM Inductive == Spec => []IInv
  <1>1. Init => IInv
    BY DEF Init, IInv, HandlerInv, SignatureSealsNewcomers, InFlight, Working, OpenStatus
  <1>2. TypeOK /\ TypeOK' /\ IInv /\ [Next]_vars => IInv'
    <2> SUFFICES ASSUME TypeOK, TypeOK', IInv, [Next]_vars PROVE IInv'
      OBVIOUS
    <2>1. ASSUME NEW r \in Requests, Turned(r) PROVE IInv'
      BY <2>1, IInvLocal DEF Turned, Answer, TypeOK, Working
    <2>2. ASSUME NEW r \in Requests, NEW kind \in EditKinds \cup {"sign", "reject"}, NEW w \in Write,
                 pc[r] = "idle", row.status \notin {"absent", "signed"}, Proceed(r, kind, w),
                 WriteOfKind([kind |-> kind, write |-> w, seen |-> row, at |-> 0,
                              after |-> Len(decisions)])
          PROVE  IInv'
      <3>1. /\ pc' = [pc EXCEPT ![r] = "read"] /\ row' = row /\ lock' = lock
            /\ tx'[r] = [kind |-> kind, write |-> w, seen |-> row, at |-> 0,
                      after |-> Len(decisions)]
            /\ \A q \in Requests \ {r} : tx'[q] = tx[q]
            /\ signedAt' = signedAt
        BY <2>2 DEF Proceed, TypeOK
      <3>2. HandlerInv'
        BY <2>2, <3>1 DEF IInv, HandlerInv, InFlight, WriteOfKind, Working, TypeOK, Row
      <3>3. QED
        BY <2>2, <3>1, <3>2 DEF IInv, SignatureSealsNewcomers
    <2>3. ASSUME NEW r \in Requests, Editing(r) PROVE IInv'
      BY <2>3, <2>2, EditWritesAreWrites DEF Editing, CanOpenTransaction, WriteOfKind
    <2>4. ASSUME NEW r \in Requests, Signing(r) PROVE IInv'
      BY <2>4, <2>2 DEF Signing, CanOpenTransaction, WriteOfKind, SignWrite, Write
    <2>5. ASSUME NEW r \in Requests, Rejecting(r) PROVE IInv'
      BY <2>5, <2>2 DEF Rejecting, CanOpenTransaction, WriteOfKind, RejectWrite, Write, OpenStatus
    <2>6. ASSUME NEW r \in Requests, InsertDraft(r) PROVE IInv'
      <3>1. PICK keys \in SUBSET Keys :
               tx' = [tx EXCEPT ![r] =
                        [kind |-> "create", seen |-> row, at |-> 0, after |-> Len(decisions),
                         write |-> [status |-> "draft", writesState |-> TRUE, keys |-> keys]]]
        BY <2>6 DEF InsertDraft
      <3>2. /\ pc' = [pc EXCEPT ![r] = "written"] /\ row' = row /\ lock' = r /\ lock = NoOne
            /\ row.status = "absent" /\ signedAt' = signedAt
        BY <2>6 DEF InsertDraft
      <3>3. \A q \in InFlight : pc[q] \notin {"written", "told"}
        BY <3>2, RequestsAssumption DEF IInv, HandlerInv, InFlight
      <3>4. HandlerInv'
        BY <3>1, <3>2, <3>3 DEF IInv, HandlerInv, InFlight, WriteOfKind, Working, TypeOK
      <3>5. QED
        BY <3>2, <3>4 DEF IInv, SignatureSealsNewcomers
    <2>7. ASSUME NEW r \in Requests, AppendDecision(r) PROVE IInv'
      <3>1. /\ pc[r] = "read" /\ tx[r].kind \in {"sign", "reject"}
            /\ pc' = [pc EXCEPT ![r] = "audited"]
            /\ row' = row /\ lock' = lock /\ signedAt' = signedAt
            /\ tx' = [tx EXCEPT ![r] = [tx[r] EXCEPT !.at = clock']]
        BY <2>7 DEF AppendDecision, CreatedAt
      <3>2. ASSUME NEW q \in Requests
            PROVE  /\ tx'[q].kind = tx[q].kind
                   /\ tx'[q].write = tx[q].write
                   /\ tx'[q].seen = tx[q].seen
        <4>1. tx[q] \in Tx /\ tx[r] \in Tx /\ tx \in [Requests -> Tx]
          BY DEF TypeOK
        <4>2. CASE q = r
          BY <3>1, <4>1, <4>2 DEF Tx
        <4>3. CASE q # r
          BY <3>1, <4>1, <4>3
        <4>4. QED
          BY <4>2, <4>3
      <3>3. QED
        BY <3>1, <3>2 DEF IInv, HandlerInv, SignatureSealsNewcomers, InFlight, WriteOfKind,
                    Working, TypeOK
    <2>8. ASSUME NEW r \in Requests, UpdateDraft(r) PROVE IInv'
      <3>1. /\ pc[r] \in {"read", "audited"} /\ pc' = [pc EXCEPT ![r] = "written"]
            /\ row' = row /\ lock = NoOne /\ lock' = r /\ signedAt' = signedAt /\ tx' = tx
        BY <2>8 DEF UpdateDraft, CanUpdate
      <3>2. \A q \in InFlight : pc[q] \notin {"written", "told"}
        BY <3>1, RequestsAssumption DEF IInv, HandlerInv, InFlight
      <3>3. QED
        BY <3>1, <3>2 DEF IInv, HandlerInv, SignatureSealsNewcomers, InFlight, WriteOfKind,
                          Working, TypeOK
    <2>9. ASSUME NEW r \in Requests, AnswerBeforeCommit(r) PROVE IInv'
      <3>1. /\ pc[r] = "written" /\ tx[r].kind = "patch" /\ pc' = [pc EXCEPT ![r] = "told"]
            /\ row' = row /\ lock' = lock /\ signedAt' = signedAt /\ tx' = tx
        BY <2>9 DEF AnswerBeforeCommit
      <3>2. QED
        BY <3>1 DEF IInv, HandlerInv, SignatureSealsNewcomers, InFlight, WriteOfKind,
                    Working, TypeOK
    <2>10. ASSUME NEW r \in Requests, Commit(r) PROVE IInv'
      <3>1. /\ pc[r] \in {"written", "told"} /\ pc' = [pc EXCEPT ![r] = "done"] /\ lock' = NoOne
            /\ \A q \in Requests \ {r} : tx'[q] = tx[q]
            /\ signedAt' = IF tx[r].kind = "sign" THEN row.ver + 1 ELSE signedAt
        BY <2>10 DEF Commit, MayCommit, TypeOK
      <3>2. lock = r /\ \A q \in InFlight \ {r} : pc[q] \notin {"written", "told"}
        BY <3>1 DEF IInv, HandlerInv, InFlight, Working
      <3>3. InFlight' = InFlight \ {r}
        BY <3>1 DEF InFlight, Working, TypeOK
      <3>4. row.ver \in Nat /\ signedAt \in Nat /\ \A q \in Requests : tx[q].seen.ver \in Nat
        BY DEF TypeOK, Row, Tx
      <3>5. \A q \in InFlight \ {r} :
               tx[q].kind # "create" /\ tx[q].seen.ver <= row.ver
        BY <3>2 DEF IInv, HandlerInv
      <3>6. HandlerInv'
        BY <3>1, <3>2, <3>3, <3>4, <3>5, <2>10, CommitStatus
           DEF IInv, HandlerInv, InFlight, WriteOfKind
      <3>7. tx[r].kind \in EditKinds /\ row'.status = "signed" => row.status = "signed"
        BY <2>10, CommitStatus DEF IInv, OpenStatus
      <3>8. tx[r].kind \in EditKinds \cup {"sign", "reject", "create"}
        BY DEF TypeOK, Tx
      <3>9. SignatureSealsNewcomers'
        BY <3>1, <3>3, <3>4, <3>5, <3>7, <3>8, <2>10, CommitStatus
           DEF IInv, SignatureSealsNewcomers, InFlight
      <3>10. QED
        BY <3>1, <3>4, <3>6, <3>9, <2>10, CommitStatus DEF IInv
    <2>11. ASSUME NEW r \in Requests, Rollback(r) PROVE IInv'
      BY <2>11, IInvLocal DEF Rollback, LockAfter, TypeOK, Working
    <2>12. CASE UNCHANGED vars
      BY <2>12 DEF vars, IInv, HandlerInv, SignatureSealsNewcomers, InFlight
    <2>13. QED
      BY <2>1, <2>3, <2>4, <2>5, <2>6, <2>7, <2>8, <2>10, <2>11, <2>12, <2>9, StepCases
  <1>3. QED
    BY <1>1, <1>2, TypeCorrect, PTL DEF Spec

\* Whoever is still at work on a signed draft read it before the signature.
THEOREM Sealed == Spec => []SignatureSealsNewcomers
  <1>1. IInv => SignatureSealsNewcomers
    BY DEF IInv
  <1>2. QED
    BY <1>1, Inductive, PTL

\* A signed draft has its signature as the last decision of the trail.
THEOREM LastDecision == Spec => []SignatureIsLastDecision
  <1>1. Init => SignatureIsLastDecision
    BY DEF Init, OpenStatus, SignatureIsLastDecision
  <1>2. TypeOK /\ IInv /\ SignatureIsLastDecision /\ [Next]_vars => SignatureIsLastDecision'
    <2> SUFFICES ASSUME TypeOK, IInv, SignatureIsLastDecision, [Next]_vars
                 PROVE  SignatureIsLastDecision'
      OBVIOUS
    <2>1. ASSUME NEW r \in Requests, Commit(r) PROVE SignatureIsLastDecision'
      <3>1. decisions' = DecisionsAfter(r) /\ decisions \in Seq(Decision)
        BY <2>1 DEF Commit, MayCommit, TypeOK
      <3>2. CASE tx[r].kind = "sign"
        <4>1. decisions' = Append(decisions, DecisionOf(r))
          BY <3>1, <3>2 DEF DecisionsAfter
        <4>2. /\ Len(decisions') = Len(decisions) + 1 /\ Len(decisions) \in Nat
              /\ decisions'[Len(decisions')] = DecisionOf(r)
          BY <3>1, <4>1
        <4>3. decisions' # <<>>
          BY <4>2
        <4>4. QED
          BY <3>2, <4>2, <4>3 DEF SignatureIsLastDecision, DecisionOf
      <3>3. CASE tx[r].kind \in EditKinds
        <4>1. row'.status = "signed" => row.status = "signed"
          BY <3>3, <2>1, CommitStatus DEF IInv, OpenStatus
        <4>2. decisions' = decisions
          BY <3>1, <3>3 DEF DecisionsAfter
        <4>3. QED
          BY <4>1, <4>2 DEF SignatureIsLastDecision
      <3>4. CASE tx[r].kind \in {"reject", "create"}
        <4>1. row'.status # "signed"
          BY <3>4, <2>1, CommitStatus DEF IInv
        <4>2. QED
          BY <4>1 DEF SignatureIsLastDecision
      <3>5. QED
        BY <3>2, <3>3, <3>4 DEF TypeOK, Tx
    <2>2. CASE UNCHANGED <<row, decisions>>
      BY <2>2 DEF SignatureIsLastDecision
    <2>3. QED
      BY <2>1, <2>2, StepCases
         DEF Turned, Answer, Editing, Signing, Rejecting, Proceed, InsertDraft,
             AppendDecision, UpdateDraft, AnswerBeforeCommit, Rollback, vars
  <1>3. QED
    BY <1>1, <1>2, TypeCorrect, Inductive, PTL DEF Spec

----------------------------------------------------------------------------
(* The trail, the notifications and the answers. *)

\* The requests of the rejections in a trail, and the places of a request in it.
Rejecters(s) == {s[i].by : i \in {j \in DOMAIN s : s[j].type = "EEA2_REJECTED"}}
Places(r, s) == {i \in DOMAIN s : s[i].by = r}

\* Appending a decision adds its place, and its request if it is a rejection.
LEMMA AppendedDecision ==
    ASSUME NEW s \in Seq(Decision), NEW d \in Decision
    PROVE  /\ Rejecters(Append(s, d)) =
                  Rejecters(s) \cup (IF d.type = "EEA2_REJECTED" THEN {d.by} ELSE {})
           /\ \A r : Places(r, Append(s, d)) =
                        Places(r, s) \cup (IF d.by = r THEN {Len(s) + 1} ELSE {})
  <1> DEFINE t == Append(s, d)
             n == Len(s)
  <1>1. /\ n \in Nat /\ DOMAIN s = 1..n /\ DOMAIN t = 1..(n + 1)
        /\ \A i \in 1..n : t[i] = s[i]
        /\ t[n + 1] = d
    OBVIOUS
  <1>2. 1..(n + 1) = (1..n) \cup {n + 1} /\ n + 1 \notin 1..n
    BY <1>1
  <1> HIDE DEF t, n
  <1>3. Rejecters(t) = Rejecters(s) \cup (IF d.type = "EEA2_REJECTED" THEN {d.by} ELSE {})
    BY <1>1, <1>2 DEF Rejecters
  <1>4. \A r : Places(r, t) = Places(r, s) \cup (IF d.by = r THEN {n + 1} ELSE {})
    BY <1>1, <1>2 DEF Places
  <1>5. QED
    BY <1>3, <1>4 DEF t, n

\* What a committed transaction adds to the trail.
LEMMA CommitTrail ==
    ASSUME TypeOK, NEW r \in Requests, Commit(r)
    PROVE  \/ /\ tx[r].kind \in {"sign", "reject"}
              /\ DecisionOf(r) \in Decision /\ DecisionOf(r).by = r
              /\ (DecisionOf(r).type = "EEA2_REJECTED") <=> (tx[r].kind = "reject")
              /\ decisions' = Append(decisions, DecisionOf(r))
           \/ tx[r].kind \notin {"sign", "reject"} /\ decisions' = decisions
  <1>1. tx[r] \in Tx /\ decisions' = DecisionsAfter(r)
    BY DEF TypeOK, Commit
  <1>2. CASE tx[r].kind \in {"sign", "reject"}
    <2>1. /\ DecisionOf(r) \in Decision /\ DecisionOf(r).by = r
          /\ (DecisionOf(r).type = "EEA2_REJECTED") <=> (tx[r].kind = "reject")
      BY <1>1, <1>2 DEF DecisionOf, Decision, Tx
    <2>2. QED
      BY <1>1, <1>2, <2>1 DEF DecisionsAfter
  <1>3. CASE tx[r].kind \notin {"sign", "reject"}
    BY <1>1, <1>3 DEF DecisionsAfter
  <1>4. QED
    BY <1>2, <1>3

\* Every committed rejection has notified every manager, and nothing else has.
THEOREM Notified == Spec => []RejectionReachesManagers
  <1>1. RejectionReachesManagers <=> notes = Managers \X Rejecters(decisions)
    BY DEF RejectionReachesManagers, Rejecters
  <1>2. RejectionReachesManagers' <=> notes' = Managers \X Rejecters(decisions')
    BY DEF RejectionReachesManagers, Rejecters
  <1>3. Init => RejectionReachesManagers
    BY DEF Init, RejectionReachesManagers
  <1>4. TypeOK /\ RejectionReachesManagers /\ [Next]_vars => RejectionReachesManagers'
    <2> SUFFICES ASSUME TypeOK, RejectionReachesManagers, [Next]_vars
                 PROVE  RejectionReachesManagers'
      OBVIOUS
    <2>1. ASSUME NEW r \in Requests, Commit(r) PROVE RejectionReachesManagers'
      <3>1. decisions \in Seq(Decision) /\ notes' = NotesAfter(r)
        BY <2>1 DEF TypeOK, Commit
      <3>2. Rejecters(decisions') =
               Rejecters(decisions) \cup (IF tx[r].kind = "reject" THEN {r} ELSE {})
        <4> DEFINE d == DecisionOf(r)
        <4>1. \/ /\ tx[r].kind \in {"sign", "reject"}
                 /\ d \in Decision /\ d.by = r
                 /\ (d.type = "EEA2_REJECTED") <=> (tx[r].kind = "reject")
                 /\ decisions' = Append(decisions, d)
              \/ tx[r].kind \notin {"sign", "reject"} /\ decisions' = decisions
          BY <2>1, CommitTrail
        <4> HIDE DEF d
        <4>2. CASE tx[r].kind \in {"sign", "reject"}
          <5>1. Rejecters(decisions') =
                   Rejecters(decisions) \cup (IF d.type = "EEA2_REJECTED" THEN {d.by} ELSE {})
            BY <3>1, <4>1, <4>2, AppendedDecision
          <5>2. QED
            BY <4>1, <4>2, <5>1
        <4>3. CASE tx[r].kind \notin {"sign", "reject"}
          BY <4>1, <4>3
        <4>4. QED
          BY <4>2, <4>3
      <3>3. notes' = Managers \X Rejecters(decisions')
        BY <1>1, <3>1, <3>2 DEF NotesAfter
      <3>4. QED
        BY <1>2, <3>3
    <2>2. CASE UNCHANGED <<decisions, notes>>
      BY <2>2 DEF RejectionReachesManagers
    <2>3. QED
      BY <2>1, <2>2, StepCases
         DEF Turned, Answer, Editing, Signing, Rejecting, Proceed, InsertDraft,
             AppendDecision, UpdateDraft, AnswerBeforeCommit, Rollback, vars
  <1>5. QED
    BY <1>3, <1>4, TypeCorrect, PTL DEF Spec

\* A request has no place in the trail before it has ended, and none afterwards
\* unless it was answered 200, 201 or 500.
AnswerInv ==
    \A r \in Requests :
        /\ pc[r] # "done" => Places(r, decisions) = {}
        /\ pc[r] \notin {"told", "done"} => reply[r] = 0
        /\ pc[r] = "told" => reply[r] = 200
        /\ reply[r] \in {400, 403, 404, 409} => Places(r, decisions) = {}
        /\ pc[r] = "done" /\ reply[r] = 200 /\ tx[r].kind \in {"sign", "reject"}
              => \E i \in Places(r, decisions) : Places(r, decisions) = {i}

\* Steps of a request that leave the trail alone keep what the others were told.
LEMMA AnswerLocal ==
    ASSUME TypeOK, AnswerInv, NEW r \in Requests,
           decisions' = decisions,
           \A q \in Requests \ {r} : pc'[q] = pc[q] /\ reply'[q] = reply[q] /\ tx'[q] = tx[q],
           pc[r] # "done",
           pc'[r] \notin {"told", "done"} => reply'[r] = 0,
           pc'[r] = "told" => reply'[r] = 200,
           pc'[r] = "done" /\ reply'[r] = 200 => tx'[r].kind \notin {"sign", "reject"}
    PROVE  AnswerInv'
  BY DEF AnswerInv, Places

\* Whoever was answered 200 for a decision has exactly one place in the trail, and
\* whoever was refused has none.
THEOREM Truthful == Spec => []AnswersAreTruthful
  <1>1. Init => AnswerInv
    BY DEF Init, AnswerInv, Places
  <1>2. TypeOK /\ TypeOK' /\ IInv /\ AnswerInv /\ [Next]_vars => AnswerInv'
    <2> SUFFICES ASSUME TypeOK, TypeOK', IInv, AnswerInv, [Next]_vars PROVE AnswerInv'
      OBVIOUS
    <2>1. ASSUME NEW r \in Requests, Turned(r) PROVE AnswerInv'
      BY <2>1, AnswerLocal DEF Turned, Answer, TypeOK
    <2>2. ASSUME NEW r \in Requests, pc[r] \notin {"told", "done"},
                 UNCHANGED <<decisions, reply>>,
                 pc'[r] \notin {"told", "done"},
                 \A q \in Requests \ {r} : pc'[q] = pc[q] /\ tx'[q] = tx[q]
          PROVE  AnswerInv'
      <3>1. reply'[r] = 0 /\ \A q \in Requests \ {r} : reply'[q] = reply[q]
        BY <2>2 DEF AnswerInv
      <3>2. QED
        BY <2>2, <3>1, AnswerLocal
    <2>3. ASSUME NEW r \in Requests, Editing(r) \/ Signing(r) \/ Rejecting(r)
          PROVE  AnswerInv'
      <3>1. ASSUME NEW kind, NEW w, pc[r] = "idle", Proceed(r, kind, w) PROVE AnswerInv'
        BY <3>1, <2>2 DEF Proceed, TypeOK
      <3>2. QED
        BY <2>3, <3>1 DEF Editing, Signing, Rejecting, CanOpenTransaction
    <2>4. ASSUME NEW r \in Requests, InsertDraft(r) PROVE AnswerInv'
      BY <2>4, <2>2 DEF InsertDraft, CanOpenTransaction, TypeOK
    <2>5. ASSUME NEW r \in Requests, AppendDecision(r) PROVE AnswerInv'
      <3>1. \A q \in Requests \ {r} : tx'[q] = tx[q]
        BY <2>5 DEF AppendDecision, TypeOK
      <3>2. QED
        BY <2>5, <3>1, <2>2 DEF AppendDecision, TypeOK
    <2>6. ASSUME NEW r \in Requests, UpdateDraft(r) PROVE AnswerInv'
      BY <2>6, <2>2 DEF UpdateDraft, TypeOK
    <2>7. ASSUME NEW r \in Requests, AnswerBeforeCommit(r) PROVE AnswerInv'
      BY <2>7, AnswerLocal DEF AnswerBeforeCommit, TypeOK
    <2>8. ASSUME NEW r \in Requests, Commit(r) PROVE AnswerInv'
      <3>1. /\ r \in InFlight /\ pc[r] \in {"written", "told"} /\ tx[r] \in Tx
            /\ pc[r] = "told" => tx[r].kind = "patch" /\ reply[r] = 200
        BY <2>8 DEF Commit, MayCommit, InFlight, Working, TypeOK, IInv, HandlerInv, AnswerInv
      <3>2. /\ pc' = [pc EXCEPT ![r] = "done"]
            /\ tx' = [tx EXCEPT ![r] = Ended(tx[r].kind)]
            /\ reply'[r] \in {200, 201, 500}
            /\ \A q \in Requests \ {r} : reply'[q] = reply[q]
        BY <2>8, <3>1 DEF Commit, Answers, TypeOK
      <3>3. CASE tx[r].kind \notin {"sign", "reject"}
        <4>1. decisions' = decisions
          BY <2>8, <3>3, CommitTrail
        <4>2. tx'[r].kind = "edit"
          BY <3>2, <3>3 DEF Ended, TypeOK
        <4>3. \A q \in Requests \ {r} : pc'[q] = pc[q] /\ tx'[q] = tx[q]
          BY <3>2 DEF TypeOK
        <4>4. pc'[r] = "done" /\ pc[r] # "done"
          BY <3>1, <3>2 DEF TypeOK
        <4>5. QED
          BY <3>2, <4>1, <4>2, <4>3, <4>4, AnswerLocal
      <3>4. CASE tx[r].kind \in {"sign", "reject"}
        <4>1. decisions \in Seq(Decision) /\ Places(r, decisions) = {}
          BY <3>1 DEF TypeOK, AnswerInv
        <4>2. PICK d \in Decision : d.by = r /\ decisions' = Append(decisions, d)
          BY <2>8, <3>4, CommitTrail
        <4>3. \A q : Places(q, decisions') =
                        Places(q, decisions) \cup (IF d.by = q THEN {Len(decisions) + 1} ELSE {})
          BY <4>1, <4>2, AppendedDecision
        <4>4. Places(r, decisions') = {Len(decisions) + 1}
          BY <4>1, <4>2, <4>3
        <4>5. ASSUME NEW q \in Requests, q # r
              PROVE  Places(q, decisions') = Places(q, decisions)
          BY <4>5, <4>2, <4>3
        <4>6. \A q \in Requests \ {r} : pc'[q] = pc[q] /\ tx'[q] = tx[q]
          BY <3>2 DEF TypeOK
        <4>7. pc'[r] = "done"
          BY <3>2 DEF TypeOK
        <4> DEFINE P(q) == Places(q, decisions')
        <4>8. AnswerInv' <=>
                 \A q \in Requests :
                    /\ pc'[q] # "done" => P(q) = {}
                    /\ pc'[q] \notin {"told", "done"} => reply'[q] = 0
                    /\ pc'[q] = "told" => reply'[q] = 200
                    /\ reply'[q] \in {400, 403, 404, 409} => P(q) = {}
                    /\ pc'[q] = "done" /\ reply'[q] = 200 /\ tx'[q].kind \in {"sign", "reject"}
                          => \E i \in P(q) : P(q) = {i}
          BY DEF AnswerInv, Places
        <4> HIDE DEF P
        <4>9. /\ P(r) = {Len(decisions) + 1}
              /\ \A q \in Requests \ {r} : P(q) = Places(q, decisions)
          BY <4>4, <4>5 DEF P
        <4>10. ASSUME NEW q \in Requests, q # r
              PROVE  /\ pc'[q] # "done" => P(q) = {}
                     /\ pc'[q] \notin {"told", "done"} => reply'[q] = 0
                     /\ pc'[q] = "told" => reply'[q] = 200
                     /\ reply'[q] \in {400, 403, 404, 409} => P(q) = {}
                     /\ pc'[q] = "done" /\ reply'[q] = 200 /\ tx'[q].kind \in {"sign", "reject"}
                           => \E i \in P(q) : P(q) = {i}
          BY <3>2, <4>6, <4>9, <4>10 DEF AnswerInv
        <4>11. \E i \in P(r) : P(r) = {i}
          BY <4>9
        <4>12. QED
          BY <3>2, <4>7, <4>8, <4>10, <4>11
      <3>5. QED
        BY <3>3, <3>4
    <2>9. ASSUME NEW r \in Requests, Rollback(r) PROVE AnswerInv'
      <3>1. r \in InFlight /\ (pc[r] = "told" => tx[r].kind = "patch" /\ reply[r] = 200)
        BY <2>9 DEF Rollback, InFlight, IInv, HandlerInv, AnswerInv
      <3>2. /\ pc' = [pc EXCEPT ![r] = "done"] /\ pc[r] # "done"
            /\ tx' = [tx EXCEPT ![r] = Ended(tx[r].kind)]
            /\ decisions' = decisions
            /\ \A q \in Requests \ {r} : reply'[q] = reply[q]
            /\ IF pc[r] = "told" THEN reply'[r] = 200 ELSE reply'[r] = 500
        BY <2>9, <3>1 DEF Rollback, Answers, Working, TypeOK
      <3>3. pc[r] = "told" => tx'[r].kind = "edit"
        BY <3>1, <3>2 DEF Ended, TypeOK
      <3>4. \A q \in Requests \ {r} : pc'[q] = pc[q] /\ tx'[q] = tx[q]
        BY <3>2 DEF TypeOK
      <3>5. pc'[r] = "done"
        BY <3>2 DEF TypeOK
      <3>6. QED
        BY <3>2, <3>3, <3>4, <3>5, AnswerLocal
    <2>10. CASE UNCHANGED vars
      BY <2>10 DEF vars, AnswerInv, Places
    <2>11. QED
      BY <2>1, <2>3, <2>4, <2>5, <2>6, <2>7, <2>8, <2>9, <2>10, StepCases
  <1>3. TypeOK /\ IInv /\ AnswerInv => AnswersAreTruthful
    <2> SUFFICES ASSUME TypeOK, IInv, AnswerInv, NEW r \in Requests
                 PROVE  /\ reply[r] = 200 /\ tx[r].kind \in {"sign", "reject"}
                              => \E i \in Places(r, decisions) : Places(r, decisions) = {i}
                        /\ reply[r] \in {400, 403, 404, 409} => Places(r, decisions) = {}
      BY DEF AnswersAreTruthful, Places
    <2>1. pc[r] = "told" => tx[r].kind = "patch"
      BY DEF IInv, HandlerInv, InFlight, Working
    <2>2. QED
      BY <2>1 DEF AnswerInv
  <1>4. QED
    BY <1>1, <1>2, <1>3, TypeCorrect, Inductive, PTL DEF Spec

----------------------------------------------------------------------------
(***************************************************************************)
(* A pool of one connection: handlers do not interleave.                    *)
(***************************************************************************)
SerialInv ==
    PoolSize = 1 =>
        /\ \A q, r \in InFlight : q = r
        /\ \A r \in InFlight :
              /\ tx[r].seen = row
              /\ tx[r].kind \in EditKinds \cup {"sign"} => row.status # "signed"
              /\ tx[r].kind = "reject" => row.status = "pending_ceo"

\* With one connection a transaction opens only when none is in flight.
LEMMA OneAtATime ==
    ASSUME NEW r \in Requests, PoolSize = 1, CanOpenTransaction(r)
    PROVE  InFlight = {}
  <1>1. IsFiniteSet(InFlight)
    BY RequestsAssumption, FS_Subset DEF InFlight
  <1>2. Cardinality(InFlight) \in Nat /\ Cardinality(InFlight) < 1
    BY <1>1, FS_CardinalityType DEF CanOpenTransaction
  <1>3. QED
    BY <1>1, <1>2, FS_EmptySet

\* With one connection, what a handler read is still what is committed.
THEOREM Serial == Spec => []SerialInv
  <1>1. Init => SerialInv
    BY DEF Init, SerialInv, InFlight, Working
  <1>2. TypeOK /\ TypeOK' /\ IInv /\ SerialInv /\ [Next]_vars => SerialInv'
    <2> SUFFICES ASSUME TypeOK, TypeOK', IInv, SerialInv, [Next]_vars, PoolSize = 1
                 PROVE  SerialInv'
      BY DEF SerialInv
    <2>1. ASSUME NEW r \in Requests, NEW kind \in EditKinds \cup {"sign", "reject"}, NEW w,
                 CanOpenTransaction(r), Proceed(r, kind, w),
                 kind \in EditKinds \cup {"sign"} => row.status # "signed",
                 kind = "reject" => row.status = "pending_ceo"
          PROVE  SerialInv'
      <3>1. InFlight = {}
        BY <2>1, OneAtATime
      <3>2. pc' = [pc EXCEPT ![r] = "read"] /\ row' = row
            /\ tx'[r].kind = kind /\ tx'[r].seen = row
        BY <2>1 DEF Proceed, TypeOK
      <3>3. InFlight' = {r}
        BY <3>1, <3>2 DEF InFlight, Working, TypeOK
      <3>4. QED
        BY <2>1, <3>2, <3>3 DEF SerialInv
    <2>2. ASSUME NEW r \in Requests, Editing(r) PROVE SerialInv'
      BY <2>2, <2>1 DEF Editing
    <2>3. ASSUME NEW r \in Requests, Signing(r) PROVE SerialInv'
      BY <2>3, <2>1 DEF Signing
    <2>4. ASSUME NEW r \in Requests, Rejecting(r) PROVE SerialInv'
      BY <2>4, <2>1 DEF Rejecting
    <2>5. ASSUME NEW r \in Requests, InsertDraft(r) PROVE SerialInv'
      <3>1. InFlight = {}
        BY <2>5, OneAtATime DEF InsertDraft
      <3>2. pc' = [pc EXCEPT ![r] = "written"] /\ tx'[r].kind = "create"
        BY <2>5 DEF InsertDraft, TypeOK
      <3>3. InFlight' = {r} /\ row' = row /\ tx'[r].seen = row
        BY <3>1, <3>2, <2>5 DEF InsertDraft, InFlight, Working, TypeOK
      <3>4. QED
        BY <3>2, <3>3 DEF SerialInv
    <2>6. ASSUME NEW r \in Requests, AppendDecision(r) \/ UpdateDraft(r) \/ AnswerBeforeCommit(r)
          PROVE  SerialInv'
      <3>1. row' = row /\ InFlight' = InFlight
        BY <2>6 DEF AppendDecision, UpdateDraft, AnswerBeforeCommit, InFlight, Working, TypeOK
      <3>2. ASSUME NEW q \in Requests PROVE tx'[q].kind = tx[q].kind /\ tx'[q].seen = tx[q].seen
        <4>1. CASE UpdateDraft(r) \/ AnswerBeforeCommit(r)
          BY <4>1 DEF UpdateDraft, AnswerBeforeCommit
        <4>2. CASE AppendDecision(r)
          <5>1. tx' = [tx EXCEPT ![r] = [tx[r] EXCEPT !.at = clock']]
            BY <4>2 DEF AppendDecision, CreatedAt
          <5>2. tx[q] \in Tx /\ tx[r] \in Tx /\ tx \in [Requests -> Tx]
            BY DEF TypeOK
          <5>3. CASE q = r
            BY <5>1, <5>2, <5>3 DEF Tx
          <5>4. CASE q # r
            BY <5>1, <5>2, <5>4
          <5>5. QED
            BY <5>3, <5>4
        <4>3. QED
          BY <2>6, <4>1, <4>2
      <3>3. QED
        BY <3>1, <3>2 DEF SerialInv, InFlight
    <2>7. ASSUME NEW r \in Requests, Commit(r) \/ Rollback(r) PROVE SerialInv'
      <3>1. r \in InFlight /\ InFlight' = InFlight \ {r}
        BY <2>7 DEF Commit, MayCommit, Rollback, InFlight, Working, TypeOK
      <3>2. InFlight' = {}
        BY <3>1 DEF SerialInv
      <3>3. QED
        BY <3>2 DEF SerialInv
    <2>8. ASSUME NEW r \in Requests, Turned(r) PROVE SerialInv'
      <3>1. InFlight' = InFlight /\ row' = row /\ tx' = tx
        BY <2>8 DEF Turned, Answer, InFlight, Working, TypeOK
      <3>2. QED
        BY <3>1 DEF SerialInv
    <2>9. CASE UNCHANGED vars
      BY <2>9 DEF vars, SerialInv, InFlight
    <2>10. QED
      BY <2>2, <2>3, <2>4, <2>5, <2>6, <2>7, <2>8, <2>9, StepCases
  <1>3. QED
    BY <1>1, <1>2, TypeCorrect, Inductive, PTL DEF Spec

----------------------------------------------------------------------------
(***************************************************************************)
(* Lost changes.  A handler that is going to write the state column back    *)
(* holds a value that is still due for every key: a change that would make  *)
(* it stale commits beside the handler, and then leaves the old value due.  *)
(***************************************************************************)
ChangeInv ==
    /\ OnlyOverlapLosesChanges
    /\ \A r \in InFlight : tx[r].write.writesState =>
          \A k \in Keys : tx[r].seen.state[k] \in due[k]

\* Steps that leave the row, what is due and the other handlers' memories alone.
LEMMA ChangeLocal ==
    ASSUME TypeOK, ChangeInv, NEW r \in Requests,
           row' = row, due' = due,
           \A q \in Requests \ {r} : pc'[q] = pc[q] /\ tx'[q] = tx[q],
           \/ pc'[r] \notin Working
           \/ tx'[r].seen = row
           \/ pc[r] \in Working /\ tx'[r].seen = tx[r].seen /\ tx'[r].write = tx[r].write
    PROVE  ChangeInv'
  BY DEF ChangeInv, OnlyOverlapLosesChanges, InFlight

\* A change of the draft is lost only to a handler that was open when it committed.
THEOREM Changes == Spec => []OnlyOverlapLosesChanges
  <1>1. Init => ChangeInv
    BY DEF Init, ChangeInv, OnlyOverlapLosesChanges, InFlight, Working
  <1>2. TypeOK /\ ChangeInv /\ [Next]_vars => ChangeInv'
    <2> SUFFICES ASSUME TypeOK, ChangeInv, [Next]_vars PROVE ChangeInv'
      OBVIOUS
    <2>1. ASSUME NEW r \in Requests, Turned(r) \/ Rollback(r) PROVE ChangeInv'
      BY <2>1, ChangeLocal DEF Turned, Answer, Rollback, TypeOK, Working
    <2>2. ASSUME NEW r \in Requests, Editing(r) \/ Signing(r) \/ Rejecting(r) PROVE ChangeInv'
      BY <2>2, ChangeLocal DEF Editing, Signing, Rejecting, Proceed, TypeOK
    <2>3. ASSUME NEW r \in Requests, InsertDraft(r) PROVE ChangeInv'
      BY <2>3, ChangeLocal DEF InsertDraft, TypeOK
    <2>4. ASSUME NEW r \in Requests, AppendDecision(r) PROVE ChangeInv'
      <3>1. /\ tx \in [Requests -> Tx] /\ tx[r] \in Tx
            /\ tx' = [tx EXCEPT ![r] = [tx[r] EXCEPT !.at = clock']]
        BY <2>4 DEF AppendDecision, CreatedAt, TypeOK
      <3>2. tx'[r].seen = tx[r].seen /\ tx'[r].write = tx[r].write
        BY <3>1 DEF Tx
      <3>3. QED
        BY <2>4, <3>1, <3>2, ChangeLocal DEF AppendDecision, Working, TypeOK
    <2>5. ASSUME NEW r \in Requests, UpdateDraft(r) \/ AnswerBeforeCommit(r) PROVE ChangeInv'
      BY <2>5, ChangeLocal DEF UpdateDraft, AnswerBeforeCommit, Working, TypeOK
    <2>6. ASSUME NEW r \in Requests, Commit(r) PROVE ChangeInv'
      <3>1. /\ r \in InFlight /\ tx[r] \in Tx
            /\ row'.state = StateAfter(r) /\ due' = DueAfter(r)
            /\ \A q \in Requests \ {r} : tx'[q] = tx[q]
            /\ InFlight' = InFlight \ {r}
        BY <2>6 DEF Commit, MayCommit, InFlight, Working, TypeOK
      <3>2. ASSUME NEW k \in Keys PROVE row'.state[k] \in due'[k]
        <4>1. CASE tx[r].write.writesState /\ k \in tx[r].write.keys
          BY <3>1, <4>1 DEF StateAfter, MergedState, DueAfter
        <4>2. CASE tx[r].write.writesState /\ k \notin tx[r].write.keys
          BY <3>1, <4>2 DEF StateAfter, MergedState, DueAfter, ChangeInv
        <4>3. CASE ~tx[r].write.writesState
          BY <3>1, <4>3 DEF StateAfter, DueAfter, ChangeInv, OnlyOverlapLosesChanges
        <4>4. QED
          BY <4>1, <4>2, <4>3
      <3>3. ASSUME NEW q \in InFlight \ {r}, tx[q].write.writesState, NEW k \in Keys
            PROVE  tx[q].seen.state[k] \in due'[k]
        <4>1. tx[q].seen.state[k] \in due[k]
          BY <3>3 DEF ChangeInv
        <4>2. due[k] \subseteq due'[k]
          BY <3>1, <3>3 DEF DueAfter
        <4>3. QED
          BY <4>1, <4>2
      <3>4. \A q \in InFlight' : tx'[q] = tx[q]
        BY <3>1 DEF InFlight
      <3>5. QED
        BY <3>1, <3>2, <3>3, <3>4 DEF ChangeInv, OnlyOverlapLosesChanges
    <2>7. CASE UNCHANGED vars
      BY <2>7 DEF vars, ChangeInv, OnlyOverlapLosesChanges, InFlight
    <2>8. QED
      BY <2>1, <2>2, <2>3, <2>4, <2>5, <2>6, <2>7, StepCases
  <1>3. ChangeInv => OnlyOverlapLosesChanges
    BY DEF ChangeInv
  <1>4. QED
    BY <1>1, <1>2, <1>3, TypeCorrect, PTL DEF Spec

(***************************************************************************)
(* The stamps.  No event of the trail is stamped later than now, and a      *)
(* handler that has stamped its event had not seen a later stamp.           *)
(***************************************************************************)
Stamped(r) ==
    /\ tx[r].at <= clock
    /\ \A i \in DOMAIN decisions : i <= tx[r].after => decisions[i].at <= tx[r].at

StampInv ==
    /\ StampsFollowCauses
    /\ \A i \in DOMAIN decisions : decisions[i].at <= clock /\ decisions[i].after < i
    /\ \A r \in InFlight : tx[r].after <= Len(decisions)
    /\ \A r \in InFlight : pc[r] # "read" /\ tx[r].kind \in {"sign", "reject"} => Stamped(r)

\* Steps that leave the trail and the clock alone.
LEMMA StampLocal ==
    ASSUME TypeOK, StampInv, NEW r \in Requests,
           decisions' = decisions, clock' = clock,
           \A q \in Requests \ {r} : pc'[q] = pc[q] /\ tx'[q] = tx[q],
           \/ pc'[r] \notin Working
           \/ /\ tx'[r].after = Len(decisions)
              /\ pc'[r] = "read" \/ tx'[r].kind \notin {"sign", "reject"}
           \/ /\ pc[r] \in Working /\ tx'[r] = tx[r]
              /\ pc[r] # "read" \/ tx[r].kind \notin {"sign", "reject"}
    PROVE  StampInv'
  <1>1. Len(decisions) \in Nat
    BY DEF TypeOK
  <1>2. \A q \in InFlight' : tx'[q].after <= Len(decisions)
    BY <1>1 DEF StampInv, InFlight
  <1>3. \A q \in InFlight' : pc'[q] # "read" /\ tx'[q].kind \in {"sign", "reject"} => Stamped(q)'
    <2>1. ASSUME NEW q \in InFlight', pc'[q] # "read", tx'[q].kind \in {"sign", "reject"}
          PROVE  q \in InFlight /\ pc[q] # "read" /\ tx[q].kind \in {"sign", "reject"} /\ tx'[q] = tx[q]
      BY <2>1 DEF InFlight, Working
    <2>2. QED
      BY <2>1 DEF StampInv, Stamped
  <1>4. QED
    BY <1>2, <1>3 DEF StampInv, StampsFollowCauses, Stamped

\* A decision is never stamped earlier than one its handler had seen.
THEOREM Stamps == Spec => []StampsFollowCauses
  <1>1. Init => StampInv
    BY DEF Init, StampInv, StampsFollowCauses, InFlight, Working
  <1>2. TypeOK /\ IInv /\ StampInv /\ [Next]_vars => StampInv'
    <2> SUFFICES ASSUME TypeOK, IInv, StampInv, [Next]_vars PROVE StampInv'
      OBVIOUS
    <2> DEFINE n == Len(decisions)
    <2>0. /\ clock \in Nat /\ n \in Nat /\ DOMAIN decisions = 1..n
          /\ \A i \in 1..n : decisions[i].at \in Nat /\ decisions[i].after \in Nat
          /\ tx \in [Requests -> Tx] /\ \A q \in Requests : tx[q].at \in Nat /\ tx[q].after \in Nat
      <3>1. decisions \in Seq(Decision) /\ tx \in [Requests -> Tx] /\ clock \in Nat
        BY DEF TypeOK
      <3>2. \A i \in 1..n : decisions[i] \in Decision
        BY <3>1
      <3>3. \A i \in 1..n : decisions[i].at \in Nat /\ decisions[i].after \in Nat
        BY <3>2 DEF Decision
      <3>4. \A q \in Requests : tx[q].at \in Nat /\ tx[q].after \in Nat
        BY <3>1 DEF Tx
      <3>5. QED
        BY <3>1, <3>3, <3>4
    <2>1. ASSUME NEW r \in Requests, Turned(r) \/ Rollback(r) PROVE StampInv'
      BY <2>1, StampLocal DEF Turned, Answer, Rollback, TypeOK, Working
    <2>2. ASSUME NEW r \in Requests, Editing(r) \/ Signing(r) \/ Rejecting(r) PROVE StampInv'
      BY <2>2, StampLocal DEF Editing, Signing, Rejecting, Proceed, TypeOK
    <2>3. ASSUME NEW r \in Requests, InsertDraft(r) PROVE StampInv'
      BY <2>3, StampLocal DEF InsertDraft, TypeOK
    <2>4. ASSUME NEW r \in Requests, AppendDecision(r) PROVE StampInv'
      <3>1. /\ tx' = [tx EXCEPT ![r] = [tx[r] EXCEPT !.at = clock']]
            /\ clock' \in {clock, clock + 1} /\ decisions' = decisions
            /\ pc' = [pc EXCEPT ![r] = "audited"] /\ pc[r] = "read"
            /\ r \in InFlight /\ InFlight' = InFlight
        BY <2>4 DEF AppendDecision, CreatedAt, InFlight, Working, TypeOK
      <3>2. /\ tx'[r].at = clock' /\ tx'[r].after = tx[r].after
            /\ \A q \in Requests \ {r} : tx'[q] = tx[q] /\ pc'[q] = pc[q]
        BY <2>0, <3>1 DEF Tx, TypeOK
      <3>3. clock <= clock' /\ clock' \in Nat
        BY <2>0, <3>1
      <3>4. \A i \in 1..n : decisions[i].at <= clock'
        BY <2>0, <3>3 DEF StampInv
      <3>5. ASSUME NEW q \in InFlight, pc'[q] # "read", tx'[q].kind \in {"sign", "reject"}
            PROVE  Stamped(q)'
        <4>1. CASE q = r
          BY <2>0, <3>1, <3>2, <3>3, <3>4, <4>1 DEF Stamped
        <4>2. CASE q # r
          <5>1. Stamped(q) /\ tx'[q] = tx[q] /\ q \in Requests
            BY <3>2, <3>5, <4>2 DEF StampInv, InFlight
          <5>2. QED
            BY <2>0, <3>1, <3>3, <5>1 DEF Stamped
        <4>3. QED
          BY <4>1, <4>2
      <3>6. \A q \in InFlight : tx'[q].after <= n
        BY <3>1, <3>2 DEF StampInv, InFlight
      <3>7. QED
        BY <2>0, <3>1, <3>4, <3>5, <3>6 DEF StampInv, StampsFollowCauses
    <2>5. ASSUME NEW r \in Requests, UpdateDraft(r) \/ AnswerBeforeCommit(r) PROVE StampInv'
      BY <2>5, StampLocal DEF UpdateDraft, AnswerBeforeCommit, Working, TypeOK
    <2>6. ASSUME NEW r \in Requests, Commit(r) PROVE StampInv'
      <3>1. /\ r \in InFlight /\ tx[r] \in Tx /\ clock' = clock
            /\ InFlight' = InFlight \ {r} /\ pc[r] # "read"
            /\ \A q \in Requests \ {r} : tx'[q] = tx[q] /\ pc'[q] = pc[q]
        BY <2>6 DEF Commit, MayCommit, InFlight, Working, TypeOK
      <3>2. CASE decisions' = decisions
        BY <3>1, <3>2, StampLocal, <2>6 DEF Commit, MayCommit, TypeOK, Working
      <3>3. CASE /\ tx[r].kind \in {"sign", "reject"} /\ DecisionOf(r) \in Decision
                 /\ decisions' = Append(decisions, DecisionOf(r))
        <4>1. /\ DecisionOf(r).at = tx[r].at /\ DecisionOf(r).after = tx[r].after
              /\ Stamped(r) /\ tx[r].after <= n
          BY <3>1, <3>3 DEF DecisionOf, StampInv
        <4>2. /\ Len(decisions') = n + 1 /\ DOMAIN decisions' = 1..(n + 1)
              /\ \A i \in 1..n : decisions'[i] = decisions[i]
              /\ decisions'[n + 1] = DecisionOf(r)
          BY <3>3 DEF TypeOK
        <4>3. \A i \in 1..(n + 1) : decisions'[i].at <= clock /\ decisions'[i].after < i
          BY <2>0, <4>1, <4>2 DEF StampInv, Stamped
        <4>4. ASSUME NEW i \in 1..(n + 1), NEW j \in 1..(n + 1), i <= decisions'[j].after
              PROVE  decisions'[i].at <= decisions'[j].at
          <5>1. CASE j = n + 1
            <6>1. decisions'[j].after = tx[r].after /\ decisions'[j].at = tx[r].at
              BY <4>1, <4>2, <5>1
            <6>2. tx[r].after \in Nat /\ r \in Requests
              BY <2>0
            <6>3. i \in 1..n /\ i <= tx[r].after
              BY <2>0, <4>1, <4>4, <6>1, <6>2
            <6>4. decisions[i].at <= tx[r].at
              BY <2>0, <4>1, <6>3 DEF Stamped
            <6>5. QED
              BY <4>2, <6>1, <6>3, <6>4
          <5>2. CASE j # n + 1
            <6>1. j \in 1..n /\ i \in 1..n /\ i <= decisions[j].after
              BY <2>0, <4>2, <4>4, <5>2 DEF StampInv
            <6>2. QED
              BY <2>0, <4>2, <6>1 DEF StampInv, StampsFollowCauses
          <5>3. QED
            BY <5>1, <5>2
        <4>5. ASSUME NEW q \in InFlight \ {r}
              PROVE  /\ tx[q].after <= n + 1
                     /\ pc[q] # "read" /\ tx[q].kind \in {"sign", "reject"} => Stamped(q)'
          <5>1. /\ q \in Requests /\ tx[q].after <= n /\ tx'[q] = tx[q]
                /\ pc[q] # "read" /\ tx[q].kind \in {"sign", "reject"} => Stamped(q)
            BY <3>1, <4>5 DEF StampInv, InFlight
          <5>2. tx[q].after \in Nat
            BY <2>0, <5>1
          <5>3. ASSUME Stamped(q) PROVE Stamped(q)'
            BY <2>0, <3>1, <4>2, <5>1, <5>2, <5>3 DEF Stamped
          <5>4. QED
            BY <2>0, <5>1, <5>2, <5>3 DEF Stamped
        <4>6. QED
          BY <3>1, <4>2, <4>3, <4>4, <4>5 DEF StampInv, StampsFollowCauses, InFlight
      <3>4. QED
        BY <2>6, <3>2, <3>3, CommitTrail
    <2>7. CASE UNCHANGED vars
      BY <2>7 DEF vars, StampInv, StampsFollowCauses, Stamped, InFlight
    <2>8. QED
      BY <2>1, <2>2, <2>3, <2>4, <2>5, <2>6, <2>7, StepCases
  <1>3. StampInv => StampsFollowCauses
    BY DEF StampInv
  <1>4. QED
    BY <1>1, <1>2, <1>3, TypeCorrect, Inductive, PTL DEF Spec

----------------------------------------------------------------------------
(* The implementation of the lifecycle. *)

\* Dropping the timestamps commutes with appending.
LEMMA EntriesAppend ==
    ASSUME NEW s \in Seq(Decision), NEW d \in Decision
    PROVE  Entries(Append(s, d)) = Append(Entries(s), Entry(d))
  <1> DEFINE E == [type : {"EEA2_SIGNED", "EEA2_REJECTED"}, by : Requests]
             n == Len(s)
             t == Append(s, d)
  <1>1. /\ n \in Nat /\ DOMAIN s = 1..n /\ \A i \in 1..n : s[i] \in Decision
        /\ t \in Seq(Decision) /\ Len(t) = n + 1 /\ DOMAIN t = 1..(n + 1)
        /\ \A i \in 1..n : t[i] = s[i]
        /\ t[n + 1] = d
    OBVIOUS
  <1>2. \A e \in Decision : Entry(e) \in E
    BY DEF Entry, Decision
  <1>3. Entries(s) = [i \in 1..n |-> Entry(s[i])] /\ Entries(s) \in [1..n -> E]
    <2>1. \A i \in 1..n : Entry(s[i]) \in E
      BY <1>1, <1>2
    <2>2. Entries(s) = [i \in 1..n |-> Entry(s[i])]
      BY <1>1 DEF Entries
    <2> HIDE DEF E, n
    <2>3. QED
      BY <2>1, <2>2
  <1>4. Entries(s) \in Seq(E) /\ Len(Entries(s)) = n
    BY <1>1, <1>3
  <1>5. /\ Append(Entries(s), Entry(d)) \in [1..(n + 1) -> E]
        /\ \A i \in 1..n : Append(Entries(s), Entry(d))[i] = Entries(s)[i]
        /\ Append(Entries(s), Entry(d))[n + 1] = Entry(d)
    <2> DEFINE f == Append(Entries(s), Entry(d))
    <2>1. Entry(d) \in E
      BY <1>2
    <2> HIDE DEF E, n
    <2>2. /\ f \in Seq(E) /\ Len(f) = Len(Entries(s)) + 1
          /\ \A i \in 1..Len(Entries(s)) : f[i] = Entries(s)[i]
          /\ f[Len(Entries(s)) + 1] = Entry(d)
      BY <1>4, <2>1, AppendProperties
    <2>3. f \in [1..Len(f) -> E]
      BY <2>2, LenProperties
    <2>4. QED
      BY <1>4, <2>2, <2>3
  <1>6. Entries(t) = [i \in 1..(n + 1) |-> Entry(t[i])] /\ Entries(t) \in [1..(n + 1) -> E]
    <2>1. \A i \in 1..(n + 1) : Entry(t[i]) \in E
      BY <1>1, <1>2
    <2>2. Entries(t) = [i \in 1..(n + 1) |-> Entry(t[i])]
      BY <1>1 DEF Entries
    <2> HIDE DEF E, n, t
    <2>3. QED
      BY <2>1, <2>2
  <1>7. ASSUME NEW i \in 1..(n + 1)
        PROVE  Entries(t)[i] = Append(Entries(s), Entry(d))[i]
    <2>1. Entries(t)[i] = Entry(t[i])
      BY <1>1 DEF Entries
    <2>2. CASE i = n + 1
      BY <1>1, <1>5, <2>1, <2>2
    <2>3. CASE i \in 1..n
      <3>1. Entries(s)[i] = Entry(s[i])
        BY <1>1, <2>3 DEF Entries
      <3>2. QED
        BY <1>1, <1>5, <2>1, <2>3, <3>1
    <2>4. i = n + 1 \/ i \in 1..n
      BY <1>1
    <2>5. QED
      BY <2>2, <2>3, <2>4
  <1>8. QED
    BY <1>5, <1>6, <1>7

\* A committed decision appends its entry to the trail of the lifecycle.
LEMMA TrailAppend ==
    ASSUME decisions \in Seq(Decision), NEW d \in Decision,
           decisions' = Append(decisions, d)
    PROVE  Trail' = Append(Trail, Entry(d))
  BY EntriesAppend DEF Trail, Entries

\* Handlers, interleaved step by step, implement atomic requests; the strict
\* ones when the pool has one connection.
THEOREM Refinement == Spec => ImplementsLifecycle
  <1>1. Init => Lifecycle!Init
    BY DEF Init, OpenStatus, Lifecycle!Init, Lifecycle!Open, Trail, Entries
  <1>2. TypeOK /\ IInv /\ SerialInv /\ [Next]_vars
           => [Lifecycle!Next]_Lifecycle!lifecycle
    <2> SUFFICES ASSUME TypeOK, IInv, SerialInv, [Next]_vars
                 PROVE  [Lifecycle!Next]_Lifecycle!lifecycle
      OBVIOUS
    <2> USE DEF Lifecycle!Next, Lifecycle!lifecycle
    <2>1. ASSUME NEW r \in Requests, Commit(r)
          PROVE  [Lifecycle!Next]_Lifecycle!lifecycle
      <3>1. /\ r \in InFlight /\ tx[r] \in Tx /\ decisions \in Seq(Decision)
            /\ decisions' = DecisionsAfter(r) /\ notes' = NotesAfter(r)
        BY <2>1 DEF Commit, MayCommit, InFlight, Working, TypeOK
      <3>2. CASE tx[r].kind = "create"
        <4>1. notes' = notes /\ Trail' = Trail
          BY <3>1, <3>2 DEF DecisionsAfter, NotesAfter, Trail, Entries
        <4>2. Lifecycle!Create
          BY <4>1, <3>2, <2>1, CommitStatus DEF Lifecycle!Create, IInv
        <4>3. QED
          BY <4>2
      <3>3. CASE tx[r].kind \in EditKinds
        <4>1. notes' = notes /\ Trail' = Trail
          BY <3>1, <3>3 DEF DecisionsAfter, NotesAfter, Trail, Entries
        <4>2. PoolSize = 1 => row.status # "signed"
          BY <3>1, <3>3 DEF SerialInv
        <4>3. row.status # "absent" /\ row'.status \in OpenStatus \cup {row.status}
          BY <3>3, <2>1, CommitStatus DEF IInv
        <4>4. Lifecycle!Edit \/ UNCHANGED <<row.status, Trail, notes>>
          BY <4>1, <4>2, <4>3 DEF Lifecycle!Edit, Lifecycle!Open, OpenStatus
        <4>5. QED
          BY <4>4
      <3>4. CASE tx[r].kind = "sign"
        <4>1. /\ notes' = notes
              /\ DecisionOf(r) \in Decision
              /\ decisions' = Append(decisions, DecisionOf(r))
          BY <3>1, <3>4 DEF DecisionsAfter, NotesAfter, DecisionOf, Decision, Tx
        <4>2. Trail' = Append(Trail, [type |-> "EEA2_SIGNED", by |-> r])
          BY <3>1, <3>4, <4>1, TrailAppend DEF Entry, DecisionOf
        <4>3. PoolSize = 1 => row.status # "signed"
          BY <3>1, <3>4 DEF SerialInv
        <4>4. row.status # "absent" /\ row'.status = "signed"
          BY <3>1, <3>4, <2>1, CommitStatus DEF IInv, HandlerInv
        <4>5. Lifecycle!Sign(r)
          BY <4>1, <4>2, <4>3, <4>4 DEF Lifecycle!Sign
        <4>6. QED
          BY <4>5
      <3>5. CASE tx[r].kind = "reject"
        <4>1. /\ notes' = notes \cup (Managers \X {r})
              /\ DecisionOf(r) \in Decision
              /\ decisions' = Append(decisions, DecisionOf(r))
          BY <3>1, <3>5 DEF DecisionsAfter, NotesAfter, DecisionOf, Decision, Tx
        <4>2. Trail' = Append(Trail, [type |-> "EEA2_REJECTED", by |-> r])
          BY <3>1, <3>5, <4>1, TrailAppend DEF Entry, DecisionOf
        <4>3. PoolSize = 1 => row.status = "pending_ceo"
          BY <3>1, <3>5 DEF SerialInv
        <4>4. row.status # "absent" /\ row'.status = "draft"
          BY <3>1, <3>5, <2>1, CommitStatus DEF IInv, HandlerInv
        <4>5. Lifecycle!Reject(r)
          BY <4>1, <4>2, <4>3, <4>4 DEF Lifecycle!Reject
        <4>6. QED
          BY <4>5
      <3>6. QED
        BY <3>1, <3>2, <3>3, <3>4, <3>5 DEF Tx
    <2>2. CASE UNCHANGED <<row, decisions, notes>>
      BY <2>2 DEF Trail, Entries
    <2>3. QED
      BY <2>1, <2>2, StepCases
         DEF Turned, Answer, Editing, Signing, Rejecting, Proceed, InsertDraft,
             AppendDecision, UpdateDraft, AnswerBeforeCommit, Rollback, vars
  <1>3. QED
    BY <1>1, <1>2, TypeCorrect, Inductive, Serial, PTL
       DEF Spec, ImplementsLifecycle, Lifecycle!Spec

=============================================================================
