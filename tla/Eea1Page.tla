------------------------------ MODULE Eea1Page ------------------------------
(***************************************************************************)
(* An employee fills in the EEA1 declaration: the consent gate of the page  *)
(* (apps/web/src/components/eea1/PopiaConsentGate.tsx), the debounced       *)
(* autosave of its sections (apps/web/src/hooks/use-eea-autosave.ts) and    *)
(* PATCH /eea1/:declarationId (apps/api/src/routes/eea1/declarations.ts).   *)
(*                                                                         *)
(* A flush of the autosave aborts the request before it.  The abort is      *)
(* local: a request that has reached the server is carried out all the      *)
(* same, so two PATCH handlers of one tab can run side by side.  A handler  *)
(* reads the row, inserts its events, which get their createdAt there, and  *)
(* then waits for the row lock to update and commit.                        *)
(***************************************************************************)
EXTENDS Naturals, Sequences

CONSTANTS
    Fields,         \* fields the form edits
    Pii,            \* those the PATCH body must not name
    Excluded,       \* excludeFields of the hook
    MaxEdits,       \* bound on the edits
    Unvalidated     \* may the user type a value that the schema refuses?

ASSUME FieldsAssumption == Pii \subseteq Fields /\ Excluded \subseteq Fields
ASSUME BoundsAssumption == MaxEdits \in Nat /\ Unvalidated \in BOOLEAN

VARIABLES
    gate,           \* the consent gate: "notice", "recording" or "passed"
    consented,      \* has the event store an EEA1_POPIA_CONSENT of the employee?
    pending,        \* pendingRef: field -> edit, 0 for none
    timer,          \* is timerRef armed?
    active,         \* the request abortControllerRef belongs to; 0 for none
    isPending, lastError,
    mounted,        \* is the page open?
    sent,           \* requests on their way to the server
    handling,       \* PATCH handlers that have read the row; at is 0 until the events are stamped
    answers,        \* answers on their way back
    row,            \* the declaration: field -> edit that wrote it, 0 at first
    trail,          \* EEA1_AUTOSAVE events of each field, in commit order
    clock,          \* server clock; stamps createdAt of events
    edits,          \* number of edits so far; an edit is named by its number
    typed,          \* history: the newest edit of each field
    accepted,       \* history: the edits whose value the schema accepts
    bodies,         \* history: what each request carries
    troubled        \* history: fields of requests that failed or were superseded

client  == <<pending, timer, active, isPending, lastError, mounted>>
server  == <<row, trail, clock>>
wire    == <<sent, handling, answers>>
history == <<edits, typed, accepted, bodies, troubled>>
vars    == <<gate, consented, client, server, wire, history>>

----------------------------------------------------------------------------
Nothing == [f \in Fields |-> 0]

Body == [Fields -> 0..MaxEdits]

Named(body) == {f \in Fields : body[f] # 0}

\* EEA1_AUTOSAVE events of a field.  after is a history: how many events the field had
\* when the handler read the row.
Events == [prev : 0..MaxEdits, new : 1..MaxEdits, at : Nat, after : Nat]

\* Requests are numbered as they are sent.
RequestIds == DOMAIN bodies

Init ==
    /\ gate = "notice" /\ consented = FALSE
    /\ pending = Nothing /\ timer = FALSE /\ active = 0
    /\ isPending = FALSE /\ lastError = FALSE /\ mounted = TRUE
    /\ sent = {} /\ handling = {} /\ answers = {}
    /\ row = Nothing
    /\ trail = [f \in Fields |-> <<>>] /\ clock = 1
    /\ edits = 0 /\ typed = Nothing /\ accepted = {} /\ bodies = <<>> /\ troubled = {}

----------------------------------------------------------------------------
(* The consent gate *)

SubmitConsent ==
    /\ mounted /\ gate = "notice"
    /\ gate' = "recording"
    /\ UNCHANGED <<consented, client, server, wire, history>>

GateAfterFailure_Passed == "passed"

GateAfterFailure_Failed == "failed"

GateAfterFailure == "notice"

\* useEEAEventWriter resolves, or throws: the event may have been appended then.
ConsentRecorded ==
    /\ gate = "recording"
    /\ gate' = "passed" /\ consented' = TRUE
    /\ UNCHANGED <<client, server, wire, history>>

ConsentFailed ==
    /\ gate = "recording"
    /\ gate' = GateAfterFailure
    /\ consented' \in {consented, TRUE}
    /\ UNCHANGED <<client, server, wire, history>>

----------------------------------------------------------------------------
(* The autosave hook *)

Merged_Newest(f) == [Nothing EXCEPT ![f] = edits + 1]

Merged(f) == [pending EXCEPT ![f] = edits + 1]

\* saveField: a field of excludeFields is dropped, another one is merged into the
\* pending body, and the debounce starts anew.
SaveField(f) ==
    /\ mounted /\ gate = "passed" /\ edits < MaxEdits
    /\ edits' = edits + 1
    /\ accepted' \in {accepted \cup {edits + 1}} \cup (IF Unvalidated THEN {accepted} ELSE {})
    /\ IF f \in Excluded
         THEN UNCHANGED <<client, typed>>
         ELSE /\ typed' = [typed EXCEPT ![f] = edits + 1]
              /\ pending' = Merged(f)
              /\ timer' = TRUE
              /\ UNCHANGED <<active, isPending, lastError, mounted>>
    /\ UNCHANGED <<gate, consented, server, wire, bodies, troubled>>

\* Of the request that is aborted and the one that takes its place, only the one
\* that owns the controller clears the indicator when it ends.
Flush ==
    /\ timer /\ timer' = FALSE
    /\ LET id == Len(bodies) + 1 IN
       /\ pending' = Nothing
       /\ bodies' = Append(bodies, pending)
       /\ sent' = sent \cup {id}
       /\ active' = id
       /\ isPending' = TRUE
       /\ troubled' = troubled \cup (IF isPending THEN Named(bodies[active]) ELSE {})
    /\ UNCHANGED <<gate, consented, lastError, mounted, handling, answers, server,
                   edits, typed, accepted>>

PendingAfterAnswer_OnSuccess(failed) == failed

PendingAfterAnswer(failed) == FALSE

\* The promise of request id settles; that of an aborted one has settled before.
Settles(id, failed) ==
    IF id = active /\ isPending /\ mounted
      THEN /\ isPending' = PendingAfterAnswer(failed)
           /\ lastError' = failed
           /\ troubled' = troubled \cup (IF failed THEN Named(bodies[id]) ELSE {})
           /\ UNCHANGED <<pending, timer, active, mounted>>
      ELSE UNCHANGED <<client, troubled>>

AnswerArrives(a) ==
    /\ answers' = answers \ {a}
    /\ Settles(a.id, ~a.ok)
    /\ UNCHANGED <<gate, consented, server, sent, handling, edits, typed, accepted, bodies>>

\* The connection breaks; the server may still be at it.
ConnectionLost ==
    /\ isPending
    /\ Settles(active, TRUE)
    /\ UNCHANGED <<gate, consented, server, wire, edits, typed, accepted, bodies>>

\* Leaving the page stops the timer and aborts the request.
Leave ==
    /\ mounted
    /\ mounted' = FALSE /\ timer' = FALSE
    /\ UNCHANGED <<gate, consented, pending, active, isPending, lastError, server, wire, history>>

----------------------------------------------------------------------------
(* PATCH /eea1/:declarationId *)

\* An aborted request may not get out.
Dropped(id) ==
    /\ id # active \/ ~isPending \/ ~mounted
    /\ sent' = sent \ {id}
    /\ UNCHANGED <<gate, consented, client, server, handling, answers, history>>

AcceptsBody_AnyKey(body) == \A f \in Named(body) : body[f] \in accepted

\* PatchBodySchema is strict and validates the fields it knows.
AcceptsBody(body) == \A f \in Named(body) : f \notin Pii /\ body[f] \in accepted

\* 400 for a body; 401, 403 or 404 for a caller and a declaration of any kind.
Refuse(id) ==
    /\ sent' = sent \ {id}
    /\ answers' = answers \cup {[id |-> id, ok |-> FALSE]}
    /\ UNCHANGED <<gate, consented, client, server, handling, history>>

ReadDeclaration(id) ==
    /\ AcceptsBody(bodies[id])
    /\ sent' = sent \ {id}
    /\ handling' = handling \cup {[id |-> id, seen |-> row, at |-> 0,
                                   after |-> [f \in Fields |-> Len(trail[f])]]}
    /\ UNCHANGED <<gate, consented, client, server, answers, history>>

CreatedAt_FromClient(now) == 1..now

CreatedAt(now) == {now}

\* The events are inserted, before the row lock is asked for.
StampEvents(h) ==
    /\ h.at = 0
    /\ clock' \in {clock, clock + 1}
    /\ \E t \in CreatedAt(clock') : handling' = (handling \ {h}) \cup {[h EXCEPT !.at = t]}
    /\ UNCHANGED <<gate, consented, client, row, trail, sent, answers, history>>

Answered(h, ok) ==
    /\ handling' = handling \ {h}
    /\ answers' = answers \cup {[id |-> h.id, ok |-> ok]}
    /\ UNCHANGED <<gate, consented, client, sent, history>>

PrevValue_Initial(h, f) == 0

PrevValue(h, f) == h.seen[f]

RowAfter(h) ==
    [f \in Fields |-> IF bodies[h.id][f] # 0 THEN bodies[h.id][f] ELSE row[f]]

\* The UPDATE sets the columns of the body; the events have the values read before.
CommitPatch(h) ==
    /\ h.at # 0
    /\ row' = RowAfter(h)
    /\ trail' = [f \in Fields |->
                    IF f \in Named(bodies[h.id])
                      THEN Append(trail[f], [prev |-> PrevValue(h, f), new |-> bodies[h.id][f],
                                             at |-> h.at, after |-> h.after[f]])
                      ELSE trail[f]]
    /\ clock' = clock
    /\ Answered(h, TRUE)

RollbackPatch(h) == Answered(h, FALSE) /\ UNCHANGED server

----------------------------------------------------------------------------
AtRest == ~timer /\ ~isPending /\ UNCHANGED vars

Next ==
    \/ SubmitConsent \/ ConsentRecorded \/ ConsentFailed
    \/ \E f \in Fields : SaveField(f)
    \/ Flush \/ ConnectionLost \/ Leave
    \/ \E a \in answers : AnswerArrives(a)
    \/ \E id \in sent : Dropped(id) \/ Refuse(id) \/ ReadDeclaration(id)
    \/ \E h \in handling : StampEvents(h) \/ CommitPatch(h) \/ RollbackPatch(h)
    \/ AtRest

Spec == Init /\ [][Next]_vars

\* Timers fire, handlers end and answers arrive, or the connection breaks.
Fairness ==
    /\ WF_vars(Flush)
    /\ \A id \in 1..MaxEdits :
          /\ WF_vars(id \in sent /\ (Refuse(id) \/ ReadDeclaration(id)))
          /\ WF_vars(\E h \in handling :
                        h.id = id /\ (StampEvents(h) \/ CommitPatch(h) \/ RollbackPatch(h)))
          /\ WF_vars(\E a \in answers : a.id = id /\ AnswerArrives(a))

FairSpec == Spec /\ Fairness

----------------------------------------------------------------------------
(* Properties *)

TypeOK ==
    /\ gate \in {"notice", "recording", "passed"} /\ consented \in BOOLEAN
    /\ pending \in Body /\ typed \in Body /\ row \in Body
    /\ timer \in BOOLEAN /\ isPending \in BOOLEAN /\ lastError \in BOOLEAN /\ mounted \in BOOLEAN
    /\ active \in 0..Len(bodies)
    /\ bodies \in Seq(Body) /\ sent \subseteq RequestIds
    /\ handling \subseteq [id : RequestIds, seen : Body, at : Nat, after : [Fields -> Nat]]
    /\ clock \in Nat
    /\ answers \subseteq [id : RequestIds, ok : BOOLEAN]
    /\ trail \in [Fields -> Seq(Events)]
    /\ edits \in 0..MaxEdits /\ accepted \subseteq 1..MaxEdits /\ troubled \subseteq Fields

\* "The only path to calling onConsent()" is a recorded consent: nothing the
\* employee entered leaves the page before the event store has the consent.
DataOnlyAfterConsent == (\E f \in Fields : typed[f] # 0) \/ bodies # <<>> => consented

\* Audit events and row change together: the last event committed has the value of the
\* row.  The trail is read by createdAt, where another event may come last, but only one
\* that committed after the handler which the row is from had read: their PATCH
\* requests overlapped.
TrailEndsInRow ==
    \A f \in Fields : trail[f] # <<>> =>
        LET last == trail[f][Len(trail[f])] IN
        /\ last.new = row[f]
        /\ \A i \in DOMAIN trail[f] : trail[f][i].at > last.at => i > last.after

\* Each audit event records the value it replaced, the value of the event before it,
\* and createdAt puts them in that order, except in fields whose requests failed or
\* were superseded: those overlap.
PrevValuesChain ==
    \A f \in Fields \ troubled : \A i \in 2..Len(trail[f]) :
        /\ trail[f][i].prev = trail[f][i - 1].new
        /\ trail[f][i - 1].at <= trail[f][i].at

\* The newest edit of a field is in the row or on its way, unless a request with
\* that field failed or was superseded.
EditsArrive ==
    mounted =>
        \A f \in Fields \ troubled :
            \/ typed[f] = row[f]
            \/ pending[f] = typed[f] /\ timer
            \/ isPending /\ bodies[active][f] = typed[f] /\ pending[f] = 0

\* No encrypted field reaches the event store by way of the autosave, whatever the
\* caller forgot to exclude.
NoPiiInTrail == \A f \in Pii : trail[f] = <<>> /\ row[f] = 0

\* The indicator goes out in the end.
PendingEnds == isPending /\ mounted ~> ~isPending \/ ~mounted

\* "Changes are persisted automatically": at rest and without an error message the
\* row has the newest edits.
EditsPersist ==
    mounted /\ ~timer /\ ~isPending /\ ~lastError =>
        \A f \in Fields : typed[f] = row[f]
=============================================================================
