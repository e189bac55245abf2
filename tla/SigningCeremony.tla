-------------------------- MODULE SigningCeremony --------------------------
(***************************************************************************)
(* The signing page of an EEA2 (routes/eea2-sign, eea2-signing-ceremony) and *)
(* POST /eea2/:formId/sign as it sees it: what the CEO enters, the request,  *)
(* the answer or its loss, and the message beside the field it is about.     *)
(* Every handler - that of the request, of one the page no longer waits for,  *)
(* and those of other users - reads the draft without a lock, checks what it  *)
(* read, and updates by id later: others may commit in between.              *)
(***************************************************************************)
EXTENDS Naturals

CONSTANTS
    MaxInputs,  \* bound on the values the user enters
    MaxForms,   \* bound on what others do to the form
    MaxSends,   \* bound on the requests the page posts
    None        \* no message

VARIABLES
    entered,    \* [code, name, confirmed]
    errors,     \* [totp, name, form]: the messages on the page
    request,    \* what was posted, or None
    decided,    \* has its handler read the draft and passed the checks?
    answer,     \* the answer on its way, or None
    form,       \* the status of the draft
    locked,     \* has the page gone to the locked view?
    inputs,     \* the values the user entered so far, counted
    others,     \* what others did to the form so far, counted
    sends,      \* the requests posted so far, counted
    late,       \* requests the page gave up on and the API still handles: [id, posted, decided]
    writing,    \* handlers of others that have read the draft: [id, status] they will set
    signatures, \* history: the signatures the page's requests made
    raced,      \* history: was a signature committed while another handler had read?
    unheard     \* history: was an answer lost?

vars ==
    <<entered, errors, request, decided, answer, form, locked, inputs, others, sends, late, writing,
      signatures, raced, unheard>>

\* What the API keeps and is at work on, and what the page has.
server == <<form, others, late, writing, signatures, raced>>

\* A code has six digits, right or wrong; a name is the user's, in some case, or another.
Codes == {"", "wrong", "right"}
Names == {"", "another", "ofTheUser"}

NoErrors == [totp |-> None, name |-> None, form |-> None]

Init ==
    /\ entered = [code |-> "", name |-> "", confirmed |-> FALSE]
    /\ errors = NoErrors
    /\ request = None /\ decided = FALSE /\ answer = None
    /\ form \in {"draft", "pending_ceo", "signed"}
    /\ locked = FALSE /\ inputs = 0 /\ others = 0 /\ sends = 0
    /\ late = {} /\ writing = {} /\ signatures = 0 /\ raced = FALSE /\ unheard = FALSE

IsSubmitting == request # None \/ answer # None

----------------------------------------------------------------------------
(* The page *)

\* The fields stay open while a request is out; a new entry takes the message away.
Enters(next, messages) ==
    /\ inputs < MaxInputs /\ inputs' = inputs + 1
    /\ entered' = next /\ errors' = messages
    /\ UNCHANGED <<request, decided, answer, locked, sends, unheard, server>>

EnterCode(v) == Enters([entered EXCEPT !.code = v], [errors EXCEPT !.totp = None])
EnterName(v) == Enters([entered EXCEPT !.name = v], [errors EXCEPT !.name = None])
Confirm(v)   == Enters([entered EXCEPT !.confirmed = v], errors)

CanSubmit == entered.code # "" /\ entered.name # "" /\ entered.confirmed /\ ~IsSubmitting

\* The page stays until the browser has the locked view, and the button with it.
Submit ==
    /\ CanSubmit
    /\ sends < MaxSends /\ sends' = sends + 1
    /\ request' = entered /\ errors' = NoErrors
    /\ UNCHANGED <<entered, decided, answer, locked, inputs, unheard, server>>

\* The field a message is about.
MessageOf(a) ==
    CASE a \in {"InvalidTotpCode", "TotpNotConfigured"} -> [NoErrors EXCEPT !.totp = a]
      [] a = "NameDoesNotMatch" -> [NoErrors EXCEPT !.name = a]
      [] OTHER -> [NoErrors EXCEPT !.form = a]

AnswerArrives ==
    /\ answer # None /\ answer' = None
    /\ IF answer = "signed" THEN locked' = TRUE /\ UNCHANGED errors
       ELSE errors' = MessageOf(answer) /\ UNCHANGED locked
    /\ UNCHANGED <<entered, request, decided, inputs, sends, unheard, server>>

\* The connection breaks: the request was lost, was handled, or is handled later.
AnswerLost ==
    /\ IsSubmitting
    /\ request' = None /\ decided' = FALSE /\ answer' = None /\ unheard' = TRUE
    /\ \/ late' = late
       \/ /\ request # None
          /\ late' = late \cup {[id |-> sends, posted |-> request, decided |-> decided]}
    /\ errors' = [NoErrors EXCEPT !.form = "FailedToFetch"]
    /\ UNCHANGED <<entered, form, locked, inputs, others, sends, writing, signatures, raced>>

----------------------------------------------------------------------------
(* POST /eea2/:formId/sign *)

Replies(a) ==
    /\ request' = None /\ decided' = FALSE /\ answer' = a
    /\ UNCHANGED <<entered, errors, locked, inputs, others, sends, late, writing, unheard>>

\* A right code may be too old when it arrives; so may the session, and the user may lack
\* the role or a secret.
Refusals_Reordered(posted) ==
    IF posted.code = "wrong" THEN {"InvalidTotpCode"}
    ELSE IF posted.name # "ofTheUser" THEN {"NameDoesNotMatch"}
    ELSE {}

Refusals(posted) ==
    IF posted.code = "wrong" THEN {"InvalidTotpCode"}
    ELSE IF form = "signed" THEN {"FormIsImmutable"}
    ELSE IF posted.name # "ofTheUser" THEN {"NameDoesNotMatch"}
    ELSE {}

Refuse ==
    /\ request # None /\ ~decided
    /\ \E a \in {"InvalidTotpCode", "TotpNotConfigured", "Forbidden"} \cup Refusals(request) :
          Replies(a)
    /\ UNCHANGED <<form, signatures, raced>>

\* The handler has read the draft and nothing it read forbids the signature.
Decide ==
    /\ request # None /\ ~decided /\ Refusals(request) = {}
    /\ decided' = TRUE
    /\ UNCHANGED <<entered, errors, request, answer, locked, inputs, sends, unheard, server>>

DecideLate(l) ==
    /\ ~l.decided /\ Refusals(l.posted) = {}
    /\ late' = (late \ {l}) \cup {[id |-> l.id, posted |-> l.posted, decided |-> TRUE]}
    /\ UNCHANGED <<entered, errors, request, decided, answer, form, locked, inputs, others, sends,
                   writing, signatures, raced, unheard>>

\* A signature is committed beside a handler that has read the draft before.
Beside(here, lates, writes) == here \/ (\E l \in lates : l.decided) \/ writes # {}

\* The event and the new status are committed: the UPDATE asks nothing of the row.
Sign ==
    /\ decided
    /\ form' = "signed" /\ signatures' = signatures + 1
    /\ raced' = (raced \/ Beside(FALSE, late, writing))
    /\ Replies("signed")

SignLate(l) ==
    /\ l.decided /\ late' = late \ {l}
    /\ form' = "signed" /\ signatures' = signatures + 1
    /\ raced' = (raced \/ Beside(decided, late', writing))
    /\ UNCHANGED <<entered, errors, request, decided, answer, locked, inputs, others, sends,
                   writing, unheard>>

\* A statement fails: the transaction is rolled back.
Rollback ==
    /\ decided /\ Replies("InternalServerError")
    /\ UNCHANGED <<form, signatures, raced>>

\* Others edit, submit or reject the draft, or sign it themselves.
OthersRead(status) ==
    /\ others < MaxForms /\ others' = others + 1
    /\ form # "signed"
    /\ writing' = writing \cup {[id |-> others', status |-> status]}
    /\ UNCHANGED <<entered, errors, request, decided, answer, form, locked, inputs, sends, late,
                   signatures, raced, unheard>>

OthersWrite(w) ==
    /\ form' = w.status /\ writing' = writing \ {w}
    /\ raced' = (raced \/ (w.status = "signed" /\ Beside(decided, late, writing')))
    /\ UNCHANGED <<entered, errors, request, decided, answer, locked, inputs, others, sends, late,
                   signatures, unheard>>

Next ==
    \/ \E v \in Codes : EnterCode(v)
    \/ \E v \in Names : EnterName(v)
    \/ \E v \in BOOLEAN : Confirm(v)
    \/ Submit \/ AnswerArrives \/ AnswerLost
    \/ Refuse \/ Decide \/ Sign \/ Rollback
    \/ \E l \in late : DecideLate(l) \/ SignLate(l)
    \/ \E status \in {"draft", "pending_ceo", "signed"} : OthersRead(status)
    \/ \E w \in writing : OthersWrite(w)

Spec == Init /\ [][Next]_vars

----------------------------------------------------------------------------
(* Properties *)

\* However often the button is pressed, the page signs the form at most once, the locked
\* view is of a signed form and "already signed" is said of a signed form only - unless a
\* signature is committed while another handler has read the draft and not yet written:
\* that of a request whose answer was lost, or one of another user.  A form the page signed
\* is locked in any case, once the answer is there.
SignedOnceAndSeen ==
    /\ ~raced =>
          /\ signatures <= 1
          /\ locked \/ errors.form = "FormIsImmutable" => form = "signed"
    /\ signatures > 1 => unheard \/ others # 0
    /\ signatures > 0 /\ ~IsSubmitting => locked \/ unheard
=============================================================================
