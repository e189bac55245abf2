------------------------------ MODULE Eea1Form ------------------------------
(***************************************************************************)
(* The sections of the EEA1 page behind the consent gate (routes/eea1-new,  *)
(* components/eea1), and POST /eea1, which files the declaration.           *)
(*                                                                         *)
(* Two sections hand their fields to the autosave (Eea1Page); the page       *)
(* keeps the demographic answers for the final POST, which carries them and  *)
(* the drawn signature. Nothing else travels with it: the API, which asks    *)
(* for the name as well, refuses what the page posts. Other clients of the   *)
(* API post complete bodies.                                                *)
(***************************************************************************)
EXTENDS Naturals, FiniteSets

CONSTANTS
    OtherBodies,    \* what other clients post
    MaxInputs,      \* bound on the values the employee enters
    MaxPosts,       \* bound on the posts in flight
    Undefined,      \* a field that is not there
    Withheld        \* null: prefer not to disclose

VARIABLES
    shown,      \* the state of the sections
    handed,     \* the value of each field that was last given to the autosave
    pii,        \* piiValues of the page
    canvas,     \* [ink, hasInk]; wiped (history): was it emptied by a change of its size?
    status,     \* submitStatus
    posts,      \* posts in flight
    stored,     \* the declaration that was stored last
    inputs      \* the values the employee entered so far, counted

vars == <<shown, handed, pii, canvas, status, posts, stored, inputs>>

PatchableFields == {"name", "workplaceNumber", "foreignNational", "citizenshipDate"}
PiiFields == {"race", "gender", "disability", "disabilityNature", "reasonableAccommodation"}
EncryptedFields == {"race", "gender", "disability", "disabilityNature", "signatureDataUrl"}
PostFields ==
    PatchableFields \cup PiiFields \cup {"employeeId", "signatureDataUrl", "declarationDate"}
RequiredFields == {"employeeId", "name", "workplaceNumber", "foreignNational", "signatureDataUrl"}

PersonalDetails == [name |-> "", workplaceNumber |-> ""]
Nationality == [foreignNational |-> FALSE, citizenshipDate |-> "", dateError |-> FALSE]
DefaultPii ==
    [race |-> Withheld, gender |-> Withheld, disability |-> Withheld,
     disabilityNature |-> "", reasonableAccommodation |-> FALSE]
EmptyCanvas == [ink |-> FALSE, hasInk |-> FALSE, wiped |-> FALSE]

Init ==
    /\ shown = [details |-> PersonalDetails, errors |-> {}, nationality |-> Nationality,
                pii |-> DefaultPii]
    /\ handed = [f \in PatchableFields |-> Undefined]
    /\ pii = DefaultPii
    /\ canvas = EmptyCanvas
    /\ status = "idle" /\ posts = {} /\ stored = Undefined /\ inputs = 0

\* A page whose declaration was filed shows its number and nothing else.
OnScreen == status # "success"

UserActs == OnScreen /\ inputs < MaxInputs /\ inputs' = inputs + 1

----------------------------------------------------------------------------
(* Personal details and nationality *)

\* Handed over while it is typed, valid or not.
ChangeDetail(f, v) ==
    /\ UserActs
    /\ shown' = [shown EXCEPT !.details = [@ EXCEPT ![f] = v]]
    /\ handed' = [handed EXCEPT ![f] = v]
    /\ UNCHANGED <<pii, canvas, status, posts, stored>>

BlurDetail(f) ==
    /\ OnScreen
    /\ shown' = [shown EXCEPT !.errors = IF shown.details[f] = "valid" THEN @ \ {f} ELSE @ \cup {f}]
    /\ UNCHANGED <<handed, pii, canvas, status, posts, stored, inputs>>

\* A citizen has no date; the autosave is told.
DateAfterNationality(foreign, date) == IF foreign THEN date ELSE Withheld

ChangeNationality(foreign) ==
    /\ UserActs
    /\ shown' = [shown EXCEPT !.nationality =
                     IF foreign THEN [@ EXCEPT !.foreignNational = TRUE] ELSE Nationality]
    /\ handed' = [handed EXCEPT !["foreignNational"] = foreign,
                     !["citizenshipDate"] = DateAfterNationality(foreign, @)]
    /\ UNCHANGED <<pii, canvas, status, posts, stored>>

\* The date has a field while the employee is a foreign national.
HasDateField == shown.nationality.foreignNational

\* A date field holds a date or nothing, and nothing is an error that is not handed over.
ChangeDate(date) ==
    /\ UserActs /\ HasDateField
    /\ shown' = [shown EXCEPT !.nationality =
                     [foreignNational |-> TRUE, citizenshipDate |-> date, dateError |-> date = ""]]
    /\ handed' = [handed EXCEPT !["citizenshipDate"] = IF date = "" THEN @ ELSE date]
    /\ UNCHANGED <<pii, canvas, status, posts, stored>>

----------------------------------------------------------------------------
(* Demographic information *)

\* The effect of the section gives the page what the section has.
Answers(next) ==
    /\ shown' = [shown EXCEPT !.pii = next]
    /\ pii' = next
    /\ UNCHANGED <<handed, canvas, status, posts, stored>>

ChangeRace(v)   == UserActs /\ Answers([shown.pii EXCEPT !.race = v])
ChangeGender(v) == UserActs /\ Answers([shown.pii EXCEPT !.gender = v])

AfterDisability_KeepsDetail(v) == [shown.pii EXCEPT !.disability = v]

AfterDisability(v) ==
    IF v = "Yes" THEN [shown.pii EXCEPT !.disability = v]
    ELSE [shown.pii EXCEPT !.disability = v, !.disabilityNature = "",
                           !.reasonableAccommodation = FALSE]

ChangeDisability(v) == UserActs /\ Answers(AfterDisability(v))

HasDetailBlock == shown.pii.disability = "Yes"

ChangeNature(v) ==
    UserActs /\ HasDetailBlock /\ Answers([shown.pii EXCEPT !.disabilityNature = v])

ChangeAccommodation(v) ==
    UserActs /\ HasDetailBlock /\ Answers([shown.pii EXCEPT !.reasonableAccommodation = v])

----------------------------------------------------------------------------
(* The signature *)

Draws(next) ==
    /\ OnScreen /\ canvas' = next
    /\ UNCHANGED <<shown, handed, pii, status, posts, stored, inputs>>

\* The pointer goes down, moves, and goes up or leaves.
Stroke == Draws([ink |-> TRUE, hasInk |-> TRUE, wiped |-> FALSE])

Clear == Draws(EmptyCanvas)

\* A canvas that is given a size is empty; what the component knows of it stays.
ResizeWindow == Draws([ink |-> FALSE, hasInk |-> canvas.hasInk, wiped |-> canvas.hasInk])

ToDataURL == IF canvas.ink THEN "drawn" ELSE "blank"

\* The keys of undefined values are left out; an empty nature is undefined.
PageField(f) ==
    CASE f = "employeeId" -> "caller"
      [] f = "signatureDataUrl" -> ToDataURL
      [] f = "disabilityNature" -> IF pii[f] = "" THEN Undefined ELSE pii[f]
      [] f \in PiiFields \ {"disabilityNature"} -> pii[f]
      [] OTHER -> Undefined

PageBody == [f \in PostFields |-> PageField(f)]

\* The button is there while a post is in flight.
Submit ==
    /\ OnScreen /\ canvas.hasInk /\ Cardinality(posts) < MaxPosts
    /\ status' = "submitting"
    /\ posts' = posts \cup {[body |-> PageBody, wiped |-> canvas.wiped]}
    /\ UNCHANGED <<shown, handed, pii, canvas, stored, inputs>>

----------------------------------------------------------------------------
(* POST /eea1 *)

AcceptsPost(body) ==
    /\ \A f \in RequiredFields : body[f] # Undefined
    /\ "invalid" \notin {body["name"], body["workplaceNumber"]}
    /\ \A f \in DOMAIN body : body[f] = Withheld => f \in {"race", "gender", "disability"}
    /\ body["foreignNational"] = TRUE => body["citizenshipDate"] # Undefined

\* A user files for nobody else.
IsOwn(body) == body["employeeId"] = "caller"

\* A column and whether it holds a ciphertext.
Column(value, ciphertext) == [value |-> value, ciphertext |-> ciphertext]

\* null stays null: it says that the employee withheld the answer.
EncryptPii(body) ==
    [f \in DOMAIN body |->
        Column(body[f], f \in EncryptedFields /\ body[f] \notin {Undefined, Withheld})]

\* The date is the server's, whatever the body says.
Declaration(body) == EncryptPii([body EXCEPT !["declarationDate"] = "today"])

\* The insert may fail.
PostDeclaration(body) ==
    /\ AcceptsPost(body) /\ IsOwn(body)
    /\ stored' = Declaration(body)

\* The answer to the page, or the connection breaks.
SubmitEnds(p) ==
    /\ posts' = posts \ {p}
    /\ \/ IF AcceptsPost(p.body) /\ IsOwn(p.body)
          THEN PostDeclaration(p.body) /\ status' = "success"
          ELSE stored' = stored /\ status' = "error"
       \/ stored' = stored /\ status' = "error"
    /\ UNCHANGED <<shown, handed, pii, canvas, inputs>>

OtherClientPosts(body) ==
    /\ PostDeclaration(body)
    /\ UNCHANGED <<shown, handed, pii, canvas, status, posts, inputs>>

Next ==
    \/ \E f \in {"name", "workplaceNumber"} :
          BlurDetail(f) \/ \E v \in {"valid", "invalid"} : ChangeDetail(f, v)
    \/ \E foreign \in BOOLEAN : ChangeNationality(foreign)
    \/ \E date \in {"", "2015-03-01"} : ChangeDate(date)
    \/ \E v \in {"stated", Withheld} : ChangeRace(v) \/ ChangeGender(v)
    \/ \E v \in {"Yes", "No", Withheld} : ChangeDisability(v)
    \/ \E v \in {"", "stated"} : ChangeNature(v)
    \/ \E v \in BOOLEAN : ChangeAccommodation(v)
    \/ Stroke \/ Clear \/ ResizeWindow \/ Submit
    \/ \E p \in posts : SubmitEnds(p)
    \/ \E body \in OtherBodies : OtherClientPosts(body)

Spec == Init /\ [][Next]_vars

----------------------------------------------------------------------------
(* Properties *)

\* Whoever signs has drawn the signature, unless the canvas was emptied by a change of its
\* size, and the details of a disability travel with the answer Yes alone. A stored
\* declaration is one the server dated, of a citizen or with a date, and every demographic
\* answer in it is a ciphertext or withheld.
DeclaredAsAnswered ==
    /\ \A p \in posts :
          /\ p.body["signatureDataUrl"] = "drawn" \/ p.wiped
          /\ p.body["disabilityNature"] # Undefined \/ p.body["reasonableAccommodation"] = TRUE
                => p.body["disability"] = "Yes"
    /\ stored # Undefined =>
          /\ stored["declarationDate"].value = "today"
          /\ stored["foreignNational"].value = TRUE => stored["citizenshipDate"].value # Undefined
          /\ \A f \in EncryptedFields :
                stored[f].ciphertext <=> stored[f].value \notin {Undefined, Withheld}

\* What the autosave was given last is what the sections show, except for a date that is
\* being entered: a citizen has none, and one that is an error leaves the one before it.
EditsAreHandedOver ==
    LET n == shown.nationality
    IN /\ \A f \in DOMAIN PersonalDetails : shown.details[f] # "" => handed[f] = shown.details[f]
       /\ handed["foreignNational"] # Undefined => handed["foreignNational"] = n.foreignNational
       /\ ~n.foreignNational => handed["citizenshipDate"] \in {Undefined, Withheld}
       /\ n.foreignNational /\ n.citizenshipDate # "" => handed["citizenshipDate"] = n.citizenshipDate
=============================================================================
