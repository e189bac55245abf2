--------------------------- MODULE BundleDashboard ---------------------------
(***************************************************************************)
(* The submission bundle page: looks (evaluations of the gate) that        *)
(* overlap, and Prepare, which records a report while looks go on.         *)
(*                                                                         *)
(* A look fetches the EEA2, then the EEA4, and then shows its result if it *)
(* is still the newest one.  What the forms are at the moment of a fetch   *)
(* is the server's choice.  React runs the effect that looks after a       *)
(* render whose period, or whose clock, is another one than before; the    *)
(* default clock is another one in every render.                           *)
(***************************************************************************)
EXTENDS BundleGate

CONSTANTS
    Periods, FirstPeriod,  \* the reporting periods, and the first of them
    Forms,                 \* the pairs of a period and a form it has
    EEA2Forms, EEA4Forms,  \* the wrappers the server may answer
    NoPeriod, NoEvaluation, NoReport, Unread,
    MaxInputs              \* bound: what the user does

ASSUME PeriodsAssumption == FirstPeriod \in Periods /\ NoPeriod \notin Periods
ASSUME BoundsAssumption == MaxInputs \in Nat

Reports == 0 .. MaxInputs + 2

(* What stands for nothing is none of the things there may be. *)
ASSUME NothingAssumption ==
    /\ Unread \notin EEA2Forms \cup {Absent}
    /\ NoReport \notin Reports \cup [report : Reports, sound : BOOLEAN]

VARIABLES
    clockIsStable,  \* whether the page was given a clock
    periods,        \* the periods of the props
    selected,       \* selectedPeriodId
    looks,          \* evaluations under way
    loading,        \* as the code's
    evaluation,     \* as the code's; sound is what Submittable says of its forms
    recording,      \* the event that is being appended
    confirmed,      \* the report of the confirmation
    prepareError,   \* as the code's
    effectDue,      \* a render has changed what the effect depends on
    recorded,       \* the SUBMISSION_BUNDLED events of the event store
    overtaken,      \* history: a look was under way during the recording
    rejected,       \* history: the newest look broke off
    inputs          \* what the user has done

vars == <<clockIsStable, periods, selected, looks, loading, evaluation, recording,
          confirmed, prepareError, effectDue, recorded, overtaken, rejected, inputs>>
shown == <<loading, evaluation, recording, confirmed, prepareError>>

Looking == \E l \in looks : l.current

Init ==
    /\ clockIsStable \in BOOLEAN
    /\ periods \in {{}, Periods}
    /\ selected = (IF periods = {} THEN NoPeriod ELSE FirstPeriod)
    /\ looks = {} /\ loading = FALSE /\ evaluation = NoEvaluation
    /\ recording = NoReport /\ confirmed = NoReport /\ prepareError = FALSE
    /\ effectDue = TRUE
    /\ recorded = {} /\ overtaken = FALSE /\ rejected = FALSE /\ inputs = 0

(* The effect is due again when a render has changed the default clock. *)
Renders == ~clockIsStable /\ shown' # shown

(* A fresh report id: one that no event has. *)
NewReport ==
    CHOOSE r \in Reports :
        r \notin {e.report : e \in recorded \cup ({recording} \ {NoReport})}

(***************************************************************************)
(* evaluate(): a newer look supersedes the others.  Only the last of them  *)
(* is followed further: they are alike, and their answers change nothing.  *)
(***************************************************************************)
Superseded == {[l EXCEPT !.current = FALSE] : l \in {m \in looks : m.current}}

ConfirmedAfterLook_Kept == confirmed
ConfirmedAfterLook == NoReport

Evaluate ==
    IF selected = NoPeriod
    THEN /\ evaluation' = NoEvaluation
         /\ UNCHANGED <<looks, loading, recording, confirmed, prepareError, overtaken,
                        rejected>>
    ELSE /\ looks' = Superseded \cup
                     {[period |-> selected, current |-> TRUE, eea2 |-> Unread]}
         /\ loading' = TRUE /\ confirmed' = ConfirmedAfterLook /\ prepareError' = FALSE
         /\ overtaken' = (overtaken \/ recording # NoReport)
         /\ rejected' = FALSE
         /\ UNCHANGED <<evaluation, recording>>

RunEffect ==
    /\ effectDue
    /\ Evaluate
    /\ UNCHANGED <<clockIsStable, periods, selected, recorded, inputs>>
    /\ effectDue' = Renders

(* What fetchWrapper comes to: a wrapper, or nothing if the period has no  *)
(* such form or the server refuses.                                        *)
Answers(period, form, wrappers) ==
    {Absent} \cup (IF <<period, form>> \in Forms THEN wrappers ELSE {})

ReadEEA2(l) ==
    /\ l.eea2 = Unread
    /\ \E form \in Answers(l.period, "EEA2", EEA2Forms) :
         looks' = (looks \ {l}) \cup {[l EXCEPT !.eea2 = form]}
    /\ UNCHANGED <<clockIsStable, periods, selected, shown, effectDue, recorded, overtaken,
                   rejected, inputs>>

Gate == [forms \in (EEA2Forms \cup {Absent}) \X (EEA4Forms \cup {Absent}) |->
            [result |-> EvaluateBundleGate(forms[1], forms[2]),
             sound |-> Submittable(forms[1], forms[2])]]

EvaluationOf(period, report, eea2, eea4) ==
    [period |-> period, report |-> report,
     result |-> Gate[<<eea2, eea4>>].result, sound |-> Gate[<<eea2, eea4>>].sound]

ASSUME EvaluationAssumption ==
    \A period \in Periods, report \in Reports,
       eea2 \in EEA2Forms \cup {Absent}, eea4 \in EEA4Forms \cup {Absent} :
          NoEvaluation # EvaluationOf(period, report, eea2, eea4)

(* Only the newest look may write state. *)
MayShow_Any(l) == TRUE
MayShow_IfFound(l) == l.current /\ l.eea2 # Absent
MayShow(l) == l.current

ReadEEA4(l) ==
    /\ l.eea2 # Unread
    /\ looks' = looks \ {l}
    /\ \E form \in Answers(l.period, "EEA4", EEA4Forms) :
         IF MayShow(l)
         THEN /\ evaluation' = EvaluationOf(l.period, NewReport, l.eea2, form)
              /\ loading' = FALSE
         ELSE UNCHANGED <<evaluation, loading>>
    /\ UNCHANGED <<clockIsStable, periods, selected, recording, confirmed, prepareError,
                   recorded, overtaken, rejected, inputs>>
    /\ effectDue' = (effectDue \/ Renders)

(* A fetch that rejects ends the look and leaves the page as it is. *)
FetchRejects(l) ==
    /\ \/ l.eea2 = Unread /\ <<l.period, "EEA2">> \in Forms
       \/ l.eea2 # Unread /\ <<l.period, "EEA4">> \in Forms
    /\ looks' = looks \ {l}
    /\ rejected' = (rejected \/ l.current)
    /\ UNCHANGED <<clockIsStable, periods, selected, shown, effectDue, recorded, overtaken,
                   inputs>>

(***************************************************************************)
(* handlePrepare(): one append request about the report on the screen.     *)
(***************************************************************************)
CanPrepare == evaluation # NoEvaluation /\ evaluation.result.ready

(* What the user does, after the effects of the last render have run. *)
Input == ~effectDue /\ inputs < MaxInputs /\ inputs' = inputs + 1

Prepare ==
    /\ Input
    /\ CanPrepare /\ recording = NoReport /\ confirmed = NoReport
    /\ recording' = [report |-> evaluation.report, sound |-> evaluation.sound]
    /\ prepareError' = FALSE
    /\ overtaken' = Looking
    /\ UNCHANGED <<clockIsStable, periods, selected, looks, loading, evaluation, confirmed,
                   recorded, rejected>>
    /\ effectDue' = Renders

(* The route appends the event, refuses it, or appends it and the answer   *)
(* is lost.                                                                *)
ConfirmedAfter(ok) == IF ok THEN recording.report ELSE confirmed

AppendAnswered ==
    /\ recording # NoReport
    /\ \E stored, ok \in BOOLEAN :
         /\ ok => stored
         /\ recorded' = recorded \cup (IF stored THEN {recording} ELSE {})
         /\ confirmed' = ConfirmedAfter(ok)
         /\ prepareError' = (IF ok THEN prepareError ELSE TRUE)
    /\ recording' = NoReport
    /\ UNCHANGED <<clockIsStable, periods, selected, looks, loading, evaluation, overtaken,
                   rejected, inputs>>
    /\ effectDue' = (effectDue \/ Renders)

(* Focus, visibilitychange and the Refresh button. *)
LookAgain ==
    /\ Input
    /\ Evaluate
    /\ UNCHANGED <<clockIsStable, periods, selected, recorded>>
    /\ effectDue' = Renders

SelectPeriod ==
    /\ Input
    /\ selected # NoPeriod
    /\ \E p \in periods \ {selected} : selected' = p
    /\ effectDue' = TRUE
    /\ UNCHANGED <<clockIsStable, periods, looks, shown, recorded, overtaken, rejected>>

(* The route's periods arrive; the selection was made in the first render. *)
PeriodsLoaded ==
    /\ periods = {} /\ periods' = Periods
    /\ effectDue' = (effectDue \/ ~clockIsStable)
    /\ UNCHANGED <<clockIsStable, selected, looks, shown, recorded, overtaken, rejected,
                   inputs>>

Idle ==
    /\ ~effectDue /\ looks = {} /\ recording = NoReport /\ periods # {}
    /\ UNCHANGED vars

Next ==
    \/ RunEffect \/ Prepare \/ AppendAnswered \/ LookAgain \/ SelectPeriod
    \/ PeriodsLoaded \/ Idle
    \/ \E l \in looks : ReadEEA2(l) \/ ReadEEA4(l) \/ FetchRejects(l)

(* React runs its effects, and a request is answered or breaks off. *)
Fairness ==
    /\ WF_vars(RunEffect)
    /\ WF_vars(AppendAnswered)
    /\ WF_vars(\E l \in looks : ReadEEA2(l) \/ ReadEEA4(l) \/ FetchRejects(l))

Spec == Init /\ [][Next]_vars /\ Fairness

(***************************************************************************)
(* Properties.                                                             *)
(***************************************************************************)

(* What the page shows without "re-checking" is the result of the newest   *)
(* look at the selected period, however the fetches of earlier looks end:  *)
(* requestIdRef names one look at most.                                    *)
ShownIsNewest ==
    /\ ~loading /\ ~effectDue /\ selected # NoPeriod =>
          ~Looking /\ evaluation # NoEvaluation /\ evaluation.period = selected
    /\ \A l, m \in looks : l.current /\ m.current => l = m

(* The gate lets through what the registry describes and nothing else: no  *)
(* missing form or value and no result that one rule leaves for another    *)
(* makes it differ.  Only an EEA4 without a link passes all the same.  A   *)
(* gate that is closed names a blocker, the status rule left out or not.   *)
(* Whatever overlaps, a confirmation is of an event that was appended, of  *)
(* forms that could be submitted when they were looked at, and of the      *)
(* report on the screen, unless a look was under way during the recording. *)
ConfirmsWhatIsShown ==
    /\ evaluation # NoEvaluation =>
          /\ evaluation.sound <=> evaluation.result.ready
          /\ evaluation.sound <=> evaluation.result.reason = "ready"
          /\ evaluation.sound <=> DeriveBundleBlockers(evaluation.result) = {}
    /\ confirmed # NoReport =>
          /\ \E e \in recorded : e.report = confirmed /\ e.sound
          /\ overtaken \/ confirmed = evaluation.report

(* "re-checking" goes away if the page has a clock that stays, and the     *)
(* newest look did not break off.                                          *)
LoadingEnds == <>[](clockIsStable => (loading => rejected))
=============================================================================
