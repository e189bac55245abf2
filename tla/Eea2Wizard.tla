----------------------------- MODULE Eea2Wizard -----------------------------
(***************************************************************************)
(* The EEA2 wizard of one browser tab (apps/web/src/features/eea): the hook *)
(* useEEAWizard, the component EEAWizard around it, and the steps with code *)
(* of their own, with the handlers of PATCH draft/state and PATCH status    *)
(* that it calls.                                                           *)
(*                                                                         *)
(* Next saves the section and waits; what it does with the answer was       *)
(* decided by the render in which it was pressed.  The handler writes the   *)
(* whole state column back and answers before it commits (see Eea2Draft).   *)
(* Nobody else works on the draft here.                                     *)
(***************************************************************************)
EXTENDS Naturals, Sequences, FiniteSets

CONSTANTS
    StepIds,    \* STEP_IDS; the last one is the review
    Totals,     \* head counts the user may enter
    MaxInputs,  \* bound on what the user does: edits, moves, saves and remounts
    MaxOpen     \* bound on the saves in flight at once

Steps    == {StepIds[i] : i \in DOMAIN StepIds}
Review   == StepIds[Len(StepIds)]
Sections == Steps \ {Review}

ASSUME StepsAssumption ==
    /\ StepIds \in Seq(STRING) /\ {"section-b", "section-c1", "section-c2"} \subseteq Sections
    /\ \A i, j \in DOMAIN StepIds : StepIds[i] = StepIds[j] => i = j
ASSUME TotalsAssumption == Totals \subseteq Nat
ASSUME BoundsAssumption == MaxInputs \in Nat /\ MaxOpen \in Nat

VARIABLES
    step,           \* currentStep
    formState,
    completed,      \* completedSteps
    bTotal,         \* wizardContext.sectionBTotals.grandTotal; 0 for null
    isDirty,
    loadingGoals,   \* is the load of section C2 under way?
    isSubmitting,
    inputs,         \* what the user did so far, counted
    savesOfB,       \* history: saves of section B so far, counted up to 2
    saves,          \* PATCH draft/state requests that are not finished
    answers,        \* answers to them on their way back
    submission,     \* is a PATCH status on its way?
    stored,         \* the sections of the draft
    status,         \* and its status
    undone,         \* history: sections whose last save another handler wrote over, or
                    \* whose COMMIT failed after the answer
    aside           \* history: sections left, or edited during a save, with unsaved edits

tab     == <<step, formState, completed, bTotal, isDirty, loadingGoals, isSubmitting>>
server  == <<stored, status, undone>>
counted == <<inputs, savesOfB>>
vars    == <<tab, counted, saves, answers, submission, server, aside>>

----------------------------------------------------------------------------
\* What a section holds is told apart by its total; 0 stands for whatever the
\* section's schema refuses, an empty section among it.
Data == Totals \cup {0}
Form == [Steps -> Data]

Empty == [s \in Steps |-> 0]

\* The draft's completedSteps are written with the section and read by nobody.
\* gone: is the wizard that sent it unmounted?
Save(id, s, data, done) ==
    [id |-> id, step |-> s, data |-> data, completed |-> done, phase |-> "sent", seen |-> Empty,
     gone |-> FALSE]

Init ==
    /\ step = StepIds[1]
    /\ formState = Empty
    /\ completed = {} /\ bTotal = 0
    /\ isDirty = FALSE /\ loadingGoals = FALSE /\ isSubmitting = FALSE
    /\ inputs = 0 /\ savesOfB = 0
    /\ saves = {} /\ answers = {} /\ submission = FALSE
    /\ stored = Empty /\ status = "draft" /\ undone = {}
    /\ aside = {}

----------------------------------------------------------------------------
(* The steps *)

IndexOf(s) == CHOOSE i \in DOMAIN StepIds : StepIds[i] = s

UserActs == inputs < MaxInputs /\ inputs' = inputs + 1

Waiting == saves # {} \/ answers # {}

\* Showing a step mounts it and unmounts the one before: section C2 loads the
\* goals when it is mounted, and forgets a load when it is unmounted.
Show(s) ==
    /\ step' = s
    /\ loadingGoals' = (s = "section-c2" /\ (step # s \/ loadingGoals))
    /\ isSubmitting' = (isSubmitting /\ s = step)

\* setStepData of the component.
SetStepData(s, data) ==
    /\ formState' = [formState EXCEPT ![s] = data]
    /\ isDirty' = TRUE
    /\ aside' = IF Waiting THEN aside \cup {s} ELSE aside

Edit ==
    /\ step \in Sections
    /\ UserActs
    /\ \E t \in Totals : SetStepData(step, t)
    /\ UNCHANGED <<step, completed, bTotal, loadingGoals, isSubmitting,
                   savesOfB, saves, answers, submission, server>>

\* The goals of the EEA13, or an empty matrix where there are none or the request
\* breaks off; another refusal is ignored.
GoalsLoaded ==
    /\ loadingGoals
    /\ loadingGoals' = FALSE
    /\ \/ \E t \in Totals : SetStepData("section-c2", t)
       \/ UNCHANGED <<formState, isDirty, aside>>
    /\ UNCHANGED <<step, completed, bTotal, isSubmitting,
                   counted, saves, answers, submission, server>>

\* A numbered button of the header: the user is asked before the flag is dropped.
NavigateToStep(s) ==
    /\ s # step
    /\ isDirty' = FALSE
    /\ aside' = IF isDirty THEN aside \cup {step} ELSE aside
    /\ Show(s) /\ UserActs
    /\ UNCHANGED <<formState, completed, bTotal, savesOfB, saves, answers, submission, server>>

\* Back, and Edit on the review: nobody is asked, and the flag stays.
GoUnasked(s) ==
    /\ \/ IndexOf(step) > 1 /\ s = StepIds[IndexOf(step) - 1]
       \/ step = Review /\ s \in Sections
    /\ aside' = IF isDirty THEN aside \cup {step} ELSE aside
    /\ Show(s) /\ UserActs
    /\ UNCHANGED <<formState, completed, bTotal, isDirty,
                   savesOfB, saves, answers, submission, server>>

----------------------------------------------------------------------------
(* Saving *)

SchemaAccepts(s) == s = Review \/ formState[s] # 0

CanAdvance ==
    /\ SchemaAccepts(step)
    /\ step = "section-c1" => bTotal # 0 /\ formState[step] = bTotal

Free == LET used == {m.id : m \in saves \cup answers}
        IN  {id \in 1..MaxOpen : id \notin used /\ \A j \in 1..(id - 1) : j \in used}

CompletedBefore == completed

DirtyBefore_Cleared == FALSE

DirtyBefore == isDirty

\* advance() up to its await.
Advance ==
    /\ CanAdvance
    /\ UserActs
    /\ bTotal' = IF step = "section-b" THEN formState[step] ELSE bTotal
    /\ savesOfB' = IF step = "section-b" /\ savesOfB < 2 THEN savesOfB + 1 ELSE savesOfB
    /\ \E id \in Free :
          saves' = saves \cup {Save(id, step, formState[step], completed \cup {step})}
    /\ completed' = CompletedBefore
    /\ isDirty' = DirtyBefore
    /\ UNCHANGED <<step, formState, loadingGoals, isSubmitting,
                   answers, submission, server, aside>>

\* It goes to the step after the one that was saved, wherever the user is now.
StepAfter(s) == IF s = Review THEN step ELSE StepIds[IndexOf(s) + 1]

\* advance() after its await.
AdvanceAnswered(a) ==
    /\ answers' = answers \ {a}
    /\ completed' = a.completed
    /\ isDirty' = FALSE
    /\ Show(StepAfter(a.step))
    /\ UNCHANGED <<formState, bTotal, counted, saves, submission, server, aside>>

\* The answer is lost: advance() rejects, and nobody handles it.
AnswerLost(a) ==
    /\ answers' = answers \ {a}
    /\ UNCHANGED <<tab, counted, saves, submission, server, aside>>

----------------------------------------------------------------------------
(* The handlers *)

Becomes(v, w) == saves' = (saves \ {v}) \cup {w}

\* PATCH draft/state reads the draft.
ReadDraft(v) ==
    /\ v.phase = "sent"
    /\ Becomes(v, [v EXCEPT !.phase = "read", !.seen = stored])
    /\ UNCHANGED <<tab, counted, answers, submission, server, aside>>

\* It updates the draft, whose row it locks, and answers.
UpdateDraft(v) ==
    /\ v.phase = "read" /\ \A w \in saves : w.phase # "told"
    /\ Becomes(v, [v EXCEPT !.phase = "told"])
    /\ answers' = answers \cup (IF v.gone THEN {} ELSE
                      {[id |-> v.id, step |-> v.step, completed |-> v.completed]})
    /\ UNCHANGED <<tab, counted, submission, server, aside>>

StateAfter(v) == [v.seen EXCEPT ![v.step] = v.data]

\* What it writes back of the other sections is what they were at its read.
Commit(v) ==
    /\ v.phase = "told"
    /\ stored' = StateAfter(v)
    /\ undone' = (undone \cup {s \in Sections : v.seen[s] # stored[s]}) \ {v.step}
    /\ saves' = saves \ {v}
    /\ UNCHANGED <<tab, counted, answers, submission, status, aside>>

\* The request gets lost or is refused, or its transaction fails, which may be after
\* the answer.
Fail(v) ==
    /\ saves' = saves \ {v}
    /\ undone' = IF v.phase = "told" THEN undone \cup {v.step} ELSE undone
    /\ UNCHANGED <<tab, counted, answers, submission, stored, status, aside>>

----------------------------------------------------------------------------
(* Submission *)

CanSubmit_AnyStep == completed # {}

CanSubmit == Sections \subseteq completed

\* The review's button.  Its other conditions are flags of the sections.
SubmitForSigning ==
    /\ step = Review /\ CanSubmit /\ ~isSubmitting
    /\ ~submission
    /\ isSubmitting' = TRUE /\ submission' = TRUE
    /\ UNCHANGED <<step, formState, completed, bTotal, isDirty, loadingGoals,
                   counted, saves, answers, server, aside>>

\* PATCH status is handled and answered, or fails.
SubmissionAnswered ==
    /\ submission /\ submission' = FALSE
    /\ isSubmitting' = FALSE
    /\ status' \in {status, "pending_ceo"}
    /\ UNCHANGED <<step, formState, completed, bTotal, isDirty, loadingGoals,
                   counted, saves, answers, stored, undone, aside>>

----------------------------------------------------------------------------
\* The wizard is mounted anew, by a reload or a visit of the audit tab.  The draft
\* stores sections under sectionKey, which the wizard does not look under.
Remount ==
    /\ step' = StepIds[1]
    /\ formState' = Empty
    /\ completed' = {} /\ bTotal' = 0 /\ aside' = {}
    /\ isDirty' = FALSE /\ loadingGoals' = FALSE /\ isSubmitting' = FALSE
    /\ answers' = {} /\ saves' = {[v EXCEPT !.gone = TRUE] : v \in saves}
    /\ UserActs
    /\ UNCHANGED <<savesOfB, submission, server>>

\* The user may stop; nothing is under way then.
Idle == ~Waiting /\ ~loadingGoals /\ ~submission /\ UNCHANGED vars

Next ==
    \/ Edit \/ GoalsLoaded
    \/ \E s \in Steps : NavigateToStep(s) \/ GoUnasked(s)
    \/ Advance
    \/ \E a \in answers : AdvanceAnswered(a) \/ AnswerLost(a)
    \/ \E v \in saves : ReadDraft(v) \/ UpdateDraft(v) \/ Commit(v) \/ Fail(v)
    \/ SubmitForSigning \/ SubmissionAnswered
    \/ Remount
    \/ Idle

Spec == Init /\ [][Next]_vars

----------------------------------------------------------------------------
(* Properties *)

\* The draft has section s, or will have it when the handler that has answered commits.
IsStored(s) == s = Review \/ stored[s] # 0 \/ \E v \in saves : v.phase = "told" /\ v.step = s

\* What the wizard tells of the draft is so, whatever saves are refused, overtake each
\* other or lose their answers, and wherever the user goes meanwhile: a step shown as
\* completed is in the draft; and without "You have unsaved changes" a section differs from
\* the draft only if it was left with the flag on, or changed while a save was under way.
\* The exceptions are the sections that a handler which had read before them wrote back,
\* and those whose COMMIT failed after the answer, until they are saved again.
ShownIsInTheDraft ==
    /\ \A s \in completed \ undone : IsStored(s)
    /\ ~isDirty /\ saves = {} =>
          \A s \in Sections \ (aside \cup undone) : formState[s] \in {stored[s], 0}

\* What goes to the CEO is complete, with the same exceptions: every section is in the
\* draft, with data that its schema accepted; and its work force profile has the total of
\* section B, if section B was saved once.
SubmittedIsComplete ==
    status = "pending_ceo" =>
        /\ \A s \in Sections \ undone : IsStored(s)
        /\ /\ savesOfB = 1 /\ \A v \in saves : v.phase # "told"
           /\ {"section-b", "section-c1"} \cap undone = {}
           => stored["section-c1"] = stored["section-b"]
=============================================================================
