-------------------------- MODULE Eea2WizardProofs --------------------------
(***************************************************************************)
(* Theorems about Eea2Wizard for any steps, any totals, any number of       *)
(* inputs and of saves in flight, whose handlers may overlap and whose      *)
(* COMMITs may fail after the answer.                                       *)
(***************************************************************************)
EXTENDS Eea2Wizard, SequenceTheorems, TLAPS

(***************************************************************************)
(* The inductive invariant.                                                 *)
(***************************************************************************)
Phases == {"sent", "read", "told"}

SaveRequest == [id : 1..MaxOpen, step : Steps, data : Data, completed : SUBSET Steps,
                phase : Phases, seen : Form, gone : BOOLEAN]

Answer == [id : 1..MaxOpen, step : Steps, completed : SUBSET Steps]

TypesInv ==
    /\ step \in Steps /\ formState \in Form /\ completed \subseteq Steps
    /\ bTotal \in Data /\ isDirty \in BOOLEAN /\ isSubmitting \in BOOLEAN
    /\ savesOfB \in 0..2
    /\ saves \subseteq SaveRequest /\ answers \subseteq Answer /\ submission \in BOOLEAN
    /\ stored \in Form /\ undone \subseteq Steps
    /\ loadingGoals => step = "section-c2"

\* What a save or its answer will show as completed is in the draft, and what was
\* submitted is, but for the sections undone.
StoredInv ==
    /\ \A s \in completed \ undone : IsStored(s)
    /\ \A v \in saves : /\ v.step # Review => v.data # 0
                        /\ \A s \in v.completed \ ({v.step} \cup undone) : IsStored(s)
    /\ \A a \in answers : \A s \in a.completed \ undone : IsStored(s)
    /\ submission \/ status = "pending_ceo" => \A s \in Sections \ undone : IsStored(s)

Saved(s) ==
    \/ formState[s] \in {stored[s], 0}
    \/ \E v \in saves : v.phase = "told" /\ v.step = s /\ v.data = formState[s]

\* Saves under way carry what the screen shows of a section that was not set aside.
SentInv == \A s \in Sections \ aside : \A v \in saves : v.step = s => formState[s] \in {v.data, 0}

\* A section that is neither saved nor left aside nor undone is on the screen, with the
\* flag on, and every answer that may still come is about it.
ShownInv ==
    \A s \in Sections \ (aside \cup undone) :
        /\ \A a \in answers : a.step = s => Saved(s)
        /\ \/ Saved(s)
           \/ /\ isDirty /\ step = s
              /\ \A v \in saves : v.gone \/ v.step = s
              /\ \A a \in answers : a.step = s

OnlyTotal(d) ==
    /\ bTotal \in {0, d} /\ stored["section-b"] \in {0, d} /\ stored["section-c1"] \in {0, d}
    /\ \A v \in saves : /\ v.step \in {"section-b", "section-c1"} => v.data = d
                        /\ v.seen["section-b"] \in {0, d} /\ v.seen["section-c1"] \in {0, d}

\* As long as section B was saved once, its total is the only one there is.
TotalInv ==
    /\ savesOfB = 0 => OnlyTotal(0)
    /\ savesOfB = 1 => \E d \in Data : OnlyTotal(d)

IInv == TypesInv /\ StoredInv /\ SentInv /\ ShownInv /\ TotalInv

----------------------------------------------------------------------------
(* What the steps share *)

LEMMA StepFacts ==
    /\ Sections \subseteq Steps /\ Review \notin Sections /\ Review \in Steps
    /\ \A s \in Steps : s # Review => s \in Sections
    /\ {"section-b", "section-c1", "section-c2"} \subseteq Sections
    /\ StepIds[1] \in Steps
    /\ \A s \in Steps : s # Review => StepIds[IndexOf(s) + 1] \in Steps
  <1>1. /\ StepIds \in Seq(STRING) /\ Len(StepIds) \in Nat /\ DOMAIN StepIds = 1..Len(StepIds)
        /\ {"section-b", "section-c1", "section-c2"} \subseteq Sections
    BY StepsAssumption
  <1>2. Sections \subseteq Steps /\ Review \notin Sections
        /\ \A s \in Steps : s # Review => s \in Sections
    BY DEF Sections
  <1>3. PICK i \in DOMAIN StepIds : StepIds[i] = "section-b"
    BY <1>1, <1>2 DEF Steps
  <1>4. Len(StepIds) \in DOMAIN StepIds /\ 1 \in DOMAIN StepIds
    BY <1>1, <1>3
  <1>5. Review \in Steps /\ StepIds[1] \in Steps
    BY <1>4 DEF Review, Steps
  <1>6. ASSUME NEW s \in Steps, s # Review PROVE StepIds[IndexOf(s) + 1] \in Steps
    <2>1. \E j \in DOMAIN StepIds : StepIds[j] = s
      BY DEF Steps
    <2>2. IndexOf(s) \in DOMAIN StepIds /\ StepIds[IndexOf(s)] = s
      BY <2>1 DEF IndexOf
    <2>3. IndexOf(s) # Len(StepIds)
      BY <1>6, <2>2 DEF Review
    <2>4. IndexOf(s) + 1 \in DOMAIN StepIds
      BY <1>1, <2>2, <2>3
    <2>5. QED
      BY <2>4 DEF Steps
  <1>7. QED
    BY <1>1, <1>2, <1>5, <1>6

\* The user edits the section on the screen, or its goals arrive there.
LEMMA EditKeeps ==
    ASSUME IInv, step \in Sections, NEW t \in Data, SetStepData(step, t),
           loadingGoals' => loadingGoals,
           UNCHANGED <<step, completed, bTotal, isSubmitting, savesOfB, saves, answers,
                       submission, server>>
    PROVE  IInv'
  <1>1. TypesInv /\ StoredInv /\ SentInv /\ ShownInv /\ TotalInv
    BY DEF IInv
  <1>2. /\ formState' = [formState EXCEPT ![step] = t] /\ isDirty' = TRUE
        /\ aside' = IF Waiting THEN aside \cup {step} ELSE aside
        /\ stored' = stored /\ status' = status /\ undone' = undone
        /\ step' = step /\ saves' = saves
        /\ answers' = answers /\ completed' = completed /\ submission' = submission
        /\ bTotal' = bTotal /\ savesOfB' = savesOfB /\ isSubmitting' = isSubmitting
    BY DEF SetStepData, server
  <1>3. \A s \in Steps : formState'[s] = IF s = step THEN t ELSE formState[s]
    BY <1>1, <1>2 DEF TypesInv, Form
  <1>4. TypesInv'
    BY <1>1, <1>2 DEF TypesInv, Form
  <1>5. StoredInv' /\ TotalInv'
    BY <1>1, <1>2 DEF StoredInv, TotalInv, OnlyTotal, IsStored
  <1>6. ASSUME NEW s \in Sections \ aside', s # step
        PROVE  s \in Sections \ aside /\ formState'[s] = formState[s] /\ (Saved(s)' <=> Saved(s))
    <2>1. s \in Sections \ aside /\ s \in Steps
      BY <1>2, <1>6, StepFacts
    <2>2. formState'[s] = formState[s]
      BY <1>3, <1>6, <2>1
    <2>3. QED
      BY <1>2, <2>1, <2>2 DEF Saved
  <1>7. ASSUME step \notin aside' PROVE saves = {} /\ answers = {}
    BY <1>2, <1>7 DEF Waiting
  <1>8. SentInv'
    BY <1>1, <1>2, <1>6, <1>7 DEF SentInv
  <1>9. ShownInv'
    <2>1. ASSUME NEW s \in Sections \ (aside' \cup undone)
          PROVE  /\ \A a \in answers : a.step = s => Saved(s)'
                 /\ \/ Saved(s)'
                    \/ /\ isDirty' /\ step' = s
                       /\ \A v \in saves : v.gone \/ v.step = s
                       /\ \A a \in answers : a.step = s
      <3>1. CASE s = step
        BY <1>2, <1>7, <2>1, <3>1
      <3>2. CASE s # step
        BY <1>1, <1>6, <2>1, <3>2 DEF ShownInv
      <3>3. QED
        BY <3>1, <3>2
    <2>2. QED
      BY <1>2, <2>1 DEF ShownInv
  <1>10. QED
    BY <1>4, <1>5, <1>8, <1>9 DEF IInv

\* The user goes to another step, with the flag or without it.
LEMMA LeaveKeeps ==
    ASSUME IInv, NEW s \in Steps, Show(s), isDirty' \in {isDirty, FALSE},
           aside' = (IF isDirty THEN aside \cup {step} ELSE aside),
           UNCHANGED <<formState, completed, bTotal, savesOfB, saves, answers, submission, server>>
    PROVE  IInv'
  <1>1. TypesInv /\ StoredInv /\ SentInv /\ ShownInv /\ TotalInv
    BY DEF IInv
  <1>2. /\ step' = s /\ loadingGoals' = (s = "section-c2" /\ (step # s \/ loadingGoals))
        /\ isSubmitting' = (isSubmitting /\ s = step)
        /\ stored' = stored /\ status' = status /\ undone' = undone
    BY DEF Show, server
  <1>3. TypesInv'
    BY <1>1, <1>2 DEF TypesInv
  <1>4. StoredInv' /\ SentInv' /\ TotalInv'
    BY <1>1, <1>2 DEF StoredInv, SentInv, TotalInv, OnlyTotal, IsStored
  <1>5. \A r : Saved(r)' <=> Saved(r)
    BY <1>2 DEF Saved
  <1>6. ShownInv'
    <2>1. ASSUME NEW r \in Sections \ (aside' \cup undone)
          PROVE  r \in Sections \ (aside \cup undone) /\ Saved(r)
      BY <1>1, <2>1 DEF ShownInv
    <2>2. QED
      BY <1>1, <1>2, <1>5, <2>1 DEF ShownInv
  <1>7. QED
    BY <1>3, <1>4, <1>6 DEF IInv

\* Next: the section on the screen is sent.
LEMMA AdvanceKeeps ==
    ASSUME IInv, Advance
    PROVE  IInv'
  <1>1. TypesInv /\ StoredInv /\ SentInv /\ ShownInv /\ TotalInv
    BY DEF IInv
  <1>2. PICK id \in 1..MaxOpen :
           saves' = saves \cup {Save(id, step, formState[step], completed \cup {step})}
    BY DEF Advance, Free
  <1> DEFINE w == Save(id, step, formState[step], completed \cup {step})
  <1>3. /\ SchemaAccepts(step) /\ (step = "section-c1" => bTotal # 0 /\ formState[step] = bTotal)
        /\ bTotal' = (IF step = "section-b" THEN formState[step] ELSE bTotal)
        /\ savesOfB' = (IF step = "section-b" /\ savesOfB < 2 THEN savesOfB + 1 ELSE savesOfB)
        /\ completed' = completed /\ isDirty' = isDirty
        /\ step' = step /\ formState' = formState /\ loadingGoals' = loadingGoals
        /\ isSubmitting' = isSubmitting /\ answers' = answers /\ submission' = submission
        /\ stored' = stored /\ status' = status /\ undone' = undone /\ aside' = aside
    BY DEF Advance, CanAdvance, CompletedBefore, DirtyBefore, server
  <1>4. /\ w.step = step /\ w.data = formState[step] /\ w.completed = completed \cup {step}
        /\ w.phase = "sent" /\ w.gone = FALSE /\ w.seen = Empty
    BY DEF Save
  <1>5. w \in SaveRequest
    <2>1. formState[step] \in Data /\ Empty \in Form /\ completed \cup {step} \in SUBSET Steps
          /\ step \in Steps
      BY <1>1 DEF TypesInv, Form, Empty, Data
    <2>2. QED
      BY <2>1 DEF Save, SaveRequest, Phases
  <1>6. saves' = saves \cup {w}
    BY <1>2
  <1>7. step # Review => formState[step] # 0
    BY <1>3 DEF SchemaAccepts
  <1> HIDE DEF w
  <1>8. \A s : IsStored(s)' <=> IsStored(s)
    BY <1>3, <1>4, <1>6 DEF IsStored
  <1>9. \A s : Saved(s)' <=> Saved(s)
    BY <1>3, <1>4, <1>6 DEF Saved
  <1>10. TypesInv'
    <2>1. bTotal' \in Data /\ savesOfB' \in 0..2
      BY <1>1, <1>3 DEF TypesInv, Form
    <2>2. QED
      BY <1>1, <1>3, <1>5, <1>6, <2>1 DEF TypesInv
  <1>11. SentInv'
    BY <1>1, <1>3, <1>4, <1>6 DEF SentInv
  <1>12. StoredInv'
    BY <1>1, <1>3, <1>4, <1>6, <1>7, <1>8 DEF StoredInv
  <1>13. ShownInv'
    BY <1>1, <1>3, <1>4, <1>6, <1>9 DEF ShownInv
  <1>14. TotalInv'
    <2>1. savesOfB \in 0..2 /\ formState[step] \in Data /\ 0 \in Data /\ bTotal \in Data
      BY <1>1 DEF TypesInv, Form, Data
    <2>2. /\ "section-b" # Review /\ "section-c1" # Review
          /\ w.seen["section-b"] = 0 /\ w.seen["section-c1"] = 0
      BY <1>4, StepFacts DEF Empty
    <2>3. ASSUME savesOfB = 0
          PROVE  /\ bTotal = 0 /\ stored["section-b"] = 0 /\ stored["section-c1"] = 0
                 /\ \A v \in saves : /\ v.step \notin {"section-b", "section-c1"}
                                     /\ v.seen["section-b"] = 0 /\ v.seen["section-c1"] = 0
      BY <1>1, <2>2, <2>3 DEF TotalInv, OnlyTotal, StoredInv
    <2>4. CASE step = "section-b"
      <3>1. savesOfB' = 0 \/ savesOfB' = 1 => savesOfB = 0 /\ savesOfB' = 1
        BY <1>3, <2>1, <2>4
      <3>2. ASSUME savesOfB = 0 PROVE OnlyTotal(formState[step])'
        BY <1>3, <1>4, <1>6, <2>2, <2>3, <2>4, <3>2 DEF OnlyTotal
      <3>3. ASSUME savesOfB = 0 PROVE \E d \in Data : OnlyTotal(d)'
        <4>1. PICK d \in Data : d = formState[step]
          BY <2>1
        <4>2. OnlyTotal(d)'
          BY <1>3, <1>4, <1>6, <2>2, <2>3, <2>4, <3>3, <4>1 DEF OnlyTotal
        <4>3. QED
          BY <4>2
      <3>4. QED
        BY <3>1, <3>3 DEF TotalInv
    <2>5. CASE step # "section-b"
      <3>1. savesOfB' = savesOfB /\ bTotal' = bTotal
        BY <1>3, <2>5
      <3>2. ASSUME savesOfB = 0 PROVE OnlyTotal(0)'
        <4>1. step # "section-c1"
          BY <1>3, <2>3, <3>2
        <4>2. QED
          BY <1>3, <1>4, <1>6, <2>2, <2>3, <2>5, <3>1, <3>2, <4>1 DEF OnlyTotal
      <3>3. ASSUME NEW d \in Data, OnlyTotal(d) PROVE OnlyTotal(d)'
        <4>1. step = "section-c1" => formState[step] = d
          BY <1>3, <3>3 DEF OnlyTotal
        <4>2. QED
          BY <1>3, <1>4, <1>6, <2>2, <2>5, <3>1, <3>3, <4>1 DEF OnlyTotal
      <3>4. QED
        BY <1>1, <3>1, <3>2, <3>3 DEF TotalInv
    <2>6. QED
      BY <2>4, <2>5
  <1>15. QED
    BY <1>10, <1>11, <1>12, <1>13, <1>14 DEF IInv

\* The answer arrives: the step is shown as completed, and the flag goes.
LEMMA AnsweredKeeps ==
    ASSUME IInv, NEW a \in answers, AdvanceAnswered(a)
    PROVE  IInv'
  <1>1. TypesInv /\ StoredInv /\ SentInv /\ ShownInv /\ TotalInv
    BY DEF IInv
  <1> DEFINE s == StepAfter(a.step)
  <1>2. /\ answers' = answers \ {a} /\ completed' = a.completed /\ isDirty' = FALSE
        /\ step' = s /\ loadingGoals' = (s = "section-c2" /\ (step # s \/ loadingGoals))
        /\ isSubmitting' = (isSubmitting /\ s = step)
        /\ formState' = formState /\ bTotal' = bTotal /\ savesOfB' = savesOfB /\ saves' = saves
        /\ submission' = submission /\ stored' = stored /\ status' = status /\ undone' = undone /\ aside' = aside
    BY DEF AdvanceAnswered, Show, counted, server
  <1>3. a.step \in Steps /\ a.completed \subseteq Steps
    BY <1>1 DEF TypesInv, Answer
  <1>4. s \in Steps
    BY <1>1, <1>3, StepFacts DEF StepAfter, TypesInv
  <1> HIDE DEF s
  <1>5. TypesInv'
    BY <1>1, <1>2, <1>3, <1>4 DEF TypesInv
  <1>6. SentInv' /\ TotalInv'
    BY <1>1, <1>2 DEF SentInv, TotalInv, OnlyTotal
  <1>7. StoredInv'
    <2>1. \A r : IsStored(r)' <=> IsStored(r)
      BY <1>2 DEF IsStored
    <2>2. QED
      BY <1>1, <1>2, <2>1 DEF StoredInv
  <1>8. ShownInv'
    <2>1. \A r : Saved(r)' <=> Saved(r)
      BY <1>2 DEF Saved
    <2>2. \A r \in Sections \ (aside \cup undone) : Saved(r)
      BY <1>1 DEF ShownInv
    <2>3. QED
      BY <1>1, <1>2, <2>1, <2>2 DEF ShownInv
  <1>9. QED
    BY <1>5, <1>6, <1>7, <1>8 DEF IInv

\* The handler reads, whichever others are past their reads.
LEMMA ReadKeeps ==
    ASSUME IInv, NEW v \in saves, ReadDraft(v)
    PROVE  IInv'
  <1>1. TypesInv /\ StoredInv /\ SentInv /\ ShownInv /\ TotalInv
    BY DEF IInv
  <1> DEFINE w == [v EXCEPT !.phase = "read", !.seen = stored]
  <1>2. /\ v.phase = "sent"
        /\ saves' = (saves \ {v}) \cup {w}
        /\ step' = step /\ formState' = formState /\ completed' = completed /\ bTotal' = bTotal
        /\ isDirty' = isDirty /\ loadingGoals' = loadingGoals /\ isSubmitting' = isSubmitting
        /\ savesOfB' = savesOfB /\ answers' = answers /\ submission' = submission
        /\ stored' = stored /\ status' = status /\ undone' = undone /\ aside' = aside
    BY DEF ReadDraft, Becomes, tab, counted, server
  <1>3. v \in SaveRequest /\ stored \in Form
    BY <1>1 DEF TypesInv
  <1>4. /\ w \in SaveRequest /\ w.phase = "read" /\ w.seen = stored
        /\ w.step = v.step /\ w.data = v.data /\ w.completed = v.completed /\ w.gone = v.gone
    BY <1>3 DEF SaveRequest, Phases
  <1> HIDE DEF w
  <1>5. \A s : IsStored(s)' <=> IsStored(s)
    BY <1>2, <1>4 DEF IsStored
  <1>6. \A s : Saved(s)' <=> Saved(s)
    BY <1>2, <1>4 DEF Saved
  <1>7. TypesInv'
    BY <1>1, <1>2, <1>4 DEF TypesInv
  <1>8. SentInv'
    BY <1>1, <1>2, <1>4 DEF SentInv
  <1>9. StoredInv'
    BY <1>1, <1>2, <1>4, <1>5 DEF StoredInv
  <1>10. ShownInv'
    BY <1>1, <1>2, <1>4, <1>6 DEF ShownInv
  <1>11. TotalInv'
    BY <1>1, <1>2, <1>4 DEF TotalInv, OnlyTotal
  <1>12. QED
    BY <1>7, <1>8, <1>9, <1>10, <1>11 DEF IInv

\* It answers before it commits; who sent it may be gone.
LEMMA UpdateKeeps ==
    ASSUME IInv, NEW v \in saves, UpdateDraft(v)
    PROVE  IInv'
  <1>1. TypesInv /\ StoredInv /\ SentInv /\ ShownInv /\ TotalInv
    BY DEF IInv
  <1> DEFINE w == [v EXCEPT !.phase = "told"]
             a == [id |-> v.id, step |-> v.step, completed |-> v.completed]
  <1>2. /\ v.phase = "read" /\ (\A u \in saves : u.phase # "told")
        /\ saves' = (saves \ {v}) \cup {w}
        /\ answers' = answers \cup (IF v.gone THEN {} ELSE {a})
        /\ step' = step /\ formState' = formState /\ completed' = completed /\ bTotal' = bTotal
        /\ isDirty' = isDirty /\ loadingGoals' = loadingGoals /\ isSubmitting' = isSubmitting
        /\ savesOfB' = savesOfB /\ submission' = submission
        /\ stored' = stored /\ status' = status /\ undone' = undone /\ aside' = aside
    BY DEF UpdateDraft, Becomes, tab, counted, server
  <1>3. v \in SaveRequest
    BY <1>1 DEF TypesInv
  <1>4. /\ w \in SaveRequest /\ w.phase = "told" /\ w.seen = v.seen
        /\ w.step = v.step /\ w.data = v.data /\ w.completed = v.completed /\ w.gone = v.gone
    BY <1>3 DEF SaveRequest, Phases
  <1>5. a \in Answer /\ a.step = v.step /\ a.completed = v.completed
    BY <1>3 DEF SaveRequest, Answer
  <1> HIDE DEF w, a
  <1>6. \A s : IsStored(s) => IsStored(s)'
    BY <1>2, <1>4 DEF IsStored
  <1>7. IsStored(v.step)'
    BY <1>2, <1>4 DEF IsStored
  <1>8. \A s : Saved(s) => Saved(s)'
    BY <1>2, <1>4 DEF Saved
  <1>9. formState[v.step] \in {v.data, 0} => Saved(v.step)'
    BY <1>2, <1>4 DEF Saved
  <1>10. TypesInv'
    BY <1>1, <1>2, <1>4, <1>5 DEF TypesInv
  <1>11. SentInv'
    BY <1>1, <1>2, <1>4 DEF SentInv
  <1>12. StoredInv'
    <2>1. \A s \in v.completed \ undone : IsStored(s)'
      BY <1>1, <1>6, <1>7 DEF StoredInv
    <2>2. \A b \in answers' : \A s \in b.completed \ undone : IsStored(s)'
      BY <1>1, <1>2, <1>5, <1>6, <2>1 DEF StoredInv
    <2>3. \A u \in saves' : /\ u.step # Review => u.data # 0
                            /\ \A s \in u.completed \ ({u.step} \cup undone) : IsStored(s)'
      BY <1>1, <1>2, <1>4, <1>6 DEF StoredInv
    <2>4. QED
      BY <1>1, <1>2, <1>6, <2>2, <2>3 DEF StoredInv
  <1>13. ASSUME NEW s \in Sections \ (aside \cup undone)
         PROVE  /\ \A b \in answers' : b.step = s => Saved(s)'
                /\ \/ Saved(s)'
                   \/ /\ isDirty /\ step = s
                      /\ \A u \in saves' : u.gone \/ u.step = s
                      /\ \A b \in answers' : b.step = s
    <2>1. v.step = s => Saved(s)'
      BY <1>1, <1>2, <1>9 DEF SentInv
    <2>2. \A b \in answers' : b.step = s => Saved(s)'
      BY <1>1, <1>2, <1>5, <1>8, <2>1 DEF ShownInv
    <2>3. CASE Saved(s)
      BY <1>8, <2>2, <2>3
    <2>4. CASE /\ isDirty /\ step = s
               /\ \A u \in saves : u.gone \/ u.step = s
               /\ \A b \in answers : b.step = s
      BY <1>2, <1>4, <1>5, <2>1, <2>2, <2>4
    <2>5. QED
      BY <1>1, <2>3, <2>4 DEF ShownInv
  <1>14. ShownInv'
    BY <1>2, <1>13 DEF ShownInv
  <1>15. TotalInv'
    BY <1>1, <1>2, <1>4 DEF TotalInv, OnlyTotal
  <1>16. QED
    BY <1>10, <1>11, <1>12, <1>14, <1>15 DEF IInv

\* It commits what it has read, with its own section in it: another section is as before,
\* or undone.
LEMMA CommitKeeps ==
    ASSUME IInv, NEW v \in saves, Commit(v)
    PROVE  IInv'
  <1>1. TypesInv /\ StoredInv /\ SentInv /\ ShownInv /\ TotalInv
    BY DEF IInv
  <1>2. /\ v.phase = "told" /\ stored' = [v.seen EXCEPT ![v.step] = v.data]
        /\ undone' = (undone \cup {s \in Sections : v.seen[s] # stored[s]}) \ {v.step}
        /\ saves' = saves \ {v}
        /\ step' = step /\ formState' = formState /\ completed' = completed /\ bTotal' = bTotal
        /\ isDirty' = isDirty /\ loadingGoals' = loadingGoals /\ isSubmitting' = isSubmitting
        /\ savesOfB' = savesOfB /\ answers' = answers /\ submission' = submission
        /\ status' = status /\ aside' = aside
    BY DEF Commit, StateAfter, tab, counted
  <1>3. v \in SaveRequest /\ v.step \in Steps /\ v.data \in Data /\ v.seen \in Form
        /\ stored \in Form
    BY <1>1 DEF TypesInv, SaveRequest
  <1>4. /\ stored' \in Form
        /\ \A s \in Steps : stored'[s] = IF s = v.step THEN v.data ELSE v.seen[s]
    BY <1>2, <1>3 DEF Form
  <1>5. undone' \subseteq Steps /\ \A s \in Sections \ undone' : s = v.step \/ s \notin undone
    BY <1>1, <1>2, StepFacts DEF TypesInv
  <1>6. \A s \in Sections \ undone' : s # v.step => stored'[s] = stored[s]
    BY <1>2, <1>4, StepFacts
  <1>7. ASSUME NEW s \in Steps, s \notin undone', s = v.step \/ IsStored(s) PROVE IsStored(s)'
    <2>1. CASE s = Review
      BY <2>1 DEF IsStored
    <2>2. CASE s # Review /\ s = v.step
      BY <1>1, <1>3, <1>4, <2>2 DEF IsStored, StoredInv
    <2>3. CASE s # Review /\ s # v.step
      <3>1. stored'[s] = stored[s] /\ s \in Sections
        BY <1>6, <1>7, <2>3, StepFacts
      <3>2. QED
        BY <1>2, <1>7, <2>3, <3>1 DEF IsStored
    <2>4. QED
      BY <2>1, <2>2, <2>3
  <1>8. ASSUME NEW s \in Sections \ (aside \cup undone'), s = v.step \/ Saved(s) PROVE Saved(s)'
    <2>1. s \in Steps
      BY StepFacts
    <2>2. CASE s = v.step
      <3>1. stored'[s] = v.data /\ formState[s] \in {v.data, 0}
        BY <1>1, <1>4, <2>1, <2>2 DEF SentInv
      <3>2. QED
        BY <1>2, <3>1 DEF Saved
    <2>3. CASE s # v.step
      <3>1. stored'[s] = stored[s]
        BY <1>6, <2>3
      <3>2. QED
        BY <1>2, <1>8, <2>3, <3>1 DEF Saved
    <2>4. QED
      BY <2>2, <2>3
  <1>9. TypesInv' /\ SentInv'
    BY <1>1, <1>2, <1>4, <1>5 DEF TypesInv, SentInv
  <1>10. StoredInv'
    <2>1. Sections \subseteq Steps /\ completed \subseteq Steps
          /\ (\A u \in saves : u.completed \subseteq Steps)
          /\ (\A a \in answers : a.completed \subseteq Steps)
      BY <1>1, StepFacts DEF TypesInv, SaveRequest, Answer
    <2>2. \A s \in Steps : s \notin undone' => s = v.step \/ s \notin undone
      BY <1>2
    <2>3. \A s \in completed \ undone' : IsStored(s)'
      BY <1>1, <1>7, <2>1, <2>2 DEF StoredInv
    <2>4. \A u \in saves : /\ u.step # Review => u.data # 0
                           /\ \A s \in u.completed \ ({u.step} \cup undone') : IsStored(s)'
      BY <1>1, <1>7, <2>1, <2>2 DEF StoredInv
    <2>5. \A a \in answers : \A s \in a.completed \ undone' : IsStored(s)'
      BY <1>1, <1>7, <2>1, <2>2 DEF StoredInv
    <2>6. submission \/ status = "pending_ceo" => \A s \in Sections \ undone' : IsStored(s)'
      BY <1>1, <1>7, <2>1, <2>2 DEF StoredInv
    <2>7. QED
      BY <1>2, <2>3, <2>4, <2>5, <2>6 DEF StoredInv
  <1>11. ShownInv'
    BY <1>1, <1>2, <1>5, <1>8 DEF ShownInv
  <1>12. TotalInv'
    <2>1. {"section-b", "section-c1"} \subseteq Steps
      BY StepFacts
    <2>2. ASSUME NEW d \in Data, OnlyTotal(d) PROVE OnlyTotal(d)'
      BY <1>2, <1>4, <2>1, <2>2 DEF OnlyTotal
    <2>3. 0 \in Data
      BY DEF Data
    <2>4. QED
      BY <1>1, <1>2, <2>2, <2>3 DEF TotalInv
  <1>13. QED
    BY <1>9, <1>10, <1>11, <1>12 DEF IInv

\* A request fails; if its handler had answered, its section is undone.
LEMMA FailKeeps ==
    ASSUME IInv, NEW v \in saves, Fail(v)
    PROVE  IInv'
  <1>1. TypesInv /\ StoredInv /\ SentInv /\ ShownInv /\ TotalInv
    BY DEF IInv
  <1>2. /\ undone' = (IF v.phase = "told" THEN undone \cup {v.step} ELSE undone)
        /\ saves' = saves \ {v}
        /\ step' = step /\ formState' = formState /\ completed' = completed /\ bTotal' = bTotal
        /\ isDirty' = isDirty /\ loadingGoals' = loadingGoals /\ isSubmitting' = isSubmitting
        /\ savesOfB' = savesOfB /\ answers' = answers /\ submission' = submission
        /\ stored' = stored /\ status' = status /\ aside' = aside
    BY DEF Fail, tab, counted
  <1>3. undone \subseteq undone' /\ undone' \subseteq Steps
    BY <1>1, <1>2 DEF TypesInv, SaveRequest
  <1>4. \A s : s \notin undone' /\ IsStored(s) => IsStored(s)'
    BY <1>2 DEF IsStored
  <1>5. \A s : s \notin undone' /\ Saved(s) => Saved(s)'
    BY <1>2 DEF Saved
  <1>6. TypesInv' /\ SentInv' /\ TotalInv'
    BY <1>1, <1>2, <1>3 DEF TypesInv, SentInv, TotalInv, OnlyTotal
  <1>7. StoredInv'
    BY <1>1, <1>2, <1>3, <1>4 DEF StoredInv
  <1>8. ShownInv'
    BY <1>1, <1>2, <1>3, <1>5 DEF ShownInv
  <1>9. QED
    BY <1>6, <1>7, <1>8 DEF IInv

\* The wizard is mounted anew while its saves go on.
LEMMA RemountKeeps ==
    ASSUME IInv, Remount
    PROVE  IInv'
  <1>1. TypesInv /\ StoredInv /\ SentInv /\ ShownInv /\ TotalInv
    BY DEF IInv
  <1>2. /\ step' = StepIds[1] /\ formState' = Empty /\ completed' = {} /\ bTotal' = 0 /\ aside' = {}
        /\ isDirty' = FALSE /\ loadingGoals' = FALSE /\ isSubmitting' = FALSE /\ answers' = {}
        /\ saves' = {[v EXCEPT !.gone = TRUE] : v \in saves}
        /\ savesOfB' = savesOfB /\ submission' = submission /\ stored' = stored /\ status' = status
        /\ undone' = undone
    BY DEF Remount, server
  <1>3. ASSUME NEW v \in saves
        PROVE  /\ [v EXCEPT !.gone = TRUE] \in SaveRequest
               /\ [v EXCEPT !.gone = TRUE].step = v.step /\ [v EXCEPT !.gone = TRUE].data = v.data
               /\ [v EXCEPT !.gone = TRUE].phase = v.phase /\ [v EXCEPT !.gone = TRUE].seen = v.seen
               /\ [v EXCEPT !.gone = TRUE].completed = v.completed
    <2>1. v \in SaveRequest
      BY <1>1 DEF TypesInv
    <2>2. QED
      BY <2>1 DEF SaveRequest
  <1>4. /\ saves' \subseteq SaveRequest
        /\ \A w \in saves' : \E v \in saves :
              /\ w = [v EXCEPT !.gone = TRUE] /\ w.step = v.step /\ w.data = v.data
              /\ w.phase = v.phase /\ w.seen = v.seen /\ w.completed = v.completed
        /\ \A v \in saves : \E w \in saves' : w.phase = v.phase /\ w.step = v.step
    <2>1. saves' \subseteq SaveRequest
      BY <1>2, <1>3
    <2>2. ASSUME NEW w \in saves'
          PROVE  \E v \in saves :
                    /\ w = [v EXCEPT !.gone = TRUE] /\ w.step = v.step /\ w.data = v.data
                    /\ w.phase = v.phase /\ w.seen = v.seen /\ w.completed = v.completed
      <3>1. PICK v \in saves : w = [v EXCEPT !.gone = TRUE]
        BY <1>2
      <3>2. QED
        BY <1>3, <3>1, Zenon
    <2>3. ASSUME NEW v \in saves PROVE \E w \in saves' : w.phase = v.phase /\ w.step = v.step
      <3>1. PICK w \in saves' : w = [v EXCEPT !.gone = TRUE]
        BY <1>2
      <3>2. QED
        BY <1>3, <3>1, Zenon
    <2>4. QED
      BY <2>1, <2>2, <2>3
  <1>5. \A s : IsStored(s)' <=> IsStored(s)
    <2>1. \A s : (\E v \in saves : v.phase = "told" /\ v.step = s)
                   <=> \E w \in saves' : w.phase = "told" /\ w.step = s
      BY <1>4
    <2>2. stored' = stored
      BY <1>2
    <2>3. QED
      BY <2>1, <2>2 DEF IsStored
  <1>6. \A s \in Steps : formState'[s] = 0
    BY <1>2 DEF Empty
  <1>7. \A s \in Steps : Saved(s)'
    BY <1>6 DEF Saved
  <1>8. TypesInv'
    <2>1. StepIds[1] \in Steps /\ Empty \in Form /\ 0 \in Data
      BY StepFacts DEF Empty, Form, Data
    <2>2. QED
      BY <1>1, <1>2, <1>4, <2>1 DEF TypesInv
  <1>9. SentInv'
    <2>1. \A s \in Sections : formState'[s] = 0
      BY <1>6, StepFacts
    <2>2. QED
      BY <2>1 DEF SentInv
  <1>10. StoredInv'
    <2>1. \A w \in saves' : /\ w.step # Review => w.data # 0
                            /\ \A s \in w.completed \ ({w.step} \cup undone) : IsStored(s)'
      BY <1>1, <1>4, <1>5 DEF StoredInv
    <2>2. QED
      BY <1>1, <1>2, <1>5, <2>1 DEF StoredInv
  <1>11. ShownInv'
    <2>1. \A s \in Sections : formState'[s] = 0 /\ Saved(s)'
      BY <1>6, <1>7, StepFacts
    <2>2. QED
      BY <1>2, <2>1 DEF ShownInv
  <1>12. TotalInv'
    <2>1. ASSUME NEW d, OnlyTotal(d) PROVE OnlyTotal(d)'
      BY <1>2, <1>4, <2>1 DEF OnlyTotal
    <2>2. QED
      BY <1>1, <1>2, <2>1 DEF TotalInv
  <1>13. QED
    BY <1>8, <1>9, <1>10, <1>11, <1>12 DEF IInv

----------------------------------------------------------------------------
(* The theorems *)

\* The invariant holds whatever the user does, whichever saves fail or lose their answers,
\* and however their handlers overlap.
THEOREM Inductive == Spec => []IInv
  <1>1. Init => IInv
    <2> SUFFICES ASSUME Init PROVE IInv
      OBVIOUS
    <2>1. /\ step \in Steps /\ formState = Empty /\ Empty \in Form /\ completed = {} /\ bTotal = 0
          /\ isDirty = FALSE /\ loadingGoals = FALSE /\ isSubmitting = FALSE /\ savesOfB = 0
          /\ saves = {} /\ answers = {} /\ submission = FALSE /\ stored = Empty /\ status = "draft"
          /\ undone = {} /\ aside = {}
      <3>1. StepIds[1] \in Steps /\ Empty \in Form
        BY StepFacts DEF Empty, Form, Data
      <3>2. QED
        BY <3>1, Zenon DEF Init
    <2>2. TypesInv
      <3>1. 0 \in Data /\ 0 \in 0..2 /\ loadingGoals = FALSE
        BY <2>1 DEF Data
      <3>2. isDirty \in BOOLEAN /\ isSubmitting \in BOOLEAN /\ submission \in BOOLEAN
        BY <2>1, Zenon
      <3>3. QED
        BY <2>1, <3>1, <3>2, Zenon DEF TypesInv
    <2>3. StoredInv /\ SentInv
      BY <2>1 DEF StoredInv, SentInv
    <2>4. ShownInv
      <3>1. \A s \in Sections : formState[s] = 0
        BY <2>1, StepFacts DEF Empty
      <3>2. QED
        BY <2>1, <3>1 DEF ShownInv, Saved
    <2>5. TotalInv
      <3>1. stored["section-b"] = 0 /\ stored["section-c1"] = 0
        BY <2>1, StepFacts DEF Empty
      <3>2. QED
        BY <2>1, <3>1 DEF TotalInv, OnlyTotal
    <2>6. QED
      BY <2>2, <2>3, <2>4, <2>5 DEF IInv
  <1>2. IInv /\ [Next]_vars => IInv'
    <2> SUFFICES ASSUME IInv, [Next]_vars PROVE IInv'
      OBVIOUS
    <2>1. TypesInv /\ StoredInv /\ SentInv /\ ShownInv /\ TotalInv
      BY DEF IInv
    <2>2. CASE Edit
      <3>1. PICK t \in Totals : SetStepData(step, t)
        BY <2>2 DEF Edit
      <3>2. /\ step \in Sections /\ t \in Data
            /\ UNCHANGED <<step, completed, bTotal, loadingGoals, isSubmitting,
                           savesOfB, saves, answers, submission, server>>
        BY <2>2 DEF Edit, Data
      <3>3. QED
        BY <3>1, <3>2, EditKeeps
    <2>3. CASE GoalsLoaded
      <3>1. /\ loadingGoals' = FALSE /\ step = "section-c2" /\ step \in Sections
            /\ UNCHANGED <<step, completed, bTotal, isSubmitting, counted, saves, answers,
                           submission, server>>
        BY <2>1, <2>3, StepFacts DEF GoalsLoaded, TypesInv
      <3>2. CASE \E t \in Totals : SetStepData("section-c2", t)
        <4>1. PICK t \in Totals : SetStepData(step, t)
          BY <3>1, <3>2
        <4>2. t \in Data /\ savesOfB' = savesOfB
          BY <3>1 DEF Data, counted
        <4>3. QED
          BY <3>1, <4>1, <4>2, EditKeeps
      <3>3. CASE UNCHANGED <<formState, isDirty, aside>>
        <4>1. stored' = stored /\ status' = status /\ undone' = undone /\ savesOfB' = savesOfB
          BY <3>1 DEF server, counted
        <4>2. QED
          BY <2>1, <3>1, <3>3, <4>1 DEF IInv, TypesInv, SentInv, StoredInv, ShownInv, TotalInv,
                                        OnlyTotal, IsStored, Saved
      <3>4. QED
        BY <2>3, <3>2, <3>3 DEF GoalsLoaded
    <2>4. ASSUME NEW s \in Steps, NavigateToStep(s) PROVE IInv'
      BY <2>4, LeaveKeeps DEF NavigateToStep
    <2>5. ASSUME NEW s \in Steps, GoUnasked(s) PROVE IInv'
      BY <2>5, LeaveKeeps DEF GoUnasked
    <2>6. CASE Advance
      BY <2>6, AdvanceKeeps
    <2>7. ASSUME NEW a \in answers, AdvanceAnswered(a) PROVE IInv'
      BY <2>7, AnsweredKeeps
    <2>8. ASSUME NEW a \in answers, AnswerLost(a) PROVE IInv'
      <3>1. /\ answers' = answers \ {a}
            /\ step' = step /\ formState' = formState /\ completed' = completed /\ bTotal' = bTotal
            /\ isDirty' = isDirty /\ loadingGoals' = loadingGoals /\ isSubmitting' = isSubmitting
            /\ savesOfB' = savesOfB /\ saves' = saves /\ submission' = submission
            /\ stored' = stored /\ status' = status /\ undone' = undone /\ aside' = aside
        BY <2>8 DEF AnswerLost, tab, counted, server
      <3>2. TypesInv' /\ SentInv' /\ TotalInv'
        BY <2>1, <3>1 DEF TypesInv, SentInv, TotalInv, OnlyTotal
      <3>3. StoredInv'
        BY <2>1, <3>1 DEF StoredInv, IsStored
      <3>4. ShownInv'
        BY <2>1, <3>1 DEF ShownInv, Saved
      <3>5. QED
        BY <3>2, <3>3, <3>4 DEF IInv
    <2>9. ASSUME NEW v \in saves, ReadDraft(v) PROVE IInv'
      BY <2>9, ReadKeeps
    <2>10. ASSUME NEW v \in saves, UpdateDraft(v) PROVE IInv'
      BY <2>10, UpdateKeeps
    <2>11. ASSUME NEW v \in saves, Commit(v) PROVE IInv'
      BY <2>11, CommitKeeps
    <2>12. ASSUME NEW v \in saves, Fail(v) PROVE IInv'
      BY <2>12, FailKeeps
    <2>13. CASE SubmitForSigning \/ SubmissionAnswered
      <3>1. /\ step' = step /\ formState' = formState /\ completed' = completed /\ bTotal' = bTotal
            /\ isDirty' = isDirty /\ loadingGoals' = loadingGoals /\ isSubmitting' \in BOOLEAN
            /\ savesOfB' = savesOfB /\ saves' = saves /\ answers' = answers /\ stored' = stored
            /\ undone' = undone /\ aside' = aside /\ submission' \in BOOLEAN
        BY <2>13 DEF SubmitForSigning, SubmissionAnswered, counted, server
      <3>2. submission' \/ status' = "pending_ceo" => \A s \in Sections \ undone : IsStored(s)
        <4>1. CASE SubmitForSigning
          BY <2>1, <4>1 DEF SubmitForSigning, CanSubmit, StoredInv
        <4>2. CASE SubmissionAnswered
          BY <2>1, <4>2 DEF SubmissionAnswered, StoredInv
        <4>3. QED
          BY <2>13, <4>1, <4>2
      <3>3. TypesInv' /\ SentInv' /\ TotalInv'
        BY <2>1, <3>1 DEF TypesInv, SentInv, TotalInv, OnlyTotal
      <3>4. StoredInv'
        <4>1. \A s : IsStored(s)' <=> IsStored(s)
          BY <3>1 DEF IsStored
        <4>2. QED
          BY <2>1, <3>1, <3>2, <4>1 DEF StoredInv
      <3>5. ShownInv'
        BY <2>1, <3>1 DEF ShownInv, Saved
      <3>6. QED
        BY <3>3, <3>4, <3>5 DEF IInv
    <2>14. CASE Remount
      BY <2>14, RemountKeeps
    <2>15. CASE UNCHANGED vars
      BY <2>1, <2>15 DEF vars, tab, server, counted, IInv, TypesInv, SentInv, StoredInv, ShownInv,
                         TotalInv, OnlyTotal, IsStored, Saved
    <2>16. CASE Idle
      BY <2>15, <2>16 DEF Idle
    <2>17. QED
      BY <2>2, <2>3, <2>4, <2>5, <2>6, <2>7, <2>8, <2>9, <2>10, <2>11, <2>12, <2>13, <2>14,
         <2>15, <2>16 DEF Next
  <1>3. QED
    BY <1>1, <1>2, PTL DEF Spec

\* A step shown as completed is in the draft; and without the flag a section differs from
\* the draft only if it was left with the flag on or changed during a save; but for the
\* sections that an overlapping handler wrote back or whose COMMIT failed after its answer.
THEOREM Shown == Spec => []ShownIsInTheDraft
  <1>1. IInv => ShownIsInTheDraft
    BY DEF IInv, StoredInv, ShownInv, Saved, ShownIsInTheDraft
  <1>2. QED
    BY <1>1, Inductive, PTL

\* What goes to the CEO has every section in the draft, and the total of section B in the
\* work force profile if section B was saved once; with the same exceptions.
THEOREM Submitted == Spec => []SubmittedIsComplete
  <1>1. IInv => SubmittedIsComplete
    <2> SUFFICES ASSUME IInv, status = "pending_ceo" PROVE
          /\ \A s \in Sections \ undone : IsStored(s)
          /\ /\ savesOfB = 1 /\ \A v \in saves : v.phase # "told"
             /\ {"section-b", "section-c1"} \cap undone = {}
             => stored["section-c1"] = stored["section-b"]
      BY DEF SubmittedIsComplete
    <2>1. \A s \in Sections \ undone : IsStored(s)
      BY DEF IInv, StoredInv
    <2>2. ASSUME savesOfB = 1, \A v \in saves : v.phase # "told",
                 {"section-b", "section-c1"} \cap undone = {}
          PROVE  stored["section-c1"] = stored["section-b"]
      <3>1. stored["section-b"] # 0 /\ stored["section-c1"] # 0
        BY <2>1, <2>2, StepFacts DEF IsStored
      <3>2. PICK d \in Data : OnlyTotal(d)
        BY <2>2 DEF IInv, TotalInv
      <3>3. QED
        BY <3>1, <3>2 DEF OnlyTotal
    <2>3. QED
      BY <2>1, <2>2
  <1>2. QED
    BY <1>1, Inductive, PTL
=============================================================================
