----------------------------- MODULE Eea13Form -----------------------------
(***************************************************************************)
(* The EEA13 form (features/eea13) on its page: the five-year plan, with    *)
(* the setup of the plan, the workforce, the yearly plans and their goals,  *)
(* the removal of barriers and the procedures for disputes.                 *)
(*                                                                         *)
(* Every yearly plan on the screen has a goals editor with a state of its   *)
(* own: a draft, and the position of the goal it is to replace. React keeps *)
(* an editor as long as its plan has the same year at the same position.    *)
(***************************************************************************)
EXTENDS Integers, Sequences, FiniteSetsExt, Functions

CONSTANTS
    Sectors,        \* sector codes of GN 6124
    Kinds,          \* what a goal is about: an occupational level and a designated group
    EapOf,          \* the population's share of a kind
    SectorTarget,   \* the sector's target for a kind, or Undefined: by sector and kind
    Targets,        \* targets the user may enter
    Prefills,       \* what an EEA12 may bring: counts by row, foreign nationals, barriers
    Starts, Ends,   \* dates the user may enter, as days
    MaxRows,        \* bound on the goals ever saved and on the removal actions
    MaxInputs,      \* bound on the values the user enters
    Undefined

VARIABLES
    step,       \* currentStep
    formState,  \* what the sections gave the form, and the prefill source
    sent,       \* lastSavedRef: what was last handed to the autosave
    inputs,     \* the values the user entered so far, counted
    editors,    \* the goals editors on the screen, by position of their plan
    made        \* history: how many goals were saved as new

vars == <<step, formState, sent, inputs, editors, made>>

StepIds == <<"setup", "workforce", "plans", "barriers", "disputes", "declaration">>

MinYears == 3
MaxYears == 5
YearOptions == 2025..2030
FiveYears == 1826

\* What filter((_, j) => j !== i) leaves of a list.
Without(list, i) == SubSeq(list, 1, i - 1) \o SubSeq(list, i + 1, Len(list))

----------------------------------------------------------------------------
(* What the steps show when nothing of them is in the form yet *)

BlankSetup == [sector |-> "", start |-> Undefined, end |-> Undefined, consultation |-> {}]

Goals       == [kind : Kinds, target : Int, id : Nat, sector : Sectors]
YearlyPlans == [year : YearOptions, goals : Seq(Goals), reviewed : BOOLEAN]

BuildDefaultYear(y) == [year |-> y, goals |-> <<>>, reviewed |-> FALSE]

BlankForm(prefill) ==
    [setup |-> BlankSetup, workforce |-> Undefined, plans |-> Undefined,
     barriers |-> Undefined, disputes |-> {}, prefill |-> prefill]

SumOf(rows, keys) == SumFunctionOnSet(rows, keys)

CountDesignatedFromRows(rows) ==
    SumOf(rows, {k \in DOMAIN rows : k.race # "W" \/ k.gender = "F" \/ k.disability})

Workforce ==
    LET p == formState.prefill
    IN CASE formState.workforce # Undefined -> formState.workforce
         [] formState.workforce = Undefined /\ p # Undefined ->
              [total |-> SumOf(p.rows, DOMAIN p.rows) + p.foreign,
               designated |-> CountDesignatedFromRows(p.rows), foreign |-> p.foreign]
         [] OTHER -> [total |-> 0, designated |-> 0, foreign |-> 0]

Plans == IF formState.plans # Undefined THEN formState.plans
         ELSE [i \in 1..MinYears |-> BuildDefaultYear(2024 + i)]

Sector == formState.setup.sector

----------------------------------------------------------------------------
(* The form *)

UserActs == inputs < MaxInputs /\ inputs' = inputs + 1

\* setStepData and triggerAutosave.
SetStepData(next) == formState' = next /\ sent' = next

\* Only the first two steps are open without a sector.
CanNavigateToStep(s) == s \in {StepIds[1], StepIds[2]} \/ Sector # ""

----------------------------------------------------------------------------
(* Plan setup *)

\* An end date is proposed where there is none.
SuggestedEnd(setup) ==
    IF setup.start = Undefined \/ setup.end # Undefined THEN setup
    ELSE [setup EXCEPT !.end = setup.start + FiveYears]

UpdateSetup(setup) ==
    /\ UserActs /\ step = "setup" /\ setup # formState.setup
    /\ SetStepData([formState EXCEPT !.setup = setup])
    /\ UNCHANGED <<step, editors, made>>

ChangeSetup ==
    LET setup == formState.setup
    IN \/ \E s \in Sectors \cup {""} : UpdateSetup([setup EXCEPT !.sector = s])
       \/ \E d \in Starts :
             d # setup.start /\ UpdateSetup(SuggestedEnd([setup EXCEPT !.start = d, !.end = Undefined]))
       \/ \E d \in Ends \cup {Undefined} : UpdateSetup([setup EXCEPT !.end = d])
       \/ \E box \in {"consulted", "eecf", "date"} :
             UpdateSetup([setup EXCEPT !.consultation = SymDiff(@, {box})])

\* One field is stored with what the others show.
UpdateField(field, n) ==
    /\ UserActs /\ step = "workforce" /\ n # Workforce[field]
    /\ SetStepData([formState EXCEPT !.workforce = [Workforce EXCEPT ![field] = n]])
    /\ UNCHANGED <<step, editors, made>>

----------------------------------------------------------------------------
(* Goals *)

EffectiveMinimum(sector, kind) ==
    IF SectorTarget[sector][kind] = Undefined THEN EapOf[kind]
    ELSE Max({EapOf[kind], SectorTarget[sector][kind]})

NewDraft(kind) == [kind |-> kind, target |-> EapOf[kind], ready |-> FALSE, id |-> 0]

\* shifted: history, whether a goal before the edited one was removed meanwhile.
NewEditor == [draft |-> NewDraft(CHOOSE k \in Kinds : TRUE), editing |-> 0, shifted |-> FALSE]

EditorsOf(plans) == [i \in DOMAIN plans |-> NewEditor]

\* The editors that React keeps when the plans change.
EditorsKept(plans) ==
    [i \in DOMAIN plans |->
        IF i \in DOMAIN Plans /\ Plans[i].year = plans[i].year THEN editors[i] ELSE NewEditor]

SetDraft(i, draft) ==
    /\ UserActs /\ step = "plans" /\ draft # editors[i].draft
    /\ editors' = [editors EXCEPT ![i] = [@ EXCEPT !.draft = draft]]
    /\ UNCHANGED <<step, formState, sent, made>>

\* A target equal to the benchmark follows it.
TargetAfter(draft, kind) ==
    IF draft.target = EapOf[draft.kind] THEN EapOf[kind] ELSE draft.target

ChooseKind(i, kind) ==
    LET draft == editors[i].draft
    IN SetDraft(i, [kind |-> kind, target |-> TargetAfter(draft, kind),
                    ready |-> draft.ready, id |-> draft.id])

EnterTarget(i, t) == SetDraft(i, [editors[i].draft EXCEPT !.target = t])

\* Timeframe, date and measures, all there and none of them "ongoing".
Complete(i) == SetDraft(i, [editors[i].draft EXCEPT !.ready = TRUE])

CanSave_EapOnly(draft) == draft.ready /\ draft.target >= EapOf[draft.kind]

CanSave(draft) == draft.ready /\ draft.target >= EffectiveMinimum(Sector, draft.kind)

SetGoals(i, goals) ==
    /\ step = "plans"
    /\ SetStepData([formState EXCEPT !.plans = [Plans EXCEPT ![i] = [@ EXCEPT !.goals = goals]]])
    /\ UNCHANGED <<step, inputs>>

SaveGoal(i) ==
    LET goals == Plans[i].goals
        editor == editors[i]
        saved(id) == [kind |-> editor.draft.kind, target |-> editor.draft.target,
                      id |-> id, sector |-> Sector]
    IN /\ CanSave(editor.draft)
       /\ IF editor.editing = 0
          THEN /\ made < MaxRows /\ made' = made + 1
               /\ SetGoals(i, Append(goals, saved(made')))
          ELSE /\ UNCHANGED made
               /\ SetGoals(i, [j \in DOMAIN goals |->
                      IF j = editor.editing THEN saved(editor.draft.id) ELSE goals[j]])
       /\ editors' = [editors EXCEPT ![i] = NewEditor]

EditGoal(i, j) ==
    LET goal == Plans[i].goals[j]
    IN /\ step = "plans"
       /\ editors' = [editors EXCEPT ![i] =
             [draft |-> [kind |-> goal.kind, target |-> goal.target, ready |-> TRUE, id |-> goal.id],
              editing |-> j, shifted |-> FALSE]]
       /\ UNCHANGED <<step, formState, sent, inputs, made>>

\* The editor lets go of the goal it edits, but does not follow it to a new position.
RemoveGoal(i, j) ==
    /\ SetGoals(i, Without(Plans[i].goals, j))
    /\ LET editor == editors[i]
           moved  == editor.shifted \/ j < editor.editing
       IN editors' = [editors EXCEPT ![i] =
              IF j = editor.editing THEN NewEditor ELSE [editor EXCEPT !.shifted = moved]]
    /\ UNCHANGED made

----------------------------------------------------------------------------
(* Yearly plans *)

SetPlans(plans) ==
    /\ UserActs /\ step = "plans" /\ plans # Plans
    /\ SetStepData([formState EXCEPT !.plans = plans])
    /\ editors' = EditorsKept(plans)
    /\ UNCHANGED <<step, made>>

UsedYears == {Plans[i].year : i \in DOMAIN Plans}

ChangeYear(i, y) == y \notin UsedYears /\ SetPlans([Plans EXCEPT ![i] = [@ EXCEPT !.year = y]])

SetReviewDate(i) == SetPlans([Plans EXCEPT ![i] = [@ EXCEPT !.reviewed = TRUE]])

NextAvailableYear ==
    IF YearOptions \subseteq UsedYears THEN Min(YearOptions) ELSE Min(YearOptions \ UsedYears)

AddYear ==
    Len(Plans) < MaxYears /\ SetPlans(Append(Plans, BuildDefaultYear(NextAvailableYear)))

RemoveYear(i) == Len(Plans) > MinYears /\ SetPlans(Without(Plans, i))

----------------------------------------------------------------------------
(* Removal of barriers *)

\* A row carries, as a history, the category it was seeded from.
Plan(category, of) == [category |-> category, filled |-> FALSE, of |-> of]
BlankMeta == [fromSeed |-> FALSE, severity |-> Undefined]

SeverityOrder == [high |-> 0, medium |-> 1, low |-> 2]

\* The sort by severity is stable.
SortsBefore(barriers, i, j) ==
    LET Order(k) == SeverityOrder[barriers[k].severity]
    IN Order(i) < Order(j) \/ (Order(i) = Order(j) /\ i < j)

FirstOfCategory(barriers) ==
    {i \in DOMAIN barriers : \A j \in DOMAIN barriers :
        barriers[j].category = barriers[i].category => j = i \/ SortsBefore(barriers, i, j)}

\* The barriers, the severest first, and one of each category.
SeedEntries(barriers) ==
    LET first == FirstOfCategory(barriers)
        Place(i) == Cardinality({j \in first : j = i \/ SortsBefore(barriers, j, i)})
    IN [n \in 1..Cardinality(first) |-> barriers[CHOOSE i \in first : Place(i) = n]]

SeedRemovalPlan(seeds) == [n \in DOMAIN seeds |-> Plan(seeds[n].category, seeds[n].category)]
SeedMeta(seeds) == [n \in DOMAIN seeds |-> [fromSeed |-> TRUE, severity |-> seeds[n].severity]]

\* Once: when the step is first shown.
Seeded ==
    LET p == formState.prefill
        seeds == IF p = Undefined THEN <<>> ELSE SeedEntries(p.barriers)
    IN CASE formState.barriers # Undefined -> formState.barriers
         [] formState.barriers = Undefined /\ seeds = <<>> ->
              [entries |-> <<Plan("other", Undefined)>>, meta |-> <<BlankMeta>>]
         [] OTHER -> [entries |-> SeedRemovalPlan(seeds), meta |-> SeedMeta(seeds)]

SetBarriers(entries, meta) ==
    /\ UserActs /\ step = "barriers"
    /\ SetStepData([formState EXCEPT !.barriers = [entries |-> entries, meta |-> meta]])
    /\ UNCHANGED <<step, editors, made>>

\* RemovalPlanBlock: what the user may make of one action.
Patches(plan) == {[plan EXCEPT !.filled = TRUE], [plan EXCEPT !.category = "other"]}

ChangeBarriers ==
    LET b == formState.barriers
    IN \/ \E i \in DOMAIN b.entries :
             \/ \E plan \in Patches(b.entries[i]) :
                   plan # b.entries[i] /\ SetBarriers([b.entries EXCEPT ![i] = plan], b.meta)
             \/ Len(b.entries) > 1 /\ SetBarriers(Without(b.entries, i), Without(b.meta, i))
       \/ /\ Len(b.entries) < MaxRows
          /\ SetBarriers(Append(b.entries, Plan("other", Undefined)), Append(b.meta, BlankMeta))

\* Four texts.
WriteDispute(field) ==
    /\ UserActs /\ step = "disputes" /\ field \notin formState.disputes
    /\ SetStepData([formState EXCEPT !.disputes = @ \cup {field}])
    /\ UNCHANGED <<step, editors, made>>

----------------------------------------------------------------------------

\* A step is shown, by its button or by Back and Next, which ask nothing else; its own
\* button asks for complete figures as well and leads nowhere else.
GoTo(s) ==
    /\ s # step /\ CanNavigateToStep(s) /\ step' = s
    /\ LET next == CASE s = "setup" -> [formState EXCEPT !.setup = SuggestedEnd(@)]
                     [] s = "barriers" -> [formState EXCEPT !.barriers = Seeded]
                     [] OTHER -> formState
       IN IF next = formState THEN UNCHANGED <<formState, sent>> ELSE SetStepData(next)
    /\ editors' = IF s = "plans" THEN EditorsOf(Plans) ELSE <<>>
    /\ UNCHANGED <<inputs, made>>

Init ==
    /\ step = "setup" /\ inputs = 0 /\ editors = <<>> /\ made = 0
    /\ \E prefill \in Prefills : formState = BlankForm(prefill) /\ sent = BlankForm(prefill)

Next ==
    \/ step = "setup" /\ ChangeSetup
    \/ step = "barriers" /\ ChangeBarriers
    \/ \E field \in {"total", "designated", "foreign"}, n \in {0, 9} : UpdateField(field, n)
    \/ \E i \in DOMAIN editors :
          \/ \E k \in Kinds : ChooseKind(i, k)
          \/ \E t \in Targets : EnterTarget(i, t)
          \/ Complete(i) \/ SaveGoal(i)
          \/ \E j \in DOMAIN Plans[i].goals : EditGoal(i, j) \/ RemoveGoal(i, j)
          \/ \E y \in YearOptions : ChangeYear(i, y)
          \/ SetReviewDate(i) \/ RemoveYear(i)
    \/ AddYear
    \/ \E field \in {"internal", "ccma", "court", "monitoring"} : WriteDispute(field)
    \/ \E s \in Range(StepIds) : GoTo(s)

Spec == Init /\ [][Next]_vars

----------------------------------------------------------------------------
(* Properties *)

\* An editor replaces the goal it was opened for, wherever plans were added, removed or
\* moved to other years meanwhile; it hits another one, or none, only if a goal before it
\* was removed during the edit.
UpdateHitsItsGoal ==
    \A i \in DOMAIN editors :
        LET e == editors[i]
        IN e.editing # 0 /\ ~e.shifted =>
              e.editing \in DOMAIN Plans[i].goals /\ Plans[i].goals[e.editing].id = e.draft.id

\* The plan has three to five different years, and whoever is past the second step has a
\* sector. A goal below the minimum of the plan's sector was saved for another sector.
PlansStaySound ==
    /\ Len(Plans) \in MinYears..MaxYears
    /\ Cardinality(UsedYears) = Len(Plans) /\ UsedYears \subseteq YearOptions
    /\ step \notin {"setup", "workforce"} => Sector # ""
    /\ \A i \in DOMAIN Plans : \A goal \in Range(Plans[i].goals) :
          /\ goal.target >= EapOf[goal.kind]
          /\ Sector = goal.sector => goal.target >= EffectiveMinimum(Sector, goal.kind)

\* Every removal action shows the severity of the barriers it was seeded from, the highest
\* of that category, and those the user added show none; no category is seeded twice.
SeverityFollowsItsRow ==
    LET b == formState.barriers  p == formState.prefill
        Severities(category) == {x.severity : x \in {y \in Range(p.barriers) : y.category = category}}
        Highest(set) == IF "high" \in set THEN "high" ELSE IF "medium" \in set THEN "medium" ELSE "low"
    IN b # Undefined =>
          /\ DOMAIN b.meta = DOMAIN b.entries
          /\ \A i \in DOMAIN b.entries :
                /\ b.meta[i] = IF b.entries[i].of = Undefined THEN BlankMeta
                               ELSE [fromSeed |-> TRUE, severity |-> Highest(Severities(b.entries[i].of))]
                /\ \A j \in DOMAIN b.entries :
                      b.entries[i].of = b.entries[j].of => i = j \/ b.entries[i].of = Undefined

\* The autosave has the form as it is, also what an effect filled in.
EditsAreHandedOver == sent = formState
=============================================================================
