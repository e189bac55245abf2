----------------------------- MODULE Eea12Form -----------------------------
(***************************************************************************)
(* The EEA12 form (features/eea12) on its page: the barriers of section A,  *)
(* the workforce profile of section B, prefilled from the two tables of a   *)
(* linked EEA2, and section C, which compares it with the population.       *)
(*                                                                         *)
(* The tables are fetched by the route, again when the address names        *)
(* another EEA2; the form stays mounted. Everything a section gives the     *)
(* form goes to the autosave queue (AutosaveQueue) in the same step, with   *)
(* the reporting period as it then is.                                      *)
(***************************************************************************)
EXTENDS Integers, Sequences, FiniteSetsExt, Functions

CONSTANTS
    Levels,         \* occupational levels
    Races,          \* race and gender of a citizen: one column of the tables each
    Designated,     \* the columns of the designated groups
    Tables,         \* what the API may answer: EEA2s with their two tables
    EapPct,         \* share of the population per column, in tenths of a per cent
    Counts,         \* head counts the user may enter
    MaxEntries,     \* bound on the barriers and on the actions of one
    MaxInputs,      \* bound on the values the user enters
    Undefined

VARIABLES
    step,       \* currentStep
    formState,  \* the sections and the linked tables
    sent,       \* lastSavedRef: what was last handed to the autosave
    inputs,     \* the values the user entered so far, counted
    period,     \* reportingPeriod: "none", "valid" or "invalid"
    linked,     \* linkedEEA2Id, and whether its answer is awaited
    prefilled,  \* prefillAppliedRef of the section on the screen
    typed,      \* history: the counts the user entered, by row
    basis       \* history: the tables the profile was made of

vars == <<step, formState, sent, inputs, period, linked, prefilled, typed, basis>>

StepIds == <<"a", "b", "c">>
Columns == Races \cup {"foreign"}
None    == << >>

\* What filter((_, j) => j !== i) leaves of a list.
Without(list, i) == SubSeq(list, 1, i - 1) \o SubSeq(list, i + 1, Len(list))

----------------------------------------------------------------------------
(* The profile and the comparison *)

Key(l, r, d) == [level |-> l, race |-> r, disability |-> d]
Keys == [level : Levels, race : Races, disability : BOOLEAN]

\* How many of the tables have the row, which is left out when nobody is in it.
CountIn(w, d, k) ==
    IF k.disability THEN d[k.level][k.race]
    ELSE Max({0, w[k.level][k.race] - d[k.level][k.race]})

DecomposeEEA2Workforce(w, d) ==
    [k \in {x \in Keys : CountIn(w, d, x) > 0} |-> CountIn(w, d, k)]

\* In tenths, halves rounded up as Math.round does.
SharePct(part, whole) ==
    IF whole = 0 THEN 0 ELSE (2000 * part + whole) \div (2 * whole)

EapDesignatedPct == SumFunctionOnSet(EapPct, Designated)

SumOf(rows, keys) == SumFunctionOnSet(rows, keys \cap DOMAIN rows)

ActualDesignatedPct(rows, l) ==
    SharePct(SumOf(rows, {k \in Keys : k.level = l /\ k.race \in Designated}),
             SumOf(rows, {k \in Keys : k.level = l}))

\* The sector targets are shown beside it and enter no figure.
BuildEapComparison(rows) ==
    [l \in Levels |->
        [actual |-> ActualDesignatedPct(rows, l), eap |-> EapDesignatedPct,
         gap |-> ActualDesignatedPct(rows, l) - EapDesignatedPct]]

Classify(delta) ==
    CASE delta >= 0 -> "met"
      [] delta < 0 /\ delta >= -50 -> "close"
      [] OTHER -> "gap"

TableTotal(w, l) == SumFunctionOnSet(w[l], Columns)

\* The levels the banner of section B names.
ComputeDivergingLevels(rows, w) ==
    IF w = Undefined THEN {}
    ELSE {l \in Levels : SumOf(rows, {k \in Keys : k.level = l}) # TableTotal(w, l)}

----------------------------------------------------------------------------
(* The form *)

BlankForm == [a |-> <<>>, b |-> None, c |-> Undefined,
              workforce |-> Undefined, disability |-> Undefined]

Init ==
    /\ step = "a" /\ inputs = 0 /\ period = "none" /\ prefilled = FALSE
    /\ formState = BlankForm
    /\ sent = [period |-> "none", form |-> BlankForm]
    /\ linked = [id |-> Undefined, awaited |-> FALSE]
    /\ typed = None /\ basis = Undefined

UserActs == inputs < MaxInputs /\ inputs' = inputs + 1

SetStepData_SendsTheOld(next) ==
    /\ formState' = next
    /\ sent' = [period |-> period, form |-> formState]

\* setStepData and triggerAutosave.
SetStepData(next) ==
    /\ formState' = next
    /\ sent' = [period |-> period, form |-> next]

PrefillApplies(s, form, applied) ==
    s = "b" /\ ~applied /\ form.workforce # Undefined /\ form.disability # Undefined

FillRows(form) ==
    /\ SetStepData([form EXCEPT !.b = DecomposeEEA2Workforce(form.workforce, form.disability)])
    /\ basis' = [w |-> form.workforce, d |-> form.disability]

\* The effect of section B, after anything that may have let it apply.
Prefill(s, form, applied) ==
    IF ~PrefillApplies(s, form, applied)
    THEN /\ formState' = form /\ prefilled' = applied
         /\ UNCHANGED <<sent, typed, basis>>
    ELSE /\ prefilled' = TRUE
         /\ IF DOMAIN form.b # {}
            THEN formState' = form /\ UNCHANGED <<sent, basis>>
            ELSE FillRows(form)
         /\ UNCHANGED typed

\* Section C hands over its comparison whenever it is shown; no row changes meanwhile.
ShowComparison ==
    /\ SetStepData([formState EXCEPT !.c = BuildEapComparison(formState.b)])
    /\ prefilled' = FALSE /\ UNCHANGED <<typed, basis>>

\* The numbered buttons ask nothing of the period; those that ask it lead nowhere else.
GoTo(s) ==
    /\ s # step /\ step' = s
    /\ IF s = "c" THEN ShowComparison ELSE Prefill(s, formState, FALSE)
    /\ UNCHANGED <<inputs, period, linked>>

\* No section is touched, so nothing is handed over.
ChangePeriod(p) ==
    /\ UserActs /\ p # period /\ period' = p
    /\ UNCHANGED <<step, formState, sent, linked, prefilled, typed, basis>>

----------------------------------------------------------------------------
(* The linked EEA2 *)

Link(id) ==
    /\ UserActs /\ id # linked.id
    /\ linked' = [id |-> id, awaited |-> TRUE]
    /\ UNCHANGED <<step, formState, sent, period, prefilled, typed, basis>>

\* A table that is missing or does not parse leaves the earlier one where it is.
Kept(new, old) == IF new = Undefined THEN old ELSE new

EEA2Arrives ==
    /\ linked.awaited /\ linked' = [linked EXCEPT !.awaited = FALSE]
    /\ LET answer == Tables[linked.id]
       IN Prefill(step, [formState EXCEPT !.workforce = Kept(answer.w, @),
                                          !.disability = Kept(answer.d, @)], prefilled)
    /\ UNCHANGED <<step, inputs, period>>

EEA2Fails ==
    /\ linked.awaited /\ linked' = [linked EXCEPT !.awaited = FALSE]
    /\ UNCHANGED <<step, formState, sent, inputs, period, prefilled, typed, basis>>

----------------------------------------------------------------------------
(* Sections A and B *)

BuildDefaultEntry   == [nil |-> FALSE, filled |-> FALSE, actions |-> <<"">>]
BuildNilReturnEntry == [nil |-> TRUE, filled |-> TRUE, actions |-> <<"monitor">>]

SetEntries(entries) ==
    /\ UserActs /\ step = "a"
    /\ SetStepData([formState EXCEPT !.a = entries])
    /\ UNCHANGED <<step, period, linked, prefilled, typed, basis>>

HandleAdd ==
    /\ Len(formState.a) < MaxEntries
    /\ SetEntries(Append(formState.a, BuildDefaultEntry))

HandleRemove(i) == Len(formState.a) > 1 /\ SetEntries(Without(formState.a, i))

HandleNilReturn == formState.a = <<>> /\ SetEntries(<<BuildNilReturnEntry>>)

\* AnalysisBlock: what the user may make of one barrier.
Patches(entry) ==
    LET actions == entry.actions
    IN {[entry EXCEPT !.filled = TRUE]}
       \cup {[entry EXCEPT !.actions[j] = "text"] : j \in DOMAIN actions}
       \cup IF Len(actions) < MaxEntries THEN {[entry EXCEPT !.actions = Append(@, "")]} ELSE {}
       \cup IF Len(actions) > 1
            THEN {[entry EXCEPT !.actions = Without(@, j)] : j \in DOMAIN actions} ELSE {}

HandleChange(i) ==
    \E entry \in Patches(formState.a[i]) :
        entry # formState.a[i] /\ SetEntries([formState.a EXCEPT ![i] = entry])

HandleRowChange(k, n) ==
    /\ UserActs /\ step = "b" /\ n # formState.b[k]
    /\ SetStepData([formState EXCEPT !.b = [@ EXCEPT ![k] = n]])
    /\ typed' = [x \in DOMAIN typed \cup {k} |-> IF x = k THEN n ELSE typed[x]]
    /\ UNCHANGED <<step, period, linked, prefilled, basis>>

Next ==
    \/ \E p \in {"valid", "invalid"} : ChangePeriod(p)
    \/ \E id \in DOMAIN Tables : Link(id)
    \/ EEA2Arrives \/ EEA2Fails
    \/ HandleAdd \/ HandleNilReturn
    \/ \E i \in DOMAIN formState.a : HandleRemove(i) \/ HandleChange(i)
    \/ \E k \in DOMAIN formState.b, n \in Counts : HandleRowChange(k, n)
    \/ \E s \in Range(StepIds) : GoTo(s)

Spec == Init /\ [][Next]_vars

----------------------------------------------------------------------------
(* Properties *)

\* Every row is what the user last entered or what the tables have, whatever tables come
\* after them. The profile is made of the two tables of one EEA2, unless the one that came
\* last lacked a table. Before the user changes it, nobody but foreign nationals is
\* missing from it, and nobody counted twice but where more have a disability than work.
ProfileIsOfItsSources ==
    basis # Undefined =>
        /\ \A k \in Keys : k \in DOMAIN formState.b
              <=> (IF k.disability THEN basis.d[k.level][k.race] > 0
                   ELSE basis.w[k.level][k.race] > basis.d[k.level][k.race])
        /\ \A k \in DOMAIN formState.b :
              formState.b[k] = IF k \in DOMAIN typed THEN typed[k]
                               ELSE IF k.disability THEN basis.d[k.level][k.race]
                               ELSE basis.w[k.level][k.race] - basis.d[k.level][k.race]
        /\ \E id \in DOMAIN Tables :
              /\ Tables[id].w \in {basis.w, Undefined} /\ Tables[id].d \in {basis.d, Undefined}
              /\ {Tables[id].w, Tables[id].d} # {Undefined}
        /\ typed = None =>
              ComputeDivergingLevels(formState.b, basis.w) =
                  {l \in Levels :
                      basis.w[l]["foreign"] # SumFunction(
                          [r \in Races |-> Max({0, basis.d[l][r] - basis.w[l][r]})])}

\* Whoever looks at the comparison sees, and has handed over, that of the rows as they
\* are: to half a tenth, and "met" exactly if the rounded share reaches the population's.
ComparisonIsOfTheRows ==
    step = "c" => \A l \in Levels :
        LET everyone == SumOf(formState.b, {k \in Keys : k.level = l})
            desig == SumOf(formState.b, {k \in Keys : k.level = l /\ k.race \in Designated})
            row == sent.form.c[l]
        IN /\ 2 * (row.actual * everyone - 1000 * desig) \in (-everyone)..everyone
           /\ Classify(row.gap) = "met" <=> row.actual >= EapDesignatedPct
           /\ everyone = 0 => row.actual = 0

\* What the autosave has of the sections is what they have. It has neither the tables nor
\* the period as they are, if those came after the last change of a section.
EditsAreHandedOver ==
    \A s \in {"a", "b", "c"} : sent.form[s] = formState[s]
=============================================================================
