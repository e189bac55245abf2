------------------------------ MODULE Eea4Form ------------------------------
(***************************************************************************)
(* The EEA4 form (features/eea4) on its page: the gate that links it to an  *)
(* EEA2, sections C, D1, D2 and E, and the declaration of the CEO.          *)
(*                                                                         *)
(* A section works on a copy of its own, which it hands to the form when a  *)
(* field loses the focus; the form keeps it twice, under the step and in    *)
(* the report, and hands the report to the autosave queue (AutosaveQueue).  *)
(* The list of EEA2 forms arrives when the page is shown and whenever its   *)
(* parameters change; the form stays mounted meanwhile, and an answer may   *)
(* bring other figures of the same EEA2.                                    *)
(***************************************************************************)
EXTENDS MatrixGrid

CONSTANTS
    Lists,      \* what the API may list: EEA2s with their profile and Table 1.1
    Amounts,    \* amounts the user may enter
    MaxInputs,  \* bound on the values the user enters
    Undefined, Absent

VARIABLES
    step,       \* currentStep
    formState,  \* what the sections gave the form, and the linked Table 1.1
    sent,       \* lastSavedRef: the report last handed to the autosave
    inputs,     \* the values the user entered so far, counted
    available,  \* availableEEA2Forms
    report,     \* form.report
    local,      \* the state of the section on the screen
    touched     \* history: have the figures, or the EEA2's, changed since the signature?

vars == <<step, formState, sent, inputs, available, report, local, touched>>

MatrixSteps == {"c", "d1", "d2"}
StepIds     == MatrixSteps \cup {"e", "declaration"}

----------------------------------------------------------------------------
(* The figures of the sections *)

SectionC(headcount, remuneration) == [headcount |-> headcount, remuneration |-> remuneration]
SectionD(fixed, variable) == [fixed |-> fixed, variable |-> variable]

ZeroE == [median |-> 0, topLow |-> 0, topHigh |-> 0, bottomLow |-> 0, bottomHigh |-> 0]

ComputeSectionCTotals(m) ==
    SectionC(ComputeGridTotals(m.headcount), ComputeGridTotals(m.remuneration))

\* An employee who is not there is paid nothing.
NormaliseAgainstHeadcount(m) ==
    SectionC(m.headcount, [r \in Rows |-> [c \in Cols |->
        IF m.headcount[r][c] = 0 THEN 0 ELSE m.remuneration[r][c]]])

PrefillSectionC_Once(source, existing) ==
    IF existing # Undefined THEN existing
    ELSE NormaliseAgainstHeadcount(SectionC(source, ZeroGrid))

PrefillSectionC(source, existing) ==
    NormaliseAgainstHeadcount(SectionC(source,
        IF existing = Undefined THEN ZeroGrid ELSE existing.remuneration))

SingleEmployeeRows(source) == {r \in Rows : source[r]["total"] = 1}

\* Only D2 leaves out the levels with one employee.
LockedRows(s, source) == IF s = "d2" THEN SingleEmployeeRows(source) ELSE {}

NormaliseBreakdown(m, locked) ==
    LET Unlocked(g) == [r \in Rows |-> IF r \in locked THEN ZeroGrid[r] ELSE g[r]]
    IN SectionD(Unlocked(m.fixed), Unlocked(m.variable))

ComputeBreakdownTotals(m) ==
    SectionD(ComputeGridTotals(m.fixed), ComputeGridTotals(m.variable))

Total(m, r, c) == m.fixed[r][c] + m.variable[r][c]

\* The linked Table 1.1, as the sections read it.
Source(fs) == IF fs["eea2"] = Undefined THEN ZeroGrid ELSE fs["eea2"]

\* What a matrix section makes of its figures when it is shown, or the source changes.
Recomputed(s, source, figures) ==
    IF s = "c" THEN ComputeSectionCTotals(PrefillSectionC(source, figures))
    ELSE ComputeBreakdownTotals(NormaliseBreakdown(
             IF figures = Undefined THEN SectionD(ZeroGrid, ZeroGrid) ELSE figures,
             LockedRows(s, source)))

\* The state a section is mounted with.
Mounted(s, fs) ==
    CASE s \in MatrixSteps -> Recomputed(s, Source(fs), fs[s])
      [] s = "e" -> IF fs["e"] = Undefined THEN ZeroE ELSE fs["e"]
      [] s = "declaration" -> "empty"

----------------------------------------------------------------------------
(* The form *)

BlankReport ==
    [linked |-> Undefined, c |-> Undefined, d1 |-> Undefined, d2 |-> Undefined,
     e |-> ZeroE, declared |-> FALSE, status |-> "draft"]

Init ==
    /\ step = "c" /\ inputs = 0 /\ touched = FALSE
    /\ formState = [s \in MatrixSteps \cup {"e", "eea2"} |-> Undefined]
    /\ available = <<>>
    /\ report = BlankReport /\ sent = BlankReport
    /\ local = Undefined

UserActs == inputs < MaxInputs /\ inputs' = inputs + 1

IsLinked == report.linked # Undefined

Signed == report.status = "pending_ceo"

\* A report equal to the last one is not handed over again.
TriggerAutosave(next) == sent' = next

\* setStepData, with the effects before it.
SetStepData(s, fs, rep, data) ==
    /\ formState' = [fs EXCEPT ![s] = data]
    /\ report' = [rep EXCEPT ![s] = data]
    /\ TriggerAutosave([rep EXCEPT ![s] = data])
    /\ touched' = (touched \/ (Signed /\ (report[s] # data \/ fs # formState)))

\* A section is mounted; a matrix goes to the form at once.
ShowStep(s, fs, rep) ==
    /\ step' = s
    /\ LET mounted == Mounted(s, fs)
       IN /\ local' = mounted
          /\ IF s \in MatrixSteps THEN SetStepData(s, fs, rep, mounted)
             ELSE formState' = fs /\ report' = rep /\ UNCHANGED <<sent, touched>>

\* What the picker offers; it is gone once one is picked.
EEA2Picker == IF IsLinked THEN {} ELSE DOMAIN available

LinkEEA2 ==
    /\ \E id \in EEA2Picker :
          ShowStep(step,
                   IF available[id] = Undefined THEN formState
                   ELSE [formState EXCEPT !["eea2"] = available[id]],
                   [report EXCEPT !.linked = id])
    /\ UNCHANGED <<available, inputs>>

\* An EEA2 without an employer profile cannot be linked.
Descriptors(items) ==
    [id \in {i \in DOMAIN items : items[i].profile} |-> items[id].workforce]

\* What the list has of the linked EEA2 goes to the form.
Synced(list) ==
    LET matrix == IF report.linked \in DOMAIN list THEN list[report.linked] ELSE Undefined
    IN IF matrix = Undefined THEN formState ELSE [formState EXCEPT !["eea2"] = matrix]

\* From there it goes to a matrix section on the screen, if it is another one.
ListArrives(list) ==
    /\ list # available /\ available' = list
    /\ LET fs == Synced(list)
           changed == Source(fs) # Source(formState)
           figures == Recomputed(step, Source(fs), local)
       IN IF IsLinked /\ step \in MatrixSteps /\ changed
          THEN local' = figures /\ SetStepData(step, fs, report, figures)
          ELSE /\ formState' = fs
               /\ touched' = (touched \/ (Signed /\ list # available))
               /\ UNCHANGED <<local, report, sent>>
    /\ UNCHANGED <<step, inputs>>

----------------------------------------------------------------------------
(* The sections *)

Edits(next) ==
    /\ UserActs /\ local' = next
    /\ UNCHANGED <<step, formState, sent, available, report, touched>>

\* A cell without employees has no field.
HasField(r, c) == IF step = "c" THEN local.headcount[r][c] # 0
                  ELSE r \notin LockedRows(step, Source(formState))

AfterC(remuneration) ==
    ComputeSectionCTotals(NormaliseAgainstHeadcount(SectionC(local.headcount, remuneration)))

ChangeC(r, c, v) ==
    /\ step = "c" /\ HasField(r, c)
    /\ Edits(AfterC([local.remuneration EXCEPT ![r][c] = v]))

AfterD(m) == ComputeBreakdownTotals(NormaliseBreakdown(m, LockedRows(step, Source(formState))))

ChangeD(r, c, field, v) ==
    /\ step \in {"d1", "d2"} /\ HasField(r, c)
    /\ Edits(AfterD([local EXCEPT ![field][r][c] = v]))

Paste(r, c, v) ==
    LET block == <<<<v, v>>, <<v, v>>>>
    IN /\ step \in MatrixSteps /\ HasField(r, c)
       /\ Edits(IF step = "c" THEN AfterC(PasteAt(local.remuneration, r, c, block))
                ELSE AfterD(SectionD(PasteAt(local.fixed, r, c, block),
                                     PasteAt(local.variable, r, c, block))))

ValidateSectionE(s) ==
    /\ s.topLow <= s.topHigh /\ s.bottomLow <= s.bottomHigh
    /\ s.bottomHigh <= s.topLow
    /\ s.bottomLow <= s.median /\ s.median <= s.topHigh

\* What the bands ask is shown beside the fields and holds nobody up.
ChangeE(field, v) == step = "e" /\ Edits([local EXCEPT ![field] = v])

FillDeclaration ==
    /\ step = "declaration" /\ local = "empty" /\ local' = "complete"
    /\ UNCHANGED <<step, formState, sent, inputs, available, report, touched>>

\* The field loses the focus, as it does before anything else is clicked.
Blur ==
    /\ step # "declaration" /\ IsLinked /\ local # formState[step]
    /\ SetStepData(step, formState, report, local)
    /\ UNCHANGED <<step, inputs, available, local>>

Flushed ==
    step # "declaration" => (local = formState[step] \/ (step = "e" /\ local = ZeroE))

\* The numbered buttons, Back and Next.
GoTo(s) ==
    /\ IsLinked /\ s # step /\ Flushed
    /\ ShowStep(s, formState, report)
    /\ UNCHANGED <<available, inputs>>

----------------------------------------------------------------------------
(* The declaration *)

Gate == INSTANCE BundleGate WITH Cells <- Rows \X Cols, Totals <- Rows \X {"total"}

ByCell(grid) == [rc \in Rows \X Cols |-> grid[rc[1]][rc[2]]]

Sums(section) == [rc \in Rows \X Cols |-> Total(section, rc[1], rc[2])]

\* Nothing is read of a section that is not there.
CellsOf(section, values) == IF section = Undefined THEN Gate!Blank.headcount ELSE values

\* The forms as the rules see them; of the EEA2, what the list has of it.
LinkedEEA2Form ==
    IF report.linked \notin DOMAIN available THEN Absent
    ELSE [Gate!Blank EXCEPT !.id = report.linked,
            !.workforce = CellsOf(available[report.linked], ByCell(available[report.linked]))]

EEA4View ==
    [Gate!Blank EXCEPT !.id = "eea4", !.linkedEEA2Id = report.linked, !.status = report.status,
       !.headcount = CellsOf(report.c, ByCell(report.c.headcount)),
       !.highest = CellsOf(report.d1, Sums(report.d1)),
       !.lowest = CellsOf(report.d2, Sums(report.d2)),
       !.signature = report.declared]

Blocked_NotHeadcount ==
    Gate!Errors(Gate!EvaluateRules(Gate!DeclarationRules, LinkedEEA2Form, EEA4View))
        \subseteq {"headcount"}

Blocked ==
    Gate!Errors(Gate!EvaluateRules(Gate!DeclarationRules, LinkedEEA2Form, EEA4View)) # {}

Sign ==
    /\ step = "declaration" /\ local = "complete"
    /\ ~Blocked /\ ~Signed
    /\ report' = [report EXCEPT !.declared = TRUE, !.status = "pending_ceo"]
    /\ TriggerAutosave([report EXCEPT !.declared = TRUE, !.status = "pending_ceo"])
    /\ UNCHANGED <<step, formState, inputs, available, local, touched>>

Next ==
    \/ \E items \in Lists : ListArrives(Descriptors(items))
    \/ LinkEEA2
    \/ /\ IsLinked
       /\ \/ \E r \in Editable, c \in Demo, v \in Amounts :
                \/ ChangeC(r, c, v) \/ Paste(r, c, v)
                \/ \E field \in {"fixed", "variable"} : ChangeD(r, c, field, v)
          \/ \E field \in DOMAIN ZeroE, v \in Amounts : ChangeE(field, v)
          \/ FillDeclaration \/ Blur \/ Sign
          \/ \E s \in StepIds : GoTo(s)

Spec == Init /\ [][Next]_vars

----------------------------------------------------------------------------
(* Properties *)

\* The report adds up in every cell, also after pastes over the edge and new figures of
\* the EEA2; nobody who is not there is paid. While section C is shown its head counts
\* are those of the linked Table 1.1, and while D2 is shown it has nothing of the levels
\* with one employee.
FiguresAddUp ==
    /\ report.c # Undefined =>
          /\ AddsUp(report.c.headcount) /\ AddsUp(report.c.remuneration)
          /\ \A r \in Rows, c \in Cols : report.c.headcount[r][c] = 0 => report.c.remuneration[r][c] = 0
    /\ \A s \in {"d1", "d2"} : report[s] # Undefined =>
          AddsUp(report[s].fixed) /\ AddsUp(report[s].variable)
    /\ IsLinked /\ step = "c" => \A r \in Editable, c \in Demo :
          report.c.headcount[r][c] = Source(formState)[r][c]
    /\ IsLinked /\ step = "d2" =>
          \A r \in SingleEmployeeRows(Source(formState)) \cap Editable, c \in Cols :
             Total(report.d2, r, c) = 0

\* Whoever signed saw a linked EEA2 with the same head counts and no level whose lowest
\* pay exceeds its highest: true until something changes after the signature, which
\* nothing prevents.
SignedOverSoundFigures ==
    Signed /\ ~touched =>
        /\ report.linked \in DOMAIN available /\ available[report.linked] # Undefined
        /\ Undefined \notin {report.c, report.d1, report.d2}
        /\ \A r \in Rows, c \in Cols :
              /\ report.c.headcount[r][c] = available[report.linked][r][c]
              /\ Total(report.d2, r, c) <= Total(report.d1, r, c)

\* The autosave has the report as it is, and a section that is shown again shows what the
\* report has.
ReportIsHandedOver ==
    /\ sent = report
    /\ \A s \in MatrixSteps \cup {"e"} : formState[s] # Undefined => formState[s] = report[s]
=============================================================================
