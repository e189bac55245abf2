---------------------------- MODULE Eea2Sections ----------------------------
(***************************************************************************)
(* What the sections of the EEA2 do while they are shown (features/eea):    *)
(* the prefill of section A, the totals of section B, the matrices of the   *)
(* sections C to G with the events the first of them writes, and the flags  *)
(* of sections C1, F and H1, which keep the report from the CEO.            *)
(*                                                                         *)
(* What moves the wizard between them, saves them and completes them is     *)
(* Eea2Wizard; here a save may be answered whenever its section is shown.   *)
(* C2, which loads its matrix, is there too.                                *)
(***************************************************************************)
EXTENDS MatrixGrid

CONSTANTS
    Heads,              \* head counts the user may enter
    DisabledCounts,     \* and of the employees with disabilities
    DesignatedCols,     \* the columns of the designated groups
    Profiles,           \* what the prefill may answer
    MaxInputs,          \* bound on the values the user enters
    Undefined

VARIABLES
    step,       \* currentStep
    formState,  \* the sections
    sent,       \* the events handed to the autosave, oldest first
    inputs,     \* the values the user entered so far, counted
    context,    \* wizardContext: the flags and the employees with disabilities
    prefill,    \* usePrefill of section A
    focus,      \* the cell of section C1 that has the focus, and prevValueOnFocus
    today,      \* the day
    submitted,  \* history: what the figures said when the report was submitted
    typed,      \* history: the contact the user entered last
    loose,      \* history: cells of C1 that got a value without an event
    checked     \* history: the day of the last edit of H1

vars == <<step, formState, sent, inputs, context, prefill, focus, today,
          submitted, typed, loose, checked>>

WorkerTypes    == {"permanent", "nonPermanent", "contract"}
\* D1, E and G have a matrix that no flag looks at; D1 stands for them.
MatrixSections == {"c1", "d1", "f"}
StepIds        == {"a", "b", "h1", "review"} \cup MatrixSections

Cells == Editable \X Demo

----------------------------------------------------------------------------
(* What the figures say *)

GrandTotal(grid) == grid["grandTotal"]["total"]

CalculateSectionBTotals(rows) ==
    LET total == [w \in WorkerTypes |-> rows[w].male + rows[w].female]
    IN [by |-> total, grand |-> SumFunction(total)]

\* Designated employers, of 50 employees or more, are to reach three per cent.
DisabilityFlagActive(grid, disabled) ==
    GrandTotal(grid) >= 50 /\ 100 * disabled < 3 * GrandTotal(grid)

\* A group lost more than 15 points more than the groups that are not designated. (At 15
\* points the division of the code may round to more.)
DetectBarrierTrigger(grid, involuntary) ==
    \E r \in Editable :
        LET Share(cols) == 100 * SumFunctionOnSet(grid[r], cols)
        IN /\ involuntary[r] /\ grid[r]["total"] > 0
           /\ \E c \in DesignatedCols :
                 Share({c}) > Share(Demo \ DesignatedCols) + 15 * grid[r]["total"]

\* Pending since midnight three weeks ago is more than 21 days.
HasOverdueRequest(request, day) ==
    /\ request # Undefined /\ request.pending /\ request.count > 0
    /\ day - request.createdAt >= 21

(* validateOccupationalMatrix, which says the same of a matrix in its own words *)

ColumnTotalMismatch(grid) ==
    {<<r, "total">> : r \in {x \in Editable :
        SumFunctionOnSet(grid[x], Demo) # grid[x]["total"]}}
    \cup {<<"totalPermanent", c>> : c \in {x \in Cols :
        SumFunction([r \in Permanent |-> grid[r][x]]) # grid["totalPermanent"][x]}}
    \cup {<<"grandTotal", c>> : c \in {x \in Cols :
        grid["totalPermanent"][x] + grid[TemporaryRow][x] # grid["grandTotal"][x]}}

DisabilityBelow3Pct(grid, designated, disabled) ==
    designated /\ GrandTotal(grid) > 0 /\ 100 * disabled < 3 * GrandTotal(grid)

CellExceedsGrandTotal(grid) ==
    {rc \in Rows \X Demo : GrandTotal(grid) > 0 /\ grid[rc[1]][rc[2]] > GrandTotal(grid)}

----------------------------------------------------------------------------
(* The wizard *)

EmptySectionB == [w \in WorkerTypes |-> [male |-> 0, female |-> 0]]

BlankForm ==
    [a |-> [profile |-> "blank", contact |-> "blank"],
     b |-> [rows |-> EmptySectionB, totals |-> Undefined],
     matrix |-> [s \in MatrixSections |-> ZeroGrid],
     involuntary |-> [r \in Editable |-> FALSE],
     h1 |-> Undefined]

NoFlags == [disabled |-> 0, disability |-> FALSE, barrier |-> FALSE, overdue |-> FALSE]

\* The hook of a section A that has just been mounted, and of none.
Asked    == [awaited |-> TRUE, data |-> "blank"]
NotShown == [awaited |-> FALSE, data |-> "blank"]

Init ==
    /\ step = "a" /\ inputs = 0 /\ today = 0
    /\ formState = BlankForm /\ context = NoFlags
    /\ sent = << >> /\ focus = Undefined
    /\ prefill = Asked
    /\ submitted = Undefined /\ typed = "blank" /\ loose = {} /\ checked = 0

UserActs == inputs < MaxInputs /\ inputs' = inputs + 1

\* The effect of section C1 mirrors its flag; nothing latches it.
Mirrored(ctx, form) ==
    [ctx EXCEPT !.disability = DisabilityFlagActive(form.matrix["c1"], ctx.disabled)]

\* The effect of section A, first with the empty data the hook starts from.
ReadOnlyFields(form, profile) == [form EXCEPT !.a = [@ EXCEPT !.profile = profile]]

ShowStep(s) ==
    /\ step' = s
    /\ focus' = Undefined
    /\ formState' = IF s = "a" THEN ReadOnlyFields(formState, "blank") ELSE formState
    /\ prefill' = IF s = "a" THEN Asked ELSE NotShown
    /\ context' = IF s = "c1" THEN Mirrored(context, formState) ELSE context
    /\ UNCHANGED <<inputs, today, sent, submitted, typed, checked>>

\* Whatever the user clicks takes the focus from a cell first.
GoTo(s) ==
    /\ s # step /\ focus = Undefined
    /\ ShowStep(s) /\ UNCHANGED loose

\* A save that section C1 was left waiting for is answered: the section goes, with a cell
\* that has the focus.
SaveAnswered ==
    /\ step = "c1" /\ ShowStep("d1")
    /\ loose' = loose \cup (IF focus = Undefined THEN {} ELSE
           {rc \in {focus.cell} : formState.matrix["c1"][rc[1]][rc[2]] # focus.prevValue})

TimePasses ==
    /\ today = 0 /\ today' = 21
    /\ UNCHANGED <<step, formState, sent, inputs, context, prefill, focus,
                   submitted, typed, loose, checked>>

----------------------------------------------------------------------------
(* Sections A and B *)

PrefillArrives(profile) ==
    /\ prefill.awaited /\ prefill' = [awaited |-> FALSE, data |-> profile]
    /\ formState' = ReadOnlyFields(formState, profile)
    /\ UNCHANGED <<step, sent, inputs, context, focus, today, submitted, typed, loose, checked>>

PrefillFails ==
    /\ prefill.awaited /\ prefill' = NotShown
    /\ UNCHANGED <<step, formState, sent, inputs, context, focus, today,
                   submitted, typed, loose, checked>>

UpdateContact ==
    /\ step = "a" /\ UserActs
    /\ formState' = [formState EXCEPT !.a = [@ EXCEPT !.contact = "entered"]]
    /\ typed' = "entered"
    /\ UNCHANGED <<step, sent, context, prefill, focus, today, submitted, loose, checked>>

UpdateRow(w, field, n) ==
    /\ step = "b" /\ UserActs
    /\ LET rows == [formState.b.rows EXCEPT ![w] = [@ EXCEPT ![field] = n]]
       IN formState' = [formState EXCEPT
              !.b = [rows |-> rows, totals |-> CalculateSectionBTotals(rows)]]
    /\ UNCHANGED <<step, sent, context, prefill, focus, today, submitted, typed, loose, checked>>

----------------------------------------------------------------------------
(* The matrices *)

Figures == formState.matrix[step]

\* Once shown, the flag of the terminations stays.
EvaluateBarrier(ctx, grid, involuntary) ==
    IF DetectBarrierTrigger(grid, involuntary) THEN [ctx EXCEPT !.barrier = TRUE] ELSE ctx

ContextAfter_OfTheRendered(form) ==
    CASE step = "c1" -> Mirrored(context, form)
      [] step = "f" -> EvaluateBarrier(context, formState.matrix["f"], formState.involuntary)
      [] OTHER -> context

ContextAfter(form) ==
    CASE step = "c1" -> Mirrored(context, form)
      [] step = "f" -> EvaluateBarrier(context, form.matrix["f"], form.involuntary)
      [] OTHER -> context

\* onChange of the matrix on the screen, and what its section makes of it.
OnChange(figures) ==
    LET form == [formState EXCEPT !.matrix = [@ EXCEPT ![step] = ComputeGridTotals(figures)]]
    IN /\ formState' = form
       /\ context' = ContextAfter(form)

\* Only section C1 writes events, so only there the focus matters.
HasFocus(r, c) == step = "c1" => focus # Undefined /\ focus.cell = <<r, c>>

HandleCellChange(r, c, n) ==
    /\ step \in MatrixSections /\ HasFocus(r, c) /\ UserActs
    /\ OnChange([Figures EXCEPT ![r] = [@ EXCEPT ![c] = n]])
    /\ UNCHANGED <<step, sent, prefill, focus, today, submitted, typed, loose, checked>>

\* A block of one row and two columns. The cells beside the one with the focus get no event.
HandlePaste(r, c, n) ==
    /\ step \in MatrixSections /\ HasFocus(r, c) /\ UserActs
    /\ OnChange(PasteAt(Figures, r, c, <<<<n, n>>>>))
    /\ loose' = IF step # "c1" THEN loose
                ELSE loose \cup {rc \in Cells \ {<<r, c>>} :
                        PasteAt(Figures, r, c, <<<<n, n>>>>)[rc[1]][rc[2]] # Figures[rc[1]][rc[2]]}
    /\ UNCHANGED <<step, sent, prefill, focus, today, submitted, typed, checked>>

HandleCellFocus(r, c) ==
    /\ step = "c1" /\ focus = Undefined
    /\ focus' = [cell |-> <<r, c>>, prevValue |-> Figures[r][c]]
    /\ UNCHANGED <<step, formState, sent, inputs, context, prefill, today,
                   submitted, typed, loose, checked>>

Event(cell, prevValue, newValue) ==
    [cell |-> cell, previousValue |-> prevValue, newValue |-> newValue]

HandleCellBlur ==
    /\ focus # Undefined /\ focus' = Undefined
    /\ LET newValue == Figures[focus.cell[1]][focus.cell[2]]
       IN sent' = IF focus.prevValue = newValue THEN sent
                  ELSE Append(sent, Event(focus.cell, focus.prevValue, newValue))
    /\ UNCHANGED <<step, formState, inputs, context, prefill, today,
                   submitted, typed, loose, checked>>

----------------------------------------------------------------------------
(* The other fields of sections C1, F and H1 *)

CountDisabled(n) ==
    /\ step = "c1" /\ UserActs
    /\ context' = Mirrored([context EXCEPT !.disabled = n], formState)
    /\ UNCHANGED <<step, formState, sent, prefill, focus, today, submitted, typed, loose, checked>>

SetReason(r, involuntary) ==
    /\ step = "f" /\ UserActs
    /\ LET form == [formState EXCEPT !.involuntary = [@ EXCEPT ![r] = involuntary]]
       IN formState' = form /\ context' = ContextAfter(form)
    /\ UNCHANGED <<step, sent, prefill, focus, today, submitted, typed, loose, checked>>

\* The flag of the requests stays too, and is looked for when a request is edited only.
UpdateEntry(request) ==
    /\ step = "h1" /\ request # formState.h1 /\ UserActs
    /\ formState' = [formState EXCEPT !.h1 = request]
    /\ context' = IF HasOverdueRequest(request, today) THEN [context EXCEPT !.overdue = TRUE]
                  ELSE context
    /\ checked' = today
    /\ UNCHANGED <<step, sent, prefill, focus, today, submitted, typed, loose>>

\* What an edit of one field makes of the request; one that was never edited is of today.
Requests ==
    LET h1 == IF formState.h1 = Undefined THEN [count |-> 0, pending |-> FALSE, createdAt |-> today]
              ELSE formState.h1
    IN {[h1 EXCEPT !.count = 1], [h1 EXCEPT !.pending = TRUE], [h1 EXCEPT !.pending = FALSE],
        [h1 EXCEPT !.createdAt = today], [h1 EXCEPT !.createdAt = today - 21]}

----------------------------------------------------------------------------
(* The review *)

IsSubmitDisabled == context.disability \/ context.barrier \/ context.overdue

\* Every section is complete (Eea2Wizard); the section stays on the screen.
SubmitForSigning ==
    /\ step = "review" /\ ~IsSubmitDisabled /\ submitted = Undefined
    /\ submitted' =
          [disability |-> DisabilityBelow3Pct(formState.matrix["c1"],
                              GrandTotal(formState.matrix["c1"]) >= 50, context.disabled),
           barrier |-> DetectBarrierTrigger(formState.matrix["f"], formState.involuntary),
           overdue |-> HasOverdueRequest(formState.h1, checked)]
    /\ UNCHANGED <<step, formState, sent, inputs, context, prefill, focus, today,
                   typed, loose, checked>>

Next ==
    \/ \E s \in StepIds : GoTo(s)
    \/ SaveAnswered \/ TimePasses \/ SubmitForSigning
    \/ \E p \in Profiles : PrefillArrives(p)
    \/ PrefillFails \/ UpdateContact
    \/ \E w \in WorkerTypes, field \in {"male", "female"}, n \in Heads : UpdateRow(w, field, n)
    \/ \E r \in Editable, c \in Demo, n \in Heads : HandleCellChange(r, c, n) \/ HandlePaste(r, c, n)
    \/ \E r \in Editable, c \in Demo : HandleCellFocus(r, c)
    \/ HandleCellBlur
    \/ \E n \in DisabledCounts : CountDisabled(n)
    \/ \E r \in Editable, involuntary \in BOOLEAN : SetReason(r, involuntary)
    \/ \E request \in Requests : UpdateEntry(request)

Spec == Init /\ [][Next]_vars

----------------------------------------------------------------------------
(* Properties *)

\* Every matrix adds up after every edit and every paste over the edge, in the words of the
\* component and in those of its validation, and section B has its own totals.
FiguresAddUp ==
    /\ \A s \in MatrixSections : LET grid == formState.matrix[s]
                                 IN /\ AddsUp(grid)
                                    /\ ColumnTotalMismatch(grid) = {}
                                    /\ CellExceedsGrandTotal(grid) = {}
    /\ formState.b.totals # Undefined =>
          formState.b.totals.grand = SumFunction(
              [wf \in WorkerTypes \X {"male", "female"} |-> formState.b.rows[wf[1]][wf[2]]])

\* Section A shows the profile that was answered since it was mounted, and the contact the
\* user entered, whenever the answer came.
ProfileIsOfItsSources ==
    /\ step = "a" => formState.a.profile = prefill.data
    /\ formState.a.contact = typed

\* The flag of the disabilities is what the validation of the matrix says of it, on every
\* step; the terminations on the screen, or left, are flagged if they show a barrier; the
\* requests are flagged if one was overdue when they were last edited.
FlagsAreOfTheFigures ==
    /\ context.disability <=> DisabilityBelow3Pct(formState.matrix["c1"],
           GrandTotal(formState.matrix["c1"]) >= 50, context.disabled)
    /\ DetectBarrierTrigger(formState.matrix["f"], formState.involuntary) => context.barrier
    /\ HasOverdueRequest(formState.h1, checked) => context.overdue

\* No report goes to the CEO with figures that had to be flagged.
SubmittedUnflagged ==
    submitted # Undefined => submitted = [disability |-> FALSE, barrier |-> FALSE, overdue |-> FALSE]

\* The events of a cell, up to the n-th event, end with a value, or begin from nothing.
EventsOf(events, cell) == {i \in DOMAIN events : events[i].cell = cell}

LeadTo(events, cell, n, value) ==
    LET before == EventsOf(events, cell) \cap (1..n)
    IN \/ before = {} /\ value = 0
       \/ \E i \in before : events[i].newValue = value /\ \A j \in before : j <= i

\* The events of a cell of section C1 lead from nothing to what it holds, one taking up
\* where the one before ended, unless it was pasted into from beside it, or the answer of
\* a save took the section away with the cell in focus.
EditsAreHandedOver ==
    \A cell \in Cells \ loose :
        /\ \A i \in EventsOf(sent, cell) : LeadTo(sent, cell, i - 1, sent[i].previousValue)
        /\ (focus # Undefined /\ focus.cell = cell) \/
           LeadTo(sent, cell, Len(sent), formState.matrix["c1"][cell[1]][cell[2]])
=============================================================================
