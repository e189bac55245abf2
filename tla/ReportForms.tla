---------------------------- MODULE ReportForms ----------------------------
(***************************************************************************)
(* The pages of the browser (router.tsx): the forms of the four reports and *)
(* of the employee's declaration, the signing page, and the dashboards. A   *)
(* tab shows one of them; leaving it unmounts the page, and a page that is  *)
(* shown again starts from its Init, so every stay on one is a behaviour    *)
(* of its own.                                                             *)
(*                                                                         *)
(* The shells of the forms are alike: the step on the screen, what the      *)
(* sections gave the form, and what was handed to the autosave. The         *)
(* declaration shares them: its sections, and the status of its post.       *)
(***************************************************************************)
EXTENDS MatrixGrid

CONSTANTS
    Heads, DisabledCounts, DesignatedCols, Profiles, PermanentRows2, MaxInputs2,  \* Eea2Sections
    Lists, Amounts, MaxInputs4, Undefined, Absent,                   \* Eea4Form
    Levels, Races, Designated, Tables, EapPct, Counts, MaxEntries, MaxInputs12, \* Eea12Form
    Sectors, Kinds, EapOf, SectorTarget, Targets, Prefills, Starts, Ends, MaxRows,
    MaxInputs13,                                                     \* Eea13Form
    OtherBodies, MaxInputs1, MaxPosts,                               \* Eea1Form
    MaxEntered, MaxForms, MaxSends,                                  \* SigningCeremony
    Tenants, Eea4Ids, MaxEffects, AnsweredLists, SectionsC, RealLevels, AssessedLevels,
    PayRaces, LevelTargets, DemoCompany                              \* ComplianceData

\* What is not there is neither an answer nor a message.
ASSUME UndefinedAssumption == Undefined \notin {"signed", "FormIsImmutable"}

VARIABLES
    page,                                           \* the page on the screen
    step, formState, sent, inputs,                  \* of every form
    context, prefill, focus, today, submitted, contact, loose, checked,  \* of Eea2Sections
    available, report, local, touched,              \* of Eea4Form
    period, linked, prefilled, typed, basis,        \* of Eea12Form
    editors, made,                                  \* of Eea13Form
    pii, canvas, posts, stored,                     \* of Eea1Form
    entered, errors, request, decided, answer, form, locked, others, sends, late, writing,
    signatures, raced, unheard,                     \* of SigningCeremony
    options, effects, result, shownRun              \* of ComplianceData

shell    == <<step, formState, sent, inputs>>
only2    == <<context, prefill, focus, today, submitted, contact, loose, checked>>
only4    == <<available, report, local, touched>>
only12   == <<period, linked, prefilled, typed, basis>>
only13   == <<editors, made>>
only1    == <<pii, canvas, posts, stored>>
onlySign == <<entered, errors, request, decided, answer, form, locked, others, sends, late,
              writing, signatures, raced, unheard>>
onlyData == <<options, effects, result, shownRun>>
vars     == <<page, shell, only2, only4, only12, only13, only1, onlySign, onlyData>>

Form1  == INSTANCE Eea1Form WITH MaxInputs <- MaxInputs1, Withheld <- Absent,
              shown <- formState, handed <- sent, status <- step
Form2  == INSTANCE Eea2Sections WITH PermanentRows <- PermanentRows2,
              MaxInputs <- MaxInputs2, typed <- contact
Form4  == INSTANCE Eea4Form WITH MaxInputs <- MaxInputs4
Form12 == INSTANCE Eea12Form WITH MaxInputs <- MaxInputs12
Form13 == INSTANCE Eea13Form WITH MaxInputs <- MaxInputs13
Sign   == INSTANCE SigningCeremony WITH MaxInputs <- MaxEntered, None <- Undefined
Data   == INSTANCE ComplianceData WITH Lists <- AnsweredLists, Targets <- LevelTargets,
              Waiting <- Absent, basis <- shownRun

\* The temporary and the computed rows are no levels of the EEA2 either.
ASSUME Rows2Assumption ==
    /\ PermanentRows2 \in Seq(STRING) /\ TemporaryRow \notin Form2!Permanent
    /\ Form2!Editable \cap {"totalPermanent", "grandTotal"} = {}

\* What is entered is a count or an amount, never below 0, and a Table 1.1 that is listed
\* has a figure in every cell (schemas/matrix.ts).
ASSUME FiguresAssumption ==
    /\ Heads \cup DisabledCounts \cup Amounts \cup Counts \subseteq Nat
    /\ \A items \in Lists : \A id \in DOMAIN items : items[id].workforce \in {Undefined} \cup Form4!Grid

\* The same of the tables an EEA12 is prefilled from; foreign nationals are no race.
ASSUME TablesAssumption ==
    /\ IsFiniteSet(Races) /\ "foreign" \notin Races
    /\ Designated \subseteq Races /\ EapPct \in [Races -> Nat]
    /\ \A id \in DOMAIN Tables :
          {Tables[id].w, Tables[id].d} \subseteq {Undefined} \cup [Levels -> [Form12!Columns -> Nat]]

\* And of the answers to the dashboards. A Table 1.1 is one of section C1, whose row of the
\* totals has the sums of the levels; section C gives each cell its employees and their pay.
HeadsAnswered == Data!PayGroups \cup ({"foreign"} \X Data!Genders)
TableAnswered == [RealLevels \cup {Data!Total} -> [HeadsAnswered -> Nat]]
ASSUME AnswersAssumption ==
    /\ IsFiniteSet(PayRaces) /\ "white" \in PayRaces /\ "foreign" \notin PayRaces
    /\ IsFiniteSet(RealLevels) /\ Data!Total \notin RealLevels
    /\ \A t \in Tenants : \A list \in AnsweredLists[t] :
          /\ list \in Seq(Range(list))
          /\ \A item \in Range(list) :
                /\ {item.workforce, item.disability} \subseteq {Undefined} \cup TableAnswered
                /\ item.workforce # Undefined => \A c \in HeadsAnswered :
                      item.workforce[Data!Total][c] =
                          SumFunction([l \in RealLevels |-> item.workforce[l][c]])
    /\ \A id \in Eea4Ids :
          SectionsC[id] \subseteq [RealLevels -> [Data!PayGroups -> [headcount : Nat, total : Nat]]]

\* The demonstration company has its figures too, and some level has targets.
ASSUME CompanyAssumption ==
    /\ AssessedLevels \subseteq RealLevels /\ AssessedLevels # {}
    /\ DemoCompany \in
          [workforce : [RealLevels -> [citizens : [Data!PayGroups -> Nat],
                                       foreign : [Data!Genders -> Nat], disabled : Nat]],
           remuneration : [RealLevels -> [Data!PayGroups -> [headcount : Nat, avg : Nat]]],
           penalties : Nat]

\* A key that a client leaves out of its body is a field that is not there.
ASSUME BodiesAssumption == \A body \in OtherBodies : DOMAIN body = Form1!PostFields

\* What is not there is no plan either, and every target is a figure.
ASSUME PlansAssumption ==
    /\ Undefined \notin Seq(Form13!YearlyPlans)
    /\ Kinds # {} /\ EapOf \in [Kinds -> Int] /\ Targets \subseteq Int
    /\ SectorTarget \in [Sectors -> [Kinds -> Int \cup {Undefined}]]

\* A barrier has a category and one of three severities.
ASSUME PrefillsAssumption ==
    /\ Undefined \notin STRING
    /\ \A p \in Prefills \ {Undefined} :
          p.barriers \in Seq([category : STRING, severity : DOMAIN Form13!SeverityOrder])

\* A page that is not on the screen has no state.
NoShell == step = Undefined /\ formState = Undefined /\ sent = Undefined
No2 ==
    /\ context = Undefined /\ prefill = Undefined /\ focus = Undefined /\ today = Undefined
    /\ submitted = Undefined /\ contact = Undefined /\ loose = Undefined /\ checked = Undefined
No4  == available = Undefined /\ report = Undefined /\ local = Undefined /\ touched = Undefined
No12 == /\ period = Undefined /\ linked = Undefined /\ prefilled = Undefined
        /\ typed = Undefined /\ basis = Undefined
No13 == editors = Undefined /\ made = Undefined
No1  == pii = Undefined /\ canvas = Undefined /\ posts = Undefined /\ stored = Undefined
NoSign ==
    /\ entered = Undefined /\ errors = Undefined /\ request = Undefined /\ decided = Undefined
    /\ answer = Undefined /\ form = Undefined /\ locked = Undefined /\ others = Undefined
    /\ sends = Undefined /\ late = Undefined /\ writing = Undefined
    /\ signatures = Undefined /\ raced = Undefined /\ unheard = Undefined
NoData ==
    options = Undefined /\ effects = Undefined /\ result = Undefined /\ shownRun = Undefined

Init ==
    \/ page = "eea1" /\ Form1!Init /\ No2 /\ No4 /\ No12 /\ No13 /\ NoSign /\ NoData
    \/ page = "eea2" /\ Form2!Init /\ No4 /\ No12 /\ No13 /\ No1 /\ NoSign /\ NoData
    \/ page = "eea4" /\ Form4!Init /\ No2 /\ No12 /\ No13 /\ No1 /\ NoSign /\ NoData
    \/ page = "eea12" /\ Form12!Init /\ No2 /\ No4 /\ No13 /\ No1 /\ NoSign /\ NoData
    \/ page = "eea13" /\ Form13!Init /\ No2 /\ No4 /\ No12 /\ No1 /\ NoSign /\ NoData
    \/ page = "sign" /\ Sign!Init /\ NoShell /\ No2 /\ No4 /\ No12 /\ No13 /\ No1 /\ NoData
    \/ page = "dashboards" /\ Data!Init /\ inputs = 0 /\ NoShell
          /\ No2 /\ No4 /\ No12 /\ No13 /\ No1 /\ NoSign

Next ==
    \/ page = "eea1" /\ Form1!Next
          /\ UNCHANGED <<page, only2, only4, only12, only13, onlySign, onlyData>>
    \/ page = "eea2" /\ Form2!Next
          /\ UNCHANGED <<page, only1, only4, only12, only13, onlySign, onlyData>>
    \/ page = "eea4" /\ Form4!Next
          /\ UNCHANGED <<page, only1, only2, only12, only13, onlySign, onlyData>>
    \/ page = "eea12" /\ Form12!Next
          /\ UNCHANGED <<page, only1, only2, only4, only13, onlySign, onlyData>>
    \/ page = "eea13" /\ Form13!Next
          /\ UNCHANGED <<page, only1, only2, only4, only12, onlySign, onlyData>>
    \/ page = "sign" /\ Sign!Next
          /\ UNCHANGED <<page, step, formState, sent, only1, only2, only4, only12, only13, onlyData>>
    \/ page = "dashboards" /\ Data!Next
          /\ UNCHANGED <<page, shell, only1, only2, only4, only12, only13, onlySign>>

Spec == Init /\ [][Next]_vars

----------------------------------------------------------------------------
(* Properties *)

\* EEA2 and EEA4: every matrix adds up after any edits, pastes and new sources; in the
\* EEA4 the head counts are the EEA2's, nobody absent is paid, and D2 leaves out the
\* levels with one employee (compute-totals.ts, the sections' normalise). Dashboards: the
\* figures are those of the tables that were answered, nobody lost or counted twice
\* (live-data-adapter.ts, representation.ts, lib/eea4.ts).
FiguresAddUp ==
    CASE page = "eea2" -> Form2!FiguresAddUp
      [] page = "eea4" -> Form4!FiguresAddUp
      [] page = "dashboards" -> Data!FiguresAddUp
      [] OTHER -> TRUE

\* EEA2: the flags of sections C1, F and H1 are those of their figures as they are, or as
\* they were last edited (wizard-step-registry.tsx, SectionFTerminations.tsx,
\* SectionH1Accommodation.tsx). EEA12: the comparison on the screen, and the one handed
\* over, is that of the rows as they are (eap-comparison.ts).
FlagsAreOfTheFigures ==
    CASE page = "eea2" -> Form2!FlagsAreOfTheFigures
      [] page = "eea12" -> Form12!ComparisonIsOfTheRows
      [] OTHER -> TRUE

\* An EEA2 goes to the CEO without a flag it should have. An EEA4 is signed by the CEO over
\* figures that agree with the EEA2 and whose lowest pay is not above the highest
\* (declaration-rules.ts).
SignedOverSoundFigures ==
    CASE page = "eea2" -> Form2!SubmittedUnflagged
      [] page = "eea4" -> Form4!SignedOverSoundFigures
      [] OTHER -> TRUE

\* EEA2: section A shows what was answered, and the contact the user entered. EEA12: the
\* rows of section B are the user's or those of the tables of one EEA2, and nobody is lost
\* or counted twice (use-prefill.ts, decompose-workforce.ts). Dashboards: both tables are
\* of one request, and a late answer to what was asked for before never replaces what is
\* shown for what is asked for now (live-data-adapter.ts).
ShownIsOfItsSources ==
    CASE page = "eea2" -> Form2!ProfileIsOfItsSources
      [] page = "eea12" -> Form12!ProfileIsOfItsSources
      [] page = "dashboards" -> Data!ShownIsOfItsSources
      [] OTHER -> TRUE

\* EEA13: an edited goal replaces the goal it was opened from (GoalsEditor.tsx); three to
\* five different years, and goals that meet the minimum of the sector they were saved for
\* (eea13-step-yearly-plans.tsx, eea13-goals.ts); the severity shown beside a removal action
\* is that of its barriers (prefill-barriers.ts, eea13-step-barriers-removal.tsx).
PlansStaySound ==
    page = "eea13" =>
        /\ Form13!UpdateHitsItsGoal
        /\ Form13!PlansStaySound
        /\ Form13!SeverityFollowsItsRow

\* EEA1: who signs has drawn the signature on the canvas there is, the details of a
\* disability travel with the answer Yes alone, and a stored declaration is dated by the
\* server with its demographic answers enciphered or withheld (SignatureStep.tsx,
\* DemographicFieldsSection.tsx, declarations.ts, kms-encrypt.ts).
DeclaredAsAnswered == page = "eea1" => Form1!DeclaredAsAnswered

\* The signing page signs a form twice only when a signature is committed while another
\* handler has read the draft: that of a lost answer's request, or of another user. Without
\* such a handler the locked view and "already signed" are of a signed form. What the page
\* signed is locked, unless the answer was lost (eea2-signing-ceremony.tsx, eea2.routes.ts).
SignedOnceAndSeen == page = "sign" => Sign!SignedOnceAndSeen

\* Every form: what was handed to the autosave is what the sections show; from the EEA2
\* those are the events of each cell of section C1.
EditsAreHandedOver ==
    CASE page = "eea1"  -> Form1!EditsAreHandedOver
      [] page = "eea2"  -> Form2!EditsAreHandedOver
      [] page = "eea4"  -> Form4!ReportIsHandedOver
      [] page = "eea12" -> Form12!EditsAreHandedOver
      [] page = "eea13" -> Form13!EditsAreHandedOver
      [] OTHER -> TRUE
=============================================================================
