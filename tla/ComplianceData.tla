--------------------------- MODULE ComplianceData ---------------------------
(***************************************************************************)
(* What the compliance dashboards show (features/compliance): the hook that  *)
(* builds a company from Table 1.1 of the EEA2 and section C of the EEA4,    *)
(* and the figures computed from it.                                        *)
(*                                                                         *)
(* The hook asks for both forms at once when what it is asked for changes;   *)
(* requests of before are aborted, but may be answered all the same. It      *)
(* shows the demonstration company until both have been answered, and        *)
(* whenever one of them is not there or not valid.                          *)
(***************************************************************************)
EXTENDS Integers, Sequences, FiniteSetsExt, Functions

CONSTANTS
    Tenants, Eea4Ids,       \* what the page may ask for
    MaxEffects,             \* bound on the changes of what is asked for
    Lists,                  \* tenant -> lists of EEA2s the API may answer with
    SectionsC,              \* id -> sections C the API may answer with
    RealLevels, AssessedLevels, PayRaces,
    Targets,                \* level -> targets of the sector, in tenths of a percent
    DemoCompany,            \* [workforce, remuneration, penalties]
    Undefined, Waiting

VARIABLES
    options,    \* [tenant, eea4]: what is asked for
    effects,    \* the effect runs so far: what was asked for, the answers, and if aborted
    result,     \* [source, company] on the screen
    basis       \* history: the effect run the result is of; 0 for none

vars == <<options, effects, result, basis>>

Genders == {"male", "female"}
PayGroups == PayRaces \X Genders
Total == 0    \* the row of the totals; the levels are numbered from 1

----------------------------------------------------------------------------
(* The adapters *)

HeadsOf(row, cols) == SumFunctionOnSet(row, cols)

\* The aggregate rows are left out, and so are disabled foreign nationals.
AdaptWorkforce(matrix, disability) ==
    [l \in RealLevels |->
        [citizens |-> [g \in PayGroups |-> matrix[l][g]],
         foreign  |-> [g \in Genders |-> matrix[l][<<"foreign", g>>]],
         disabled |-> IF disability = Undefined THEN 0 ELSE HeadsOf(disability[l], PayGroups)]]

Round(a, b) == (2 * a + b) \div (2 * b)

\* The annual total of the cell by head and month.
BuildGroupPay(cell) ==
    [headcount |-> cell.headcount,
     avg |-> IF cell.headcount = 0 THEN 0 ELSE Round(cell.total, 12 * cell.headcount)]

AdaptRemuneration(matrix) ==
    [l \in RealLevels |-> [g \in PayGroups |-> BuildGroupPay(matrix[l][g])]]

----------------------------------------------------------------------------
(* useComplianceData *)

FixtureResult == [source |-> "fixture", company |-> DemoCompany]

\* The first EEA2 of the list with a valid Table 1.1; an answer that is no list has none.
LiveWorkforce(list) ==
    LET valid == {i \in DOMAIN list : list[i].workforce # Undefined}
    IN IF valid = {} THEN Undefined ELSE list[Min(valid)]

Outcome(run) ==
    IF Undefined \in {run.workforce, run.remuneration} THEN FixtureResult
    ELSE [source |-> "live",
          company |-> [DemoCompany EXCEPT
              !.workforce = AdaptWorkforce(run.workforce.workforce, run.workforce.disability),
              !.remuneration = AdaptRemuneration(run.remuneration)]]

IsComplete(o) == o.tenant # "" /\ o.eea4 # ""

Aborted(runs) == [i \in DOMAIN runs |-> [runs[i] EXCEPT !.aborted = TRUE]]

NewRun(o) == [options |-> o, workforce |-> Waiting, remuneration |-> Waiting, aborted |-> FALSE]

Init ==
    /\ options = [tenant |-> "", eea4 |-> ""]
    /\ effects = <<>> /\ result = FixtureResult /\ basis = 0

\* What is shown stays until the answers are there.
ChangeOptions(o) ==
    /\ o # options /\ options' = o
    /\ IF IsComplete(o)
       THEN /\ Len(effects) < MaxEffects
            /\ effects' = Append(Aborted(effects), NewRun(o))
            /\ UNCHANGED <<result, basis>>
       ELSE /\ effects' = Aborted(effects)
            /\ result' = FixtureResult /\ basis' = 0

Settles_Late(run) == TRUE

Settles(run) == ~run.aborted

\* One of the two answers; after the other one the effect goes on.
Arrives(i, run) ==
    /\ effects' = [effects EXCEPT ![i] = run]
    /\ IF Waiting \notin {run.workforce, run.remuneration} /\ Settles(run)
       THEN result' = Outcome(run) /\ basis' = i
       ELSE UNCHANGED <<result, basis>>
    /\ UNCHANGED options

\* A refusal, a broken connection, an abort and a body that is not valid end alike.
FetchLiveWorkforce(i, list) ==
    /\ effects[i].workforce = Waiting
    /\ Arrives(i, [effects[i] EXCEPT !.workforce = LiveWorkforce(list)])

FetchLiveRemuneration(i, matrix) ==
    /\ effects[i].remuneration = Waiting
    /\ Arrives(i, [effects[i] EXCEPT !.remuneration = matrix])

Next ==
    \/ \E t \in Tenants \cup {""}, id \in Eea4Ids \cup {""} :
          ChangeOptions([tenant |-> t, eea4 |-> id])
    \/ \E i \in DOMAIN effects :
          \/ \E list \in Lists[effects[i].options.tenant] \cup {<<>>} : FetchLiveWorkforce(i, list)
          \/ \E matrix \in SectionsC[effects[i].options.eea4] \cup {Undefined} :
                FetchLiveRemuneration(i, matrix)

Spec == Init /\ [][Next]_vars

----------------------------------------------------------------------------
(* The figures of the dashboards *)

Pct(part, whole) == IF whole = 0 THEN 0 ELSE Round(1000 * part, whole)

Classify(delta) ==
    CASE delta >= 0 -> "met"
      [] delta < 0 /\ delta >= -50 -> "close"
      [] OTHER -> "gap"

CountCitizens(row) == HeadsOf(row.citizens, PayGroups)
CountForeign(row) == HeadsOf(row.foreign, Genders)

\* All women, and the men who are not white.
DesignatedMale(row) == HeadsOf(row.citizens, (PayRaces \ {"white"}) \X {"male"})
DesignatedFemale(row) == HeadsOf(row.citizens, PayRaces \X {"female"})

GroupGap(actual, target) == [actual |-> actual, target |-> target, status |-> Classify(actual - target)]

WorstStatus(groups) ==
    LET Some(status) == \E k \in DOMAIN groups : groups[k].status = status
    IN IF Some("gap") THEN "gap" ELSE IF Some("close") THEN "close" ELSE "met"

LevelGroups(row, target) ==
    LET citizens == CountCitizens(row)
    IN [male |-> GroupGap(Pct(DesignatedMale(row), citizens), target.male),
        female |-> GroupGap(Pct(DesignatedFemale(row), citizens), target.female),
        disabled |-> GroupGap(Pct(row.disabled, citizens), target.disabled)]

\* A level without a target is counted, and never at risk.
ComputeSectorCompliance(company) ==
    [l \in RealLevels |->
        LET row == company.workforce[l]
            groups == IF l \in AssessedLevels THEN LevelGroups(row, Targets[l]) ELSE <<>>
        IN [citizens |-> CountCitizens(row), foreign |-> CountForeign(row),
            groups |-> groups, status |-> WorstStatus(groups)]]

\* 60% of the groups' points, 40% of what the open actions leave, in hundredths.
ComputeComplianceScore(company) ==
    LET levels == ComputeSectorCompliance(company)
        all == {<<l, k>> : l \in AssessedLevels, k \in {"male", "female", "disabled"}}
        Points(lk) == CASE levels[lk[1]].groups[lk[2]].status = "met" -> 10
                        [] levels[lk[1]].groups[lk[2]].status = "close" -> 6
                        [] OTHER -> 0
        actionScore == Max({0, 100 - company.penalties})
    IN Round(6 * SumFunction([lk \in all |-> Points(lk)]) * 10 + 4 * actionScore * Cardinality(all),
             10 * Cardinality(all))

RowTotal(row) == CountCitizens(row) + CountForeign(row)

\* Against the white men of the level, in tenths of a percent.
GapPct(pay, benchmark) ==
    IF benchmark.headcount = 0 \/ benchmark.avg = 0 \/ pay.headcount = 0 THEN Undefined
    ELSE Round(1000 * (pay.avg - benchmark.avg), benchmark.avg)

ComputeEea4Breakdown(company) ==
    [l \in RealLevels |-> [g \in PayGroups \ {<<"white", "male">>} |->
        GapPct(company.remuneration[l][g], company.remuneration[l][<<"white", "male">>])]]

Flagged(gap) == IF gap = Undefined THEN FALSE ELSE gap < -150

----------------------------------------------------------------------------
(* Properties *)

\* What is shown is of both answers to what is asked for, or the demonstration company;
\* while the answers are waited for it may be of what was asked for before, never of
\* something asked for even earlier that was answered late.
ShownIsOfItsSources ==
    LET last == Len(effects)
        Ended(run) == Waiting \notin {run.workforce, run.remuneration}
    IN /\ result = IF basis = 0 THEN FixtureResult ELSE Outcome(effects[basis])
       /\ ~IsComplete(options) => basis = 0
       /\ IsComplete(options) /\ Ended(effects[last]) =>
             basis = last /\ effects[last].options = options
       /\ \A i \in DOMAIN effects : i > basis /\ i < last => effects[i].aborted

\* Nobody is lost between the Table 1.1 that was answered and the levels of the dashboards,
\* nobody is counted twice, the designated groups and the white men are the citizens, and
\* the monthly pay is that of the section C that was answered but for the rounding.
FiguresAddUp ==
    LET company == result.company
        levels == ComputeSectorCompliance(company)
        live == effects[basis]
    IN /\ \A l \in RealLevels :
             /\ DesignatedMale(company.workforce[l]) + DesignatedFemale(company.workforce[l])
                   + company.workforce[l].citizens[<<"white", "male">>] = levels[l].citizens
             /\ levels[l].status = "gap" => l \in AssessedLevels
       /\ ComputeComplianceScore(company) \in 0..100
       /\ result.source = "live" =>
             /\ SumFunction([l \in RealLevels |-> RowTotal(company.workforce[l])])
                   = HeadsOf(live.workforce.workforce[Total], DOMAIN live.workforce.workforce[Total])
             /\ \A l \in RealLevels, g \in PayGroups :
                   LET pay == company.remuneration[l][g]
                       given == live.remuneration[l][g]
                   IN /\ pay.headcount > 0 =>
                            12 * pay.headcount * pay.avg - given.total
                                \in (-6 * pay.headcount)..(6 * pay.headcount)
                      /\ g # <<"white", "male">> /\ Flagged(ComputeEea4Breakdown(company)[l][g]) =>
                            pay.avg < company.remuneration[l][<<"white", "male">>].avg
=============================================================================
