------------------------ MODULE BundleDashboardProofs ------------------------
(***************************************************************************)
(* Theorems about BundleGate and BundleDashboard, for every pair of forms, *)
(* every set of periods and any number of looks under way.                 *)
(***************************************************************************)
EXTENDS BundleDashboard, FiniteSetTheorems, TLAPS

(***************************************************************************)
(* The gate.                                                               *)
(***************************************************************************)

(* What a rule comes to in a run of the whole registry: the headcount rule *)
(* is its first.                                                           *)
Holds(rule, a, b) == Passes(rule, a, b, Passes("headcount", a, b, Undefined))

LEMMA RegistryRuns ==
    ASSUME NEW eea2, NEW eea4
    PROVE  EvaluateRules(Rules, eea2, eea4) =
             {rule \in {"headcount", "requiresEEA2", "disability", "targets", "highpaid",
                        "eea2Ceo", "eea4Ceo", "bundleSigned"} :
                ~Holds(rule, View(eea2), View(eea4))}
  <1> DEFINE a == View(eea2)
             b == View(eea4)
             Fails(i) == ~Passes(Rules[i], a, b, MetaAt(Rules, i, a, b))
  <1>1. /\ DOMAIN Rules = 1..8
        /\ Rules[1] = "headcount" /\ Rules[2] = "requiresEEA2" /\ Rules[3] = "disability"
        /\ Rules[4] = "targets" /\ Rules[5] = "highpaid" /\ Rules[6] = "eea2Ceo"
        /\ Rules[7] = "eea4Ceo" /\ Rules[8] = "bundleSigned"
    BY DEF Rules
  <1> HIDE DEF a, b
  <1>2. MetaAt(Rules, 7, a, b) = Passes("headcount", a, b, Undefined)
    <2>1. 1 \in 1..(7 - 1) /\ Rules[1] = "headcount"
      BY <1>1
    <2>2. QED
      BY <2>1 DEF MetaAt
  <1>3. \A i \in 1..8 : Fails(i) <=> ~Holds(Rules[i], a, b)
    <2>1. Fails(1) <=> ~Holds(Rules[1], a, b)
      BY <1>1 DEF Holds, Passes
    <2>2. Fails(2) <=> ~Holds(Rules[2], a, b)
      BY <1>1 DEF Holds, Passes
    <2>3. Fails(3) <=> ~Holds(Rules[3], a, b)
      BY <1>1 DEF Holds, Passes
    <2>4. Fails(4) <=> ~Holds(Rules[4], a, b)
      BY <1>1 DEF Holds, Passes
    <2>5. Fails(5) <=> ~Holds(Rules[5], a, b)
      BY <1>1 DEF Holds, Passes
    <2>6. Fails(6) <=> ~Holds(Rules[6], a, b)
      BY <1>1 DEF Holds, Passes
    <2>7. Fails(7) <=> ~Holds(Rules[7], a, b)
      BY <1>2 DEF Holds
    <2>8. Fails(8) <=> ~Holds(Rules[8], a, b)
      BY <1>1 DEF Holds, Passes
    <2> HIDE DEF Fails
    <2>9. \A i \in 1..8 : i = 1 \/ i = 2 \/ i = 3 \/ i = 4 \/ i = 5 \/ i = 6 \/ i = 7 \/ i = 8
      OBVIOUS
    <2>10. QED
      BY <2>1, <2>2, <2>3, <2>4, <2>5, <2>6, <2>7, <2>8, <2>9
  <1>4. EvaluateRules(Rules, eea2, eea4) = {Rules[i] : i \in {k \in DOMAIN Rules : Fails(k)}}
    BY DEF EvaluateRules, a, b
  <1> HIDE DEF Fails
  <1>5. EvaluateRules(Rules, eea2, eea4) = {Rules[i] : i \in {k \in 1..8 : ~Holds(Rules[k], a, b)}}
    BY <1>1, <1>3, <1>4
  <1>6. \A rule : rule \in EvaluateRules(Rules, eea2, eea4) <=>
                    \E i \in 1..8 : rule = Rules[i] /\ ~Holds(rule, a, b)
    BY <1>5
  <1>7. \A rule : (\E i \in 1..8 : rule = Rules[i] /\ ~Holds(rule, a, b)) <=>
                    /\ rule \in {Rules[1], Rules[2], Rules[3], Rules[4], Rules[5], Rules[6],
                                 Rules[7], Rules[8]}
                    /\ ~Holds(rule, a, b)
    OBVIOUS
  <1>8. QED
    BY <1>1, <1>6, <1>7 DEF a, b

(* The errors of a run: every rule but the one about targets is one.       *)
LEMMA RegistryErrors ==
    ASSUME NEW eea2, NEW eea4
    PROVE  Errors(EvaluateRules(Rules, eea2, eea4)) =
             {rule \in {"headcount", "requiresEEA2", "disability", "highpaid", "eea2Ceo",
                        "eea4Ceo", "bundleSigned"} : ~Holds(rule, View(eea2), View(eea4))}
  BY RegistryRuns DEF Errors, Severity

(* With both forms there and signed, the rules together say Submittable.   *)
LEMMA RulesSaySubmittable ==
    ASSUME NEW eea2, NEW eea4, Absent \notin {eea2, eea4},
           ReadStatus(eea2) = "signed", ReadStatus(eea4) = "signed"
    PROVE  /\ Submittable(eea2, eea4) <=> Errors(EvaluateRules(Rules, eea2, eea4)) = {}
           /\ "bundleSigned" \notin EvaluateRules(Rules, eea2, eea4)
  <1>1. View(eea2) = eea2 /\ View(eea4) = eea4
    BY DEF View
  <1>2. Holds("headcount", eea2, eea4) <=>
          \A c \in Cells : eea2.workforce[c] # Undefined /\ eea4.headcount[c] # Undefined
                           /\ eea2.workforce[c] = eea4.headcount[c]
    BY DEF Holds, Passes, Equality, Defined
  <1>3. Holds("requiresEEA2", eea2, eea4) <=> LinkAgrees(eea2, eea4)
    BY DEF Holds, Passes, LinkFails, Triggered, Defined, LinkAgrees
  <1>4. Holds("disability", eea2, eea4) <=>
          \A c \in Cells : eea2.workforce[c] # Undefined /\ eea2.disability[c] # Undefined
                           /\ eea2.disability[c] <= eea2.workforce[c]
    BY DEF Holds, Passes, Lte, Defined
  <1>5. Holds("highpaid", eea2, eea4) <=>
          \A c \in Cells : eea4.highest[c] # Undefined /\ eea4.lowest[c] # Undefined
                           /\ eea4.lowest[c] <= eea4.highest[c]
    BY DEF Holds, Passes, Gte, Lte, Defined
  <1>6. Holds("eea2Ceo", eea2, eea4) <=> (eea2.signature => eea2.sections)
    BY DEF Holds, Passes
  <1>7. Holds("eea4Ceo", eea2, eea4) <=> (eea4.signature => Holds("headcount", eea2, eea4))
    BY DEF Holds, Passes
  <1>8. Holds("bundleSigned", eea2, eea4)
    <2>1. ReadStatus(eea2) = "signed" /\ ReadStatus(eea4) = "signed"
      OBVIOUS
    <2>2. QED
      BY <2>1 DEF Holds, Passes
  <1>9. (\A c \in Cells : CellAgrees(eea2, eea4, c)) <=>
          /\ Holds("headcount", eea2, eea4) /\ Holds("disability", eea2, eea4)
          /\ Holds("highpaid", eea2, eea4)
    BY <1>2, <1>4, <1>5 DEF CellAgrees
  <1>10. Submittable(eea2, eea4) <=>
           /\ Holds("headcount", eea2, eea4) /\ Holds("disability", eea2, eea4)
           /\ Holds("highpaid", eea2, eea4) /\ Holds("requiresEEA2", eea2, eea4)
           /\ Holds("eea2Ceo", eea2, eea4) /\ Holds("eea4Ceo", eea2, eea4)
    BY <1>3, <1>6, <1>7, <1>9 DEF Submittable
  <1>11. Errors(EvaluateRules(Rules, eea2, eea4)) = {} <=>
           /\ Holds("headcount", eea2, eea4) /\ Holds("disability", eea2, eea4)
           /\ Holds("highpaid", eea2, eea4) /\ Holds("requiresEEA2", eea2, eea4)
           /\ Holds("eea2Ceo", eea2, eea4) /\ Holds("eea4Ceo", eea2, eea4)
    BY <1>1, <1>8, RegistryErrors
  <1>12. "bundleSigned" \notin EvaluateRules(Rules, eea2, eea4)
    BY <1>1, <1>8, RegistryRuns
  <1>13. QED
    BY <1>10, <1>11, <1>12

(* A form that is missing is not signed.                                   *)
LEMMA MissingIsUnsigned == ReadStatus(Absent) # "signed"
  <1>1. View(Absent) = Blank
    BY DEF View
  <1>2. Blank.status = Undefined /\ Blank.reportStatus = Undefined
    BY DEF Blank
  <1>3. QED
    BY <1>1, <1>2, UndefinedAssumption DEF ReadStatus, Defined

(* The gate opens for a bundle that may be submitted and for no other, its *)
(* reason says so, and a gate that is closed names a blocker: for every    *)
(* pair of forms, there or missing.                                        *)
GateAgrees(eea2, eea4) ==
    LET result == EvaluateBundleGate(eea2, eea4)
    IN /\ Submittable(eea2, eea4) <=> result.ready
       /\ Submittable(eea2, eea4) <=> result.reason = "ready"
       /\ Submittable(eea2, eea4) <=> DeriveBundleBlockers(result) = {}

THEOREM GateIsExact == \A eea2, eea4 : GateAgrees(eea2, eea4)
  <1> SUFFICES ASSUME NEW eea2, NEW eea4 PROVE GateAgrees(eea2, eea4)
    OBVIOUS
  <1> DEFINE result == EvaluateBundleGate(eea2, eea4)
             failed == EvaluateRules(Rules, eea2, eea4)
             bothSigned == ReadStatus(eea2) = "signed" /\ ReadStatus(eea4) = "signed"
             unsigned == {f \in {"EEA2", "EEA4"} :
                            ReadStatus(IF f = "EEA2" THEN eea2 ELSE eea4) # "signed"}
  <1>1. /\ result.failed = failed
        /\ result.bothSigned = bothSigned
        /\ result.ready = (bothSigned /\ Errors(failed) = {})
        /\ result.reason = DeriveReason(eea2 # Absent, eea4 # Absent, bothSigned,
                                        Errors(failed) = {})
        /\ result.unsigned = unsigned
    BY DEF EvaluateBundleGate
  <1> HIDE DEF result, failed
  <1>2. CASE bothSigned
    <2>1. eea2 # Absent /\ eea4 # Absent
      BY <1>2, MissingIsUnsigned
    <2>2. Submittable(eea2, eea4) <=> Errors(failed) = {}
      BY <1>2, <2>1, RulesSaySubmittable DEF failed
    <2>3. "bundleSigned" \notin failed
      BY <1>2, <2>1, RulesSaySubmittable DEF failed
    <2>4. result.reason = "ready" <=> Errors(failed) = {}
      BY <1>1, <1>2, <2>1 DEF DeriveReason
    <2>5. DeriveBundleBlockers(result) = Errors(failed)
      BY <1>1, <1>2, <2>3 DEF DeriveBundleBlockers, Errors
    <2>6. QED
      BY <1>1, <1>2, <2>2, <2>4, <2>5 DEF GateAgrees, result
  <1>3. CASE ~bothSigned
    <2>1. ~Submittable(eea2, eea4)
      BY <1>3 DEF Submittable
    <2>2. ~result.ready
      BY <1>1, <1>3
    <2>3. result.reason # "ready"
      BY <1>1, <1>3 DEF DeriveReason
    <2>4. "EEA2" \in unsigned \/ "EEA4" \in unsigned
      BY <1>3
    <2>5. DeriveBundleBlockers(result) # {}
      BY <1>1, <1>3, <2>4 DEF DeriveBundleBlockers
    <2>6. QED
      BY <2>1, <2>2, <2>3, <2>5 DEF GateAgrees, result
  <1>4. QED
    BY <1>2, <1>3

(***************************************************************************)
(* The page.                                                               *)
(***************************************************************************)
Wrappers2 == EEA2Forms \cup {Absent}
Wrappers4 == EEA4Forms \cup {Absent}
Recordings == [report : Reports, sound : BOOLEAN]
Evaluations == {EvaluationOf(period, report, eea2, eea4) :
                  period \in Periods, report \in Reports, eea2 \in Wrappers2, eea4 \in Wrappers4}

TypesInv ==
    /\ clockIsStable \in BOOLEAN
    /\ periods \in {{}, Periods}
    /\ selected \in Periods \cup {NoPeriod}
    /\ looks \subseteq [period : Periods, current : BOOLEAN, eea2 : Wrappers2 \cup {Unread}]
    /\ loading \in BOOLEAN /\ effectDue \in BOOLEAN /\ overtaken \in BOOLEAN
    /\ evaluation \in Evaluations \cup {NoEvaluation}
    /\ recording \in Recordings \cup {NoReport}
    /\ recorded \subseteq Recordings
    /\ inputs \in 0..MaxInputs

(* Every event of the page is due to something the user did.               *)
Pending == IF recording = NoReport THEN 0 ELSE 1
CountInv == IsFiniteSet(recorded) /\ Cardinality(recorded) + Pending <= inputs

(* Only one look may write, it looks at the selected period unless another *)
(* one is due, and the page is loading as long as it is under way.         *)
LookInv ==
    /\ \A l, m \in looks : l.current /\ m.current => l = m
    /\ Looking => loading
    /\ \A l \in looks : l.current => effectDue \/ l.period = selected
    /\ ~loading /\ ~effectDue /\ selected # NoPeriod =>
          evaluation # NoEvaluation /\ evaluation.period = selected

(* A page without a period shows nothing.                                  *)
NothingInv ==
    selected = NoPeriod =>
        looks = {} /\ evaluation = NoEvaluation /\ recording = NoReport /\ confirmed = NoReport

(* Between Prepare and the end of its confirmation the report stays on the *)
(* screen, unless a look was under way.                                    *)
RecordInv ==
    /\ recording # NoReport =>
          /\ recording.sound /\ confirmed = NoReport
          /\ overtaken \/ (recording.report = evaluation.report /\ ~Looking)
    /\ \A e \in recorded : e.sound
    /\ confirmed # NoReport =>
          /\ \E e \in recorded : e.report = confirmed
          /\ overtaken \/ (confirmed = evaluation.report /\ ~Looking)

IInv == TypesInv /\ CountInv /\ LookInv /\ NothingInv /\ RecordInv

(* What an evaluation says of its forms is what the gate says.             *)
LEMMA EvaluationIsExact ==
    ASSUME NEW e \in Evaluations
    PROVE  /\ e.sound <=> e.result.ready
           /\ e.sound <=> e.result.reason = "ready"
           /\ e.sound <=> DeriveBundleBlockers(e.result) = {}
           /\ e # NoEvaluation
           /\ e.sound \in BOOLEAN /\ e.report \in Reports /\ e.period \in Periods
  <1>1. PICK period \in Periods, report \in Reports, eea2 \in Wrappers2, eea4 \in Wrappers4 :
           e = EvaluationOf(period, report, eea2, eea4)
    BY DEF Evaluations
  <1>2. /\ Gate[<<eea2, eea4>>].result = EvaluateBundleGate(eea2, eea4)
        /\ Gate[<<eea2, eea4>>].sound = Submittable(eea2, eea4)
    BY DEF Gate, Wrappers2, Wrappers4
  <1>3. /\ e.result = EvaluateBundleGate(eea2, eea4) /\ e.sound = Submittable(eea2, eea4)
        /\ e.report = report /\ e.period = period
    BY <1>1, <1>2 DEF EvaluationOf
  <1>4. GateAgrees(eea2, eea4)
    BY GateIsExact
  <1>5. e # NoEvaluation
    BY <1>1, EvaluationAssumption DEF Wrappers2, Wrappers4
  <1>6. e.sound \in BOOLEAN
    BY <1>3 DEF Submittable
  <1>7. QED
    BY <1>3, <1>4, <1>5, <1>6 DEF GateAgrees

(* A new report has an id that no event has: there are enough of them.     *)
LEMMA ReportIsFresh ==
    ASSUME TypesInv, CountInv
    PROVE  /\ NewReport \in Reports
           /\ \A e \in recorded : e.report # NewReport
           /\ recording # NoReport => recording.report # NewReport
  <1> DEFINE all == recorded \cup ({recording} \ {NoReport})
             ids == {e.report : e \in all}
  <1>1. /\ IsFiniteSet(recorded) /\ Cardinality(recorded) \in Nat
        /\ Cardinality(recorded) + Pending <= MaxInputs
    BY FS_CardinalityType, BoundsAssumption DEF TypesInv, CountInv, Pending
  <1>2. IsFiniteSet(all) /\ Cardinality(all) <= MaxInputs
    <2>1. CASE recording = NoReport
      <3>1. all = recorded
        BY <2>1
      <3>2. Pending = 0
        BY <2>1 DEF Pending
      <3> HIDE DEF all
      <3>3. QED
        BY <1>1, <3>1, <3>2
    <2>2. CASE recording # NoReport
      <3>1. all = recorded \cup {recording}
        BY <2>2
      <3>2. IsFiniteSet(all) /\ (Cardinality(all) = Cardinality(recorded)
                                 \/ Cardinality(all) = Cardinality(recorded) + 1)
        BY <1>1, <3>1, FS_AddElement
      <3> HIDE DEF all
      <3>3. QED
        BY <1>1, <2>2, <3>2, BoundsAssumption DEF Pending
    <2>3. QED
      BY <2>1, <2>2
  <1> HIDE DEF all
  <1>3. IsFiniteSet(ids) /\ Cardinality(ids) <= Cardinality(all)
    <2> DEFINE f == [e \in all |-> e.report]
    <2>1. f \in Surjection(all, ids)
      BY DEF Surjection
    <2> HIDE DEF f
    <2>2. QED
      BY <1>2, <2>1, FS_Surjection
  <1> HIDE DEF ids
  <1>4. \E r \in Reports : r \notin ids
    <2>1. SUFFICES ASSUME Reports \subseteq ids PROVE FALSE
      OBVIOUS
    <2>2. IsFiniteSet(Reports) /\ Cardinality(Reports) = MaxInputs + 3
      BY FS_Interval, BoundsAssumption DEF Reports
    <2>3. Cardinality(Reports) <= Cardinality(ids)
      BY <1>3, <2>1, FS_Subset
    <2>4. Cardinality(ids) \in Nat /\ Cardinality(all) \in Nat
      BY <1>2, <1>3, FS_CardinalityType
    <2>5. QED
      BY <1>2, <1>3, <2>2, <2>3, <2>4, BoundsAssumption
  <1>5. NewReport \in Reports /\ NewReport \notin ids
    BY <1>4 DEF NewReport, ids, all
  <1>6. QED
    BY <1>5 DEF ids, all

LEMMA InitHolds == Init => IInv
  <1> SUFFICES ASSUME Init PROVE IInv
    OBVIOUS
  <1>1. TypesInv
    <2>1. selected \in Periods \cup {NoPeriod}
      BY PeriodsAssumption DEF Init
    <2>2. inputs \in 0..MaxInputs
      BY BoundsAssumption DEF Init
    <2>3. QED
      BY <2>1, <2>2 DEF Init, TypesInv
  <1>2. CountInv
    BY FS_EmptySet DEF Init, CountInv, Pending
  <1>3. LookInv /\ NothingInv /\ RecordInv
    BY DEF Init, LookInv, NothingInv, RecordInv, Looking
  <1>4. QED
    BY <1>1, <1>2, <1>3 DEF IInv

(* A look, whatever triggers it: the one before is superseded, and what it *)
(* would have confirmed goes.                                              *)
LEMMA EvaluateKeeps ==
    ASSUME IInv, Evaluate, UNCHANGED <<clockIsStable, periods, selected, recorded>>,
           effectDue' \in BOOLEAN, inputs' \in 0..MaxInputs, inputs' >= inputs
    PROVE  IInv'
  <1>1. CASE selected = NoPeriod
    <2>1. /\ evaluation' = NoEvaluation
          /\ UNCHANGED <<looks, loading, recording, confirmed, prepareError, overtaken>>
      BY <1>1 DEF Evaluate
    <2>2. looks = {} /\ recording = NoReport /\ confirmed = NoReport
      BY <1>1 DEF IInv, NothingInv
    <2>3. TypesInv'
      BY <2>1 DEF IInv, TypesInv, Evaluations
    <2>4. CountInv'
      <3>1. Pending' = Pending /\ Pending \in Nat
        BY <2>1 DEF Pending
      <3>2. IsFiniteSet(recorded) /\ Cardinality(recorded) + Pending <= inputs
        BY DEF IInv, CountInv
      <3>3. Cardinality(recorded) \in Nat /\ inputs \in Nat /\ inputs' \in Nat
        BY <3>2, FS_CardinalityType DEF IInv, TypesInv
      <3>4. QED
        BY <3>1, <3>2, <3>3 DEF CountInv
    <2>5. LookInv' /\ NothingInv' /\ RecordInv'
      BY <1>1, <2>1, <2>2 DEF IInv, LookInv, NothingInv, RecordInv, Looking
    <2>6. QED
      BY <2>3, <2>4, <2>5 DEF IInv
  <1>2. CASE selected # NoPeriod
    <2> DEFINE new == [period |-> selected, current |-> TRUE, eea2 |-> Unread]
    <2>1. /\ looks' = Superseded \cup {new}
          /\ loading' = TRUE /\ confirmed' = NoReport
          /\ overtaken' = (overtaken \/ recording # NoReport)
          /\ UNCHANGED <<evaluation, recording>>
      BY <1>2 DEF Evaluate, ConfirmedAfterLook
    <2>2. /\ new.current /\ new.period = selected
          /\ new \in [period : Periods, current : BOOLEAN, eea2 : Wrappers2 \cup {Unread}]
      BY <1>2 DEF IInv, TypesInv
    <2> HIDE DEF new
    <2>3. ASSUME NEW l \in Superseded
          PROVE  /\ l \in [period : Periods, current : BOOLEAN, eea2 : Wrappers2 \cup {Unread}]
                 /\ ~l.current
      <3>1. PICK m \in looks : l = [m EXCEPT !.current = FALSE]
        BY DEF Superseded
      <3>2. m \in [period : Periods, current : BOOLEAN, eea2 : Wrappers2 \cup {Unread}]
        BY DEF IInv, TypesInv
      <3>3. QED
        BY <3>1, <3>2
    <2>4. \A l \in looks' : l.current => l = new
      BY <2>1, <2>3
    <2>5. TypesInv'
      BY <2>1, <2>2, <2>3 DEF IInv, TypesInv, Evaluations
    <2>6. CountInv'
      <3>1. Pending' = Pending /\ Pending \in Nat
        BY <2>1 DEF Pending
      <3>2. IsFiniteSet(recorded) /\ Cardinality(recorded) + Pending <= inputs
        BY DEF IInv, CountInv
      <3>3. Cardinality(recorded) \in Nat /\ inputs \in Nat /\ inputs' \in Nat
        BY <3>2, FS_CardinalityType DEF IInv, TypesInv
      <3>4. QED
        BY <3>1, <3>2, <3>3 DEF CountInv
    <2>7. LookInv'
      BY <2>1, <2>2, <2>4 DEF LookInv
    <2>8. NothingInv' /\ RecordInv'
      BY <1>2, <2>1 DEF IInv, NothingInv, RecordInv
    <2>9. QED
      BY <2>5, <2>6, <2>7, <2>8 DEF IInv
  <1>3. QED
    BY <1>1, <1>2

(* An event of one form's fetch or of a failed one.                        *)
LEMMA ReadEEA2Keeps ==
    ASSUME IInv, NEW l \in looks, ReadEEA2(l)
    PROVE  IInv'
  <1>1. PICK form \in Answers(l.period, "EEA2", EEA2Forms) :
           looks' = (looks \ {l}) \cup {[l EXCEPT !.eea2 = form]}
    BY DEF ReadEEA2
  <1>2. UNCHANGED <<clockIsStable, periods, selected, loading, evaluation, recording, confirmed,
                    effectDue, recorded, overtaken, inputs>>
    BY DEF ReadEEA2, shown
  <1>3. l \in [period : Periods, current : BOOLEAN, eea2 : Wrappers2 \cup {Unread}]
    BY DEF IInv, TypesInv
  <1>4. form \in Wrappers2
    BY DEF Answers, Wrappers2
  <1> DEFINE n == [l EXCEPT !.eea2 = form]
  <1>5. /\ n \in [period : Periods, current : BOOLEAN, eea2 : Wrappers2 \cup {Unread}]
        /\ n.current = l.current /\ n.period = l.period
    BY <1>3, <1>4
  <1> HIDE DEF n
  <1>6. looks' = (looks \ {l}) \cup {n}
    BY <1>1 DEF n
  <1>7. Looking' <=> Looking
    BY <1>5, <1>6 DEF Looking
  <1>8. TypesInv'
    BY <1>2, <1>5, <1>6 DEF IInv, TypesInv, Evaluations
  <1>9. CountInv'
    BY <1>2 DEF IInv, CountInv, Pending
  <1>10. LookInv'
    <2>1. \A k, m \in looks' : k.current /\ m.current => k = m
      BY <1>5, <1>6 DEF IInv, LookInv
    <2>2. \A k \in looks' : k.current => effectDue' \/ k.period = selected'
      BY <1>2, <1>5, <1>6 DEF IInv, LookInv
    <2>3. QED
      BY <1>2, <1>7, <2>1, <2>2 DEF IInv, LookInv
  <1>11. NothingInv' /\ RecordInv'
    BY <1>2, <1>7 DEF IInv, NothingInv, RecordInv
  <1>12. QED
    BY <1>8, <1>9, <1>10, <1>11 DEF IInv

LEMMA FetchRejectsKeeps ==
    ASSUME IInv, NEW l \in looks, FetchRejects(l)
    PROVE  IInv'
  <1>1. /\ looks' = looks \ {l}
        /\ UNCHANGED <<clockIsStable, periods, selected, loading, evaluation, recording, confirmed,
                       effectDue, recorded, overtaken, inputs>>
    BY DEF FetchRejects, shown
  <1>2. Looking' => Looking
    BY <1>1 DEF Looking
  <1>3. TypesInv'
    BY <1>1 DEF IInv, TypesInv, Evaluations
  <1>4. CountInv'
    BY <1>1 DEF IInv, CountInv, Pending
  <1>5. LookInv' /\ NothingInv' /\ RecordInv'
    BY <1>1, <1>2 DEF IInv, LookInv, NothingInv, RecordInv
  <1>6. QED
    BY <1>3, <1>4, <1>5 DEF IInv

(* The newest look shows what it has read; the result of another one goes. *)
LEMMA ReadEEA4Keeps ==
    ASSUME IInv, NEW l \in looks, ReadEEA4(l)
    PROVE  IInv'
  <1>1. /\ looks' = looks \ {l} /\ l.eea2 # Unread
        /\ UNCHANGED <<clockIsStable, periods, selected, recording, confirmed, recorded, overtaken,
                       inputs>>
        /\ effectDue' = (effectDue \/ Renders)
    BY DEF ReadEEA4
  <1>2. l \in [period : Periods, current : BOOLEAN, eea2 : Wrappers2 \cup {Unread}]
    BY DEF IInv, TypesInv
  <1>3. PICK form \in Answers(l.period, "EEA4", EEA4Forms) :
           IF l.current
           THEN evaluation' = EvaluationOf(l.period, NewReport, l.eea2, form) /\ loading' = FALSE
           ELSE UNCHANGED <<evaluation, loading>>
    BY DEF ReadEEA4, MayShow
  <1>4. EvaluationOf(l.period, NewReport, l.eea2, form) \in Evaluations
    <2>1. NewReport \in Reports
      BY ReportIsFresh DEF IInv
    <2>2. form \in Wrappers4 /\ l.eea2 \in Wrappers2 /\ l.period \in Periods
      BY <1>1, <1>2 DEF Answers, Wrappers4
    <2>3. QED
      BY <2>1, <2>2 DEF Evaluations
  <1>5. effectDue' \in BOOLEAN /\ (effectDue => effectDue')
    BY <1>1 DEF IInv, TypesInv, Renders
  <1>6. evaluation' \in Evaluations \cup {NoEvaluation} /\ loading' \in BOOLEAN
    BY <1>3, <1>4 DEF IInv, TypesInv
  <1>7. TypesInv'
    BY <1>1, <1>5, <1>6 DEF IInv, TypesInv, Evaluations
  <1>8. CountInv'
    BY <1>1 DEF IInv, CountInv, Pending
  <1>9. CASE l.current
    <2>1. ~Looking' /\ Looking
      BY <1>1, <1>9 DEF IInv, LookInv, Looking
    <2>2. /\ evaluation' \in Evaluations /\ evaluation'.period = l.period
          /\ evaluation' # NoEvaluation
      BY <1>3, <1>4, <1>9, EvaluationIsExact DEF EvaluationOf
    <2>3. selected # NoPeriod /\ (effectDue \/ l.period = selected)
      BY <1>9 DEF IInv, NothingInv, LookInv
    <2>4. LookInv'
      BY <1>1, <1>5, <2>1, <2>2, <2>3 DEF LookInv, Looking
    <2>5. NothingInv'
      BY <1>1, <2>3 DEF NothingInv
    <2>6. RecordInv'
      BY <1>1, <2>1 DEF IInv, RecordInv
    <2>7. QED
      BY <1>7, <1>8, <2>4, <2>5, <2>6 DEF IInv
  <1>10. CASE ~l.current
    <2>1. UNCHANGED <<evaluation, loading>>
      BY <1>3, <1>10
    <2>2. Looking' => Looking
      BY <1>1 DEF Looking
    <2>3. LookInv' /\ NothingInv' /\ RecordInv'
      BY <1>1, <1>5, <2>1, <2>2 DEF IInv, LookInv, NothingInv, RecordInv
    <2>4. QED
      BY <1>7, <1>8, <2>3 DEF IInv
  <1>11. QED
    BY <1>9, <1>10

(* Prepare asks for the report on the screen, whose gate is open.          *)
LEMMA PrepareKeeps ==
    ASSUME IInv, Prepare
    PROVE  IInv'
  <1>1. /\ ~effectDue /\ inputs < MaxInputs /\ inputs' = inputs + 1
        /\ evaluation # NoEvaluation /\ evaluation.result.ready
        /\ recording = NoReport /\ confirmed = NoReport
        /\ recording' = [report |-> evaluation.report, sound |-> evaluation.sound]
        /\ overtaken' = Looking
        /\ UNCHANGED <<clockIsStable, periods, selected, looks, loading, evaluation, confirmed,
                       recorded>>
        /\ effectDue' = Renders
    BY DEF Prepare, Input, CanPrepare
  <1>2. evaluation.sound \in BOOLEAN /\ evaluation.sound /\ evaluation.report \in Reports
    BY <1>1, EvaluationIsExact DEF IInv, TypesInv
  <1>3. recording' \in Recordings /\ recording'.sound /\ recording'.report = evaluation.report
    BY <1>1, <1>2 DEF Recordings
  <1>4. effectDue' \in BOOLEAN /\ overtaken' \in BOOLEAN
    BY <1>1 DEF Renders, Looking
  <1>5. inputs' \in 0..MaxInputs /\ inputs \in Nat
    BY <1>1, BoundsAssumption DEF IInv, TypesInv
  <1>6. TypesInv'
    BY <1>1, <1>3, <1>4, <1>5 DEF IInv, TypesInv, Evaluations
  <1>7. CountInv'
    <2>1. Pending = 0 /\ Pending' \in 0..1
      BY <1>1 DEF Pending
    <2>2. IsFiniteSet(recorded) /\ Cardinality(recorded) + Pending <= inputs
          /\ Cardinality(recorded) \in Nat
      BY FS_CardinalityType DEF IInv, CountInv
    <2>3. QED
      BY <1>1, <1>5, <2>1, <2>2 DEF CountInv
  <1>8. Looking' <=> Looking
    BY <1>1 DEF Looking
  <1>9. LookInv' /\ NothingInv' /\ RecordInv'
    BY <1>1, <1>3, <1>8 DEF IInv, LookInv, NothingInv, RecordInv
  <1>10. QED
    BY <1>6, <1>7, <1>9 DEF IInv

(* A confirmation is of an event that was appended.                        *)
LEMMA AppendKeeps ==
    ASSUME IInv, AppendAnswered
    PROVE  IInv'
  <1>1. PICK stored \in BOOLEAN, ok \in BOOLEAN :
           /\ ok => stored
           /\ recorded' = recorded \cup (IF stored THEN {recording} ELSE {})
           /\ confirmed' = ConfirmedAfter(ok)
    BY DEF AppendAnswered
  <1>2. /\ recording # NoReport /\ recording' = NoReport
        /\ UNCHANGED <<clockIsStable, periods, selected, looks, loading, evaluation, overtaken,
                       inputs>>
        /\ effectDue' = (effectDue \/ Renders)
    BY DEF AppendAnswered
  <1>3. recording \in Recordings
    BY <1>2 DEF IInv, TypesInv
  <1>4. effectDue' \in BOOLEAN /\ (effectDue => effectDue')
    BY <1>2 DEF IInv, TypesInv, Renders
  <1>5. recorded' \in {recorded, recorded \cup {recording}}
    BY <1>1
  <1>6. TypesInv'
    BY <1>2, <1>3, <1>4, <1>5 DEF IInv, TypesInv, Evaluations
  <1>7. CountInv'
    <2>1. Pending = 1 /\ Pending' = 0
      BY <1>2 DEF Pending
    <2>2. IsFiniteSet(recorded) /\ Cardinality(recorded) + Pending <= inputs
          /\ Cardinality(recorded) \in Nat /\ inputs \in Nat
      BY FS_CardinalityType DEF IInv, CountInv, TypesInv
    <2>3. /\ IsFiniteSet(recorded \cup {recording})
          /\ Cardinality(recorded \cup {recording}) \in {Cardinality(recorded),
                                                         Cardinality(recorded) + 1}
      BY <2>2, FS_AddElement
    <2>4. QED
      BY <1>2, <1>5, <2>1, <2>2, <2>3 DEF CountInv
  <1>8. Looking' <=> Looking
    BY <1>2 DEF Looking
  <1>9. LookInv' /\ NothingInv'
    <2>1. selected # NoPeriod
      BY <1>2 DEF IInv, NothingInv
    <2>2. QED
      BY <1>2, <1>4, <1>8, <2>1 DEF IInv, LookInv, NothingInv
  <1>10. RecordInv'
    <2>1. /\ recording.sound /\ confirmed = NoReport
          /\ overtaken \/ (recording.report = evaluation.report /\ ~Looking)
          /\ \A e \in recorded : e.sound
      BY <1>2 DEF IInv, RecordInv
    <2>2. confirmed' # NoReport => ok /\ confirmed' = recording.report
      BY <1>1, <2>1 DEF ConfirmedAfter
    <2>3. ok => recording \in recorded'
      BY <1>1
    <2>4. \A e \in recorded' : e.sound
      BY <1>5, <2>1
    <2>5. QED
      BY <1>2, <1>8, <2>1, <2>2, <2>3, <2>4 DEF RecordInv
  <1>11. QED
    BY <1>6, <1>7, <1>9, <1>10 DEF IInv

(* The other selections of the user and of the route.                      *)
LEMMA SelectKeeps ==
    ASSUME IInv, SelectPeriod \/ PeriodsLoaded
    PROVE  IInv'
  <1>1. /\ UNCHANGED <<clockIsStable, looks, loading, evaluation, recording, confirmed, recorded,
                       overtaken>>
        /\ inputs' \in {inputs, inputs + 1} /\ inputs' \in 0..MaxInputs /\ inputs \in Nat
    BY BoundsAssumption DEF SelectPeriod, PeriodsLoaded, Input, shown, IInv, TypesInv
  <1>2. /\ selected' = selected \/ effectDue'
        /\ selected = NoPeriod <=> selected' = NoPeriod
        /\ effectDue' \in BOOLEAN /\ (effectDue => effectDue')
        /\ selected' \in Periods \cup {NoPeriod} /\ periods' \in {{}, Periods}
    <2>1. CASE SelectPeriod
      <3>1. PICK p \in periods \ {selected} : selected' = p
        BY <2>1 DEF SelectPeriod
      <3>2. p \in Periods /\ p # NoPeriod
        BY PeriodsAssumption DEF IInv, TypesInv
      <3>3. QED
        BY <2>1, <3>1, <3>2 DEF SelectPeriod, IInv, TypesInv
    <2>2. CASE PeriodsLoaded
      BY <2>2 DEF PeriodsLoaded, IInv, TypesInv
    <2>3. QED
      BY <2>1, <2>2
  <1>3. TypesInv'
    BY <1>1, <1>2 DEF IInv, TypesInv, Evaluations
  <1>4. CountInv'
    <2>1. Pending' = Pending /\ Pending \in Nat
      BY <1>1 DEF Pending
    <2>2. IsFiniteSet(recorded) /\ Cardinality(recorded) + Pending <= inputs
          /\ Cardinality(recorded) \in Nat
      BY FS_CardinalityType DEF IInv, CountInv
    <2>3. QED
      BY <1>1, <2>1, <2>2 DEF CountInv
  <1>5. Looking' <=> Looking
    BY <1>1 DEF Looking
  <1>6. LookInv' /\ NothingInv' /\ RecordInv'
    BY <1>1, <1>2, <1>5 DEF IInv, LookInv, NothingInv, RecordInv
  <1>7. QED
    BY <1>3, <1>4, <1>6 DEF IInv

(* The invariant holds in every reachable state, for any number of periods *)
(* and looks and any pair of forms.                                        *)
THEOREM Inductive == Spec => []IInv
  <1>1. IInv /\ [Next]_vars => IInv'
    <2> SUFFICES ASSUME IInv, [Next]_vars PROVE IInv'
      OBVIOUS
    <2>1. CASE RunEffect
      <3>1. effectDue' \in BOOLEAN
        BY <2>1 DEF RunEffect, Renders
      <3>2. inputs' = inputs /\ inputs \in 0..MaxInputs
        BY <2>1 DEF RunEffect, IInv, TypesInv
      <3>3. inputs' >= inputs
        BY <3>2
      <3>4. QED
        BY <2>1, <3>1, <3>2, <3>3, EvaluateKeeps DEF RunEffect
    <2>2. CASE LookAgain
      <3>1. effectDue' \in BOOLEAN
        BY <2>2 DEF LookAgain, Renders
      <3>2. inputs' = inputs + 1 /\ inputs < MaxInputs /\ inputs \in 0..MaxInputs
        BY <2>2 DEF LookAgain, Input, IInv, TypesInv
      <3>3. inputs' >= inputs /\ inputs' \in 0..MaxInputs
        BY <3>2, BoundsAssumption
      <3>4. QED
        BY <2>2, <3>1, <3>3, EvaluateKeeps DEF LookAgain
    <2>3. CASE UNCHANGED vars
      BY <2>3 DEF vars, IInv, TypesInv, CountInv, Pending, LookInv, NothingInv, RecordInv,
                  Looking, Evaluations
    <2>4. CASE \E l \in looks : ReadEEA2(l) \/ ReadEEA4(l) \/ FetchRejects(l)
      BY <2>4, ReadEEA2Keeps, ReadEEA4Keeps, FetchRejectsKeeps
    <2>5. QED
      BY <2>1, <2>2, <2>3, <2>4, PrepareKeeps, AppendKeeps, SelectKeeps DEF Next, Idle
  <1>2. QED
    BY <1>1, InitHolds, PTL DEF Spec

(* The page shows the newest look at the selected period, however the      *)
(* fetches of earlier looks end.                                           *)
THEOREM Newest == Spec => []ShownIsNewest
  <1>1. IInv => ShownIsNewest
    BY DEF IInv, LookInv, ShownIsNewest
  <1>2. QED
    BY <1>1, Inductive, PTL

(* The gate of the page lets through what may be submitted; what it        *)
(* confirms is an event that was appended, of such a bundle, and is what   *)
(* the screen shows, unless a look was under way.                          *)
THEOREM Confirms == Spec => []ConfirmsWhatIsShown
  <1>1. IInv => ConfirmsWhatIsShown
    <2> SUFFICES ASSUME IInv PROVE ConfirmsWhatIsShown
      OBVIOUS
    <2>1. evaluation # NoEvaluation =>
            /\ evaluation.sound <=> evaluation.result.ready
            /\ evaluation.sound <=> evaluation.result.reason = "ready"
            /\ evaluation.sound <=> DeriveBundleBlockers(evaluation.result) = {}
      BY EvaluationIsExact DEF IInv, TypesInv
    <2>2. QED
      BY <2>1 DEF IInv, RecordInv, ConfirmsWhatIsShown
  <1>2. QED
    BY <1>1, Inductive, PTL
=============================================================================
