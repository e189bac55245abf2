----------------------------- MODULE BundleGate -----------------------------
(***************************************************************************)
(* The submission gate of an EEA2 and an EEA4: the registry of cross-form  *)
(* rules, the engine that evaluates them and bundle-gate.ts, which turns   *)
(* the report into "ready", a reason and a list of blockers.               *)
(*                                                                         *)
(* A form is the wrapper the dashboard builds: identity, status and the    *)
(* values of the report that rules read.  A path with wildcards is a       *)
(* function on Cells (a level and a demographic key); Totals are the cells *)
(* whose key is "total", over which the rule with one wildcard goes.  What *)
(* a path does not lead to is Undefined.                                   *)
(***************************************************************************)
EXTENDS Integers, FiniteSets, Sequences

CONSTANTS Cells, Totals, Undefined, Absent

ASSUME CellsAssumption == Totals \subseteq Cells /\ Cells # {}
ASSUME UndefinedAssumption == Undefined # "signed"

(* What the paths of the rules lead to when the form is missing. *)
Blank == [id |-> Undefined, status |-> Undefined, reportStatus |-> Undefined,
          workforce |-> [c \in Cells |-> Undefined],
          disability |-> [c \in Cells |-> Undefined],
          targets |-> [c \in Totals |-> Undefined], sections |-> FALSE,
          linkedEEA2Id |-> Undefined,
          headcount |-> [c \in Cells |-> Undefined],
          highest |-> [c \in Cells |-> Undefined],
          lowest |-> [c \in Cells |-> Undefined], signature |-> FALSE]

View(form) == IF form = Absent THEN Blank ELSE form

Defined(v) == v # Undefined

(* Both the engine and the gate fall back on the status of the report. *)
ReadStatus(form) ==
    IF Defined(View(form).status) THEN View(form).status ELSE View(form).reportStatus

Equality(s, t) == Defined(s) /\ Defined(t) /\ s = t
Lte(s, t) == Defined(s) /\ Defined(t) /\ s <= t
Gte(s, t) == Lte(t, s)

(* A source without a value asks for nothing. *)
Triggered(s) == Defined(s)
LinkFails(s, t) == Triggered(s) /\ (~Defined(t) \/ s # t)

(***************************************************************************)
(* The registry in its order.  A rule that fans out passes if it passes in *)
(* every cell; meta is the result of the headcount rule, if it has run.    *)
(***************************************************************************)
Rules == << "headcount", "requiresEEA2", "disability", "targets", "highpaid",
            "eea2Ceo", "eea4Ceo", "bundleSigned" >>

Severity(rule) == IF rule = "targets" THEN "warning" ELSE "error"

Passes(rule, eea2, eea4, meta) ==
    CASE rule = "headcount" ->
           \A c \in Cells : Equality(eea2.workforce[c], eea4.headcount[c])
      [] rule = "requiresEEA2" -> ~LinkFails(eea4.linkedEEA2Id, eea2.id)
      [] rule = "disability" ->
           \A c \in Cells : Lte(eea2.disability[c], eea2.workforce[c])
      [] rule = "targets" ->
           \A c \in Totals : Defined(eea2.targets[c]) => Defined(eea2.workforce[c])
      [] rule = "highpaid" ->
           \A c \in Cells : Gte(eea4.highest[c], eea4.lowest[c])
      [] rule = "eea2Ceo" -> eea2.signature => eea2.sections
      [] rule = "eea4Ceo" -> eea4.signature => meta = TRUE
      [] rule = "bundleSigned" ->
           ReadStatus(eea2) = "signed" /\ ReadStatus(eea4) = "signed"

(* What the headcount rule has left in meta when rule i runs: its result, *)
(* if it has run before.                                                   *)
MetaAt(rules, i, eea2, eea4) ==
    IF \E j \in 1..(i - 1) : rules[j] = "headcount"
    THEN Passes("headcount", eea2, eea4, Undefined)
    ELSE Undefined

(* The rules that fail, each of them run with what is in meta by then. *)
EvaluateRules(rules, eea2, eea4) ==
    LET Fails(i) == ~Passes(rules[i], View(eea2), View(eea4),
                            MetaAt(rules, i, View(eea2), View(eea4)))
    IN {rules[i] : i \in {k \in DOMAIN rules : Fails(k)}}

(* The rules that lock the declaration of an EEA4. *)
DeclarationRules == << "headcount", "requiresEEA2", "highpaid", "eea4Ceo" >>

Errors(failed) == {rule \in failed : Severity(rule) = "error"}

DeriveReason(eea2Present, eea4Present, bothSigned, allPassed) ==
    CASE ~eea2Present /\ ~eea4Present -> "both-missing"
      [] ~eea2Present /\ eea4Present -> "eea2-missing"
      [] eea2Present /\ ~eea4Present -> "eea4-missing"
      [] eea2Present /\ eea4Present /\ ~bothSigned -> "not-signed"
      [] eea2Present /\ eea4Present /\ bothSigned /\ ~allPassed -> "rules-failed"
      [] OTHER -> "ready"

EvaluateBundleGate(eea2, eea4) ==
    LET failed == EvaluateRules(Rules, eea2, eea4)
        bothSigned == ReadStatus(eea2) = "signed" /\ ReadStatus(eea4) = "signed"
        allPassed == Errors(failed) = {}
    IN [failed |-> failed, bothSigned |-> bothSigned,
        ready |-> bothSigned /\ allPassed,
        reason |-> DeriveReason(eea2 # Absent, eea4 # Absent, bothSigned, allPassed),
        unsigned |-> {f \in {"EEA2", "EEA4"} :
                        ReadStatus(IF f = "EEA2" THEN eea2 ELSE eea4) # "signed"}]

(* The status rule is left to the blockers that name the unsigned forms. *)
DeriveBundleBlockers(result) ==
    (IF result.bothSigned THEN {} ELSE result.unsigned)
      \cup (Errors(result.failed) \ {"bundleSigned"})

(***************************************************************************)
(* What the registry's descriptions ask of a bundle, said of the two forms *)
(* instead of rule by rule.  The linkage is taken as the engine takes it:  *)
(* a link must not lead elsewhere, but there need not be one.              *)
(***************************************************************************)
LinkAgrees(eea2, eea4) == eea4.linkedEEA2Id \in {Undefined, eea2.id}

CellAgrees(eea2, eea4, c) ==
    /\ {eea2.workforce[c], eea2.disability[c], eea4.headcount[c],
        eea4.highest[c], eea4.lowest[c]} \cap {Undefined} = {}
    /\ eea2.disability[c] <= eea2.workforce[c]
    /\ eea2.workforce[c] = eea4.headcount[c]
    /\ eea4.lowest[c] <= eea4.highest[c]

Submittable(eea2, eea4) ==
    /\ Absent \notin {eea2, eea4}
    /\ \A f \in {eea2, eea4} : ReadStatus(f) = "signed"
    /\ LinkAgrees(eea2, eea4)
    /\ eea2.signature => eea2.sections
    /\ \A c \in Cells : CellAgrees(eea2, eea4, c)
=============================================================================
