---------------------------- MODULE MCEea2Wizard ----------------------------
(***************************************************************************)
(* Instances of Eea2Wizard for TLC: the three sections that depend on each  *)
(* other or load data, and the review.                                      *)
(***************************************************************************)
EXTENDS Eea2Wizard

MCStepIds == <<"section-b", "section-c1", "section-c2", "review">>
=============================================================================
