----------------------------- MODULE MCEea1Page -----------------------------
(***************************************************************************)
(* Instances of Eea1Page for TLC.                                           *)
(***************************************************************************)
EXTENDS Eea1Page
=============================================================================
