-------------------------- MODULE MCAutosaveQueue --------------------------
(***************************************************************************)
(* Instances of AutosaveQueue for TLC.  Liveness is checked with safety, so *)
(* no symmetry is used.                                                     *)
(***************************************************************************)
EXTENDS AutosaveQueue
=============================================================================
