--------------------------- MODULE MCAuditHistory ---------------------------
(***************************************************************************)
(* Instances of AuditHistory for TLC.                                       *)
(***************************************************************************)
EXTENDS AuditHistory
=============================================================================
