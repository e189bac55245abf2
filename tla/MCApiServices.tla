--------------------------- MODULE MCApiServices ---------------------------
(* ApiServices for TLC: two forms, a field and one below it, two jobs; an  *)
(* administrator and a user of the same tenant; two tenants and two        *)
(* signers.                                                                *)
EXTENDS ApiServices, TLC

MCPaths == {<<"c">>, <<"c", "top">>}
MCProvisioned ==
    ("admin" :> [tenant |-> "t1", role |-> "ADMIN"])
    @@ ("user" :> [tenant |-> "t1", role |-> "EE_MANAGER"])

\* Jobs and requests have the same names, since there are never both.
MCSymmetry ==
    {p @@ q @@ b : p \in Permutations(Jobs), q \in Permutations(Forms), b \in Permutations(BackupCodes)}
=============================================================================
