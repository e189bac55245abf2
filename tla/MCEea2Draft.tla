---------------------------- MODULE MCEea2Draft ----------------------------
(***************************************************************************)
(* Instances of Eea2Draft for TLC, with the lifecycle it implements.        *)
(***************************************************************************)
EXTENDS Eea2Refinement, TLC

\* Requests, keys and managers are interchangeable.  Not used with liveness.
Symmetry == Permutations(Requests) \cup Permutations(Keys) \cup Permutations(Managers)
=============================================================================
