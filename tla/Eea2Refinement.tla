---------------------------- MODULE Eea2Refinement ----------------------------
(***************************************************************************)
(* The handlers of Eea2Draft, step by step and interleaved, implement the   *)
(* atomic requests of Eea2Lifecycle; they implement its strict form when    *)
(* the pool lets only one transaction be open at a time.                    *)
(***************************************************************************)
EXTENDS Eea2Draft

\* The lifecycle does not speak of timestamps.
Entry(d) == [type |-> d.type, by |-> d.by]
Entries(s) == [i \in DOMAIN s |-> Entry(s[i])]
Trail == Entries(decisions)

Lifecycle == INSTANCE Eea2Lifecycle
                WITH status <- row.status, trail <- Trail, Strict <- (PoolSize = 1)

\* Every step of a handler is invisible at the level of the lifecycle except
\* the COMMIT, which is one whole request.
ImplementsLifecycle == Lifecycle!Spec
=============================================================================
