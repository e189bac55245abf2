---------------------------- MODULE Eea2Lifecycle ----------------------------
(***************************************************************************)
(* What the EEA2 routes promise about the lifecycle of one form, with every *)
(* request taking effect in one step: a status, the trail of decisions      *)
(* about it and the notifications a rejection sends.                        *)
(*                                                                         *)
(* With Strict the guards of the handlers hold at the moment the request    *)
(* takes effect.  Without it only the coupling is promised: a status never  *)
(* becomes signed, and a rejection never takes effect, except in the very   *)
(* step that records the decision and its notifications.                    *)
(***************************************************************************)
EXTENDS Sequences

CONSTANTS
    Requests, Managers,
    Strict              \* TRUE: requests take effect one at a time

VARIABLES status, trail, notes

lifecycle == <<status, trail, notes>>

Open == {"draft", "pending_ceo", "submitted"}

Init ==
    /\ status \in {"absent"} \cup Open
    /\ trail = <<>>
    /\ notes = {}

Create ==
    /\ status = "absent"
    /\ status' = "draft"
    /\ UNCHANGED <<trail, notes>>

Edit ==
    /\ status # "absent"
    /\ Strict => status # "signed"
    /\ status' \in Open
    /\ UNCHANGED <<trail, notes>>

Sign(r) ==
    /\ status # "absent"
    /\ Strict => status # "signed"
    /\ status' = "signed"
    /\ trail' = Append(trail, [type |-> "EEA2_SIGNED", by |-> r])
    /\ UNCHANGED notes

Reject(r) ==
    /\ status # "absent"
    /\ Strict => status = "pending_ceo"
    /\ status' = "draft"
    /\ trail' = Append(trail, [type |-> "EEA2_REJECTED", by |-> r])
    /\ notes' = notes \cup (Managers \X {r})

Next == Create \/ Edit \/ \E r \in Requests : Sign(r) \/ Reject(r)

Spec == Init /\ [][Next]_lifecycle
=============================================================================
