--------------------------- MODULE MCTouchSelection ---------------------------
(* Up to three devices, some of which always verify the user; and one device  *)
(* with every set of features it could report, for every request.             *)
EXTENDS TouchSelection

TwoKinds == {Feature \ {"alwaysUv"}, Feature}
TouchRecovery == [op |-> "evaluate", policy |-> "presence"]

Cases ==
    [features : UNION {[1..n -> TwoKinds] : n \in 0..3}, request : {TouchRecovery}]
    \cup [features : [1..1 -> SUBSET Feature], request : Request]
=============================================================================
