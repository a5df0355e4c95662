----------------------------- MODULE MCOTAClient -----------------------------
(***************************************************************************)
(* Instances of OTAClient for TLC: one assignment of kinds to versions per *)
(* question, small windows and budgets.                                    *)
(***************************************************************************)
EXTENDS OTAClient

GoodGoodGoodAlien == <<"good", "good", "good", "alien">>

(* version 2 reaches this device only with the full rollout                *)
LateBucket == [v \in Versions |-> IF v = 2 THEN 70 ELSE 10]

=============================================================================
