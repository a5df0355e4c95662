------------------------------ MODULE MCDownlink -----------------------------
(***************************************************************************)
(* Instances of Downlink for TLC.                                          *)
(***************************************************************************)
EXTENDS Downlink

GoodGood == <<"good", "good">>
GoodRefusedGood == <<"good", "refused", "good">>
MixedFive == <<"good", "alien", "good", "unfit", "good">>

(* every release reaches this device from 50% on, except the last one,     *)
(* which needs the full rollout                                            *)
LateLast == [v \in Versions |-> IF v = MaxVersion THEN 70 ELSE 10]

=============================================================================
