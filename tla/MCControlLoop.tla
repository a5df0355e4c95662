---------------------------- MODULE MCControlLoop ----------------------------
(***************************************************************************)
(* Instances of ControlLoop for TLC: periods and cooldowns of a few steps. *)
(***************************************************************************)
EXTENDS ControlLoop

OneSignal == {"observation_ood"}

=============================================================================
