------------------------------- MODULE MCUplink ------------------------------
(***************************************************************************)
(* Instances of Uplink for TLC.                                            *)
(***************************************************************************)
EXTENDS Uplink

AllIds == Ids

=============================================================================
