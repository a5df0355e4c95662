------------------------------ MODULE MCRelease ------------------------------
(***************************************************************************)
(* Instances of Release for TLC: two columns observed and one foreign      *)
(* one give every kind of contract: the same, reordered, repeated, a part, *)
(* a superset, a replacement.                                              *)
(***************************************************************************)
EXTENDS Release

TwoColumns == <<"position", "error">>

=============================================================================
