--------------------------- MODULE UpdateLifecycle ---------------------------
(***************************************************************************)
(* What the down-link promises about a device, whatever happens to it in   *)
(* between: the four facts a reboot finds in state.json, and the only ways *)
(* they may change.  Downloads, gates, symlinks, crashes and program       *)
(* points are not here; module OTAClient is shown to implement this one.   *)
(***************************************************************************)
EXTENDS Integers

CONSTANT MaxVersion

VARIABLES
  current,      \* the version the device runs, 0 before the first one
  previous,     \* the version a rollback returns to, 0 when there is none
  condemned,    \* the versions in quarantine
  frozen        \* the device has stopped updating itself

lifecycle == <<current, previous, condemned, frozen>>

Init ==
  /\ current = 0
  /\ previous = 0
  /\ condemned = {}
  /\ frozen = FALSE

(* The first version comes from the factory image, which asks nobody.      *)
FirstVersion(v) ==
  /\ current = 0
  /\ current' = v
  /\ UNCHANGED <<previous, condemned, frozen>>

(* Afterwards only a newer version that is not in quarantine is adopted,   *)
(* never on a frozen device, and the old version becomes the spare.        *)
Adopt(v) ==
  /\ ~frozen
  /\ v > current
  /\ v \notin condemned
  /\ current' = v
  /\ previous' = current
  /\ UNCHANGED <<condemned, frozen>>

(* Only a candidate is condemned, or the running version when there is     *)
(* another one to go back to.                                              *)
Condemn(v) ==
  /\ v > current \/ (v = current /\ previous # 0)
  /\ condemned' = condemned \cup {v}
  /\ UNCHANGED <<current, previous, frozen>>

(* A device leaves a version backwards only after condemning it, and has   *)
(* then no spare: two rollbacks never follow each other.                   *)
Revert ==
  /\ previous # 0
  /\ current \in condemned
  /\ current' = previous
  /\ previous' = 0
  /\ UNCHANGED <<condemned, frozen>>

(* Freezing follows a rollback.                                            *)
Freeze ==
  /\ current # 0
  /\ previous = 0
  /\ frozen' = TRUE
  /\ UNCHANGED <<current, previous, condemned>>

(* Only a person lifts the freeze or the quarantine.                       *)
Unfreeze ==
  /\ frozen' = FALSE
  /\ condemned' \in {condemned, {}}
  /\ UNCHANGED <<current, previous>>

Next ==
  \/ \E v \in 1..MaxVersion : FirstVersion(v) \/ Adopt(v) \/ Condemn(v)
  \/ Revert
  \/ Freeze
  \/ Unfreeze

Spec == Init /\ [][Next]_lifecycle

=============================================================================
