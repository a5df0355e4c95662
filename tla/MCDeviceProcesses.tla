-------------------------- MODULE MCDeviceProcesses --------------------------
(***************************************************************************)
(* Instances of DeviceProcesses for TLC.                                   *)
(***************************************************************************)
EXTENDS DeviceProcesses

\* version 3 has a manifest this device cannot parse
AlienThird == [v \in 1..MaxVersion |-> IF v = 3 THEN "alien" ELSE "good"]
AnyBucket == [v \in 1..MaxVersion |-> 10]

=============================================================================
