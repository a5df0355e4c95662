------------------------------ MODULE Publisher ------------------------------
(***************************************************************************)
(* The hub side of the down-link: publish() of ota.py and pack() of        *)
(* bundle.py, one operator at a time on one channel.                       *)
(*                                                                         *)
(* An archive's bytes are a build number: packing the same bundle twice    *)
(* gives different bytes, because gzip stamps the time, so a republished   *)
(* version has a new hash.  pack() writes the archive where it is served   *)
(* from; the pointer is replaced atomically.  Publishing a version again,  *)
(* to widen its rollout say, packs it again, under the pointer that still  *)
(* announces the former archive.                                           *)
(***************************************************************************)
EXTENDS Integers, Functions

CONSTANTS
  MaxVersion,    \* bound: versions 1..MaxVersion
  MaxBuilds,     \* bound: how often one version is packed
  MaxPacks,      \* bound: how often anything is packed
  Percents       \* the rollout percentages an operator chooses from

VARIABLES
  archive,       \* <version>.tar.gz: Missing, Torn, or the build it holds
  pointer,       \* <channel>.json
  publishing,    \* the publish() under way: program point, version, percent
  builds         \* how many times each version has been packed

publisherVars == <<archive, pointer, publishing, builds>>

Missing == 0
Torn == -1
NoRelease == [version |-> 0, percent |-> 0, sha |-> 0]
NotPublishing == [at |-> "idle", version |-> 0, percent |-> 0]

Init ==
  /\ archive = [v \in 1..MaxVersion |-> Missing]
  /\ pointer = NoRelease
  /\ publishing = NotPublishing
  /\ builds = [v \in 1..MaxVersion |-> 0]

(* pack() opens the archive for writing: what was there is gone            *)
BeginPack(v, percent) ==
  /\ publishing = NotPublishing
  /\ builds[v] < MaxBuilds /\ SumFunction(builds) < MaxPacks
  /\ builds' = [builds EXCEPT ![v] = @ + 1]
  /\ archive' = [archive EXCEPT ![v] = Torn]
  /\ publishing' = [at |-> "packing", version |-> v, percent |-> percent]
  /\ UNCHANGED pointer

EndPack ==
  /\ publishing.at = "packing"
  /\ archive' = [archive EXCEPT ![publishing.version] = builds[publishing.version]]
  /\ publishing' = [publishing EXCEPT !.at = "pointing"]
  /\ UNCHANGED <<pointer, builds>>

(* [deviation] the pointer is written before the archive is finished       *)
WritePointerFirst ==
  /\ publishing.at = "packing"
  /\ pointer' = [version |-> publishing.version,
                 percent |-> publishing.percent,
                 sha |-> archive[publishing.version]]
  /\ UNCHANGED <<archive, publishing, builds>>

(* write_atomically of the pointer, with the hash of the finished archive  *)
WritePointer ==
  /\ publishing.at = "pointing"
  /\ pointer' = [version |-> publishing.version,
                 percent |-> publishing.percent,
                 sha |-> archive[publishing.version]]
  /\ publishing' = NotPublishing
  /\ UNCHANGED <<archive, builds>>

(* the command is interrupted; what it wrote stays                         *)
PublisherDies ==
  /\ publishing # NotPublishing
  /\ publishing' = NotPublishing
  /\ UNCHANGED <<archive, pointer, builds>>

Next ==
  \/ \E v \in 1..MaxVersion, percent \in Percents : BeginPack(v, percent)
  \/ EndPack
  \/ WritePointer
  \/ PublisherDies

Spec == Init /\ [][Next]_publisherVars

(* What publish() promises, however it is interrupted: the pointer names   *)
(* an archive that is complete and has the bytes it announces, unless that *)
(* very version has been packed again since the pointer was written.       *)
PointerResolves ==
  pointer # NoRelease =>
    /\ pointer.sha \in 1..builds[pointer.version]
    /\ \/ archive[pointer.version] = pointer.sha
       \/ pointer.sha < builds[pointer.version]

=============================================================================
