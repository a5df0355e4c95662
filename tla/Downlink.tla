------------------------------ MODULE Downlink -------------------------------
(***************************************************************************)
(* The down-link as a whole: one device (OTAClient) polling the releases   *)
(* directory that one publisher (Publisher) writes.  The two share only    *)
(* the pointer file and the archives, which the device reads in two        *)
(* separate requests: HttpReleaseSource and DirectoryReleaseSource.        *)
(***************************************************************************)
EXTENDS OTAClient

CONSTANT MaxPacks    \* bound: how often anything is packed

VARIABLES archive, pointer, publishing, builds

hub == <<archive, pointer, publishing, builds>>

Pub == INSTANCE Publisher

(* latest(): the pointer file as it is now; 404 when there is none         *)
CheckLatest ==
  /\ pointer # Pub!NoRelease
  /\ Check(pointer)

(* [deviation] the archive that the pointer names by now                   *)
FetchedLatest == archive[pointer.version]

(* fetch(): the archive as it is now, which may be another build than the  *)
(* one the pointer announced when it was read, or half written             *)
Fetched == archive[job.version]

PollStep ==
  \/ CheckLatest
  \/ StageVerified(Fetched) \/ StageRefused(Fetched) \/ StageRaises(Fetched)

DeviceStep == (PollStep \/ LocalStep) /\ UNCHANGED hub

HubStep == Pub!Next /\ UNCHANGED vars

DownlinkInit == Init /\ Pub!Init
DownlinkNext == DeviceStep \/ HubStep
downlinkVars == <<vars, hub>>

DownlinkSpec == DownlinkInit /\ [][DownlinkNext]_downlinkVars

(* The agent polls every ota_every control steps, and poll() runs to its   *)
(* end in the same call: each of its steps is eventually taken.  Nothing   *)
(* is assumed of the publisher, of the operator or of the faults.          *)
FairDownlinkSpec ==
  /\ DownlinkSpec
  /\ WF_downlinkVars(PollStep /\ UNCHANGED hub)
  /\ WF_downlinkVars(UpdateStep /\ UNCHANGED hub)

-----------------------------------------------------------------------------
(* Properties of the closed system.                                        *)

(* A device that polls in the middle of a publish, or after one that was   *)
(* interrupted, finds the old release or the new one: the pointer names a  *)
(* complete archive with the announced hash as long as the version it      *)
(* names is not packed again.                                              *)
PointerResolves == Pub!PointerResolves

(* Quarantine is evidence about the release: no version that this device   *)
(* could run is put in quarantine by staging or by the gate.               *)
QuarantineBlamesTheRelease ==
  \A v \in Versions :
    disk.quarantined[v] \in {"staging", "gate"} => Kind[v] # "good"

(* Without failures of download, machine and deadlines, one thing only     *)
(* makes a device condemn a release it could run: that this version was    *)
(* packed again.  However the polls fall between packing, pointing and the *)
(* publishing of others, and wherever publisher or device are interrupted. *)
CondemnedOnlyIfRepacked ==
  \A v \in Versions :
    disk.quarantined[v] \in {"staging", "gate"} => Kind[v] # "good" \/ builds[v] > 1

(* A good release that stays published to this device's cohort is adopted, *)
(* or something newer is, whatever was published before and however its    *)
(* rollout was widened.  What stands against it: a freeze, an operator who *)
(* rolled that very release back, and its being packed again while this    *)
(* device was fetching it.                                                 *)
Offered(v) ==
  /\ pointer.version = v
  /\ Kind[v] = "good"
  /\ InRollout(v, pointer.percent)

Withheld(v) ==
  \/ disk.updates_frozen
  \/ disk.quarantined[v] = "rollback"
  \/ disk.quarantined[v] = "staging" /\ builds[v] > 1

GoodReleaseAdopted ==
  \A v \in Versions :
    <>[]Offered(v) => []<>(disk.current_version >= v \/ Withheld(v))

=============================================================================
