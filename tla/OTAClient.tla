------------------------------ MODULE OTAClient ------------------------------
(***************************************************************************)
(* The device side of the down-link: class OTAClient of                    *)
(* src/src/edge_runtime/ota.py, with the factory installation of           *)
(* DeviceAgent.install_local, which drives the same activation.            *)
(*                                                                         *)
(* One action is one durable effect of the code (a save of state.json, a   *)
(* rename, a repointed symlink), because a power cut can fall between any  *)
(* two of them.  `job' is the program point inside poll(), rollback() or   *)
(* install_local(); it and `mem' are lost in a restart.                    *)
(*                                                                         *)
(* The release server is left completely free here: whatever pointer and   *)
(* whatever archive the device reads is a parameter of Check and of Stage. *)
(* Module Downlink closes the system with the real publisher.              *)
(***************************************************************************)
EXTENDS Integers, Sequences, FiniteSets

CONSTANTS
  MaxVersion,    \* bound: releases are numbered 1..MaxVersion
  Kind,          \* what each release is, seen from this device (see Kinds)
  Factory,       \* the versions there are factory images of
  Bucket,        \* this device's salted rollout bucket for each version
  Percents,      \* the rollout percentages a pointer may carry
  MaxBuilds,     \* bound: archive contents are told apart by 1..MaxBuilds
  Window,        \* recent_rollbacks looks at this many records (10)
  MaxRollbacks,  \* MAX_ROLLBACKS (3)
  Faults,        \* which faults may happen (see FaultKinds)
  Operator       \* what a person may do to the device (see Commands)

Versions == 1..MaxVersion
Shas == 1..MaxBuilds
Missing == 0        \* no such archive: a 404, or no such file
Torn == -1          \* an archive that is only partly written
Contents == Shas \cup {Missing, Torn}

(* good: runs here.  refused: verify() raises BundleError here (signature, *)
(* schema, a file hash).  alien: verify() raises something else, because   *)
(* the manifest of a newer schema does not parse here.  unfit: the health  *)
(* gate says no.  raising: the gate itself raises, as warmup() does when   *)
(* the layers do not fit.                                                  *)
Kinds == {"good", "refused", "alien", "unfit", "raising"}
(* net: the download fails.  host: this machine fails the process outside  *)
(* a save, with an OSError (a full disk, say) or for lack of memory.       *)
(* slow: a good release misses its deadlines.  save: writing state.json    *)
(* fails.  crash: power cut or kill.                                       *)
FaultKinds == {"net", "host", "slow", "save", "crash"}
Commands == {"rollback", "unfreeze", "clear", "reinstall"}

ASSUME MaxVersionAssumption == MaxVersion \in Nat \ {0}
ASSUME KindAssumption == Kind \in [Versions -> Kinds]
ASSUME FactoryAssumption == Factory \subseteq Versions
ASSUME BucketAssumption == Bucket \in [Versions -> 0..99]
ASSUME PercentsAssumption == Percents \subseteq 0..100
ASSUME MaxBuildsAssumption == MaxBuilds \in Nat \ {0}
ASSUME WindowAssumption == Window \in Nat \ {0}
ASSUME MaxRollbacksAssumption == MaxRollbacks \in Nat \ {0}
ASSUME FaultsAssumption == Faults \subseteq FaultKinds
ASSUME OperatorAssumption == Operator \subseteq Commands

VARIABLES
  disk,     \* state.json as a reboot would read it
  mem,      \* OTAClient.state of the running process
  bundle,   \* bundles/<version>: absent, partial or whole
  link,     \* the version `current' points at, 0 when there is no link
  job       \* where the running process is, and in which version's update

vars == <<disk, mem, bundle, link, job>>

-----------------------------------------------------------------------------
(* The persistent state.  previous_version None is 0.  A quarantine reason *)
(* is reduced to who condemned the version; the history to its last Window *)
(* entries, and an entry to whether it is a rollback: recent_rollbacks     *)
(* sees nothing else.                                                      *)

Verdicts == {"none", "staging", "gate", "rollback"}
Records == {"rolled_back", "other"}

DeviceState ==
  [ current_version : 0..MaxVersion,
    previous_version : 0..MaxVersion,
    quarantined : [Versions -> Verdicts],
    history : Seq(Records),
    updates_frozen : BOOLEAN ]

Fresh ==
  [ current_version |-> 0,
    previous_version |-> 0,
    quarantined |-> [v \in Versions |-> "none"],
    history |-> <<>>,
    updates_frozen |-> FALSE ]

Pointers == [version : Versions, percent : Percents, sha : Shas]

(* Program points.  fetch..commit belong to poll() (copy..commit to        *)
(* install_local()), point_back..freeze to rollback().                     *)
Points == {"idle", "fetch", "place", "staged", "copy", "gate", "rejected",
           "point", "commit", "point_back", "commit_back", "freeze"}

Idle == [at |-> "idle", version |-> 0, sha |-> 0]
At(point) == [job EXCEPT !.at = point]

(* [deviation] the history is never trimmed                                *)
LatestUntrimmed(h) == h

Latest(h) == IF Len(h) > Window THEN Tail(h) ELSE h

(* _record: append to the history, keeping the part that is ever read.     *)
Recorded(s, action) == [s EXCEPT !.history = Latest(Append(@, action))]

RecentRollbacks(s) ==
  Cardinality({i \in DOMAIN s.history : s.history[i] = "rolled_back"})

Condemned(s, v, why) == [s EXCEPT !.quarantined[v] = why]

Activated(s, v) ==
  Recorded([s EXCEPT !.previous_version = s.current_version,
                     !.current_version = v], "other")

(* [deviation] the version left becomes the spare, as it does in an update *)
RevertedSwapping(s) ==
  Recorded([s EXCEPT !.previous_version = s.current_version,
                     !.current_version = s.previous_version], "rolled_back")

Reverted(s) ==
  Recorded([s EXCEPT !.previous_version = 0,
                     !.current_version = s.previous_version], "rolled_back")

(* [deviation] off by one: the budget is exceeded, not exhausted           *)
OverBudgetLate(s) == RecentRollbacks(s) > MaxRollbacks

OverBudget(s) == RecentRollbacks(s) >= MaxRollbacks

(* _save_state: state.json is replaced atomically, or the write fails and  *)
(* the exception leaves the operation with the new state in memory only.   *)
Save(s, next) ==
  /\ mem' = s
  /\ \/ disk' = s /\ job' = next
     \/ "save" \in Faults /\ disk' = disk /\ job' = Idle

-----------------------------------------------------------------------------
(* poll(): check, stage, gate, activate.                                   *)

(* in_rollout(device_id, version, rollout_percent)                         *)
InRollout(v, percent) ==
  \/ percent >= 100
  \/ percent > 0 /\ Bucket[v] < percent

(* [deviation] the running version counts as a candidate                   *)
CandidateNotOlder(p) ==
  /\ ~mem.updates_frozen
  /\ p.version >= mem.current_version
  /\ mem.quarantined[p.version] = "none"
  /\ InRollout(p.version, p.percent)

(* [deviation] whatever is published is a candidate, older versions too    *)
CandidateDifferent(p) ==
  /\ ~mem.updates_frozen
  /\ p.version # mem.current_version
  /\ mem.quarantined[p.version] = "none"
  /\ InRollout(p.version, p.percent)

(* [deviation] the quarantine is not consulted                             *)
CandidateQuarantined(p) ==
  /\ ~mem.updates_frozen
  /\ p.version > mem.current_version
  /\ InRollout(p.version, p.percent)

(* [deviation] the freeze is not consulted                                 *)
CandidateFrozen(p) ==
  /\ p.version > mem.current_version
  /\ mem.quarantined[p.version] = "none"
  /\ InRollout(p.version, p.percent)

(* [deviation] versions are taken one after the other                      *)
CandidateSuccessor(p) ==
  /\ ~mem.updates_frozen
  /\ p.version = mem.current_version + 1
  /\ mem.quarantined[p.version] = "none"
  /\ InRollout(p.version, p.percent)

(* check() returns the pointer p                                           *)
Candidate(p) ==
  /\ ~mem.updates_frozen
  /\ p.version > mem.current_version
  /\ mem.quarantined[p.version] = "none"
  /\ InRollout(p.version, p.percent)

Check(p) ==
  /\ job = Idle
  /\ Candidate(p)
  /\ job' = [at |-> "fetch", version |-> p.version, sha |-> p.sha]
  /\ UNCHANGED <<disk, mem, bundle, link>>

(* verify() returns                                                        *)
Verifies(v) == Kind[v] \notin {"refused", "alien"}

(* the archive is there, is the one the pointer names, and verifies        *)
Genuine(content) == content = job.sha /\ Verifies(job.version)

(* stage(): fetch, hash, unpack, verify in a scratch directory             *)
StageVerified(content) ==
  /\ job.at = "fetch"
  /\ Genuine(content)
  /\ job' = At("place")
  /\ UNCHANGED <<disk, mem, bundle, link>>

(* stage(): OTAError or BundleError.  Every failed download is one, and    *)
(* HttpReleaseSource.fetch makes one of a full disk of this host, too.     *)
StageRefused(content) ==
  /\ job.at = "fetch"
  /\ \/ Faults \cap {"net", "host"} # {}
     \/ content # job.sha
     \/ Kind[job.version] = "refused"
  /\ Save(Condemned(mem, job.version, "staging"), Idle)
  /\ UNCHANGED <<bundle, link>>

(* stage(): any other exception goes through to poll(), which drops it     *)
StageRaises(content) ==
  /\ job.at = "fetch"
  /\ content = job.sha /\ Kind[job.version] = "alien"
  /\ job' = Idle
  /\ UNCHANGED <<disk, mem, bundle, link>>

(* stage(): dest exists and rmtree begins on it; the first unlink is       *)
(* enough for it to be no bundle any more                                  *)
RemoveOld ==
  /\ job.at = "place"
  /\ bundle[job.version] = "whole"
  /\ bundle' = [bundle EXCEPT ![job.version] = "partial"]
  /\ UNCHANGED <<disk, mem, link, job>>

FinishRemove ==
  /\ job.at = "place"
  /\ bundle[job.version] = "partial"
  /\ bundle' = [bundle EXCEPT ![job.version] = "absent"]
  /\ UNCHANGED <<disk, mem, link, job>>

(* stage(): shutil.move of the verified directory, one rename              *)
MoveIntoPlace ==
  /\ job.at = "place"
  /\ bundle[job.version] = "absent"
  /\ bundle' = [bundle EXCEPT ![job.version] = "whole"]
  /\ job' = At("staged")
  /\ UNCHANGED <<disk, mem, link>>

RecordStaged ==
  /\ job.at = "staged"
  /\ Save(Recorded(mem, "other"), At("gate"))
  /\ UNCHANGED <<bundle, link>>

(* activate(): verify again, then health_check                             *)
GatePasses ==
  /\ job.at = "gate"
  /\ bundle[job.version] = "whole"
  /\ Kind[job.version] = "good"
  /\ job' = At("point")
  /\ UNCHANGED <<disk, mem, bundle, link>>

(* health_check(): the verdict is about the release, or about a good one   *)
(* that misses its deadlines, cannot be loaded for another reason than an  *)
(* OSError, or fails a probe step for want of memory                       *)
Unhealthy(v) ==
  \/ Kind[v] = "unfit"
  \/ Kind[v] = "good" /\ Faults \cap {"slow", "host"} # {}

(* [deviation] a rejection is recorded but the version is not quarantined  *)
GateRejectsForgetting ==
  /\ job.at = "gate"
  /\ bundle[job.version] = "whole"
  /\ Unhealthy(job.version)
  /\ job' = At("rejected")
  /\ UNCHANGED <<disk, mem, bundle, link>>

GateRejects ==
  /\ job.at = "gate"
  /\ bundle[job.version] = "whole"
  /\ Unhealthy(job.version)
  /\ Save(Condemned(mem, job.version, "gate"), At("rejected"))
  /\ UNCHANGED <<bundle, link>>

RecordRejected ==
  /\ job.at = "rejected"
  /\ Save(Recorded(mem, "other"), Idle)
  /\ UNCHANGED <<bundle, link>>

(* activate() raises: the directory is no bundle, or warmup raised         *)
GateRaises ==
  /\ job.at = "gate"
  /\ bundle[job.version] # "whole" \/ Kind[job.version] = "raising"
  /\ job' = Idle
  /\ UNCHANGED <<disk, mem, bundle, link>>

PointCurrent ==
  /\ job.at = "point"
  /\ link' = job.version
  /\ job' = At("commit")
  /\ UNCHANGED <<disk, mem, bundle>>

CommitActivation ==
  /\ job.at = "commit"
  /\ Save(Activated(mem, job.version), Idle)
  /\ UNCHANGED <<bundle, link>>

-----------------------------------------------------------------------------
(* rollback(), unfreeze() and install_local(), each called between polls.  *)

Rollback ==
  /\ "rollback" \in Operator
  /\ job = Idle
  /\ mem.previous_version # 0
  /\ Save(Condemned(mem, mem.current_version, "rollback"),
          [at |-> "point_back", version |-> mem.current_version, sha |-> 0])
  /\ UNCHANGED <<bundle, link>>

(* [deviation] rollback() changes state.json only                          *)
PointBackForgotten ==
  /\ job.at = "point_back"
  /\ job' = At("commit_back")
  /\ UNCHANGED <<disk, mem, bundle, link>>

PointBack ==
  /\ job.at = "point_back"
  /\ link' = mem.previous_version
  /\ job' = At("commit_back")
  /\ UNCHANGED <<disk, mem, bundle>>

CommitBack ==
  /\ job.at = "commit_back"
  /\ Save(Reverted(mem), IF OverBudget(Reverted(mem)) THEN At("freeze") ELSE Idle)
  /\ UNCHANGED <<bundle, link>>

Freeze ==
  /\ job.at = "freeze"
  /\ Save([mem EXCEPT !.updates_frozen = TRUE], Idle)
  /\ UNCHANGED <<bundle, link>>

Unfreeze(clear) ==
  /\ "unfreeze" \in Operator
  /\ clear => "clear" \in Operator
  /\ job = Idle
  /\ Save([mem EXCEPT !.updates_frozen = FALSE,
                      !.quarantined = IF clear THEN Fresh.quarantined ELSE @],
          Idle)
  /\ UNCHANGED <<bundle, link>>

(* install_local(): the source directory verifies; it is copied only when  *)
(* there is no directory of that version yet                               *)
Install(v) ==
  /\ job = Idle
  /\ mem.current_version = 0 \/ "reinstall" \in Operator
  /\ Verifies(v)
  /\ bundle' = [bundle EXCEPT ![v] = IF @ = "absent" THEN "partial" ELSE @]
  /\ job' = [at |-> IF bundle[v] = "absent" THEN "copy" ELSE "gate",
             version |-> v, sha |-> 0]
  /\ UNCHANGED <<disk, mem, link>>

FinishCopy ==
  /\ job.at = "copy"
  /\ bundle' = [bundle EXCEPT ![job.version] = "whole"]
  /\ job' = At("gate")
  /\ UNCHANGED <<disk, mem, link>>

-----------------------------------------------------------------------------
(* Faults of the machine.                                                  *)

(* an exception of this host that is neither OTAError nor BundleError in   *)
(* stage(), or that the gate turns into an OTAError because it is an       *)
(* OSError: nothing is quarantined, the operation ends.  (While fetching   *)
(* and in the gate the same fault may do harm: StageRefused, GateRejects.) *)
HostFault ==
  /\ "host" \in Faults
  /\ job.at \in {"fetch", "place", "copy", "gate", "point", "point_back"}
  /\ job' = Idle
  /\ UNCHANGED <<disk, mem, bundle, link>>

(* power cut, or the process dies: the constructor reads state.json        *)
Restart ==
  /\ "crash" \in Faults
  /\ mem' = disk
  /\ job' = Idle
  /\ UNCHANGED <<disk, bundle, link>>

-----------------------------------------------------------------------------
Init ==
  /\ disk = Fresh
  /\ mem = Fresh
  /\ bundle = [v \in Versions |-> "absent"]
  /\ link = 0
  /\ job = Idle

(* what the update and rollback code does by itself once it has started    *)
UpdateStep ==
  \/ RemoveOld \/ FinishRemove \/ MoveIntoPlace \/ RecordStaged
  \/ GatePasses \/ GateRejects \/ RecordRejected \/ GateRaises
  \/ PointCurrent \/ CommitActivation
  \/ PointBack \/ CommitBack \/ Freeze \/ FinishCopy

OperatorStep ==
  \/ Rollback
  \/ \E clear \in BOOLEAN : Unfreeze(clear)
  \/ \E v \in Factory : Install(v)

FaultStep == HostFault \/ Restart

LocalStep == UpdateStep \/ OperatorStep \/ FaultStep

Next ==
  \/ LocalStep
  \/ \E p \in Pointers : Check(p)
  \/ \E content \in Contents :
       StageVerified(content) \/ StageRefused(content) \/ StageRaises(content)

Spec == Init /\ [][Next]_vars

-----------------------------------------------------------------------------
(* Properties.                                                             *)

Jobs == [at : Points, version : 0..MaxVersion, sha : 0..MaxBuilds]

Typed(s) == s \in DeviceState /\ Len(s.history) <= Window

(* The type of every variable; the history never outgrows the part of it   *)
(* that recent_rollbacks reads.                                            *)
TypeOK ==
  /\ Typed(disk)
  /\ Typed(mem)
  /\ bundle \in [Versions -> {"absent", "partial", "whole"}]
  /\ link \in 0..MaxVersion
  /\ job \in Jobs

(* v can be loaded: its directory is complete and it passed the gate here. *)
Runnable(v) == bundle[v] = "whole" /\ Kind[v] = "good"

(* A device that loses power at any point of an update, a rollback or an   *)
(* installation boots: the version state.json names is a complete bundle   *)
(* that passed this device's gate.  It is what DeviceAgent loads when it   *)
(* starts, and stage() deletes directories on the way.                     *)
BootsGated == disk.current_version # 0 => Runnable(disk.current_version)

(* Rollback always has something to land on: the previous bundle is kept,  *)
(* complete, and was gated here, although rollback() itself never looks.   *)
SpareReady == disk.previous_version # 0 => Runnable(disk.previous_version)

(* When no update or rollback is between its repoint and its save, the     *)
(* symlink and state.json name the same version.                           *)
LinkFollowsState ==
  job.at \notin {"commit", "commit_back"} => link = disk.current_version

(* A version the operator rolled back is neither running nor kept as the   *)
(* version to return to, except while that very rollback is under way.     *)
RolledBackStaysOff ==
  job.at \notin {"point_back", "commit_back"} =>
    \A v \in {disk.current_version, disk.previous_version} \ {0} :
      disk.quarantined[v] # "rollback"

(* Quarantine means something: apart from the factory image and from a     *)
(* rollback, no step makes a quarantined version the running one.          *)
QuarantineHolds ==
  [][\A v \in Versions :
       /\ disk.current_version \notin {0, v}
       /\ disk.previous_version # v
       /\ disk.quarantined[v] # "none"
       => disk'.current_version # v]_vars

(* A device that has frozen its updates stays on its version or goes back, *)
(* however far an update had come when the freeze fell.                    *)
FrozenStandsStill ==
  [][disk.updates_frozen => disk'.current_version <= disk.current_version]_vars

(* The rollback that exhausts the budget leaves the device frozen.         *)
BudgetFreezes ==
  [][/\ job.at \in {"commit_back", "freeze"}
     /\ job'.at = "idle"
     /\ RecentRollbacks(disk') >= MaxRollbacks
     => disk'.updates_frozen]_vars

(* No version is downloaded a second time once it has been staged: it was  *)
(* adopted, or the gate condemned it.                                      *)
StagedOnlyOnce ==
  [][job'.at = "fetch" /\ job.at = "idle" => bundle[job'.version] = "absent"]_vars

(* What a reboot would find changes only as the abstract lifecycle allows. *)
Lifecycle ==
  INSTANCE UpdateLifecycle
    WITH current <- disk.current_version,
         previous <- disk.previous_version,
         condemned <- {v \in Versions : disk.quarantined[v] # "none"},
         frozen <- disk.updates_frozen

ImplementsLifecycle == Lifecycle!Spec

-----------------------------------------------------------------------------
(* Why a staged update never destroys what the device runs or keeps.       *)

(* In memory or on the disk, the versions of a state can be loaded and the *)
(* spare is the older one.                                                 *)
Sound(s) ==
  /\ s.current_version # 0 => Runnable(s.current_version)
  /\ s.previous_version # 0 => Runnable(s.previous_version)
  /\ s.previous_version = 0 \/ s.previous_version < s.current_version

(* A failed save leaves the disk behind the memory, but not arbitrarily:   *)
(* what the disk still names is not newer than what runs, or is condemned. *)
DiskLags ==
  /\ disk.previous_version <= mem.current_version
  /\ mem.current_version = 0 => disk.current_version = 0
  /\ \/ disk.current_version <= mem.current_version
     \/ mem.quarantined[disk.current_version] # "none"

(* What the program point implies about the version being worked on.       *)
JobConsistent ==
  /\ job.at \in {"fetch", "place", "staged", "copy", "gate", "point", "commit"}
       => job.version \in Versions /\ job.version > mem.current_version
  /\ job.at \in {"fetch", "place"} => mem.quarantined[job.version] = "none"
  /\ job.at \in {"point", "commit"} => Runnable(job.version)
  /\ job.at \in {"point_back", "commit_back"} =>
       /\ disk = mem
       /\ mem.previous_version # 0
       /\ mem.quarantined[mem.current_version] # "none"

(* The inductive strengthening of BootsGated and SpareReady: a version     *)
(* being staged is neither of the two that the memory or the disk names,   *)
(* even when saving the state has failed before.                           *)
UpdateInvariant == Sound(disk) /\ Sound(mem) /\ DiskLags /\ JobConsistent

(* Why quarantine and freeze mean something although a save may fail: the  *)
(* memory forgets no verdict of the disk, an update only goes on from a    *)
(* version that is free of them, and nothing that a frozen disk does not   *)
(* know yet runs or is about to.                                           *)
VerdictsKept ==
  /\ \A v \in Versions : disk.quarantined[v] # "none" => mem.quarantined[v] # "none"
  /\ mem.updates_frozen => mem.current_version # 0
  /\ disk.updates_frozen => /\ disk.current_version # 0
                            /\ mem.current_version <= disk.current_version
  /\ \/ disk.current_version = 0
     \/ mem.current_version \in {disk.current_version, disk.previous_version}
     \/ disk.quarantined[mem.current_version] = "none"

JobUnobjected ==
  /\ job.at \in {"fetch", "place", "staged", "copy", "gate", "point", "commit"} =>
       /\ ~mem.updates_frozen
       /\ mem.current_version = 0 \/ mem.quarantined[job.version] = "none"
  /\ job.at \in {"copy", "gate", "point", "commit"} => ~disk.updates_frozen
  /\ job.at = "freeze" => mem.current_version # 0 /\ mem.previous_version = 0

VerdictInvariant == VerdictsKept /\ JobUnobjected

(* Both together are inductive: what is known of the bundles, and of what  *)
(* the device has been told to keep away from, at every point at which a   *)
(* power cut or a failed save can leave an update.                         *)
DeviceInvariant == UpdateInvariant /\ VerdictInvariant

=============================================================================
