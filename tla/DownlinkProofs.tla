---------------------------- MODULE DownlinkProofs ---------------------------
(***************************************************************************)
(* Proofs about the closed down-link, one publisher and one device: it is  *)
(* an instance of OTAClient, so that whatever is proved of a device and    *)
(* any server holds here; and what only this publisher makes true.         *)
(***************************************************************************)
EXTENDS Downlink, OTAClientCalm

(* The files of the releases directory, and where publish() is.            *)
HubTyped ==
  /\ archive \in [Versions -> Contents]
  /\ pointer \in Pointers \cup {Pub!NoRelease}
  /\ builds \in [Versions -> 0..MaxBuilds]
  /\ publishing \in [at : {"idle", "packing", "pointing"}, version : 0..MaxVersion,
                     percent : Percents \cup {0}]
  /\ publishing.at # "idle" => publishing.version \in Versions
                               /\ publishing.percent \in Percents
  /\ publishing.at = "packing" => /\ archive[publishing.version] = Torn
                                  /\ builds[publishing.version] > 0
  /\ publishing.at = "pointing" => archive[publishing.version] \in Shas
  /\ job.at = "fetch" => job.version \in Versions

LEMMA HubStarts == DownlinkInit => HubTyped
<1> SUFFICES ASSUME DownlinkInit PROVE HubTyped
  OBVIOUS
<1>1. /\ archive = [v \in Versions |-> 0] /\ pointer = Pub!NoRelease
      /\ builds = [v \in Versions |-> 0]
      /\ publishing = [at |-> "idle", version |-> 0, percent |-> 0]
      /\ job.at = "idle"
  BY DEF DownlinkInit, Pub!Init, Pub!Missing, Pub!NotPublishing, Init, Idle, Versions
<1>2. 0 \in Contents /\ 0 \in 0..MaxBuilds /\ 0 \in 0..MaxVersion
  BY MaxBuildsAssumption, MaxVersionAssumption DEF Contents, Missing
<1>3. archive \in [Versions -> Contents] /\ builds \in [Versions -> 0..MaxBuilds]
  BY <1>1, <1>2
<1>4. publishing \in [at : {"idle", "packing", "pointing"}, version : 0..MaxVersion,
                      percent : Percents \cup {0}]
  BY <1>1, <1>2
<1> QED BY <1>1, <1>3, <1>4 DEF HubTyped

(* Where a step of the device leaves a fetch.                              *)
LEMMA FetchStarts ==
  ASSUME TypeOK, DeviceStep, job'.at = "fetch"
  PROVE  \/ job' = job
         \/ /\ pointer # Pub!NoRelease
            /\ job'.version = pointer.version /\ job'.sha = pointer.sha
<1>1. job \in Jobs /\ Idle.at = "idle"
  BY DEF TypeOK, Idle
<1>2. \A point \in Points \ {"fetch"} : At(point).at # "fetch"
  BY <1>1 DEF At, Jobs
<1>3. CASE CheckLatest
  BY <1>3 DEF CheckLatest, Check
<1>4. ASSUME NEW s, NEW next, Save(s, next), next.at # "fetch"
      PROVE  FALSE
  BY <1>1, <1>4 DEF Save
<1>5. CASE StageVerified(Fetched) \/ StageRaises(Fetched)
  BY <1>1, <1>2, <1>5 DEF StageVerified, StageRaises, Points
<1>6. CASE StageRefused(Fetched)
  BY <1>1, <1>4, <1>6 DEF StageRefused
<1>7. CASE RemoveOld \/ FinishRemove \/ MoveIntoPlace \/ GatePasses \/ GateRaises
           \/ PointCurrent \/ PointBack \/ FinishCopy \/ HostFault \/ Restart
  BY <1>1, <1>2, <1>7
  DEF RemoveOld, FinishRemove, MoveIntoPlace, GatePasses, GateRaises, PointCurrent,
      PointBack, FinishCopy, HostFault, Restart, Points
<1>8. CASE RecordStaged \/ GateRejects \/ RecordRejected \/ CommitActivation
           \/ Freeze
  BY <1>1, <1>2, <1>4, <1>8
  DEF RecordStaged, GateRejects, RecordRejected, CommitActivation, Freeze, Points
<1>9. CASE CommitBack
  <2> DEFINE next == IF OverBudget(Reverted(mem)) THEN At("freeze") ELSE Idle
  <2>1. next.at # "fetch"
    BY <1>1, <1>2 DEF Points
  <2>2. Save(Reverted(mem), next)
    BY <1>9 DEF CommitBack
  <2> HIDE DEF next
  <2> QED BY <1>4, <2>1, <2>2
<1>10. CASE Rollback
  <2> DEFINE next == [at |-> "point_back", version |-> mem.current_version, sha |-> 0]
  <2>1. next.at # "fetch"
    OBVIOUS
  <2>2. Save(Condemned(mem, mem.current_version, "rollback"), next)
    BY <1>10 DEF Rollback
  <2> HIDE DEF next
  <2> QED BY <1>4, <2>1, <2>2
<1>11. ASSUME NEW clear \in BOOLEAN, Unfreeze(clear)
       PROVE  FALSE
  BY <1>1, <1>4, <1>11 DEF Unfreeze
<1>12. ASSUME NEW v \in Factory, Install(v)
       PROVE  FALSE
  BY <1>12 DEF Install
<1> QED
  BY <1>3, <1>5, <1>6, <1>7, <1>8, <1>9, <1>10, <1>11, <1>12
  DEF DeviceStep, PollStep, LocalStep, UpdateStep, OperatorStep, FaultStep

(* Every step of the device or of the publisher.                           *)
LEMMA HubSteps ==
  ASSUME TypeOK, HubTyped, [DownlinkNext]_downlinkVars
  PROVE  HubTyped'
<1>1. CASE UNCHANGED downlinkVars
  BY <1>1 DEF downlinkVars, vars, hub, HubTyped
<1>2. CASE DeviceStep
  <2>1. UNCHANGED <<archive, pointer, publishing, builds>>
    BY <1>2 DEF DeviceStep, hub
  <2>2. job'.at = "fetch" => job'.version \in Versions
    BY <1>2, FetchStarts DEF HubTyped, Pointers
  <2> QED BY <2>1, <2>2 DEF HubTyped
<1> USE DEF HubTyped
<1>3. ASSUME NEW v \in Versions, NEW percent \in Percents, Pub!BeginPack(v, percent),
             job' = job
      PROVE  HubTyped'
  <2>1. /\ builds' = [builds EXCEPT ![v] = @ + 1] /\ builds[v] < MaxBuilds
        /\ archive' = [archive EXCEPT ![v] = Torn]
        /\ publishing' = [at |-> "packing", version |-> v, percent |-> percent]
        /\ pointer' = pointer
    BY <1>3 DEF Pub!BeginPack, Pub!Torn, Torn
  <2>2. Torn \in Contents /\ v \in 0..MaxVersion
    BY DEF Contents, Versions
  <2>3. builds' \in [Versions -> 0..MaxBuilds] /\ builds'[v] > 0
    BY <2>1, MaxBuildsAssumption
  <2>4. archive' \in [Versions -> Contents] /\ archive'[v] = Torn
    BY <2>1, <2>2
  <2> QED BY <1>3, <2>1, <2>2, <2>3, <2>4
<1>4. CASE Pub!EndPack /\ job' = job
  <2> DEFINE v == publishing.version
  <2>1. /\ publishing.at = "packing" /\ v \in Versions
        /\ archive' = [archive EXCEPT ![v] = builds[v]]
        /\ publishing' = [publishing EXCEPT !.at = "pointing"]
        /\ UNCHANGED <<pointer, builds>>
    BY <1>4 DEF Pub!EndPack
  <2>2. builds[v] \in Shas
    BY <2>1, MaxBuildsAssumption DEF Shas
  <2>3. archive' \in [Versions -> Contents] /\ archive'[v] \in Shas
    BY <2>1, <2>2 DEF Contents
  <2>4. /\ publishing' \in [at : {"idle", "packing", "pointing"}, version : 0..MaxVersion,
                            percent : Percents \cup {0}]
        /\ publishing'.at = "pointing"
        /\ publishing'.version = v /\ publishing'.percent = publishing.percent
    BY <2>1
  <2> QED BY <1>4, <2>1, <2>3, <2>4
<1>5. CASE Pub!WritePointer /\ job' = job
  <2>1. /\ publishing.at = "pointing"
        /\ pointer' = [version |-> publishing.version, percent |-> publishing.percent,
                       sha |-> archive[publishing.version]]
        /\ publishing' = [at |-> "idle", version |-> 0, percent |-> 0]
        /\ UNCHANGED <<archive, builds>>
    BY <1>5 DEF Pub!WritePointer, Pub!NotPublishing
  <2>2. pointer' \in Pointers
    BY <2>1 DEF Pointers
  <2> QED BY <1>5, <2>1, <2>2, MaxVersionAssumption
<1>6. CASE Pub!PublisherDies /\ job' = job
  BY <1>6, MaxVersionAssumption DEF Pub!PublisherDies, Pub!NotPublishing
<1> QED
  BY <1>1, <1>2, <1>3, <1>4, <1>5, <1>6
  DEF DownlinkNext, HubStep, Pub!Next, vars, Versions


-----------------------------------------------------------------------------
(* The closed system is one of the device's instances.                     *)

LEMMA DownlinkStep ==
  ASSUME HubTyped, [DownlinkNext]_downlinkVars
  PROVE  [Next]_vars
<1>1. CASE CheckLatest
  BY <1>1 DEF CheckLatest, HubTyped, Next
<1>2. CASE StageVerified(Fetched) \/ StageRefused(Fetched) \/ StageRaises(Fetched)
  <2>1. job.at = "fetch"
    BY <1>2 DEF StageVerified, StageRefused, StageRaises
  <2>2. Fetched \in Contents
    BY <2>1 DEF HubTyped, Fetched
  <2> QED BY <1>2, <2>2 DEF Next
<1>3. CASE LocalStep
  BY <1>3 DEF Next
<1>4. CASE UNCHANGED vars
  BY <1>4
<1> QED
  BY <1>1, <1>2, <1>3, <1>4
  DEF DownlinkNext, DeviceStep, PollStep, HubStep, downlinkVars

(* Type correctness of both sides, and the refinement, together.           *)
LEMMA HubAlwaysTyped == DownlinkSpec => [](TypeOK /\ HubTyped)
<1>1. DownlinkInit => TypeOK /\ HubTyped
  BY HubStarts, InitTyped DEF DownlinkInit
<1>2. TypeOK /\ HubTyped /\ [DownlinkNext]_downlinkVars => (TypeOK /\ HubTyped)'
  BY HubSteps, DownlinkStep, NextTyped
<1> QED BY <1>1, <1>2, PTL DEF DownlinkSpec

(* The device alone, against any server at all, is what OTAClient models;  *)
(* the device polling this publisher is one of its instances.              *)
THEOREM DownlinkImplementsOTAClient == DownlinkSpec => Spec
<1>1. DownlinkInit => Init
  BY DEF DownlinkInit
<1>2. HubTyped /\ [DownlinkNext]_downlinkVars => [Next]_vars
  BY DownlinkStep
<1> QED BY <1>1, <1>2, HubAlwaysTyped, PTL DEF DownlinkSpec, Spec

(* So it always boots, whatever the publisher does and whenever it or the  *)
(* device is interrupted.                                                  *)
THEOREM DownlinkAlwaysBoots ==
  ASSUME Disciplined
  PROVE  DownlinkSpec => []BootsGated
<1> QED BY DownlinkImplementsOTAClient, AlwaysBoots, PTL

(* And its device follows the abstract lifecycle.                          *)
THEOREM DownlinkImplementsLifecycle ==
  ASSUME "save" \notin Faults, Disciplined
  PROVE  DownlinkSpec => ImplementsLifecycle
<1> QED BY DownlinkImplementsOTAClient, DeviceImplementsLifecycle, PTL

(* And while nothing fails, link and state.json agree, what was rolled     *)
(* back stays off, the budget freezes and nothing is fetched twice: for    *)
(* any series of releases, rollouts, rollbacks and packings.               *)
THEOREM DownlinkCalm ==
  ASSUME Disciplined, "clear" \notin Operator,
         "save" \notin Faults, "crash" \notin Faults, "host" \notin Faults,
         \A v \in Versions : Kind[v] # "raising"
  PROVE  DownlinkSpec => /\ []LinkFollowsState /\ []RolledBackStaysOff
                         /\ BudgetFreezes /\ StagedOnlyOnce
<1> QED BY DownlinkImplementsOTAClient, LinkAlwaysFollows, RolledBackAlwaysOff,
           BudgetAlwaysFreezes, AlwaysStagedOnce, PTL

-----------------------------------------------------------------------------
(* What a pointer announces.                                               *)

(* An announcement stands as long as its version is not packed again.      *)
Resolves(v, sha) ==
  /\ sha \in 1..builds[v]
  /\ archive[v] = sha \/ sha < builds[v]

(* That holds of the pointer as it is and of the one a device has read     *)
(* before; and what is about to be announced has just been packed.         *)
Announced ==
  /\ pointer # Pub!NoRelease => Resolves(pointer.version, pointer.sha)
  /\ job.at = "fetch" => Resolves(job.version, job.sha)
  /\ publishing.at = "pointing" =>
       archive[publishing.version] = builds[publishing.version]

(* Packing takes an announcement from an archive only as a later build.    *)
LEMMA PackingKeepsAnnouncements ==
  ASSUME HubTyped, HubTyped',
         NEW v \in Versions, NEW sha, Resolves(v, sha),
         \/ UNCHANGED <<archive, builds>>
         \/ \E w \in Versions :
              \/ /\ builds' = [builds EXCEPT ![w] = @ + 1]
                 /\ archive' = [archive EXCEPT ![w] = Torn]
              \/ /\ builds' = builds /\ archive[w] = Torn
                 /\ archive' = [archive EXCEPT ![w] = builds[w]]
  PROVE  Resolves(v, sha)'
<1>1. /\ archive \in [Versions -> Contents] /\ builds[v] \in Int
      /\ builds \in [Versions -> 0..MaxBuilds]
      /\ sha \in 1..builds[v] /\ (archive[v] = sha \/ sha < builds[v])
      /\ Torn = -1
  BY DEF HubTyped, Resolves, Torn
<1>2. CASE UNCHANGED <<archive, builds>>
  BY <1>1, <1>2 DEF Resolves
<1>3. ASSUME NEW w \in Versions,
             builds' = [builds EXCEPT ![w] = @ + 1],
             archive' = [archive EXCEPT ![w] = Torn]
      PROVE  Resolves(v, sha)'
  <2>1. CASE v = w
    BY <1>1, <1>3, <2>1 DEF Resolves
  <2>2. CASE v # w
    BY <1>1, <1>3, <2>2 DEF Resolves
  <2> QED BY <2>1, <2>2
<1>4. ASSUME NEW w \in Versions, builds' = builds, archive[w] = Torn,
             archive' = [archive EXCEPT ![w] = builds[w]]
      PROVE  Resolves(v, sha)'
  <2>1. CASE v = w
    BY <1>1, <1>4, <2>1 DEF Resolves
  <2>2. CASE v # w
    BY <1>1, <1>4, <2>2 DEF Resolves
  <2> QED BY <2>1, <2>2
<1> QED BY <1>2, <1>3, <1>4

LEMMA AnnouncedSteps ==
  ASSUME TypeOK, HubTyped, HubTyped', Announced, [DownlinkNext]_downlinkVars
  PROVE  Announced'
<1> DEFINE Packing ==
      \/ UNCHANGED <<archive, builds>>
      \/ \E w \in Versions :
           \/ /\ builds' = [builds EXCEPT ![w] = @ + 1]
              /\ archive' = [archive EXCEPT ![w] = Torn]
           \/ /\ builds' = builds /\ archive[w] = Torn
              /\ archive' = [archive EXCEPT ![w] = builds[w]]
<1>1. /\ pointer # Pub!NoRelease =>
           /\ pointer.version \in Versions
           /\ Resolves(pointer.version, pointer.sha)
      /\ job.at = "fetch" => job.version \in Versions /\ Resolves(job.version, job.sha)
  BY DEF HubTyped, Announced, Pointers
<1>2. ASSUME pointer' = pointer, job' = job, Packing,
             publishing'.at = "pointing" =>
               archive'[publishing'.version] = builds'[publishing'.version]
      PROVE  Announced'
  <2>1. \A v \in Versions : \A sha : Resolves(v, sha) => Resolves(v, sha)'
    BY <1>2, PackingKeepsAnnouncements
  <2>2. pointer' # Pub!NoRelease => Resolves(pointer.version, pointer.sha)'
    BY <1>1, <1>2, <2>1 DEF Resolves
  <2>3. job'.at = "fetch" => Resolves(job.version, job.sha)'
    BY <1>1, <1>2, <2>1 DEF Resolves
  <2> QED BY <1>2, <2>2, <2>3 DEF Announced
<1>3. CASE UNCHANGED downlinkVars
  BY <1>2, <1>3 DEF downlinkVars, vars, hub, Announced
<1>4. CASE DeviceStep
  <2>1. UNCHANGED <<archive, pointer, publishing, builds>>
    BY <1>4 DEF DeviceStep, hub
  <2>2. job'.at = "fetch" =>
          \/ job' = job
          \/ /\ pointer # Pub!NoRelease
             /\ job'.version = pointer.version /\ job'.sha = pointer.sha
    BY <1>4, FetchStarts
  <2> QED BY <1>1, <2>1, <2>2 DEF Announced, Resolves
<1>5. ASSUME NEW v \in Versions, NEW percent \in Percents, Pub!BeginPack(v, percent),
             job' = job
      PROVE  Announced'
  <2>1. /\ builds' = [builds EXCEPT ![v] = @ + 1]
        /\ archive' = [archive EXCEPT ![v] = Torn]
        /\ pointer' = pointer /\ publishing'.at = "packing"
    BY <1>5 DEF Pub!BeginPack, Pub!Torn, Torn
  <2> QED BY <1>2, <1>5, <2>1
<1>6. CASE Pub!EndPack /\ job' = job
  <2>1. /\ archive[publishing.version] = Torn /\ publishing.version \in Versions
        /\ archive' = [archive EXCEPT ![publishing.version] = builds[publishing.version]]
        /\ UNCHANGED <<pointer, builds>>
        /\ publishing'.version = publishing.version
        /\ archive \in [Versions -> Contents]
    BY <1>6 DEF Pub!EndPack, HubTyped
  <2>2. archive'[publishing.version] = builds[publishing.version]
    BY <2>1
  <2> QED BY <1>2, <1>6, <2>1, <2>2
<1>7. CASE Pub!WritePointer /\ job' = job
  <2>1. /\ pointer' = [version |-> publishing.version, percent |-> publishing.percent,
                       sha |-> archive[publishing.version]]
        /\ publishing'.at = "idle"
        /\ archive[publishing.version] = builds[publishing.version]
        /\ archive[publishing.version] \in Shas
        /\ UNCHANGED <<archive, builds>>
    BY <1>7 DEF Pub!WritePointer, Pub!NotPublishing, Announced, HubTyped
  <2>2. Resolves(pointer.version, pointer.sha)'
    BY <2>1, MaxBuildsAssumption DEF Resolves, Shas
  <2> QED BY <1>1, <1>7, <2>1, <2>2 DEF Announced, Resolves
<1>8. CASE Pub!PublisherDies /\ job' = job
  BY <1>2, <1>8 DEF Pub!PublisherDies, Pub!NotPublishing
<1> QED
  BY <1>3, <1>4, <1>5, <1>6, <1>7, <1>8
  DEF DownlinkNext, HubStep, Pub!Next, vars, Versions

LEMMA AlwaysAnnounced == DownlinkSpec => []Announced
<1>1. DownlinkInit => Announced
  BY DEF DownlinkInit, Pub!Init, Pub!NotPublishing, Init, Idle, Announced
<1>2. TypeOK /\ HubTyped /\ Announced /\ [DownlinkNext]_downlinkVars => Announced'
  BY HubSteps, AnnouncedSteps
<1> QED BY <1>1, <1>2, HubAlwaysTyped, PTL DEF DownlinkSpec

(* Whoever polls, whenever, finds the archive the pointer announces, or a  *)
(* version that is being or has been packed again.                         *)
THEOREM PointerAlwaysResolves == DownlinkSpec => []PointerResolves
<1>1. Announced => PointerResolves
  BY DEF Announced, Resolves, PointerResolves, Pub!PointerResolves
<1> QED BY <1>1, AlwaysAnnounced, PTL

-----------------------------------------------------------------------------
(* What a device condemns.                                                 *)

Blameless(s) ==
  \A v \in Versions :
    s.quarantined[v] \in {"staging", "gate"} => Kind[v] # "good" \/ builds[v] > 1

(* Condemning a version is just if an operator does it, if the version     *)
(* does not run here, or if it was packed again.                           *)
LEMMA CondemnedBlameless ==
  ASSUME NEW s, Typed(s), Blameless(s), NEW v, NEW why \in Verdicts,
         why = "rollback" \/ Kind[v] # "good" \/ builds[v] > 1
  PROVE  Blameless(Condemned(s, v, why))
<1>1. s.quarantined \in [Versions -> Verdicts]
  BY DEF Typed, DeviceState
<1>2. Condemned(s, v, why).quarantined = [s.quarantined EXCEPT ![v] = why]
  BY DEF Condemned, Typed, DeviceState
<1> QED BY <1>1, <1>2 DEF Blameless

LEMMA BlamelessDeviceSteps ==
  ASSUME "net" \notin Faults, "slow" \notin Faults, "host" \notin Faults,
         TypeOK, HubTyped, Announced, Blameless(mem), Blameless(disk),
         DeviceStep
  PROVE  Blameless(mem)' /\ Blameless(disk)'
<1>1. /\ Typed(mem) /\ Typed(disk)
      /\ job.version \in 0..MaxVersion
      /\ mem.current_version \in 0..MaxVersion
      /\ "other" \in Records
      /\ {"staging", "gate", "rollback"} \subseteq Verdicts
      /\ builds' = builds
  BY DEF TypeOK, Typed, DeviceState, Jobs, Records, Verdicts, DeviceStep, hub
<1>2. ASSUME NEW s, NEW next, Save(s, next), Blameless(s)
      PROVE  Blameless(mem)' /\ Blameless(disk)'
  BY <1>1, <1>2 DEF Save, Blameless
<1>3. ASSUME mem' \in {mem, disk}, disk' = disk
      PROVE  Blameless(mem)' /\ Blameless(disk)'
  BY <1>1, <1>3 DEF Blameless
<1>4. ASSUME NEW s, s.quarantined = mem.quarantined
      PROVE  Blameless(s)
  BY <1>4 DEF Blameless
<1>6. CASE CheckLatest \/ StageVerified(Fetched) \/ StageRaises(Fetched)
           \/ RemoveOld \/ FinishRemove \/ MoveIntoPlace \/ GatePasses \/ GateRaises
           \/ PointCurrent \/ PointBack \/ FinishCopy \/ HostFault \/ Restart
  BY <1>3, <1>6
  DEF CheckLatest, Check, StageVerified, StageRaises, RemoveOld, FinishRemove,
      MoveIntoPlace, GatePasses, GateRaises, PointCurrent, PointBack, FinishCopy,
      HostFault, Restart
<1>7. CASE StageRefused(Fetched)
  <2>1. Kind[job.version] # "good" \/ builds[job.version] > 1
    <3>1. /\ Kind[job.version] = "refused" \/ archive[job.version] # job.sha
          /\ Resolves(job.version, job.sha) /\ job.version \in Versions
      BY <1>7 DEF StageRefused, Fetched, Announced, HubTyped
    <3>2. builds[job.version] \in Int
      BY <3>1 DEF HubTyped
    <3> QED BY <3>1, <3>2 DEF Resolves
  <2>2. Blameless(Condemned(mem, job.version, "staging"))
    BY <1>1, <2>1, CondemnedBlameless
  <2> QED BY <1>2, <1>7, <2>2 DEF StageRefused
<1>8. CASE GateRejects
  <2>1. Kind[job.version] # "good"
    BY <1>8 DEF GateRejects, Unhealthy
  <2>2. Blameless(Condemned(mem, job.version, "gate"))
    BY <1>1, <2>1, CondemnedBlameless
  <2> QED BY <1>2, <1>8, <2>2 DEF GateRejects
<1>9. CASE Rollback
  <2>1. Blameless(Condemned(mem, mem.current_version, "rollback"))
    BY <1>1, CondemnedBlameless
  <2> QED BY <1>2, <1>9, <2>1 DEF Rollback
<1>10. CASE RecordStaged \/ RecordRejected
  <2>1. Blameless(Recorded(mem, "other"))
    BY <1>1, <1>4, RecordedKeeps
  <2> QED BY <1>2, <1>10, <2>1 DEF RecordStaged, RecordRejected
<1>11. CASE CommitActivation
  <2>1. Blameless(Activated(mem, job.version))
    BY <1>1, <1>4, StateChanges
  <2> QED BY <1>2, <1>11, <2>1 DEF CommitActivation
<1>12. CASE CommitBack
  <2>1. Blameless(Reverted(mem))
    BY <1>1, <1>4, StateChanges
  <2> QED BY <1>2, <1>12, <2>1 DEF CommitBack
<1>13. CASE Freeze
  <2>1. [mem EXCEPT !.updates_frozen = TRUE].quarantined = mem.quarantined
    BY <1>1 DEF Typed, DeviceState
  <2>2. Blameless([mem EXCEPT !.updates_frozen = TRUE])
    BY <2>1 DEF Blameless
  <2> QED BY <1>2, <1>13, <2>2 DEF Freeze
<1>14. ASSUME NEW clear \in BOOLEAN, Unfreeze(clear)
       PROVE  Blameless(mem)' /\ Blameless(disk)'
  <2> DEFINE q == IF clear THEN Fresh.quarantined ELSE mem.quarantined
             s == [mem EXCEPT !.updates_frozen = FALSE, !.quarantined = q]
  <2>1. Save(s, Idle)
    BY <1>14 DEF Unfreeze
  <2>2. s.quarantined = q
    BY <1>1 DEF Typed, DeviceState
  <2>3. \A v \in Versions :
          q[v] \in {"staging", "gate"} => Kind[v] # "good" \/ builds[v] > 1
    BY DEF Blameless, Fresh
  <2> HIDE DEF q, s
  <2>4. Blameless(s)
    BY <2>2, <2>3 DEF Blameless
  <2> QED BY <1>2, <2>1, <2>4
<1>15. ASSUME NEW v \in Factory, Install(v)
       PROVE  Blameless(mem)' /\ Blameless(disk)'
  BY <1>3, <1>15 DEF Install
<1> QED
  BY <1>6, <1>7, <1>8, <1>9, <1>10, <1>11, <1>12, <1>13, <1>14, <1>15
  DEF DeviceStep, PollStep, LocalStep, UpdateStep, OperatorStep, FaultStep

(* No publisher takes a packing back.                                      *)
LEMMA PacksOnlyGrow ==
  ASSUME HubTyped, HubStep
  PROVE  \A v \in Versions : builds'[v] >= builds[v]
<1>1. \A v \in Versions : builds[v] \in Int
  BY DEF HubTyped
<1>2. ASSUME NEW v \in Versions, NEW percent \in Percents, Pub!BeginPack(v, percent)
      PROVE  \A w \in Versions : builds'[w] >= builds[w]
  BY <1>1, <1>2 DEF Pub!BeginPack, HubTyped
<1>3. CASE builds' = builds
  BY <1>1, <1>3
<1> QED
  BY <1>2, <1>3
  DEF HubStep, Pub!Next, Pub!EndPack, Pub!WritePointer, Pub!PublisherDies, Versions

(* Without failures of download, machine and deadlines no device condemns  *)
(* a release it could run, unless that version was packed again.           *)
THEOREM AlwaysCondemnedOnlyIfRepacked ==
  ASSUME "net" \notin Faults, "slow" \notin Faults, "host" \notin Faults
  PROVE  DownlinkSpec => []CondemnedOnlyIfRepacked
<1>1. DownlinkInit => Blameless(mem) /\ Blameless(disk)
  BY DEF DownlinkInit, Init, Fresh, Blameless
<1>2. /\ TypeOK /\ HubTyped /\ Announced
      /\ Blameless(mem) /\ Blameless(disk)
      /\ [DownlinkNext]_downlinkVars
      => Blameless(mem)' /\ Blameless(disk)'
  <2> SUFFICES ASSUME TypeOK, HubTyped, Announced, Blameless(mem), Blameless(disk),
                      [DownlinkNext]_downlinkVars
               PROVE  Blameless(mem)' /\ Blameless(disk)'
    OBVIOUS
  <2>1. CASE DeviceStep
    BY <2>1, BlamelessDeviceSteps
  <2>2. CASE HubStep
    <3>1. \A v \in Versions : builds'[v] >= builds[v] /\ builds[v] \in Int
                              /\ builds'[v] \in Int
      BY <2>2, HubSteps, PacksOnlyGrow DEF HubTyped
    <3>2. mem' = mem /\ disk' = disk
      BY <2>2 DEF HubStep, vars
    <3> QED BY <3>1, <3>2 DEF Blameless
  <2>3. CASE UNCHANGED downlinkVars
    BY <2>3 DEF downlinkVars, vars, hub, Blameless
  <2> QED BY <2>1, <2>2, <2>3 DEF DownlinkNext
<1>3. Blameless(disk) => CondemnedOnlyIfRepacked
  BY DEF Blameless, CondemnedOnlyIfRepacked
<1> QED BY <1>1, <1>2, <1>3, HubAlwaysTyped, AlwaysAnnounced, PTL DEF DownlinkSpec

=============================================================================
