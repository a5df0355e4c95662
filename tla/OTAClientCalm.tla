---------------------------- MODULE OTAClientCalm ----------------------------
(***************************************************************************)
(* What holds of a device on which nothing fails, whatever its server      *)
(* offers: the symlink, the rolled back versions, the rollback budget and  *)
(* the archives already staged.  Each theorem names the faults it excludes *)
(* or the instances it is about; README.md shows the failures behind them. *)
(***************************************************************************)
EXTENDS OTAClientLifecycle

(* Without faults a save is a save, in memory and on the disk.             *)
LEMMA CalmSave ==
  ASSUME "save" \notin Faults, NEW s, NEW next, Save(s, next)
  PROVE  mem' = s /\ disk' = s /\ job' = next
BY DEF Save

LEMMA PointsReached ==
  ASSUME TypeOK
  PROVE  /\ Idle.at = "idle" /\ Idle.version = 0
         /\ \A point \in Points : At(point).at = point /\ At(point).version = job.version
BY DEF TypeOK, Idle, At, Jobs

-----------------------------------------------------------------------------
(* The symlink.                                                            *)

LinkInvariant ==
  /\ LinkFollowsState
  /\ job.at = "commit" => link = job.version
  /\ job.at = "commit_back" => link = mem.previous_version

LEMMA LinkKept ==
  ASSUME "save" \notin Faults, "crash" \notin Faults, mem = disk, TypeOK, LinkInvariant,
         [Next]_vars
  PROVE  LinkInvariant'
<1>1. /\ Typed(mem) /\ job.version \in 0..MaxVersion
      /\ mem.current_version \in 0..MaxVersion
      /\ job.at \in Points
      /\ Idle.at = "idle"
      /\ \A point \in Points : At(point).at = point /\ At(point).version = job.version
  BY PointsReached DEF TypeOK, Typed, DeviceState, Jobs
<1> USE <1>1 DEF LinkInvariant, LinkFollowsState, Points
<1>2. ASSUME NEW s, NEW next, Save(s, next), link' = link,
             s.current_version = mem.current_version,
             job.at \notin {"commit", "commit_back"},
             next.at \notin {"commit", "commit_back"}
      PROVE  LinkInvariant'
  BY <1>2, CalmSave
<1>3. CASE UNCHANGED vars
  BY <1>3 DEF vars
<1>4. ASSUME \/ \E p \in Pointers : Check(p)
             \/ \E content \in Contents : StageVerified(content) \/ StageRaises(content)
             \/ \E v \in Factory : Install(v)
             \/ RemoveOld \/ FinishRemove \/ MoveIntoPlace \/ GatePasses \/ GateRaises
             \/ FinishCopy \/ HostFault \/ PointCurrent \/ PointBack
      PROVE  LinkInvariant'
  BY <1>4
  DEF Check, StageVerified, StageRaises, Install, RemoveOld, FinishRemove, MoveIntoPlace,
      GatePasses, GateRaises, FinishCopy, HostFault, PointCurrent, PointBack
<1>5. ASSUME NEW content, StageRefused(content)
      PROVE  LinkInvariant'
  <2>1. Condemned(mem, job.version, "staging").current_version = mem.current_version
    BY CondemnedKeeps DEF Verdicts
  <2> QED BY <1>2, <1>5, <2>1 DEF StageRefused
<1>6. CASE GateRejects
  <2>1. Condemned(mem, job.version, "gate").current_version = mem.current_version
    BY CondemnedKeeps DEF Verdicts
  <2> QED BY <1>2, <1>6, <2>1 DEF GateRejects
<1>7. CASE RecordStaged \/ RecordRejected
  <2>1. Recorded(mem, "other").current_version = mem.current_version
    BY RecordedKeeps DEF Records
  <2> QED BY <1>2, <1>7, <2>1 DEF RecordStaged, RecordRejected
<1>8. CASE CommitActivation
  <2>1. Activated(mem, job.version).current_version = job.version
    BY StateChanges
  <2> QED BY <1>8, <2>1, CalmSave DEF CommitActivation
<1>9. CASE Rollback
  <2> DEFINE s == Condemned(mem, mem.current_version, "rollback")
             next == [at |-> "point_back", version |-> mem.current_version, sha |-> 0]
  <2>1. s.current_version = mem.current_version
    BY CondemnedKeeps DEF Verdicts
  <2>2. Save(s, next) /\ job = Idle /\ link' = link /\ next.at = "point_back"
    BY <1>9 DEF Rollback
  <2> HIDE DEF s, next
  <2> QED BY <1>2, <2>1, <2>2
<1>10. CASE CommitBack
  <2> DEFINE s == Reverted(mem)
             next == IF OverBudget(s) THEN At("freeze") ELSE Idle
  <2>1. s.current_version = mem.previous_version
    BY StateChanges
  <2>2. /\ Save(s, next) /\ job.at = "commit_back" /\ link' = link
        /\ next.at \in {"freeze", "idle"}
    BY <1>10 DEF CommitBack
  <2> HIDE DEF s, next
  <2> QED BY <2>1, <2>2, CalmSave
<1>11. CASE Freeze
  <2>1. [mem EXCEPT !.updates_frozen = TRUE].current_version = mem.current_version
    BY DEF Typed, DeviceState
  <2> QED BY <1>2, <1>11, <2>1 DEF Freeze
<1>12. ASSUME NEW clear \in BOOLEAN, Unfreeze(clear)
       PROVE  LinkInvariant'
  <2> DEFINE s == [mem EXCEPT !.updates_frozen = FALSE,
                              !.quarantined = IF clear THEN Fresh.quarantined ELSE @]
  <2>1. s.current_version = mem.current_version
    BY DEF Typed, DeviceState
  <2>2. Save(s, Idle) /\ job = Idle /\ link' = link
    BY <1>12 DEF Unfreeze
  <2> HIDE DEF s
  <2> QED BY <1>2, <2>1, <2>2
<1>13. ~Restart
  BY DEF Restart
<1> QED
  BY <1>3, <1>4, <1>5, <1>6, <1>7, <1>8, <1>9, <1>10, <1>11, <1>12, <1>13
  DEF Next, LocalStep, UpdateStep, OperatorStep, FaultStep

(* Between two operations the symlink and state.json name one version, as  *)
(* long as no crash and no failed save comes between its repoint and its   *)
(* save.                                                                   *)
THEOREM LinkAlwaysFollows ==
  ASSUME "save" \notin Faults, "crash" \notin Faults
  PROVE  Spec => []LinkFollowsState
<1>1. Init => LinkInvariant
  BY DEF Init, Fresh, Idle, LinkInvariant, LinkFollowsState
<1>2. mem = disk /\ TypeOK /\ LinkInvariant /\ [Next]_vars => LinkInvariant'
  BY LinkKept
<1>3. LinkInvariant => LinkFollowsState
  BY DEF LinkInvariant
<1> QED BY <1>1, <1>2, <1>3, MemoryIsSaved, TypeCorrect, PTL DEF Spec


-----------------------------------------------------------------------------
(* The version an operator rolled back.                                    *)

(* Nothing is rolled back before the first version runs; a rollback never  *)
(* condemns the version it goes back to.                                   *)
RolledBackInvariant ==
  /\ RolledBackStaysOff
  /\ mem.current_version = 0 =>
       \A v \in Versions : mem.quarantined[v] # "rollback"
  /\ mem.previous_version # 0 => mem.quarantined[mem.previous_version] # "rollback"

LEMMA RolledBackKept ==
  ASSUME Disciplined, "save" \notin Faults, "crash" \notin Faults, "host" \notin Faults,
         mem = disk, TypeOK, UpdateInvariant, VerdictInvariant, RolledBackInvariant,
         [Next]_vars
  PROVE  RolledBackInvariant'
<1>1. /\ Typed(mem) /\ job.version \in 0..MaxVersion
      /\ mem.current_version \in 0..MaxVersion
      /\ mem.previous_version \in 0..MaxVersion
      /\ mem.quarantined \in [Versions -> Verdicts]
      /\ Versions = 1..MaxVersion /\ MaxVersion \in Nat \ {0}
      /\ job.at \in Points
      /\ Idle.at = "idle"
      /\ \A point \in Points : At(point).at = point /\ At(point).version = job.version
  BY PointsReached, MaxVersionAssumption DEF TypeOK, Typed, DeviceState, Jobs, Versions
<1>2. mem.previous_version = 0 \/ mem.previous_version < mem.current_version
  BY DEF UpdateInvariant, Sound
<1> USE <1>1, <1>2 DEF RolledBackInvariant, RolledBackStaysOff, Points
<1>3. ASSUME NEW s, NEW next, Save(s, next),
             s.current_version = mem.current_version,
             s.previous_version = mem.previous_version,
             \A v \in Versions : s.quarantined[v] = "rollback"
                                   => mem.quarantined[v] = "rollback",
             job.at \notin {"point_back", "commit_back"}
      PROVE  RolledBackInvariant'
  BY <1>3, CalmSave
<1>4. CASE UNCHANGED vars
  BY <1>4 DEF vars
<1>5. ASSUME \/ \E p \in Pointers : Check(p)
             \/ \E content \in Contents : StageVerified(content) \/ StageRaises(content)
             \/ \E v \in Factory : Install(v)
             \/ RemoveOld \/ FinishRemove \/ MoveIntoPlace \/ GatePasses \/ GateRaises
             \/ FinishCopy \/ PointCurrent \/ PointBack
      PROVE  RolledBackInvariant'
  BY <1>5
  DEF Check, StageVerified, StageRaises, Install, RemoveOld, FinishRemove, MoveIntoPlace,
      GatePasses, GateRaises, FinishCopy, PointCurrent, PointBack
<1>6. ASSUME NEW v \in 0..MaxVersion, NEW why \in {"staging", "gate"}
      PROVE  LET s == Condemned(mem, v, why)
             IN  /\ s.current_version = mem.current_version
                 /\ s.previous_version = mem.previous_version
                 /\ \A w \in Versions : s.quarantined[w] = "rollback"
                                           => mem.quarantined[w] = "rollback"
  <2> DEFINE s == Condemned(mem, v, why)
  <2>1. /\ s.current_version = mem.current_version
        /\ s.previous_version = mem.previous_version
        /\ v \in Versions => s.quarantined[v] = why
        /\ \A w \in Versions \ {v} : s.quarantined[w] = mem.quarantined[w]
    BY StateChanges DEF Verdicts
  <2> QED BY <2>1
<1>7. ASSUME NEW content, StageRefused(content)
      PROVE  RolledBackInvariant'
  BY <1>3, <1>6, <1>7 DEF StageRefused
<1>8. CASE GateRejects
  BY <1>3, <1>6, <1>8 DEF GateRejects
<1>9. CASE RecordStaged \/ RecordRejected
  <2> DEFINE s == Recorded(mem, "other")
  <2>1. /\ s.current_version = mem.current_version
        /\ s.previous_version = mem.previous_version
        /\ s.quarantined = mem.quarantined
    BY RecordedKeeps DEF Records
  <2>2. /\ Save(s, At("gate")) \/ Save(s, Idle)
        /\ job.at \in {"staged", "rejected"}
    BY <1>9 DEF RecordStaged, RecordRejected
  <2> HIDE DEF s
  <2> QED BY <1>3, <2>1, <2>2
<1>10. CASE CommitActivation
  <2> DEFINE s == Activated(mem, job.version)
  <2>1. /\ s.current_version = job.version
        /\ s.previous_version = mem.current_version
        /\ s.quarantined = mem.quarantined
    BY StateChanges
  <2>2. Save(s, Idle) /\ job.at = "commit"
    BY <1>10 DEF CommitActivation
  <2>3. /\ job.version \in Versions
        /\ mem.current_version = 0 \/ mem.quarantined[job.version] = "none"
    BY <2>2 DEF UpdateInvariant, JobConsistent, VerdictInvariant, JobUnobjected
  <2> HIDE DEF s
  <2>4. mem' = s /\ disk' = s /\ job' = Idle
    BY <2>2, CalmSave
  <2>5. s.quarantined[job.version] # "rollback"
    BY <2>1, <2>3
  <2>6. mem.current_version # 0 => mem.quarantined[mem.current_version] # "rollback"
    BY <2>2
  <2> QED BY <2>1, <2>3, <2>4, <2>5, <2>6
<1>11. CASE Rollback
  <2> DEFINE s == Condemned(mem, mem.current_version, "rollback")
             next == [at |-> "point_back", version |-> mem.current_version, sha |-> 0]
  <2>1. /\ s.current_version = mem.current_version
        /\ s.previous_version = mem.previous_version
        /\ \A w \in Versions \ {mem.current_version} :
             s.quarantined[w] = mem.quarantined[w]
    BY StateChanges DEF Verdicts
  <2>2. Save(s, next) /\ mem.previous_version # 0 /\ next.at = "point_back"
    BY <1>11 DEF Rollback
  <2> HIDE DEF s, next
  <2>3. mem' = s /\ disk' = s /\ job' = next
    BY <2>2, CalmSave
  <2>4. mem.previous_version \in Versions \ {mem.current_version}
        /\ mem.current_version # 0
    BY <2>2
  <2> QED BY <2>1, <2>2, <2>3, <2>4
<1>12. CASE CommitBack
  <2> DEFINE s == Reverted(mem)
             next == IF OverBudget(s) THEN At("freeze") ELSE Idle
  <2>1. /\ s.current_version = mem.previous_version
        /\ s.previous_version = 0
        /\ s.quarantined = mem.quarantined
    BY StateChanges
  <2>2. Save(s, next) /\ job.at = "commit_back"
    BY <1>12 DEF CommitBack
  <2>3. mem.previous_version # 0
    BY <2>2 DEF UpdateInvariant, JobConsistent
  <2> HIDE DEF s, next
  <2>4. mem' = s /\ disk' = s
    BY <2>2, CalmSave
  <2> QED BY <2>1, <2>3, <2>4
<1>13. CASE Freeze
  <2> DEFINE s == [mem EXCEPT !.updates_frozen = TRUE]
  <2>1. /\ s.current_version = mem.current_version
        /\ s.previous_version = mem.previous_version
        /\ s.quarantined = mem.quarantined
    BY DEF Typed, DeviceState
  <2>2. Save(s, Idle) /\ job.at = "freeze"
    BY <1>13 DEF Freeze
  <2> HIDE DEF s
  <2> QED BY <1>3, <2>1, <2>2
<1>14. ASSUME NEW clear \in BOOLEAN, Unfreeze(clear)
       PROVE  RolledBackInvariant'
  <2> DEFINE q == IF clear THEN Fresh.quarantined ELSE mem.quarantined
             s == [mem EXCEPT !.updates_frozen = FALSE, !.quarantined = q]
  <2>1. /\ s.current_version = mem.current_version
        /\ s.previous_version = mem.previous_version
        /\ s.quarantined = q
    BY DEF Typed, DeviceState
  <2>2. Save(s, Idle) /\ job = Idle
    BY <1>14 DEF Unfreeze
  <2>3. \A v \in Versions : q[v] = "rollback" => mem.quarantined[v] = "rollback"
    BY DEF Fresh
  <2> HIDE DEF q, s
  <2> QED BY <1>3, <2>1, <2>2, <2>3
<1>15. ~HostFault /\ ~Restart
  BY DEF HostFault, Restart
<1> QED
  BY <1>4, <1>5, <1>7, <1>8, <1>9, <1>10, <1>11, <1>12, <1>13, <1>14, <1>15
  DEF Next, LocalStep, UpdateStep, OperatorStep, FaultStep

(* The version an operator rolled back stays off, as long as the rollback  *)
(* itself is not cut short.                                                *)
THEOREM RolledBackAlwaysOff ==
  ASSUME Disciplined, "save" \notin Faults, "crash" \notin Faults, "host" \notin Faults
  PROVE  Spec => []RolledBackStaysOff
<1>1. Init => RolledBackInvariant
  BY DEF Init, Fresh, Idle, RolledBackInvariant, RolledBackStaysOff
<1>2. /\ mem = disk /\ TypeOK /\ UpdateInvariant /\ VerdictInvariant
      /\ RolledBackInvariant /\ [Next]_vars
      => RolledBackInvariant'
  BY RolledBackKept
<1>3. RolledBackInvariant => RolledBackStaysOff
  BY DEF RolledBackInvariant
<1> QED BY <1>1, <1>2, <1>3, MemoryIsSaved, TypeCorrect, UpdateInvariantHolds,
           VerdictInvariantHolds, PTL DEF Spec

-----------------------------------------------------------------------------
(* The rollback budget.                                                    *)

(* The rollback that exhausts the budget freezes the device, unless it is  *)
(* cut short between its last two saves.                                   *)
THEOREM BudgetAlwaysFreezes ==
  ASSUME "save" \notin Faults, "crash" \notin Faults
  PROVE  Spec => BudgetFreezes
<1> DEFINE Step == /\ job.at \in {"commit_back", "freeze"}
                   /\ job'.at = "idle"
                   /\ RecentRollbacks(disk') >= MaxRollbacks
                   => disk'.updates_frozen
<1>1. TypeOK /\ [Next]_vars => Step
  <2> SUFFICES ASSUME TypeOK, [Next]_vars,
                      job.at \in {"commit_back", "freeze"},
                      job'.at = "idle",
                      RecentRollbacks(disk') >= MaxRollbacks
               PROVE  disk'.updates_frozen
    OBVIOUS
  <2>1. /\ Typed(mem) /\ At("freeze").at = "freeze"
    BY PointsReached DEF TypeOK, Points
  <2>2. CASE CommitBack
    <3>1. /\ disk' = Reverted(mem)
          /\ job' = IF OverBudget(Reverted(mem)) THEN At("freeze") ELSE Idle
      BY <2>2, CalmSave DEF CommitBack
    <3> QED BY <2>1, <3>1 DEF OverBudget
  <2>3. CASE Freeze
    <3>1. disk' = [mem EXCEPT !.updates_frozen = TRUE]
      BY <2>3, CalmSave DEF Freeze
    <3> QED BY <2>1, <3>1 DEF Typed, DeviceState
  <2>4. ~UNCHANGED vars
    BY DEF vars
  <2>5. job # Idle
    BY DEF Idle
  <2> QED
    BY <2>2, <2>3, <2>4, <2>5
    DEF Next, LocalStep, UpdateStep, OperatorStep, FaultStep, Check, StageVerified,
        StageRefused, StageRaises, RemoveOld, FinishRemove, MoveIntoPlace, RecordStaged,
        GatePasses, GateRejects, RecordRejected, GateRaises, PointCurrent,
        CommitActivation, Rollback, PointBack, Unfreeze, Install, FinishCopy, HostFault,
        Restart
<1>2. TypeOK /\ [Next]_vars => [Step]_vars
  BY <1>1
<1> QED BY <1>2, TypeCorrect, PTL DEF Spec, BudgetFreezes

-----------------------------------------------------------------------------
(* What has been staged.                                                   *)

UnderWay(v) == v = job.version /\ job.at \in {"staged", "copy", "gate", "point", "commit"}

(* A directory there is has been decided about: it is condemned, it is not *)
(* newer than what runs, and if there is a version to go back to, then it  *)
(* is not newer than that one either, or is what runs.  What is not        *)
(* decided is under way.                                                   *)
StagedInvariant ==
  /\ \A v \in Versions : bundle[v] # "absent" /\ ~UnderWay(v) =>
       \/ mem.quarantined[v] # "none"
       \/ /\ v <= mem.current_version
          /\ mem.previous_version # 0 =>
               v <= mem.previous_version \/ v = mem.current_version
  /\ \A v \in Versions : bundle[v] = "partial" => UnderWay(v) /\ job.at = "copy"
  /\ job.at \in {"fetch", "place"} => bundle[job.version] = "absent"
  /\ job.at \in {"staged", "gate", "point", "commit"} => bundle[job.version] = "whole"

LEMMA StagedKept ==
  ASSUME Disciplined, "clear" \notin Operator,
         "save" \notin Faults, "crash" \notin Faults, "host" \notin Faults,
         \A v \in Versions : Kind[v] # "raising",
         TypeOK, UpdateInvariant, StagedInvariant, [Next]_vars
  PROVE  StagedInvariant'
<1>1. /\ Typed(mem) /\ job.version \in 0..MaxVersion
      /\ mem.current_version \in 0..MaxVersion
      /\ mem.previous_version \in 0..MaxVersion
      /\ mem.quarantined \in [Versions -> Verdicts]
      /\ bundle \in [Versions -> {"absent", "partial", "whole"}]
      /\ Versions = 1..MaxVersion /\ MaxVersion \in Nat \ {0}
      /\ job.at \in Points
      /\ Idle.at = "idle"
      /\ \A point \in Points : At(point).at = point /\ At(point).version = job.version
  BY PointsReached, MaxVersionAssumption DEF TypeOK, Typed, DeviceState, Jobs, Versions
<1>2. /\ job.at \in {"fetch", "place", "staged", "copy", "gate", "point", "commit"}
           => job.version \in Versions /\ job.version > mem.current_version
      /\ job.at \in {"point_back", "commit_back"} =>
           mem.previous_version # 0 /\ mem.quarantined[mem.current_version] # "none"
      /\ mem.previous_version = 0 \/ mem.previous_version < mem.current_version
  BY DEF UpdateInvariant, JobConsistent, Sound
<1> USE <1>1, <1>2 DEF StagedInvariant, UnderWay, Points
<1>3. CASE UNCHANGED vars
  BY <1>3 DEF vars
(* an operation that keeps the two versions and forgets no verdict         *)
<1>4. ASSUME NEW s, NEW next, Save(s, next), bundle' = bundle,
             s.current_version = mem.current_version,
             s.previous_version = mem.previous_version,
             \A v \in Versions : mem.quarantined[v] # "none" => s.quarantined[v] # "none",
             next.at \notin {"fetch", "place"},
             \/ next.at \in {"staged", "copy", "gate", "point", "commit"}
                /\ UnderWay(next.version) /\ bundle[next.version] = "whole"
             \/ next.at \notin {"staged", "copy", "gate", "point", "commit"}
                /\ job.at # "copy"
                /\ \A v \in Versions : UnderWay(v) => s.quarantined[v] # "none"
      PROVE  StagedInvariant'
  <2>1. mem' = s /\ job' = next
    BY <1>4, CalmSave
  <2> QED BY <1>4, <2>1
<1>5. ASSUME NEW p \in Pointers, Check(p)
      PROVE  StagedInvariant'
  <2>1. /\ p.version \in Versions /\ p.version > mem.current_version
        /\ mem.quarantined[p.version] = "none" /\ job.at = "idle"
        /\ job'.at = "fetch" /\ job'.version = p.version
        /\ bundle' = bundle /\ mem' = mem
    BY <1>5 DEF Check, Candidate, Pointers
  <2>2. bundle[p.version] = "absent"
    BY <2>1
  <2> QED BY <2>1, <2>2
<1>6. ASSUME NEW content, StageVerified(content) \/ StageRaises(content)
      PROVE  StagedInvariant'
  BY <1>6 DEF StageVerified, StageRaises
<1>7. ASSUME NEW v \in Versions, NEW why \in Verdicts \ {"none"}
      PROVE  LET s == Condemned(mem, v, why)
             IN  /\ s.current_version = mem.current_version
                 /\ s.previous_version = mem.previous_version
                 /\ s.quarantined[v] # "none"
                 /\ \A w \in Versions : mem.quarantined[w] # "none" => s.quarantined[w] # "none"
  <2> DEFINE s == Condemned(mem, v, why)
  <2>1. /\ s.current_version = mem.current_version
        /\ s.previous_version = mem.previous_version
        /\ s.quarantined[v] = why
        /\ \A w \in Versions \ {v} : s.quarantined[w] = mem.quarantined[w]
    BY StateChanges
  <2> QED BY <2>1
<1>8. ASSUME NEW content, StageRefused(content)
      PROVE  StagedInvariant'
  <2> DEFINE s == Condemned(mem, job.version, "staging")
  <2>1. Save(s, Idle) /\ job.at = "fetch" /\ bundle' = bundle
    BY <1>8 DEF StageRefused
  <2>2. /\ s.current_version = mem.current_version
        /\ s.previous_version = mem.previous_version
        /\ \A w \in Versions : mem.quarantined[w] # "none" => s.quarantined[w] # "none"
    BY <1>7, <2>1 DEF Verdicts
  <2> HIDE DEF s
  <2> QED BY <1>4, <2>1, <2>2
<1>9. CASE GateRejects
  <2> DEFINE s == Condemned(mem, job.version, "gate")
  <2>1. Save(s, At("rejected")) /\ job.at = "gate" /\ bundle' = bundle
    BY <1>9 DEF GateRejects
  <2>2. /\ s.current_version = mem.current_version
        /\ s.previous_version = mem.previous_version
        /\ s.quarantined[job.version] # "none"
        /\ \A w \in Versions : mem.quarantined[w] # "none" => s.quarantined[w] # "none"
    BY <1>7, <2>1 DEF Verdicts
  <2> HIDE DEF s
  <2> QED BY <1>4, <2>1, <2>2
<1>10. CASE RecordStaged \/ RecordRejected
  <2> DEFINE s == Recorded(mem, "other")
  <2>1. /\ s.current_version = mem.current_version
        /\ s.previous_version = mem.previous_version
        /\ s.quarantined = mem.quarantined
    BY RecordedKeeps DEF Records
  <2>2. CASE RecordStaged
    <3>1. Save(s, At("gate")) /\ job.at = "staged" /\ bundle' = bundle
      BY <2>2 DEF RecordStaged
    <3>2. At("gate").at = "gate" /\ At("gate").version = job.version
      BY <1>1
    <3>3. UnderWay(job.version) /\ bundle[job.version] = "whole"
      BY <3>1
    <3> HIDE DEF s, UnderWay
    <3> QED BY <1>4, <2>1, <3>1, <3>2, <3>3
  <2>3. CASE RecordRejected
    <3>1. Save(s, Idle) /\ job.at = "rejected" /\ bundle' = bundle
      BY <2>3 DEF RecordRejected
    <3> HIDE DEF s
    <3> QED BY <1>4, <2>1, <3>1
  <2> QED BY <1>10, <2>2, <2>3
<1>11. CASE MoveIntoPlace
  <2>1. /\ job.at = "place" /\ job'.at = "staged" /\ job'.version = job.version
        /\ bundle' = [bundle EXCEPT ![job.version] = "whole"] /\ mem' = mem
    BY <1>11 DEF MoveIntoPlace
  <2> QED BY <2>1
<1>12. CASE GatePasses \/ PointCurrent
  <2>1. /\ job.at \in {"gate", "point"} /\ job'.at \in {"point", "commit"}
        /\ job'.version = job.version /\ bundle' = bundle /\ mem' = mem
    BY <1>12 DEF GatePasses, PointCurrent
  <2> QED BY <2>1
<1>13. CASE CommitActivation
  <2> DEFINE s == Activated(mem, job.version)
  <2>1. /\ s.current_version = job.version
        /\ s.previous_version = mem.current_version
        /\ s.quarantined = mem.quarantined
    BY StateChanges
  <2>2. Save(s, Idle) /\ job.at = "commit" /\ bundle' = bundle
    BY <1>13 DEF CommitActivation
  <2> HIDE DEF s
  <2>3. mem' = s /\ job' = Idle
    BY <2>2, CalmSave
  <2> QED BY <2>1, <2>2, <2>3
<1>14. CASE Rollback
  <2> DEFINE s == Condemned(mem, mem.current_version, "rollback")
             next == [at |-> "point_back", version |-> mem.current_version, sha |-> 0]
  <2>1. /\ Save(s, next) /\ job.at = "idle" /\ bundle' = bundle /\ next.at = "point_back"
        /\ mem.current_version \in Versions
    BY <1>14 DEF Rollback
  <2>2. /\ s.current_version = mem.current_version
        /\ s.previous_version = mem.previous_version
        /\ \A w \in Versions : mem.quarantined[w] # "none" => s.quarantined[w] # "none"
    BY <1>7, <2>1 DEF Verdicts
  <2> HIDE DEF s, next
  <2> QED BY <1>4, <2>1, <2>2
<1>15. CASE PointBack
  <2>1. /\ job.at = "point_back" /\ job'.at = "commit_back" /\ bundle' = bundle /\ mem' = mem
    BY <1>15 DEF PointBack
  <2> QED BY <2>1
<1>16. CASE CommitBack
  <2> DEFINE s == Reverted(mem)
             next == IF OverBudget(s) THEN At("freeze") ELSE Idle
  <2>1. /\ s.current_version = mem.previous_version
        /\ s.previous_version = 0
        /\ s.quarantined = mem.quarantined
    BY StateChanges
  <2>2. /\ Save(s, next) /\ job.at = "commit_back" /\ bundle' = bundle
        /\ next.at \in {"freeze", "idle"}
    BY <1>16 DEF CommitBack
  <2> HIDE DEF s, next
  <2>3. mem' = s /\ job' = next
    BY <2>2, CalmSave
  <2> QED BY <2>1, <2>2, <2>3
<1>17. CASE Freeze
  <2> DEFINE s == [mem EXCEPT !.updates_frozen = TRUE]
  <2>1. /\ s.current_version = mem.current_version
        /\ s.previous_version = mem.previous_version
        /\ s.quarantined = mem.quarantined
    BY DEF Typed, DeviceState
  <2>2. Save(s, Idle) /\ job.at = "freeze" /\ bundle' = bundle
    BY <1>17 DEF Freeze
  <2> HIDE DEF s
  <2> QED BY <1>4, <2>1, <2>2
<1>18. ASSUME NEW clear \in BOOLEAN, Unfreeze(clear)
       PROVE  StagedInvariant'
  <2> DEFINE s == [mem EXCEPT !.updates_frozen = FALSE,
                              !.quarantined = IF clear THEN Fresh.quarantined ELSE @]
  <2>1. Save(s, Idle) /\ job.at = "idle" /\ bundle' = bundle /\ ~clear
    BY <1>18 DEF Unfreeze
  <2>2. /\ s.current_version = mem.current_version
        /\ s.previous_version = mem.previous_version
        /\ s.quarantined = mem.quarantined
    BY <2>1 DEF Typed, DeviceState
  <2> HIDE DEF s
  <2> QED BY <1>4, <2>1, <2>2
<1>19. ASSUME NEW v \in Factory, Install(v)
       PROVE  StagedInvariant'
  <2>1. /\ v \in Versions /\ job.at = "idle" /\ mem.current_version = 0
        /\ mem' = mem /\ job'.version = v
    BY <1>19, FactoryAssumption DEF Install, Disciplined
  <2>2. CASE bundle[v] = "absent"
    <3>1. bundle' = [bundle EXCEPT ![v] = "partial"] /\ job'.at = "copy"
      BY <1>19, <2>2 DEF Install
    <3> QED BY <2>1, <3>1
  <2>3. CASE bundle[v] # "absent"
    <3>1. bundle' = bundle /\ job'.at = "gate" /\ bundle[v] = "whole"
      BY <1>19, <2>1, <2>3 DEF Install
    <3> QED BY <2>1, <3>1
  <2> QED BY <2>2, <2>3
<1>20. CASE FinishCopy
  <2>1. /\ job.at = "copy" /\ job'.at = "gate" /\ job'.version = job.version
        /\ bundle' = [bundle EXCEPT ![job.version] = "whole"] /\ mem' = mem
    BY <1>20 DEF FinishCopy
  <2> QED BY <2>1
<1>21. ~HostFault /\ ~Restart /\ ~RemoveOld /\ ~FinishRemove /\ ~GateRaises
  BY DEF HostFault, Restart, RemoveOld, FinishRemove, GateRaises
<1> QED
  BY <1>3, <1>5, <1>6, <1>8, <1>9, <1>10, <1>11, <1>12, <1>13, <1>14, <1>15, <1>16,
     <1>17, <1>18, <1>19, <1>20, <1>21
  DEF Next, LocalStep, UpdateStep, OperatorStep, FaultStep

(* No archive is fetched for a version that is on the device already, for  *)
(* any server and any order of releases and rollbacks: a version that was  *)
(* staged has been adopted or condemned.  A gate that raises, a power cut, *)
(* a failed save and a cleared quarantine are the exceptions.              *)
THEOREM AlwaysStagedOnce ==
  ASSUME Disciplined, "clear" \notin Operator,
         "save" \notin Faults, "crash" \notin Faults, "host" \notin Faults,
         \A v \in Versions : Kind[v] # "raising"
  PROVE  Spec => StagedOnlyOnce
<1> DEFINE Step == job'.at = "fetch" /\ job.at = "idle" => bundle[job'.version] = "absent"
<1>1. Init => StagedInvariant
  BY DEF Init, Fresh, Idle, StagedInvariant, UnderWay
<1>2. TypeOK /\ UpdateInvariant /\ StagedInvariant /\ [Next]_vars => StagedInvariant'
  BY StagedKept
<1>3. TypeOK /\ StagedInvariant' /\ [Next]_vars => Step
  <2> SUFFICES ASSUME TypeOK, StagedInvariant', [Next]_vars,
                      job'.at = "fetch", job.at = "idle"
               PROVE  bundle[job'.version] = "absent"
    OBVIOUS
  <2>1. bundle'[job'.version] = "absent"
    BY DEF StagedInvariant
  <2>2. Idle.at = "idle" /\ \A point \in Points : At(point).at = point
    BY PointsReached
  <2>3. CASE \E p \in Pointers : Check(p)
    BY <2>1, <2>3 DEF Check
  <2>4. CASE UNCHANGED vars
    BY <2>4 DEF vars
  <2>5. CASE \E v \in Factory : Install(v)
    BY <2>5 DEF Install
  <2>6. CASE \/ Rollback \/ HostFault \/ Restart
             \/ \E clear \in BOOLEAN : Unfreeze(clear)
    <3>1. ASSUME NEW s, NEW next, Save(s, next), next.at # "fetch"
          PROVE  job'.at # "fetch"
      BY <2>2, <3>1 DEF Save
    <3>2. [at |-> "point_back", version |-> mem.current_version, sha |-> 0].at # "fetch"
      OBVIOUS
    <3>3. ~Rollback
      BY <3>1, <3>2 DEF Rollback
    <3>4. \A clear \in BOOLEAN : ~Unfreeze(clear)
      BY <2>2, <3>1 DEF Unfreeze
    <3>5. ~HostFault /\ ~Restart
      BY DEF HostFault, Restart
    <3> QED BY <2>6, <3>3, <3>4, <3>5
  <2>7. job.at = "idle" => ~UpdateStep
    BY DEF UpdateStep, RemoveOld, FinishRemove, MoveIntoPlace, RecordStaged, GatePasses,
           GateRejects, RecordRejected, GateRaises, PointCurrent, CommitActivation,
           PointBack, CommitBack, Freeze, FinishCopy
  <2>8. \A content \in Contents : ~(StageVerified(content) \/ StageRefused(content)
                                      \/ StageRaises(content))
    BY DEF StageVerified, StageRefused, StageRaises
  <2> QED BY <2>3, <2>4, <2>5, <2>6, <2>7, <2>8
          DEF Next, LocalStep, OperatorStep, FaultStep
<1>4. TypeOK /\ UpdateInvariant /\ StagedInvariant /\ [Next]_vars => [Step]_vars
  BY <1>2, <1>3
<1> QED BY <1>1, <1>2, <1>4, TypeCorrect, UpdateInvariantHolds, PTL DEF Spec, StagedOnlyOnce


-----------------------------------------------------------------------------
(* Factory images installed over newer versions.                           *)

(* The spare need not be the older version here, and so may be the one     *)
(* that is staged; but between its removal and its return nothing looks at *)
(* it, and what verified once and passed the gate is what comes back.      *)
ReinstallInvariant ==
  /\ mem.current_version # 0 => Runnable(mem.current_version)
  /\ mem.previous_version # 0 =>
       /\ Kind[mem.previous_version] = "good"
       /\ \/ bundle[mem.previous_version] = "whole"
          \/ job.at = "place" /\ job.version = mem.previous_version
  /\ job.at \in {"fetch", "place"} =>
       job.version \in Versions /\ job.version > mem.current_version
  /\ job.at \in {"staged", "copy", "gate", "point", "commit"} => job.version \in Versions
  /\ job.at \in {"point", "commit"} => Runnable(job.version)
  /\ job.at \in {"point_back", "commit_back"} => mem.previous_version # 0

LEMMA ReinstallKept ==
  ASSUME "save" \notin Faults, "crash" \notin Faults, "host" \notin Faults,
         TypeOK, ReinstallInvariant, [Next]_vars
  PROVE  ReinstallInvariant'
<1>1. /\ Typed(mem) /\ job.version \in 0..MaxVersion
      /\ mem.current_version \in 0..MaxVersion
      /\ mem.previous_version \in 0..MaxVersion
      /\ bundle \in [Versions -> {"absent", "partial", "whole"}]
      /\ Versions = 1..MaxVersion /\ MaxVersion \in Nat \ {0}
      /\ job.at \in Points
      /\ Idle.at = "idle"
      /\ \A point \in Points : At(point).at = point /\ At(point).version = job.version
  BY PointsReached, MaxVersionAssumption DEF TypeOK, Typed, DeviceState, Jobs, Versions
<1> USE <1>1 DEF ReinstallInvariant, Runnable, Points
<1>2. CASE UNCHANGED vars
  BY <1>2 DEF vars
(* an operation that keeps the two versions, outside the moment in stage() *)
<1>3. ASSUME NEW s, NEW next, Save(s, next), bundle' = bundle, job.at # "place",
             s.current_version = mem.current_version,
             s.previous_version = mem.previous_version,
             next.at \in {"idle", "gate", "rejected", "point_back", "freeze"},
             next.at = "gate" => next.version \in Versions,
             next.at = "point_back" => mem.previous_version # 0
      PROVE  ReinstallInvariant'
  <2>1. mem' = s /\ job' = next
    BY <1>3, CalmSave
  <2> QED BY <1>3, <2>1
<1>4. ASSUME NEW p \in Pointers, Check(p)
      PROVE  ReinstallInvariant'
  BY <1>4 DEF Check, Candidate, Pointers
<1>5. ASSUME NEW content, StageVerified(content) \/ StageRaises(content)
      PROVE  ReinstallInvariant'
  BY <1>5 DEF StageVerified, StageRaises
<1>6. ASSUME NEW v \in Versions, NEW why \in Verdicts
      PROVE  /\ Condemned(mem, v, why).current_version = mem.current_version
             /\ Condemned(mem, v, why).previous_version = mem.previous_version
  BY StateChanges
<1>7. ASSUME NEW content, StageRefused(content)
      PROVE  ReinstallInvariant'
  <2> DEFINE s == Condemned(mem, job.version, "staging")
  <2>1. Save(s, Idle) /\ job.at = "fetch" /\ bundle' = bundle
    BY <1>7 DEF StageRefused
  <2>2. s.current_version = mem.current_version /\ s.previous_version = mem.previous_version
    BY <1>6, <2>1 DEF Verdicts
  <2> HIDE DEF s
  <2> QED BY <1>3, <2>1, <2>2
<1>8. CASE RemoveOld \/ FinishRemove \/ MoveIntoPlace
  <2>1. /\ job.at = "place" /\ mem' = mem
        /\ \E d \in {"absent", "partial", "whole"} : bundle' = [bundle EXCEPT ![job.version] = d]
        /\ \/ job' = job
           \/ job'.at = "staged" /\ job'.version = job.version
              /\ bundle' = [bundle EXCEPT ![job.version] = "whole"]
    BY <1>8 DEF RemoveOld, FinishRemove, MoveIntoPlace
  <2>2. job.version # mem.current_version
    BY <2>1
  <2> QED BY <2>1, <2>2
<1>9. CASE RecordStaged \/ RecordRejected
  <2> DEFINE s == Recorded(mem, "other")
  <2>1. s.current_version = mem.current_version /\ s.previous_version = mem.previous_version
    BY RecordedKeeps DEF Records
  <2>2. CASE RecordStaged
    <3>1. Save(s, At("gate")) /\ job.at = "staged" /\ bundle' = bundle
      BY <2>2 DEF RecordStaged
    <3>2. At("gate").at = "gate" /\ At("gate").version \in Versions
      BY <3>1
    <3> HIDE DEF s
    <3> QED BY <1>3, <2>1, <3>1, <3>2
  <2>3. CASE RecordRejected
    <3>1. Save(s, Idle) /\ job.at = "rejected" /\ bundle' = bundle
      BY <2>3 DEF RecordRejected
    <3> HIDE DEF s
    <3> QED BY <1>3, <2>1, <3>1
  <2> QED BY <1>9, <2>2, <2>3
<1>10. CASE GateRejects
  <2> DEFINE s == Condemned(mem, job.version, "gate")
  <2>1. Save(s, At("rejected")) /\ job.at = "gate" /\ bundle' = bundle
    BY <1>10 DEF GateRejects
  <2>2. s.current_version = mem.current_version /\ s.previous_version = mem.previous_version
    BY <1>6, <2>1 DEF Verdicts
  <2> HIDE DEF s
  <2> QED BY <1>3, <2>1, <2>2
<1>11. CASE GatePasses \/ GateRaises \/ PointCurrent
  BY <1>11 DEF GatePasses, GateRaises, PointCurrent
<1>12. CASE CommitActivation
  <2> DEFINE s == Activated(mem, job.version)
  <2>1. s.current_version = job.version /\ s.previous_version = mem.current_version
    BY StateChanges
  <2>2. Save(s, Idle) /\ job.at = "commit" /\ bundle' = bundle
    BY <1>12 DEF CommitActivation
  <2> HIDE DEF s
  <2>3. mem' = s /\ job' = Idle
    BY <2>2, CalmSave
  <2> QED BY <2>1, <2>2, <2>3
<1>13. CASE Rollback
  <2> DEFINE s == Condemned(mem, mem.current_version, "rollback")
             next == [at |-> "point_back", version |-> mem.current_version, sha |-> 0]
  <2>1. /\ Save(s, next) /\ job.at = "idle" /\ bundle' = bundle /\ next.at = "point_back"
        /\ mem.previous_version # 0
    BY <1>13 DEF Rollback
  <2>2. s.current_version = mem.current_version /\ s.previous_version = mem.previous_version
    BY StateChanges DEF Verdicts
  <2> HIDE DEF s, next
  <2> QED BY <1>3, <2>1, <2>2
<1>14. CASE PointBack
  <2>1. /\ job.at = "point_back" /\ job'.at = "commit_back" /\ bundle' = bundle /\ mem' = mem
    BY <1>14 DEF PointBack
  <2> QED BY <2>1
<1>15. CASE CommitBack
  <2> DEFINE s == Reverted(mem)
             next == IF OverBudget(s) THEN At("freeze") ELSE Idle
  <2>1. s.current_version = mem.previous_version /\ s.previous_version = 0
    BY StateChanges
  <2>2. /\ Save(s, next) /\ job.at = "commit_back" /\ bundle' = bundle
        /\ next.at \in {"freeze", "idle"}
    BY <1>15 DEF CommitBack
  <2> HIDE DEF s, next
  <2>3. mem' = s /\ job' = next
    BY <2>2, CalmSave
  <2> QED BY <2>1, <2>2, <2>3
<1>16. CASE Freeze
  <2> DEFINE s == [mem EXCEPT !.updates_frozen = TRUE]
  <2>1. s.current_version = mem.current_version /\ s.previous_version = mem.previous_version
    BY DEF Typed, DeviceState
  <2>2. Save(s, Idle) /\ job.at = "freeze" /\ bundle' = bundle
    BY <1>16 DEF Freeze
  <2> HIDE DEF s
  <2> QED BY <1>3, <2>1, <2>2
<1>17. ASSUME NEW clear \in BOOLEAN, Unfreeze(clear)
       PROVE  ReinstallInvariant'
  <2> DEFINE s == [mem EXCEPT !.updates_frozen = FALSE,
                              !.quarantined = IF clear THEN Fresh.quarantined ELSE @]
  <2>1. Save(s, Idle) /\ job.at = "idle" /\ bundle' = bundle
    BY <1>17 DEF Unfreeze
  <2>2. s.current_version = mem.current_version /\ s.previous_version = mem.previous_version
    BY DEF Typed, DeviceState
  <2> HIDE DEF s
  <2> QED BY <1>3, <2>1, <2>2
<1>18. ASSUME NEW v \in Factory, Install(v)
       PROVE  ReinstallInvariant'
  <2>1. /\ v \in Versions /\ job.at = "idle" /\ mem' = mem
        /\ job'.at \in {"copy", "gate"} /\ job'.version = v
        /\ \/ bundle' = bundle
           \/ bundle[v] = "absent" /\ bundle' = [bundle EXCEPT ![v] = "partial"]
    BY <1>18, FactoryAssumption DEF Install
  <2> QED BY <2>1
<1>19. CASE FinishCopy
  <2>1. /\ job.at = "copy" /\ job'.at = "gate" /\ job'.version = job.version
        /\ bundle' = [bundle EXCEPT ![job.version] = "whole"] /\ mem' = mem
    BY <1>19 DEF FinishCopy
  <2> QED BY <2>1
<1>20. ~HostFault /\ ~Restart
  BY DEF HostFault, Restart
<1> QED
  BY <1>2, <1>4, <1>5, <1>7, <1>8, <1>9, <1>10, <1>11, <1>12, <1>13, <1>14, <1>15, <1>16,
     <1>17, <1>18, <1>19, <1>20
  DEF Next, LocalStep, UpdateStep, OperatorStep, FaultStep

LEMMA AlwaysReinstallable ==
  ASSUME "save" \notin Faults, "crash" \notin Faults, "host" \notin Faults
  PROVE  Spec => [](mem = disk /\ TypeOK /\ ReinstallInvariant)
<1>1. Init => ReinstallInvariant
  BY DEF Init, Fresh, Idle, ReinstallInvariant
<1>2. TypeOK /\ ReinstallInvariant /\ [Next]_vars => ReinstallInvariant'
  BY ReinstallKept
<1> QED BY <1>1, <1>2, TypeCorrect, MemoryIsSaved, PTL DEF Spec

(* Without Disciplined: whatever factory image is installed over whatever  *)
(* version, and whatever the operator clears, the device boots as long as  *)
(* nothing of this machine fails.                                          *)
THEOREM ReinstalledAlwaysBoots ==
  ASSUME "save" \notin Faults, "crash" \notin Faults, "host" \notin Faults
  PROVE  Spec => []BootsGated
<1>1. mem = disk /\ ReinstallInvariant => BootsGated
  BY DEF ReinstallInvariant, BootsGated
<1> QED BY <1>1, AlwaysReinstallable, PTL

(* The version to go back to can be loaded, except in stage() between the  *)
(* removal of a directory and its return.                                  *)
SpareSurvives == job.at # "place" => SpareReady

(* And a rollback, which only happens between updates, finds the version   *)
(* it goes back to, although that one may be the newer one and the update  *)
(* after the installation may have deleted it and put it back.             *)
THEOREM SpareAlwaysSurvives ==
  ASSUME "save" \notin Faults, "crash" \notin Faults, "host" \notin Faults
  PROVE  Spec => []SpareSurvives
<1>1. mem = disk /\ ReinstallInvariant => SpareSurvives
  BY DEF ReinstallInvariant, SpareSurvives, SpareReady, Runnable
<1> QED BY <1>1, AlwaysReinstallable, PTL

=============================================================================
