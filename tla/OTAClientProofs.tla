--------------------------- MODULE OTAClientProofs ---------------------------
(***************************************************************************)
(* Theorems about the device side of the down-link, for every number of    *)
(* versions, every assignment of kinds, cohorts and budgets, and any       *)
(* release server whatsoever.                                              *)
(***************************************************************************)
EXTENDS OTAClient, TLAPS

-----------------------------------------------------------------------------
(* Type correctness.                                                       *)

(* Appending a record keeps the state a state and its history in the       *)
(* window, as _record does by trimming after every append.                 *)
LEMMA RecordedTyped ==
  ASSUME NEW s, Typed(s), NEW action \in Records
  PROVE  /\ Typed(Recorded(s, action))
         /\ \A f \in {"current_version", "previous_version", "quarantined", "updates_frozen"} :
              Recorded(s, action)[f] = s[f]
<1> DEFINE h == Append(s.history, action)
<1>1. /\ s \in DeviceState
      /\ s.history \in Seq(Records)
      /\ Len(s.history) <= Window
  BY DEF Typed, DeviceState
<1>2. h \in Seq(Records) /\ Len(h) = Len(s.history) + 1
  BY <1>1
<1>3. Latest(h) \in Seq(Records) /\ Len(Latest(h)) <= Window
  <2>1. CASE Len(h) > Window
    <3>1. h # <<>>
      BY <2>1, <1>2, WindowAssumption
    <3>2. Tail(h) \in Seq(Records) /\ Len(Tail(h)) = Len(h) - 1
      BY <3>1, <1>2
    <3> QED BY <2>1, <3>2, <1>1, <1>2, WindowAssumption DEF Latest
  <2>2. CASE ~(Len(h) > Window)
    BY <2>2, <1>2, WindowAssumption DEF Latest
  <2> QED BY <2>1, <2>2
<1>4. Recorded(s, action) = [s EXCEPT !.history = Latest(h)]
  BY DEF Recorded
<1> HIDE DEF h
<1> QED BY <1>1, <1>3, <1>4 DEF Typed, DeviceState

(* The four ways the code changes its state keep it a state.               *)
LEMMA StateChangesTyped ==
  ASSUME NEW s, Typed(s), NEW v \in 0..MaxVersion
  PROVE  /\ \A why \in Verdicts : Typed(Condemned(s, v, why))
         /\ Typed(Activated(s, v))
         /\ Typed(Reverted(s))
<1>1. \A why \in Verdicts : Typed(Condemned(s, v, why))
  BY DEF Typed, DeviceState, Condemned, Versions
<1> DEFINE moved(cur, prev) ==
             [s EXCEPT !.previous_version = prev, !.current_version = cur]
<1>2. ASSUME NEW cur \in 0..MaxVersion, NEW prev \in 0..MaxVersion
      PROVE  Typed(moved(cur, prev))
  <2>1. s \in DeviceState /\ Len(s.history) <= Window
    BY DEF Typed
  <2>2. moved(cur, prev) \in DeviceState
    BY <2>1 DEF DeviceState
  <2>3. moved(cur, prev).history = s.history
    BY <2>1 DEF DeviceState
  <2> QED BY <2>1, <2>2, <2>3 DEF Typed
<1>3. /\ s.current_version \in 0..MaxVersion
      /\ s.previous_version \in 0..MaxVersion
      /\ 0 \in 0..MaxVersion
  BY MaxVersionAssumption DEF Typed, DeviceState, Versions
<1>4. Typed(Activated(s, v))
  BY <1>2, <1>3, RecordedTyped DEF Activated, Records
<1>5. Typed(Reverted(s))
  BY <1>2, <1>3, RecordedTyped DEF Reverted, Records
<1> QED BY <1>1, <1>4, <1>5

(* Saving a state, successfully or not, leaves states in memory and on the *)
(* disk, and the process at the point given or at rest.                    *)
LEMMA SaveTyped ==
  ASSUME NEW s, Typed(s), NEW next \in Jobs, TypeOK, Save(s, next)
  PROVE  Typed(disk)' /\ Typed(mem)' /\ job' \in Jobs
<1>1. Idle \in Jobs
  BY MaxVersionAssumption, MaxBuildsAssumption DEF Idle, Jobs, Points
<1> QED BY <1>1 DEF Save, TypeOK, Typed

LEMMA JobsTyped ==
  ASSUME TypeOK
  PROVE  /\ Idle \in Jobs
         /\ \A point \in Points : At(point) \in Jobs
<1>1. Idle \in Jobs
  BY MaxVersionAssumption, MaxBuildsAssumption DEF Idle, Jobs, Points
<1>2. \A point \in Points : At(point) \in Jobs
  BY DEF TypeOK, At, Jobs
<1> QED BY <1>1, <1>2

(* Every action of the client, of its operator and of the machine.         *)
LEMMA NextTyped ==
  ASSUME TypeOK, [Next]_vars
  PROVE  TypeOK'
<1> DEFINE B == [Versions -> {"absent", "partial", "whole"}]
<1>1. /\ Typed(mem) /\ Typed(disk)
      /\ bundle \in B
      /\ link \in 0..MaxVersion
      /\ job \in Jobs
      /\ job.version \in 0..MaxVersion
      /\ mem.current_version \in 0..MaxVersion
      /\ mem.previous_version \in 0..MaxVersion
      /\ Idle \in Jobs
      /\ \A point \in Points : At(point) \in Jobs
  BY JobsTyped DEF TypeOK, Typed, DeviceState, Jobs
<1>2. ASSUME NEW v, NEW content \in {"absent", "partial", "whole"}
      PROVE  [bundle EXCEPT ![v] = content] \in B
  BY <1>1
<1>3. ASSUME NEW s, NEW next, Typed(s), next \in Jobs, Save(s, next),
             UNCHANGED <<bundle, link>>
      PROVE  TypeOK'
  BY <1>1, <1>3, SaveTyped DEF TypeOK
<1>4. ASSUME NEW next, next \in Jobs, job' = next, UNCHANGED <<disk, mem>>,
             bundle' \in B, link' \in 0..MaxVersion
      PROVE  TypeOK'
  BY <1>1, <1>4 DEF TypeOK, Typed
<1>5. CASE UNCHANGED vars
  BY <1>1, <1>4, <1>5 DEF vars
<1>6. ASSUME NEW p \in Pointers, Check(p)
      PROVE  TypeOK'
  <2>1. [at |-> "fetch", version |-> p.version, sha |-> p.sha] \in Jobs
    BY DEF Pointers, Jobs, Points, Versions, Shas
  <2> QED BY <2>1, <1>1, <1>4, <1>6 DEF Check
<1>7. ASSUME NEW content, StageVerified(content)
      PROVE  TypeOK'
  BY <1>1, <1>4, <1>7 DEF StageVerified, Points
<1>8. ASSUME NEW content, StageRefused(content)
      PROVE  TypeOK'
  <2>1. Typed(Condemned(mem, job.version, "staging"))
    BY <1>1, StateChangesTyped DEF Verdicts
  <2> QED BY <2>1, <1>1, <1>3, <1>8 DEF StageRefused
<1>28. ASSUME NEW content, StageRaises(content)
       PROVE  TypeOK'
  BY <1>1, <1>4, <1>28 DEF StageRaises
<1>9. CASE RemoveOld
  BY <1>1, <1>2, <1>4, <1>9 DEF RemoveOld
<1>10. CASE FinishRemove
  BY <1>1, <1>2, <1>4, <1>10 DEF FinishRemove
<1>11. CASE MoveIntoPlace
  BY <1>1, <1>2, <1>4, <1>11 DEF MoveIntoPlace, Points
<1>12. CASE RecordStaged
  <2>1. Typed(Recorded(mem, "other")) /\ At("gate") \in Jobs
    BY <1>1, RecordedTyped DEF Records, Points
  <2> QED BY <2>1, <1>3, <1>12 DEF RecordStaged
<1>13. CASE GatePasses
  BY <1>1, <1>4, <1>13 DEF GatePasses, Points
<1>14. CASE GateRejects
  <2>1. Typed(Condemned(mem, job.version, "gate")) /\ At("rejected") \in Jobs
    BY <1>1, StateChangesTyped DEF Verdicts, Points
  <2> QED BY <2>1, <1>3, <1>14 DEF GateRejects
<1>15. CASE RecordRejected
  <2>1. Typed(Recorded(mem, "other"))
    BY <1>1, RecordedTyped DEF Records
  <2> QED BY <2>1, <1>1, <1>3, <1>15 DEF RecordRejected
<1>16. CASE GateRaises
  BY <1>1, <1>4, <1>16 DEF GateRaises
<1>17. CASE PointCurrent
  BY <1>1, <1>4, <1>17 DEF PointCurrent, Points
<1>18. CASE CommitActivation
  <2>1. Typed(Activated(mem, job.version))
    BY <1>1, StateChangesTyped
  <2> QED BY <2>1, <1>1, <1>3, <1>18 DEF CommitActivation
<1>19. CASE Rollback
  <2>1. Typed(Condemned(mem, mem.current_version, "rollback"))
    BY <1>1, StateChangesTyped DEF Verdicts
  <2>2. [at |-> "point_back", version |-> mem.current_version, sha |-> 0] \in Jobs
    BY <1>1, MaxBuildsAssumption DEF Jobs, Points
  <2> QED BY <2>1, <2>2, <1>3, <1>19 DEF Rollback
<1>20. CASE PointBack
  BY <1>1, <1>4, <1>20 DEF PointBack, Points
<1>21. CASE CommitBack
  <2>1. Typed(Reverted(mem))
    BY <1>1, StateChangesTyped
  <2>2. At("freeze") \in Jobs
    BY <1>1 DEF Points
  <2>3. (IF OverBudget(Reverted(mem)) THEN At("freeze") ELSE Idle) \in Jobs
    BY <2>2, <1>1
  <2> QED BY <2>1, <2>3, <1>3, <1>21 DEF CommitBack
<1>22. CASE Freeze
  <2>1. Typed([mem EXCEPT !.updates_frozen = TRUE])
    BY <1>1 DEF Typed, DeviceState
  <2> QED BY <2>1, <1>1, <1>3, <1>22 DEF Freeze
<1>23. ASSUME NEW clear \in BOOLEAN, Unfreeze(clear)
       PROVE  TypeOK'
  <2> DEFINE q == IF clear THEN Fresh.quarantined ELSE mem.quarantined
  <2>1. q \in [Versions -> Verdicts]
    BY <1>1 DEF Fresh, Verdicts, Typed, DeviceState
  <2>2. Typed([mem EXCEPT !.updates_frozen = FALSE, !.quarantined = q])
    <3>1. [mem EXCEPT !.updates_frozen = FALSE, !.quarantined = q] \in DeviceState
      BY <2>1, <1>1 DEF Typed, DeviceState
    <3>2. [mem EXCEPT !.updates_frozen = FALSE, !.quarantined = q].history = mem.history
      BY <1>1 DEF Typed, DeviceState
    <3> QED BY <3>1, <3>2, <1>1 DEF Typed
  <2>3. Save([mem EXCEPT !.updates_frozen = FALSE, !.quarantined = q], Idle)
    BY <1>23, <1>1 DEF Unfreeze, Typed, DeviceState
  <2> QED BY <2>2, <2>3, <1>1, <1>3, <1>23 DEF Unfreeze
<1>24. ASSUME NEW v \in Factory, Install(v)
       PROVE  TypeOK'
  <2>1. /\ v \in 0..MaxVersion
        /\ v \in Versions
    BY FactoryAssumption, MaxVersionAssumption DEF Versions
  <2>2. bundle' \in B
    BY <1>1, <1>24, <2>1 DEF Install
  <2>3. job' \in Jobs
    BY <2>1, <1>24, MaxBuildsAssumption DEF Install, Jobs, Points
  <2> QED BY <2>2, <2>3, <1>1, <1>4, <1>24 DEF Install
<1>25. CASE FinishCopy
  BY <1>1, <1>2, <1>4, <1>25 DEF FinishCopy, Points
<1>26. CASE HostFault
  BY <1>1, <1>4, <1>26 DEF HostFault
<1>27. CASE Restart
  BY <1>1, <1>27 DEF Restart, TypeOK, Typed
<1> QED
  BY <1>5, <1>6, <1>7, <1>8, <1>9, <1>10, <1>11, <1>12, <1>13, <1>14, <1>15,
     <1>16, <1>17, <1>18, <1>19, <1>20, <1>21, <1>22, <1>23, <1>24, <1>25,
     <1>26, <1>27, <1>28
  DEF Next, LocalStep, UpdateStep, OperatorStep, FaultStep

LEMMA InitTyped == Init => TypeOK
<1>1. Typed(Fresh)
  BY MaxVersionAssumption, WindowAssumption
  DEF Typed, Fresh, DeviceState, Verdicts, Records
<1>2. Idle \in Jobs
  BY MaxVersionAssumption, MaxBuildsAssumption DEF Idle, Jobs, Points
<1> QED BY <1>1, <1>2, MaxVersionAssumption DEF Init, TypeOK

(* Whatever the server answers and whatever fails, state.json and the      *)
(* client's copy of it stay well-formed and their history stays inside the *)
(* window: the type invariant of the client.                               *)
THEOREM TypeCorrect == Spec => []TypeOK
<1>1. TypeOK /\ [Next]_vars => TypeOK'
  BY NextTyped
<1> QED BY <1>1, InitTyped, PTL DEF Spec

-----------------------------------------------------------------------------
(* A device always boots, and a rollback always lands.                     *)

(* A record in the history changes nothing else of the state.              *)
LEMMA RecordedKeeps ==
  ASSUME NEW s, Typed(s), NEW action \in Records
  PROVE  /\ Recorded(s, action).current_version = s.current_version
         /\ Recorded(s, action).previous_version = s.previous_version
         /\ Recorded(s, action).quarantined = s.quarantined
BY DEF Typed, DeviceState, Recorded

(* What quarantine(), activate() and rollback() do to the versions and the *)
(* quarantine of a state.                                                  *)
LEMMA StateChanges ==
  ASSUME NEW s, Typed(s), NEW v \in 0..MaxVersion
  PROVE  /\ \A why \in Verdicts :
              LET c == Condemned(s, v, why)
              IN  /\ c.current_version = s.current_version
                  /\ c.previous_version = s.previous_version
                  /\ v \in Versions => c.quarantined[v] = why
                  /\ \A w \in Versions \ {v} : c.quarantined[w] = s.quarantined[w]
         /\ Activated(s, v).current_version = v
         /\ Activated(s, v).previous_version = s.current_version
         /\ Activated(s, v).quarantined = s.quarantined
         /\ Reverted(s).current_version = s.previous_version
         /\ Reverted(s).previous_version = 0
         /\ Reverted(s).quarantined = s.quarantined
<1> DEFINE moved(cur, prev) ==
             [s EXCEPT !.previous_version = prev, !.current_version = cur]
<1>1. /\ s \in DeviceState
      /\ s.current_version \in 0..MaxVersion
      /\ s.previous_version \in 0..MaxVersion
      /\ 0 \in 0..MaxVersion
      /\ Len(s.history) <= Window
  BY MaxVersionAssumption DEF Typed, DeviceState
<1>2. ASSUME NEW why \in Verdicts
      PROVE  LET c == Condemned(s, v, why)
             IN  /\ c.current_version = s.current_version
                 /\ c.previous_version = s.previous_version
                 /\ v \in Versions => c.quarantined[v] = why
                 /\ \A w \in Versions \ {v} : c.quarantined[w] = s.quarantined[w]
  BY <1>1 DEF DeviceState, Condemned
<1>3. ASSUME NEW cur \in 0..MaxVersion, NEW prev \in 0..MaxVersion
      PROVE  /\ Typed(moved(cur, prev))
             /\ moved(cur, prev).current_version = cur
             /\ moved(cur, prev).previous_version = prev
             /\ moved(cur, prev).quarantined = s.quarantined
  <2>1. moved(cur, prev) \in DeviceState
    BY <1>1 DEF DeviceState
  <2>2. /\ moved(cur, prev).history = s.history
        /\ moved(cur, prev).current_version = cur
        /\ moved(cur, prev).previous_version = prev
        /\ moved(cur, prev).quarantined = s.quarantined
    BY <1>1 DEF DeviceState
  <2> QED BY <1>1, <2>1, <2>2 DEF Typed
<1>4. /\ Activated(s, v) = Recorded(moved(v, s.current_version), "other")
      /\ Reverted(s) = Recorded(moved(s.previous_version, 0), "rolled_back")
  BY DEF Activated, Reverted
<1> HIDE DEF moved
<1> QED BY <1>1, <1>2, <1>3, <1>4, RecordedKeeps DEF Records

(* The hypotheses of the theorems below; the README gives the runs of      *)
(* events that break them.  Reinstalling a factory image may put an older  *)
(* version over a newer one; and clearing the quarantine when the rollback *)
(* that filled it was never saved lets stage() delete the version that     *)
(* state.json still names.                                                 *)
Disciplined ==
  /\ "reinstall" \notin Operator
  /\ "save" \notin Faults \/ "clear" \notin Operator

(* A save of a sound state that is ahead of the disk, whether it succeeds  *)
(* or fails, keeps the part of the invariant that is about states.         *)
LEMMA SavePreserves ==
  ASSUME TypeOK, UpdateInvariant, NEW s, NEW next, Typed(s), Sound(s),
         Save(s, next), UNCHANGED bundle,
         disk.previous_version <= s.current_version,
         s.current_version = 0 => disk.current_version = 0,
         \/ "save" \notin Faults
         \/ disk.current_version <= s.current_version
         \/ s.quarantined[disk.current_version] # "none"
  PROVE  /\ Sound(disk)' /\ Sound(mem)' /\ DiskLags'
         /\ mem' = s
         /\ \/ job' = next /\ disk' = mem'
            \/ job' = Idle
<1>1. mem' = s /\ Sound(mem)' /\ Typed(disk) /\ Sound(disk)
  BY DEF Save, Sound, Runnable, TypeOK, UpdateInvariant
<1>2. CASE disk' = s /\ job' = next
  <2>1. Sound(disk)'
    BY <1>1, <1>2
  <2>2. DiskLags'
    BY <1>1, <1>2 DEF DiskLags, Sound, Typed, DeviceState
  <2> QED BY <1>1, <1>2, <2>1, <2>2
<1>3. CASE "save" \in Faults /\ disk' = disk /\ job' = Idle
  <2>1. Sound(disk)'
    BY <1>1, <1>3 DEF Sound, Runnable
  <2>2. DiskLags'
    BY <1>1, <1>3 DEF DiskLags
  <2> QED BY <1>1, <1>3, <2>1, <2>2
<1> QED BY <1>2, <1>3 DEF Save

(* A step that leaves both states alone keeps the invariant if it keeps    *)
(* the bundles that can be run and the new program point is consistent.    *)
LEMMA NoSavePreserves ==
  ASSUME TypeOK, UpdateInvariant, UNCHANGED <<disk, mem>>,
         \A v \in {disk.current_version, disk.previous_version,
                   mem.current_version, mem.previous_version} :
           v # 0 /\ Runnable(v) => Runnable(v)',
         JobConsistent'
  PROVE  UpdateInvariant'
<1>1. Sound(disk)' /\ Sound(mem)'
  BY DEF UpdateInvariant, Sound, Runnable
<1>2. DiskLags'
  BY DEF UpdateInvariant, DiskLags
<1> QED BY <1>1, <1>2 DEF UpdateInvariant

(* The heart of the argument: while a version is being staged it is none   *)
(* of the versions that the memory or the disk still names.                *)
LEMMA StagedIsNotInUse ==
  ASSUME TypeOK, UpdateInvariant, job.at \in {"fetch", "place"}
  PROVE  job.version \notin {disk.current_version, disk.previous_version,
                             mem.current_version, mem.previous_version}
<1>1. /\ job.version > mem.current_version
      /\ mem.quarantined[job.version] = "none"
      /\ job.version \in Int
  BY MaxVersionAssumption DEF UpdateInvariant, JobConsistent, TypeOK, Jobs
<1>2. /\ mem.current_version \in Nat /\ mem.previous_version \in Nat
      /\ disk.current_version \in Nat /\ disk.previous_version \in Nat
  BY MaxVersionAssumption DEF TypeOK, Typed, DeviceState
<1>3. mem.previous_version <= mem.current_version
  BY <1>2 DEF UpdateInvariant, Sound
<1> QED BY <1>1, <1>2, <1>3 DEF UpdateInvariant, DiskLags

LEMMA NextPreserves ==
  ASSUME Disciplined, TypeOK, UpdateInvariant, [Next]_vars
  PROVE  UpdateInvariant'
<1>1. /\ Typed(mem) /\ Typed(disk) /\ Sound(mem) /\ Sound(disk)
      /\ DiskLags /\ JobConsistent
      /\ job \in Jobs /\ job.version \in 0..MaxVersion
      /\ mem.current_version \in 0..MaxVersion
      /\ mem.previous_version \in 0..MaxVersion
      /\ disk.current_version \in 0..MaxVersion
      /\ disk.previous_version \in 0..MaxVersion
      /\ bundle \in [Versions -> {"absent", "partial", "whole"}]
      /\ MaxVersion \in Nat
  BY MaxVersionAssumption DEF TypeOK, Typed, DeviceState, Jobs, UpdateInvariant
<1>2. Idle.at = "idle" /\ \A point \in Points : At(point).at = point
                                           /\ At(point).version = job.version
  BY <1>1 DEF Idle, At, Jobs
<1>3. ASSUME UNCHANGED <<disk, mem, bundle>>, JobConsistent'
      PROVE  UpdateInvariant'
  BY <1>1, <1>3, NoSavePreserves DEF Runnable
<1>4. ASSUME job' = Idle
      PROVE  JobConsistent'
  BY <1>2, <1>4 DEF JobConsistent
<1>5. CASE UNCHANGED vars
  BY <1>1, <1>3, <1>5 DEF vars, JobConsistent, Runnable
<1>6. ASSUME NEW p \in Pointers, Check(p)
      PROVE  UpdateInvariant'
  <2>1. JobConsistent'
    BY <1>1, <1>6 DEF Check, Candidate, JobConsistent, Pointers
  <2> QED BY <2>1, <1>3, <1>6 DEF Check
<1>7. ASSUME NEW content, StageVerified(content)
      PROVE  UpdateInvariant'
  <2>1. JobConsistent'
    BY <1>1, <1>2, <1>7 DEF StageVerified, JobConsistent, Points
  <2> QED BY <2>1, <1>3, <1>7 DEF StageVerified
<1>8. ASSUME NEW v \in Versions, NEW why \in Verdicts \ {"none"}, NEW next,
             Save(Condemned(mem, v, why), next), UNCHANGED <<bundle, link>>
      PROVE  /\ Sound(disk)' /\ Sound(mem)' /\ DiskLags'
             /\ mem' = Condemned(mem, v, why)
             /\ \/ job' = next /\ disk' = mem'
                \/ job' = Idle
  <2> DEFINE s == Condemned(mem, v, why)
  <2>1. v \in 0..MaxVersion
    BY MaxVersionAssumption DEF Versions
  <2>2. /\ Typed(s)
        /\ s.current_version = mem.current_version
        /\ s.previous_version = mem.previous_version
        /\ \A w \in Versions : mem.quarantined[w] # "none" => s.quarantined[w] # "none"
    <3>1. Typed(s)
      BY <1>1, <2>1, StateChangesTyped
    <3>2. /\ s.current_version = mem.current_version
          /\ s.previous_version = mem.previous_version
          /\ s.quarantined[v] = why
          /\ \A w \in Versions \ {v} : s.quarantined[w] = mem.quarantined[w]
      BY <1>1, <2>1, StateChanges
    <3> QED BY <3>1, <3>2
  <2>3. Sound(s)
    BY <1>1, <2>2 DEF Sound
  <2>4. \/ disk.current_version <= s.current_version
        \/ s.quarantined[disk.current_version] # "none"
    BY <1>1, <2>2, MaxVersionAssumption DEF DiskLags, Versions
  <2> QED BY <1>1, <1>8, <2>2, <2>3, <2>4, SavePreserves DEF DiskLags
<1>9. ASSUME NEW next, Save(Recorded(mem, "other"), next), UNCHANGED <<bundle, link>>
      PROVE  /\ Sound(disk)' /\ Sound(mem)' /\ DiskLags'
             /\ mem' = Recorded(mem, "other")
             /\ job' \in {next, Idle}
  <2> DEFINE s == Recorded(mem, "other")
  <2>1. /\ Typed(s)
        /\ s.current_version = mem.current_version
        /\ s.previous_version = mem.previous_version
        /\ s.quarantined = mem.quarantined
    BY <1>1, RecordedTyped, RecordedKeeps DEF Records
  <2>2. Sound(s)
    BY <1>1, <2>1 DEF Sound
  <2> QED BY <1>1, <1>9, <2>1, <2>2, SavePreserves DEF DiskLags
<1>10. ASSUME NEW content, StageRefused(content)
       PROVE  UpdateInvariant'
  <2>1. job.version \in Versions
    BY <1>1, <1>10 DEF StageRefused, JobConsistent
  <2>2. /\ Sound(disk)' /\ Sound(mem)' /\ DiskLags'
        /\ job' = Idle
    BY <1>8, <1>10, <2>1 DEF StageRefused, Verdicts
  <2> QED BY <2>2, <1>4 DEF UpdateInvariant
<1>26. ASSUME NEW content, StageRaises(content)
       PROVE  UpdateInvariant'
  BY <1>3, <1>4, <1>26 DEF StageRaises
<1>11. CASE RemoveOld \/ FinishRemove \/ MoveIntoPlace
  <2>1. \A v \in {disk.current_version, disk.previous_version,
                  mem.current_version, mem.previous_version} :
           v # 0 /\ Runnable(v) => Runnable(v)'
    <3>1. \A v \in {disk.current_version, disk.previous_version,
                    mem.current_version, mem.previous_version} : v # job.version
      BY <1>11, StagedIsNotInUse DEF RemoveOld, FinishRemove, MoveIntoPlace
    <3>2. \A v : v # job.version /\ bundle[v] = "whole" /\ v \in Versions
                  => bundle'[v] = "whole"
      BY <1>1, <1>11 DEF RemoveOld, FinishRemove, MoveIntoPlace
    <3>3. \A v \in {disk.current_version, disk.previous_version,
                    mem.current_version, mem.previous_version} :
             v # 0 => v \in Versions
      BY <1>1 DEF Versions
    <3> QED BY <3>1, <3>2, <3>3 DEF Runnable
  <2>2. JobConsistent'
    BY <1>1, <1>2, <1>11
    DEF RemoveOld, FinishRemove, MoveIntoPlace, JobConsistent, Points
  <2> QED BY <2>1, <2>2, <1>11, NoSavePreserves
      DEF RemoveOld, FinishRemove, MoveIntoPlace
<1>12. CASE RecordStaged
  <2>1. /\ Sound(disk)' /\ Sound(mem)' /\ DiskLags'
        /\ mem' = Recorded(mem, "other")
        /\ job' \in {At("gate"), Idle}
    BY <1>9, <1>12 DEF RecordStaged
  <2>2. mem'.current_version = mem.current_version
    BY <2>1, <1>1, RecordedKeeps DEF Records
  <2>3. JobConsistent'
    BY <2>1, <2>2, <1>1, <1>2, <1>12 DEF RecordStaged, JobConsistent, Points
  <2> QED BY <2>1, <2>3 DEF UpdateInvariant
<1>13. CASE GatePasses
  <2>1. JobConsistent'
    BY <1>1, <1>2, <1>13 DEF GatePasses, JobConsistent, Runnable, Points
  <2> QED BY <2>1, <1>3, <1>13 DEF GatePasses
<1>14. CASE GateRejects
  <2>1. job.version \in Versions
    BY <1>1, <1>14 DEF GateRejects, JobConsistent
  <2>2. /\ Sound(disk)' /\ Sound(mem)' /\ DiskLags'
        /\ job' \in {At("rejected"), Idle}
    BY <1>8, <1>14, <2>1 DEF GateRejects, Verdicts
  <2>3. JobConsistent'
    BY <2>2, <1>2 DEF JobConsistent, Points
  <2> QED BY <2>2, <2>3 DEF UpdateInvariant
<1>15. CASE RecordRejected
  <2>1. Sound(disk)' /\ Sound(mem)' /\ DiskLags' /\ job' = Idle
    BY <1>9, <1>15 DEF RecordRejected
  <2> QED BY <2>1, <1>4 DEF UpdateInvariant
<1>16. CASE GateRaises \/ HostFault
  BY <1>3, <1>4, <1>16 DEF GateRaises, HostFault
<1>17. CASE PointCurrent \/ PointBack
  <2>1. JobConsistent'
    BY <1>1, <1>2, <1>17 DEF PointCurrent, PointBack, JobConsistent, Runnable, Points
  <2> QED BY <2>1, <1>3, <1>17 DEF PointCurrent, PointBack
<1>18. CASE CommitActivation
  <2> DEFINE s == Activated(mem, job.version)
  <2>1. /\ job.version \in Versions
        /\ job.version > mem.current_version
        /\ Runnable(job.version)
    BY <1>1, <1>18 DEF CommitActivation, JobConsistent
  <2>2. /\ Typed(s)
        /\ s.current_version = job.version
        /\ s.previous_version = mem.current_version
        /\ s.quarantined = mem.quarantined
    BY <1>1, StateChangesTyped, StateChanges
  <2>3. Sound(s)
    BY <1>1, <2>1, <2>2 DEF Sound
  <2>4. /\ disk.previous_version <= s.current_version
        /\ s.current_version = 0 => disk.current_version = 0
        /\ \/ disk.current_version <= s.current_version
           \/ s.quarantined[disk.current_version] # "none"
    BY <1>1, <2>1, <2>2 DEF DiskLags
  <2>5. Save(s, Idle) /\ UNCHANGED bundle
    BY <1>18 DEF CommitActivation
  <2> HIDE DEF s
  <2>6. Sound(disk)' /\ Sound(mem)' /\ DiskLags' /\ job' = Idle
    BY <2>2, <2>3, <2>4, <2>5, SavePreserves
  <2> QED BY <2>6, <1>4 DEF UpdateInvariant
<1>19. CASE Rollback
  <2> DEFINE v == mem.current_version
             next == [at |-> "point_back", version |-> v, sha |-> 0]
  <2>1. v \in Versions /\ mem.previous_version # 0
    BY <1>1, <1>19 DEF Rollback, Sound, Versions
  <2>2. /\ Sound(disk)' /\ Sound(mem)' /\ DiskLags'
        /\ mem' = Condemned(mem, v, "rollback")
        /\ \/ job' = next /\ disk' = mem'
           \/ job' = Idle
    BY <1>8, <1>19, <2>1 DEF Rollback, Verdicts
  <2>3. /\ mem'.current_version = v
        /\ mem'.previous_version = mem.previous_version
        /\ mem'.quarantined[v] = "rollback"
    BY <1>1, <2>1, <2>2, StateChanges DEF Verdicts
  <2>4. JobConsistent'
    BY <1>4, <2>1, <2>2, <2>3 DEF JobConsistent
  <2> QED BY <2>2, <2>4 DEF UpdateInvariant
<1>20. CASE CommitBack
  <2> DEFINE s == Reverted(mem)
             next == IF OverBudget(s) THEN At("freeze") ELSE Idle
  <2>1. /\ disk = mem
        /\ mem.previous_version # 0
        /\ mem.quarantined[mem.current_version] # "none"
    BY <1>1, <1>20 DEF CommitBack, JobConsistent
  <2>2. /\ Typed(s)
        /\ s.current_version = mem.previous_version
        /\ s.previous_version = 0
        /\ s.quarantined = mem.quarantined
    BY <1>1, StateChangesTyped, StateChanges
  <2>3. Sound(s)
    BY <1>1, <2>2 DEF Sound
  <2>4. Save(s, next) /\ UNCHANGED bundle
    BY <1>20 DEF CommitBack
  <2>5. next = Idle \/ next = At("freeze")
    OBVIOUS
  <2>6. /\ disk.previous_version <= s.current_version
        /\ s.current_version = 0 => disk.current_version = 0
        /\ s.quarantined[disk.current_version] # "none"
    BY <1>1, <2>1, <2>2
  <2> HIDE DEF s, next
  <2>7. Sound(disk)' /\ Sound(mem)' /\ DiskLags' /\ (job' = next \/ job' = Idle)
    BY <2>2, <2>3, <2>4, <2>6, SavePreserves
  <2>8. JobConsistent'
    BY <2>5, <2>7, <1>2 DEF JobConsistent, Points
  <2> QED BY <2>7, <2>8 DEF UpdateInvariant
<1>21. CASE Freeze
  <2> DEFINE s == [mem EXCEPT !.updates_frozen = TRUE]
  <2>1. /\ Typed(s)
        /\ s.current_version = mem.current_version
        /\ s.previous_version = mem.previous_version
        /\ s.quarantined = mem.quarantined
    BY <1>1 DEF Typed, DeviceState
  <2>2. Sound(s)
    BY <1>1, <2>1 DEF Sound
  <2>3. Save(s, Idle) /\ UNCHANGED bundle
    BY <1>21 DEF Freeze
  <2> HIDE DEF s
  <2>4. Sound(disk)' /\ Sound(mem)' /\ DiskLags' /\ job' = Idle
    BY <1>1, <2>1, <2>2, <2>3, SavePreserves DEF DiskLags
  <2> QED BY <2>4, <1>4 DEF UpdateInvariant
<1>22. ASSUME NEW clear \in BOOLEAN, Unfreeze(clear)
       PROVE  UpdateInvariant'
  <2> DEFINE q == IF clear THEN Fresh.quarantined ELSE mem.quarantined
             s == [mem EXCEPT !.updates_frozen = FALSE, !.quarantined = q]
  <2>1. q \in [Versions -> Verdicts]
    BY <1>1 DEF Fresh, Verdicts, Typed, DeviceState
  <2>2. /\ s \in DeviceState
        /\ s.history = mem.history
        /\ s.current_version = mem.current_version
        /\ s.previous_version = mem.previous_version
        /\ s.quarantined = q
    BY <2>1, <1>1 DEF Typed, DeviceState
  <2>3. Typed(s) /\ Sound(s)
    BY <2>2, <1>1 DEF Typed, Sound
  <2>4. Save(s, Idle) /\ UNCHANGED bundle /\ (clear => "clear" \in Operator)
    BY <1>22, <1>1 DEF Unfreeze, Typed, DeviceState
  <2>5. \/ "save" \notin Faults
        \/ s.quarantined = mem.quarantined
    BY <2>2, <2>4 DEF Disciplined
  <2> HIDE DEF s
  <2>6. Sound(disk)' /\ Sound(mem)' /\ DiskLags' /\ job' = Idle
    BY <1>1, <2>2, <2>3, <2>4, <2>5, SavePreserves DEF DiskLags
  <2> QED BY <2>6, <1>4 DEF UpdateInvariant
<1>23. ASSUME NEW v \in Factory, Install(v)
       PROVE  UpdateInvariant'
  <2>1. v \in Versions /\ v > 0 /\ mem.current_version = 0
    BY <1>23, FactoryAssumption, MaxVersionAssumption
    DEF Install, Disciplined, Versions
  <2>2. JobConsistent'
    BY <1>23, <2>1 DEF Install, JobConsistent
  <2>3. \A w : Runnable(w) => Runnable(w)'
    BY <1>1, <1>23 DEF Install, Runnable
  <2> QED BY <1>23, <2>2, <2>3, NoSavePreserves DEF Install
<1>24. CASE FinishCopy
  <2>1. JobConsistent'
    BY <1>1, <1>2, <1>24 DEF FinishCopy, JobConsistent, Points
  <2>2. \A w : Runnable(w) => Runnable(w)'
    BY <1>1, <1>24 DEF FinishCopy, Runnable
  <2> QED BY <1>24, <2>1, <2>2, NoSavePreserves DEF FinishCopy
<1>25. CASE Restart
  <2>1. Sound(disk)' /\ Sound(mem)'
    BY <1>1, <1>25 DEF Restart, Sound, Runnable
  <2>2. DiskLags'
    BY <1>1, <1>25 DEF Restart, DiskLags, Sound
  <2> QED BY <2>1, <2>2, <1>4, <1>25 DEF Restart, UpdateInvariant
<1> QED
  BY <1>5, <1>6, <1>7, <1>10, <1>11, <1>12, <1>13, <1>14, <1>15, <1>16, <1>17,
     <1>18, <1>19, <1>20, <1>21, <1>22, <1>23, <1>24, <1>25, <1>26
  DEF Next, LocalStep, UpdateStep, OperatorStep, FaultStep

(* The inductive invariant holds in every reachable state.                 *)
THEOREM UpdateInvariantHolds ==
  ASSUME Disciplined
  PROVE  Spec => []UpdateInvariant
<1>1. Init => UpdateInvariant
  BY DEF Init, UpdateInvariant, Sound, DiskLags, JobConsistent, Fresh, Idle
<1>2. TypeOK /\ UpdateInvariant /\ [Next]_vars => UpdateInvariant'
  BY NextPreserves
<1> QED BY <1>1, <1>2, TypeCorrect, PTL DEF Spec

(* Whenever the power goes, state.json names a complete bundle that passed *)
(* this device's gate: it boots, on any server and after any failed save.  *)
THEOREM AlwaysBoots ==
  ASSUME Disciplined
  PROVE  Spec => []BootsGated
<1>1. UpdateInvariant => BootsGated
  BY DEF UpdateInvariant, Sound, BootsGated
<1> QED BY <1>1, UpdateInvariantHolds, PTL

(* The version a rollback returns to is complete and passed the gate, at   *)
(* every moment: rollback() never lands on nothing.                        *)
THEOREM AlwaysSpare ==
  ASSUME Disciplined
  PROVE  Spec => []SpareReady
<1>1. UpdateInvariant => SpareReady
  BY DEF UpdateInvariant, Sound, SpareReady
<1> QED BY <1>1, UpdateInvariantHolds, PTL

=============================================================================
