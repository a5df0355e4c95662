-------------------------- MODULE OTAClientLifecycle -------------------------
(***************************************************************************)
(* What may never happen in one step of the device, and that the device    *)
(* implements the abstract lifecycle, for every instance and every server. *)
(***************************************************************************)
EXTENDS OTAClientProofs

-----------------------------------------------------------------------------
(* Verdicts survive failed saves.                                          *)

(* A save of a state that drops no verdict of the disk and runs nothing    *)
(* that the disk objects to.                                               *)
LEMMA SaveKeepsVerdicts ==
  ASSUME TypeOK, VerdictsKept, NEW s, NEW next, Typed(s), Save(s, next),
         s.updates_frozen => s.current_version # 0,
         \/ "save" \notin Faults
         \/ \A v \in Versions : disk.quarantined[v] # "none" => s.quarantined[v] # "none",
         disk.updates_frozen => s.current_version <= disk.current_version,
         \/ disk.current_version = 0
         \/ s.current_version \in {disk.current_version, disk.previous_version}
         \/ disk.quarantined[s.current_version] = "none"
  PROVE  /\ VerdictsKept'
         /\ mem' = s
         /\ \/ job' = next /\ disk' = s
            \/ job' = Idle /\ disk' = disk
<1>1. s.current_version \in 0..MaxVersion
  BY DEF Typed, DeviceState
<1>2. CASE disk' = s /\ job' = next
  BY <1>1, <1>2 DEF Save, VerdictsKept
<1>3. CASE "save" \in Faults /\ disk' = disk /\ job' = Idle
  BY <1>3 DEF Save, VerdictsKept
<1> QED BY <1>2, <1>3 DEF Save

(* A save that changes neither versions nor freeze, and no verdict but     *)
(* perhaps by adding one.                                                  *)
LEMMA QuietSaveKeepsVerdicts ==
  ASSUME TypeOK, VerdictsKept, NEW s, NEW next, Typed(s), Save(s, next),
         s.current_version = mem.current_version,
         s.updates_frozen = mem.updates_frozen,
         \A v \in Versions : mem.quarantined[v] # "none" => s.quarantined[v] # "none"
  PROVE  /\ VerdictsKept'
         /\ mem' = s
         /\ \/ job' = next /\ disk' = s
            \/ job' = Idle /\ disk' = disk
BY SaveKeepsVerdicts DEF VerdictsKept

(* A step that saves nothing keeps the verdicts; a restart forgets what    *)
(* the disk does not know.                                                 *)
LEMMA NoSaveKeepsVerdicts ==
  ASSUME VerdictsKept, TypeOK, disk' = disk, mem' \in {mem, disk}
  PROVE  VerdictsKept'
<1>1. disk.current_version \in 0..MaxVersion
  BY DEF TypeOK, Typed, DeviceState
<1> QED BY <1>1 DEF VerdictsKept

(* What the condemning operations leave of a state.                        *)
LEMMA CondemnedKeeps ==
  ASSUME NEW s, Typed(s), NEW v \in 0..MaxVersion, NEW why \in Verdicts \ {"none"}
  PROVE  /\ Typed(Condemned(s, v, why))
         /\ Condemned(s, v, why).current_version = s.current_version
         /\ Condemned(s, v, why).previous_version = s.previous_version
         /\ Condemned(s, v, why).updates_frozen = s.updates_frozen
         /\ \A w \in Versions : s.quarantined[w] # "none"
                                  => Condemned(s, v, why).quarantined[w] # "none"
<1>1. Typed(Condemned(s, v, why))
  BY StateChangesTyped
<1> QED BY <1>1 DEF Typed, DeviceState, Condemned

(* The freeze of a state is left alone by records, activations, reverts.   *)
LEMMA FreezeUntouched ==
  ASSUME NEW s, Typed(s), NEW v \in 0..MaxVersion, NEW action \in Records
  PROVE  /\ Recorded(s, action).updates_frozen = s.updates_frozen
         /\ Activated(s, v).updates_frozen = s.updates_frozen
         /\ Reverted(s).updates_frozen = s.updates_frozen
BY DEF Typed, DeviceState, Recorded, Activated, Reverted

(* Every action of the client, of its operator and of the machine.         *)
LEMMA NextKeepsVerdicts ==
  ASSUME Disciplined, TypeOK, UpdateInvariant, VerdictInvariant, [Next]_vars
  PROVE  VerdictInvariant'
<1>1. /\ Typed(disk) /\ Typed(mem)
      /\ VerdictsKept /\ JobUnobjected
      /\ job \in Jobs
      /\ job.version \in 0..MaxVersion
      /\ mem.current_version \in 0..MaxVersion
      /\ mem.previous_version \in 0..MaxVersion
      /\ disk.current_version \in 0..MaxVersion
  BY DEF VerdictInvariant, TypeOK, Typed, DeviceState, Jobs
<1>2. /\ At("place").at = "place" /\ At("place").version = job.version
      /\ At("staged").at = "staged" /\ At("staged").version = job.version
      /\ At("gate").at = "gate" /\ At("gate").version = job.version
      /\ At("rejected").at = "rejected"
      /\ At("point").at = "point" /\ At("point").version = job.version
      /\ At("commit").at = "commit" /\ At("commit").version = job.version
      /\ At("commit_back").at = "commit_back"
      /\ At("freeze").at = "freeze"
      /\ Idle.at = "idle"
  BY <1>1 DEF At, Jobs, Idle
<1>v. {"staging", "gate", "rollback"} \subseteq Verdicts \ {"none"}
  BY DEF Verdicts
<1>c. ASSUME NEW v \in 0..MaxVersion, NEW why \in {"staging", "gate", "rollback"}
       PROVE  /\ Typed(Condemned(mem, v, why))
              /\ Condemned(mem, v, why).current_version = mem.current_version
              /\ Condemned(mem, v, why).updates_frozen = mem.updates_frozen
              /\ \A w \in Versions : mem.quarantined[w] # "none"
                                       => Condemned(mem, v, why).quarantined[w] # "none"
  BY <1>1, <1>v, CondemnedKeeps
<1> USE <1>1, <1>2 DEF VerdictInvariant
<1>3. CASE UNCHANGED vars
  BY <1>3 DEF vars, VerdictsKept, JobUnobjected
<1>4. ASSUME NEW p \in Pointers, Check(p)
      PROVE  VerdictInvariant'
  BY <1>4, NoSaveKeepsVerdicts DEF Check, Candidate, JobUnobjected
<1>5. ASSUME NEW content, StageVerified(content)
      PROVE  VerdictInvariant'
  <2>1. job.at = "fetch" /\ job' = At("place") /\ disk' = disk /\ mem' = mem
    BY <1>5 DEF StageVerified
  <2> QED BY <2>1, NoSaveKeepsVerdicts DEF JobUnobjected
<1>6. ASSUME NEW content, StageRefused(content)
      PROVE  VerdictInvariant'
  <2>1. Save(Condemned(mem, job.version, "staging"), Idle)
    BY <1>6 DEF StageRefused
  <2>2. VerdictsKept' /\ job' = Idle
    BY <2>1, <1>c, QuietSaveKeepsVerdicts
  <2> QED BY <2>2 DEF JobUnobjected
<1>7. ASSUME NEW content, StageRaises(content)
      PROVE  VerdictInvariant'
  BY <1>7, NoSaveKeepsVerdicts DEF StageRaises, JobUnobjected
<1>8. CASE RemoveOld \/ FinishRemove
  BY <1>8, NoSaveKeepsVerdicts DEF RemoveOld, FinishRemove, JobUnobjected
<1>9. CASE MoveIntoPlace
  BY <1>9, NoSaveKeepsVerdicts DEF MoveIntoPlace, JobUnobjected
<1>10. CASE RecordStaged
  <2> DEFINE s == Recorded(mem, "other")
  <2>1. /\ Typed(s) /\ s.current_version = mem.current_version
        /\ s.quarantined = mem.quarantined
        /\ s.updates_frozen = mem.updates_frozen
    BY RecordedTyped, RecordedKeeps, FreezeUntouched DEF Records
  <2>2. Save(s, At("gate"))
    BY <1>10 DEF RecordStaged
  <2> HIDE DEF s
  <2>3. /\ VerdictsKept' /\ mem' = s
        /\ \/ job' = At("gate") /\ disk' = s
           \/ job' = Idle
    BY <2>1, <2>2, QuietSaveKeepsVerdicts
  <2> QED BY <2>1, <2>3, <1>10 DEF JobUnobjected, RecordStaged
<1>11. CASE GatePasses
  BY <1>11, NoSaveKeepsVerdicts DEF GatePasses, JobUnobjected
<1>12. CASE GateRejects
  <2>1. Save(Condemned(mem, job.version, "gate"), At("rejected"))
    BY <1>12 DEF GateRejects
  <2>2. VerdictsKept' /\ job' \in {At("rejected"), Idle}
    BY <2>1, <1>c, QuietSaveKeepsVerdicts
  <2> QED BY <2>2 DEF JobUnobjected
<1>13. CASE RecordRejected
  <2>1. Save(Recorded(mem, "other"), Idle)
    BY <1>13 DEF RecordRejected
  <2>2. VerdictsKept' /\ job' = Idle
    BY <2>1, RecordedTyped, RecordedKeeps, FreezeUntouched, QuietSaveKeepsVerdicts
    DEF Records
  <2> QED BY <2>2 DEF JobUnobjected
<1>14. CASE GateRaises
  BY <1>14, NoSaveKeepsVerdicts DEF GateRaises, JobUnobjected
<1>15. CASE PointCurrent
  BY <1>15, NoSaveKeepsVerdicts DEF PointCurrent, JobUnobjected
<1>16. CASE CommitActivation
  <2> DEFINE s == Activated(mem, job.version)
  <2>1. /\ Typed(s) /\ s.current_version = job.version
        /\ s.quarantined = mem.quarantined
        /\ s.updates_frozen = mem.updates_frozen
    BY StateChangesTyped, StateChanges, FreezeUntouched DEF Records
  <2>2. Save(s, Idle) /\ job.at = "commit"
    BY <1>16 DEF CommitActivation
  <2>3. /\ job.version \in Versions
        /\ mem.current_version = 0 => disk.current_version = 0
    BY <2>2 DEF UpdateInvariant, JobConsistent, DiskLags
  <2>4. /\ ~mem.updates_frozen /\ ~disk.updates_frozen
        /\ mem.current_version = 0 \/ mem.quarantined[job.version] = "none"
    BY <2>2 DEF JobUnobjected
  <2>5. \/ disk.current_version = 0
        \/ disk.quarantined[job.version] = "none"
    BY <2>3, <2>4 DEF VerdictsKept
  <2>6. \A v \in Versions : disk.quarantined[v] # "none" => s.quarantined[v] # "none"
    BY <2>1 DEF VerdictsKept
  <2> HIDE DEF s
  <2>7. VerdictsKept' /\ job' = Idle
    BY <2>1, <2>2, <2>4, <2>5, <2>6, SaveKeepsVerdicts
  <2> QED BY <2>7 DEF JobUnobjected
<1>17. CASE Rollback
  <2> DEFINE s == Condemned(mem, mem.current_version, "rollback")
             next == [at |-> "point_back", version |-> mem.current_version, sha |-> 0]
  <2>1. Save(s, next)
    BY <1>17 DEF Rollback
  <2>2. /\ Typed(s)
        /\ s.current_version = mem.current_version
        /\ s.updates_frozen = mem.updates_frozen
        /\ \A w \in Versions : mem.quarantined[w] # "none" => s.quarantined[w] # "none"
    BY <1>c
  <2>3. next.at = "point_back"
    BY Zenon
  <2> HIDE DEF s, next
  <2>4. VerdictsKept' /\ job' \in {next, Idle}
    BY <2>1, <2>2, QuietSaveKeepsVerdicts
  <2> QED BY <2>3, <2>4 DEF JobUnobjected
<1>18. CASE PointBack
  BY <1>18, NoSaveKeepsVerdicts DEF PointBack, JobUnobjected
<1>19. CASE CommitBack
  <2> DEFINE s == Reverted(mem)
             next == IF OverBudget(s) THEN At("freeze") ELSE Idle
  <2>1. /\ Typed(s) /\ s.current_version = mem.previous_version
        /\ s.previous_version = 0
        /\ s.quarantined = mem.quarantined
        /\ s.updates_frozen = mem.updates_frozen
    BY StateChangesTyped, StateChanges, FreezeUntouched DEF Records
  <2>2. Save(s, next) /\ job.at = "commit_back"
    BY <1>19 DEF CommitBack
  <2>3. /\ disk = mem /\ mem.previous_version # 0
        /\ mem.previous_version < mem.current_version
    BY <2>2 DEF UpdateInvariant, JobConsistent, Sound
  <2>4. next = Idle \/ next = At("freeze")
    OBVIOUS
  <2>5. \A v \in Versions : disk.quarantined[v] # "none" => s.quarantined[v] # "none"
    BY <2>1, <2>3
  <2> HIDE DEF s, next
  <2>6. /\ VerdictsKept' /\ mem' = s
        /\ job' = next \/ job' = Idle
    BY <2>1, <2>2, <2>3, <2>5, SaveKeepsVerdicts
  <2> QED BY <2>1, <2>3, <2>4, <2>6 DEF JobUnobjected
<1>20. CASE Freeze
  <2> DEFINE s == [mem EXCEPT !.updates_frozen = TRUE]
  <2>1. /\ Typed(s) /\ s.current_version = mem.current_version
        /\ s.quarantined = mem.quarantined
    BY DEF Typed, DeviceState
  <2>2. Save(s, Idle) /\ s.current_version # 0
    BY <1>20, <2>1 DEF Freeze, JobUnobjected
  <2>3. \A v \in Versions : disk.quarantined[v] # "none" => s.quarantined[v] # "none"
    BY <2>1 DEF VerdictsKept
  <2> HIDE DEF s
  <2>4. VerdictsKept' /\ job' = Idle
    BY <2>1, <2>2, <2>3, SaveKeepsVerdicts DEF VerdictsKept
  <2> QED BY <2>4 DEF JobUnobjected
<1>21. ASSUME NEW clear \in BOOLEAN, Unfreeze(clear)
       PROVE  VerdictInvariant'
  <2> DEFINE q == IF clear THEN Fresh.quarantined ELSE mem.quarantined
             s == [mem EXCEPT !.updates_frozen = FALSE, !.quarantined = q]
  <2>1. q \in [Versions -> Verdicts]
    BY DEF Fresh, Verdicts, Typed, DeviceState
  <2>2. /\ s \in DeviceState
        /\ s.history = mem.history
        /\ s.current_version = mem.current_version
        /\ s.updates_frozen = FALSE
        /\ s.quarantined = q
    BY <2>1 DEF Typed, DeviceState
  <2>3. Typed(s)
    BY <2>2 DEF Typed
  <2>4. Save(s, Idle) /\ (clear => "clear" \in Operator)
    BY <1>21 DEF Unfreeze, Typed, DeviceState
  <2>5. \/ "save" \notin Faults
        \/ \A v \in Versions : disk.quarantined[v] # "none" => s.quarantined[v] # "none"
    BY <2>2, <2>4 DEF Disciplined, VerdictsKept
  <2> HIDE DEF s
  <2>6. VerdictsKept' /\ job' = Idle
    BY <2>2, <2>3, <2>4, <2>5, SaveKeepsVerdicts DEF VerdictsKept
  <2> QED BY <2>6 DEF JobUnobjected
<1>22. ASSUME NEW v \in Factory, Install(v)
       PROVE  VerdictInvariant'
  <2>1. mem.current_version = 0 /\ disk.current_version = 0
    BY <1>22 DEF Install, Disciplined, UpdateInvariant, DiskLags
  <2>2. ~mem.updates_frozen /\ ~disk.updates_frozen
    BY <2>1 DEF VerdictsKept
  <2>3. job'.at \in {"copy", "gate"} /\ disk' = disk /\ mem' = mem
    BY <1>22 DEF Install
  <2> QED BY <2>1, <2>2, <2>3, NoSaveKeepsVerdicts DEF JobUnobjected
<1>23. CASE FinishCopy
  <2>1. /\ job.at = "copy" /\ job' = At("gate") /\ disk' = disk /\ mem' = mem
    BY <1>23 DEF FinishCopy
  <2> QED BY <2>1, NoSaveKeepsVerdicts DEF JobUnobjected
<1>24. CASE HostFault \/ Restart
  BY <1>24, NoSaveKeepsVerdicts DEF HostFault, Restart, JobUnobjected
<1> QED
  BY <1>3, <1>4, <1>5, <1>6, <1>7, <1>8, <1>9, <1>10, <1>11, <1>12, <1>13, <1>14,
     <1>15, <1>16, <1>17, <1>18, <1>19, <1>20, <1>21, <1>22, <1>23, <1>24
  DEF Next, LocalStep, UpdateStep, OperatorStep, FaultStep

(* The invariant behind quarantine and freeze.                             *)
THEOREM VerdictInvariantHolds ==
  ASSUME Disciplined
  PROVE  Spec => []VerdictInvariant
<1>1. Init => VerdictInvariant
  BY DEF Init, VerdictInvariant, VerdictsKept, JobUnobjected, Fresh, Idle
<1>2. TypeOK /\ UpdateInvariant /\ VerdictInvariant /\ [Next]_vars => VerdictInvariant'
  BY NextKeepsVerdicts
<1> QED BY <1>1, <1>2, TypeCorrect, UpdateInvariantHolds, PTL DEF Spec

(* The two inductive invariants of the device together.                    *)
THEOREM DeviceInvariantHolds ==
  ASSUME Disciplined
  PROVE  Spec => []DeviceInvariant
<1>1. UpdateInvariant /\ VerdictInvariant => DeviceInvariant
  BY DEF DeviceInvariant
<1> QED BY <1>1, UpdateInvariantHolds, VerdictInvariantHolds, PTL

-----------------------------------------------------------------------------
(* What one step may do to the version that state.json names.              *)

(* state.json is replaced by the memory, by an activation or by a revert.  *)
LEMMA CurrentMoves ==
  ASSUME TypeOK, [Next]_vars
  PROVE  \/ disk'.current_version \in {disk.current_version, mem.current_version}
         \/ job.at = "commit" /\ disk'.current_version = job.version
         \/ job.at = "commit_back" /\ disk'.current_version = mem.previous_version
<1>1. /\ Typed(mem)
      /\ job.version \in 0..MaxVersion
      /\ mem.current_version \in 0..MaxVersion
  BY DEF TypeOK, Typed, DeviceState, Jobs
<1>2. ASSUME NEW s, NEW next, Save(s, next), s.current_version = mem.current_version
      PROVE  disk'.current_version \in {disk.current_version, mem.current_version}
  BY <1>2 DEF Save
<1>3. CASE disk' = disk
  BY <1>3
<1>4. ASSUME NEW content, StageRefused(content)
      PROVE  disk'.current_version \in {disk.current_version, mem.current_version}
  <2>1. Condemned(mem, job.version, "staging").current_version = mem.current_version
    BY <1>1, CondemnedKeeps DEF Verdicts
  <2> QED BY <1>2, <1>4, <2>1 DEF StageRefused
<1>5. CASE RecordStaged \/ RecordRejected
  <2>1. Recorded(mem, "other").current_version = mem.current_version
    BY <1>1, RecordedKeeps DEF Records
  <2> QED BY <1>2, <1>5, <2>1 DEF RecordStaged, RecordRejected
<1>6. CASE GateRejects
  <2>1. Condemned(mem, job.version, "gate").current_version = mem.current_version
    BY <1>1, CondemnedKeeps DEF Verdicts
  <2> QED BY <1>2, <1>6, <2>1 DEF GateRejects
<1>7. CASE CommitActivation
  BY <1>1, <1>7, StateChanges DEF CommitActivation, Save
<1>8. CASE Rollback
  <2>1. Condemned(mem, mem.current_version, "rollback").current_version = mem.current_version
    BY <1>1, CondemnedKeeps DEF Verdicts
  <2> QED BY <1>2, <1>8, <2>1 DEF Rollback
<1>9. CASE CommitBack
  BY <1>1, <1>9, StateChanges DEF CommitBack, Save
<1>10. CASE Freeze
  <2>1. [mem EXCEPT !.updates_frozen = TRUE].current_version = mem.current_version
    BY <1>1 DEF Typed, DeviceState
  <2> QED BY <1>2, <1>10, <2>1 DEF Freeze
<1>11. ASSUME NEW clear \in BOOLEAN, Unfreeze(clear)
       PROVE  disk'.current_version \in {disk.current_version, mem.current_version}
  <2> DEFINE s == [mem EXCEPT !.updates_frozen = FALSE,
                              !.quarantined = IF clear THEN Fresh.quarantined ELSE @]
  <2>1. s.current_version = mem.current_version
    BY <1>1 DEF Typed, DeviceState
  <2>2. Save(s, Idle)
    BY <1>11 DEF Unfreeze
  <2> QED BY <1>2, <2>1, <2>2
<1>12. CASE \/ RemoveOld \/ FinishRemove \/ MoveIntoPlace \/ GatePasses \/ GateRaises
            \/ PointCurrent \/ PointBack \/ FinishCopy \/ HostFault \/ Restart
  <2>1. disk' = disk
    BY <1>12 DEF RemoveOld, FinishRemove, MoveIntoPlace, GatePasses, GateRaises,
                 PointCurrent, PointBack, FinishCopy, HostFault, Restart
  <2> QED BY <2>1, <1>3
<1>13. ASSUME \/ UNCHANGED vars
              \/ \E p \in Pointers : Check(p)
              \/ \E content \in Contents : StageVerified(content) \/ StageRaises(content)
              \/ \E v \in Factory : Install(v)
       PROVE  disk' = disk
  BY <1>13 DEF vars, Check, StageVerified, StageRaises, Install
<1> QED
  BY <1>3, <1>4, <1>5, <1>6, <1>7, <1>8, <1>9, <1>10, <1>11, <1>12, <1>13
  DEF Next, LocalStep, UpdateStep, OperatorStep, FaultStep

(* No step of the device makes a quarantined version the running one, with *)
(* failed saves and restarts, save for the factory image and a rollback.   *)
THEOREM QuarantineAlwaysHolds ==
  ASSUME Disciplined
  PROVE  Spec => QuarantineHolds
<1> DEFINE Step == \A v \in Versions :
                     /\ disk.current_version \notin {0, v}
                     /\ disk.previous_version # v
                     /\ disk.quarantined[v] # "none"
                     => disk'.current_version # v
<1>1. TypeOK /\ UpdateInvariant /\ VerdictInvariant /\ [Next]_vars => Step
  <2> SUFFICES ASSUME TypeOK, UpdateInvariant, VerdictInvariant, [Next]_vars,
                      NEW v \in Versions,
                      disk.current_version \notin {0, v},
                      disk.previous_version # v,
                      disk.quarantined[v] # "none",
                      disk'.current_version = v
               PROVE  FALSE
    OBVIOUS
  <2>1. mem.current_version # v
    BY DEF VerdictInvariant, VerdictsKept
  <2>2. CASE job.at = "commit" /\ job.version = v
    <3>1. mem.current_version # 0
      BY DEF UpdateInvariant, DiskLags
    <3>2. mem.quarantined[v] = "none"
      BY <2>2, <3>1 DEF VerdictInvariant, JobUnobjected
    <3> QED BY <3>2 DEF VerdictInvariant, VerdictsKept
  <2>3. CASE job.at = "commit_back" /\ mem.previous_version = v
    BY <2>3 DEF UpdateInvariant, JobConsistent
  <2> QED BY <2>1, <2>2, <2>3, CurrentMoves
<1>2. TypeOK /\ UpdateInvariant /\ VerdictInvariant /\ [Next]_vars => [Step]_vars
  BY <1>1
<1> QED BY <1>2, TypeCorrect, UpdateInvariantHolds, VerdictInvariantHolds, PTL
        DEF Spec, QuarantineHolds

(* However far an update had come when the freeze fell, and whatever could *)
(* not be saved, a frozen device does not move on.                         *)
THEOREM FrozenAlwaysStands ==
  ASSUME Disciplined
  PROVE  Spec => FrozenStandsStill
<1> DEFINE Step == disk.updates_frozen => disk'.current_version <= disk.current_version
<1>1. TypeOK /\ UpdateInvariant /\ VerdictInvariant /\ [Next]_vars => Step
  <2> SUFFICES ASSUME TypeOK, UpdateInvariant, VerdictInvariant, [Next]_vars,
                      disk.updates_frozen
               PROVE  disk'.current_version <= disk.current_version
    OBVIOUS
  <2>1. disk.current_version \in 0..MaxVersion /\ mem.current_version \in 0..MaxVersion
    BY DEF TypeOK, Typed, DeviceState
  <2>2. mem.current_version <= disk.current_version
    BY DEF VerdictInvariant, VerdictsKept
  <2>3. job.at # "commit"
    BY DEF VerdictInvariant, JobUnobjected
  <2>4. job.at = "commit_back" => mem.previous_version <= disk.current_version
    BY <2>1 DEF UpdateInvariant, JobConsistent, Sound, TypeOK, Typed, DeviceState
  <2> QED BY <2>1, <2>2, <2>3, <2>4, CurrentMoves
<1>2. TypeOK /\ UpdateInvariant /\ VerdictInvariant /\ [Next]_vars => [Step]_vars
  BY <1>1
<1> QED BY <1>2, TypeCorrect, UpdateInvariantHolds, VerdictInvariantHolds, PTL
        DEF Spec, FrozenStandsStill

-----------------------------------------------------------------------------
(* The device implements the abstract lifecycle.                           *)

(* With saves that do not fail, memory and disk are the same state.        *)
LEMMA MemoryIsSaved ==
  ASSUME "save" \notin Faults
  PROVE  Spec => [](mem = disk)
<1>1. Init => mem = disk
  BY DEF Init
<1>2. ASSUME mem = disk, [Next]_vars
      PROVE  (mem = disk)'
  <2>1. ASSUME NEW s, NEW next, Save(s, next)
        PROVE  mem' = disk'
    BY <2>1 DEF Save
  <2>2. ASSUME \/ UNCHANGED vars
               \/ \E p \in Pointers : Check(p)
               \/ \E content \in Contents : StageVerified(content) \/ StageRaises(content)
               \/ \E v \in Factory : Install(v)
               \/ RemoveOld \/ FinishRemove \/ MoveIntoPlace \/ GatePasses \/ GateRaises
               \/ PointCurrent \/ PointBack \/ FinishCopy \/ HostFault \/ Restart
        PROVE  mem' = disk'
    BY <1>2, <2>2
    DEF vars, Check, StageVerified, StageRaises, Install, RemoveOld, FinishRemove,
        MoveIntoPlace, GatePasses, GateRaises, PointCurrent, PointBack, FinishCopy,
        HostFault, Restart
  <2>3. ASSUME NEW content, StageRefused(content)
        PROVE  mem' = disk'
    BY <2>1, <2>3 DEF StageRefused
  <2>4. CASE RecordStaged \/ GateRejects \/ RecordRejected \/ CommitActivation
             \/ Rollback \/ CommitBack \/ Freeze
    BY <2>1, <2>4 DEF RecordStaged, GateRejects, RecordRejected, CommitActivation,
                      Rollback, CommitBack, Freeze
  <2>5. ASSUME NEW clear, Unfreeze(clear)
        PROVE  mem' = disk'
    BY <2>1, <2>5 DEF Unfreeze
  <2> QED
    BY <1>2, <2>2, <2>3, <2>4, <2>5 DEF Next, LocalStep, UpdateStep, OperatorStep, FaultStep
<1> QED BY <1>1, <1>2, PTL DEF Spec

(* A step in which nothing changes that the lifecycle speaks of.           *)
LEMMA QuietStep ==
  ASSUME disk'.current_version = disk.current_version,
         disk'.previous_version = disk.previous_version,
         disk'.quarantined = disk.quarantined,
         disk'.updates_frozen = disk.updates_frozen
  PROVE  UNCHANGED Lifecycle!lifecycle
BY DEF Lifecycle!lifecycle

(* A saved quarantine is the lifecycle's condemnation of that version.     *)
LEMMA SavedQuarantine ==
  ASSUME TypeOK, NEW v \in Versions, NEW why \in Verdicts \ {"none"},
         disk' = Condemned(disk, v, why),
         \/ v > disk.current_version
         \/ v = disk.current_version /\ disk.previous_version # 0
  PROVE  Lifecycle!Condemn(v)
<1>1. /\ Typed(disk)
      /\ disk.quarantined \in [Versions -> Verdicts]
      /\ v \in 0..MaxVersion
  BY DEF TypeOK, Typed, DeviceState, Versions
<1>2. /\ disk'.current_version = disk.current_version
      /\ disk'.previous_version = disk.previous_version
      /\ disk'.updates_frozen = disk.updates_frozen
      /\ disk'.quarantined[v] = why
      /\ \A w \in Versions \ {v} : disk'.quarantined[w] = disk.quarantined[w]
  BY <1>1, CondemnedKeeps, StateChanges
<1>3. {w \in Versions : disk'.quarantined[w] # "none"}
        = {w \in Versions : disk.quarantined[w] # "none"} \cup {v}
  BY <1>2
<1>4. v > disk.current_version \/ (v = disk.current_version /\ disk.previous_version # 0)
  OBVIOUS
<1> QED BY <1>2, <1>3, <1>4 DEF Lifecycle!Condemn

(* Every step of the device is a step of the lifecycle or changes nothing  *)
(* that the lifecycle speaks of.                                           *)
LEMMA LifecycleStep ==
  ASSUME "save" \notin Faults, Disciplined, mem = disk,
         TypeOK, UpdateInvariant, VerdictInvariant, [Next]_vars
  PROVE  [Lifecycle!Next]_(Lifecycle!lifecycle)
<1>1. /\ Typed(disk) /\ disk \in DeviceState
      /\ job.version \in 0..MaxVersion
      /\ disk.current_version \in 0..MaxVersion
      /\ disk.previous_version \in 0..MaxVersion
      /\ disk.quarantined \in [Versions -> Verdicts]
      /\ Versions = 1..MaxVersion
  BY DEF TypeOK, Typed, DeviceState, Jobs, Versions
<1>2. ASSUME NEW s, NEW next, Save(s, next)
      PROVE  disk' = s
  BY <1>2 DEF Save
<1>3. CASE disk' = disk
  BY <1>3, QuietStep
<1>4. ASSUME \/ UNCHANGED vars
             \/ \E p \in Pointers : Check(p)
             \/ \E content \in Contents : StageVerified(content) \/ StageRaises(content)
             \/ \E v \in Factory : Install(v)
             \/ RemoveOld \/ FinishRemove \/ MoveIntoPlace \/ GatePasses \/ GateRaises
             \/ PointCurrent \/ PointBack \/ FinishCopy \/ HostFault \/ Restart
      PROVE  disk' = disk
  BY <1>4 DEF vars, Check, StageVerified, StageRaises, Install, RemoveOld, FinishRemove,
              MoveIntoPlace, GatePasses, GateRaises, PointCurrent, PointBack, FinishCopy,
              HostFault, Restart
<1>5. ASSUME NEW content, StageRefused(content)
      PROVE  Lifecycle!Next
  <2>1. PICK v \in Versions : v = job.version /\ v > disk.current_version
    BY <1>5 DEF StageRefused, UpdateInvariant, JobConsistent
  <2>2. disk' = Condemned(disk, v, "staging")
    BY <1>2, <1>5, <2>1 DEF StageRefused
  <2>3. Lifecycle!Condemn(v)
    BY <2>1, <2>2, SavedQuarantine DEF Verdicts
  <2> QED BY <1>1, <2>1, <2>3 DEF Lifecycle!Next
<1>6. CASE RecordStaged \/ RecordRejected
  <2>1. disk' = Recorded(disk, "other")
    BY <1>2, <1>6 DEF RecordStaged, RecordRejected
  <2> QED BY <1>1, <2>1, RecordedKeeps, FreezeUntouched, QuietStep DEF Records
<1>7. CASE GateRejects
  <2>1. PICK v \in Versions : v = job.version /\ v > disk.current_version
    BY <1>7 DEF GateRejects, UpdateInvariant, JobConsistent
  <2>2. disk' = Condemned(disk, v, "gate")
    BY <1>2, <1>7, <2>1 DEF GateRejects
  <2>3. Lifecycle!Condemn(v)
    BY <2>1, <2>2, SavedQuarantine DEF Verdicts
  <2> QED BY <1>1, <2>1, <2>3 DEF Lifecycle!Next
<1>8. CASE CommitActivation
  <2>1. /\ job.version \in Versions /\ job.version > disk.current_version
        /\ ~disk.updates_frozen
        /\ disk.current_version = 0 \/ disk.quarantined[job.version] = "none"
    BY <1>8 DEF CommitActivation, UpdateInvariant, JobConsistent, VerdictInvariant,
                JobUnobjected
  <2>2. disk' = Activated(disk, job.version)
    BY <1>2, <1>8 DEF CommitActivation
  <2>3. /\ disk'.current_version = job.version
        /\ disk'.previous_version = disk.current_version
        /\ disk'.quarantined = disk.quarantined
        /\ disk'.updates_frozen = disk.updates_frozen
    BY <1>1, <2>2, StateChanges, FreezeUntouched DEF Records
  <2>4. disk.current_version = 0 => disk.previous_version = 0
    BY <1>1 DEF UpdateInvariant, Sound
  <2>5. Lifecycle!FirstVersion(job.version) \/ Lifecycle!Adopt(job.version)
    BY <2>1, <2>3, <2>4 DEF Lifecycle!FirstVersion, Lifecycle!Adopt
  <2> QED BY <1>1, <2>1, <2>5 DEF Lifecycle!Next
<1>9. CASE Rollback
  <2>1. disk.previous_version # 0
    BY <1>9 DEF Rollback
  <2>2. PICK v \in Versions : v = disk.current_version
    BY <1>1, <2>1, MaxVersionAssumption DEF UpdateInvariant, Sound
  <2>3. disk' = Condemned(disk, v, "rollback")
    BY <1>2, <1>9, <2>2 DEF Rollback
  <2>4. Lifecycle!Condemn(v)
    BY <2>1, <2>2, <2>3, SavedQuarantine DEF Verdicts
  <2> QED BY <1>1, <2>2, <2>4 DEF Lifecycle!Next
<1>10. CASE CommitBack
  <2>1. disk.previous_version # 0 /\ disk.quarantined[disk.current_version] # "none"
    BY <1>10 DEF CommitBack, UpdateInvariant, JobConsistent
  <2>2. disk.current_version \in Versions
    BY <1>1, <2>1, MaxVersionAssumption DEF UpdateInvariant, Sound
  <2>3. disk' = Reverted(disk)
    BY <1>2, <1>10 DEF CommitBack
  <2>4. /\ disk'.current_version = disk.previous_version
        /\ disk'.previous_version = 0
        /\ disk'.quarantined = disk.quarantined
        /\ disk'.updates_frozen = disk.updates_frozen
    BY <1>1, <2>3, StateChanges, FreezeUntouched DEF Records
  <2>5. Lifecycle!Revert
    BY <2>1, <2>2, <2>4 DEF Lifecycle!Revert
  <2> QED BY <2>5 DEF Lifecycle!Next
<1>11. CASE Freeze
  <2>1. disk.current_version # 0 /\ disk.previous_version = 0
    BY <1>11 DEF Freeze, VerdictInvariant, JobUnobjected
  <2>2. disk' = [disk EXCEPT !.updates_frozen = TRUE]
    BY <1>2, <1>11 DEF Freeze
  <2>3. /\ disk'.current_version = disk.current_version
        /\ disk'.previous_version = disk.previous_version
        /\ disk'.quarantined = disk.quarantined
        /\ disk'.updates_frozen = TRUE
    BY <1>1, <2>2 DEF DeviceState
  <2>4. Lifecycle!Freeze
    BY <2>1, <2>3 DEF Lifecycle!Freeze
  <2> QED BY <2>4 DEF Lifecycle!Next
<1>12. ASSUME NEW clear \in BOOLEAN, Unfreeze(clear)
       PROVE  Lifecycle!Next
  <2> DEFINE q == IF clear THEN Fresh.quarantined ELSE disk.quarantined
  <2>1. disk' = [disk EXCEPT !.updates_frozen = FALSE, !.quarantined = q]
    BY <1>1, <1>2, <1>12 DEF Unfreeze, DeviceState
  <2>2. /\ disk'.current_version = disk.current_version
        /\ disk'.previous_version = disk.previous_version
        /\ disk'.updates_frozen = FALSE
        /\ disk'.quarantined = q
    BY <1>1, <2>1 DEF DeviceState
  <2>3. q = disk.quarantined \/ \A v \in Versions : q[v] = "none"
    BY DEF Fresh
  <2>4. {v \in Versions : disk'.quarantined[v] # "none"}
          \in {{v \in Versions : disk.quarantined[v] # "none"}, {}}
    BY <2>2, <2>3
  <2>5. Lifecycle!Unfreeze
    BY <2>2, <2>4 DEF Lifecycle!Unfreeze
  <2> QED BY <2>5 DEF Lifecycle!Next
<1> QED
  BY <1>3, <1>4, <1>5, <1>6, <1>7, <1>8, <1>9, <1>10, <1>11, <1>12
  DEF Next, LocalStep, UpdateStep, OperatorStep, FaultStep

(* Through downloads, gates, crashes and program points, what a reboot     *)
(* would find in state.json changes only as the abstract lifecycle allows. *)
THEOREM DeviceImplementsLifecycle ==
  ASSUME "save" \notin Faults, Disciplined
  PROVE  Spec => ImplementsLifecycle
<1>1. Init => Lifecycle!Init
  BY DEF Init, Lifecycle!Init, Fresh
<1>2. /\ mem = disk
      /\ TypeOK /\ UpdateInvariant /\ VerdictInvariant
      /\ [Next]_vars
      => [Lifecycle!Next]_(Lifecycle!lifecycle)
  BY LifecycleStep
<1> QED BY <1>1, <1>2, MemoryIsSaved, TypeCorrect, UpdateInvariantHolds,
           VerdictInvariantHolds, PTL
        DEF Spec, ImplementsLifecycle, Lifecycle!Spec

=============================================================================
