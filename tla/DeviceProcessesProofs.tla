------------------------ MODULE DeviceProcessesProofs ------------------------
(***************************************************************************)
(* Theorems about two processes that write one state.json without a lock,  *)
(* for every number of versions, every kind of release and every fault.    *)
(*                                                                         *)
(* The argument is one of assumption and guarantee: what a step of either  *)
(* process does to what the two share is stated once, as an action, and    *)
(* the invariant and the action properties follow from these two actions.  *)
(***************************************************************************)
EXTENDS DeviceProcesses, TLAPS

-----------------------------------------------------------------------------
(* What the code does to a state, whichever process does it.               *)

(* The two instances have the same operators on states.                    *)
LEMMA SameOperators ==
  ASSUME NEW s
  PROVE  /\ \A action : Command!Recorded(s, action) = Agent!Recorded(s, action)
         /\ \A v, why : Command!Condemned(s, v, why) = Agent!Condemned(s, v, why)
         /\ \A v : Command!Activated(s, v) = Agent!Activated(s, v)
         /\ Command!Reverted(s) = Agent!Reverted(s)
BY DEF Command!Recorded, Agent!Recorded, Command!Latest, Agent!Latest,
       Command!Condemned, Agent!Condemned, Command!Activated, Agent!Activated,
       Command!Reverted, Agent!Reverted

LEMMA StateTyped ==
  ASSUME NEW s, Agent!Typed(s)
  PROVE  /\ s \in Agent!DeviceState
         /\ s.current_version \in 0..MaxVersion /\ s.current_version \in Nat
         /\ s.previous_version \in 0..MaxVersion /\ s.previous_version \in Nat
         /\ s.quarantined \in [Agent!Versions -> Agent!Verdicts]
         /\ s.history \in Seq(Agent!Records) /\ Len(s.history) <= Window
BY VersionBound DEF Agent!Typed, Agent!DeviceState

(* A record in the history changes nothing else, and the history is cut to *)
(* the window again.                                                       *)
LEMMA RecordedState ==
  ASSUME NEW s, Agent!Typed(s), NEW action \in Agent!Records
  PROVE  /\ Agent!Typed(Agent!Recorded(s, action))
         /\ Agent!Recorded(s, action).current_version = s.current_version
         /\ Agent!Recorded(s, action).previous_version = s.previous_version
         /\ Agent!Recorded(s, action).quarantined = s.quarantined
<1> DEFINE h == Append(s.history, action)
           trimmed == Agent!Latest(h)
<1>1. h \in Seq(Agent!Records) /\ Len(h) = Len(s.history) + 1
  BY StateTyped
<1>2. trimmed \in Seq(Agent!Records) /\ Len(trimmed) <= Window
  <2>1. CASE Len(h) > Window
    <3>1. h # <<>>
      BY <2>1, <1>1, WindowBound
    <3>2. Tail(h) \in Seq(Agent!Records) /\ Len(Tail(h)) = Len(h) - 1
      BY <3>1, <1>1
    <3>3. trimmed = Tail(h)
      BY <2>1 DEF Agent!Latest
    <3> HIDE DEF h, trimmed
    <3> QED BY <3>2, <3>3, <1>1, StateTyped, WindowBound
  <2>2. CASE ~(Len(h) > Window)
    BY <2>2, <1>1, WindowBound DEF Agent!Latest
  <2> QED BY <2>1, <2>2
<1>3. Agent!Recorded(s, action) = [s EXCEPT !.history = trimmed]
  BY DEF Agent!Recorded
<1> HIDE DEF h, trimmed
<1> QED BY <1>2, <1>3, StateTyped DEF Agent!Typed, Agent!DeviceState

LEMMA CondemnedState ==
  ASSUME NEW s, Agent!Typed(s), NEW v \in 0..MaxVersion, NEW why \in Agent!Verdicts
  PROVE  /\ Agent!Typed(Agent!Condemned(s, v, why))
         /\ Agent!Condemned(s, v, why).current_version = s.current_version
         /\ Agent!Condemned(s, v, why).previous_version = s.previous_version
         /\ \A w \in Agent!Versions :
              Agent!Condemned(s, v, why).quarantined[w] =
                IF w = v THEN why ELSE s.quarantined[w]
BY StateTyped DEF Agent!Typed, Agent!DeviceState, Agent!Condemned

LEMMA MovedState ==
  ASSUME NEW s, Agent!Typed(s), NEW v \in 0..MaxVersion
  PROVE  /\ Agent!Typed(Agent!Activated(s, v))
         /\ Agent!Activated(s, v).current_version = v
         /\ Agent!Activated(s, v).previous_version = s.current_version
         /\ Agent!Activated(s, v).quarantined = s.quarantined
         /\ Agent!Typed(Agent!Reverted(s))
         /\ Agent!Reverted(s).current_version = s.previous_version
         /\ Agent!Reverted(s).previous_version = 0
         /\ Agent!Reverted(s).quarantined = s.quarantined
<1> DEFINE moved(cur, prev) ==
             [s EXCEPT !.previous_version = prev, !.current_version = cur]
<1>1. ASSUME NEW cur \in 0..MaxVersion, NEW prev \in 0..MaxVersion
      PROVE  /\ Agent!Typed(moved(cur, prev))
             /\ moved(cur, prev).current_version = cur
             /\ moved(cur, prev).previous_version = prev
             /\ moved(cur, prev).quarantined = s.quarantined
  BY StateTyped DEF Agent!Typed, Agent!DeviceState
<1>2. s.current_version \in 0..MaxVersion /\ s.previous_version \in 0..MaxVersion
      /\ 0 \in 0..MaxVersion
  BY StateTyped, VersionBound
<1>3. /\ Agent!Activated(s, v) = Agent!Recorded(moved(v, s.current_version), "other")
      /\ Agent!Reverted(s) = Agent!Recorded(moved(s.previous_version, 0), "rolled_back")
  BY DEF Agent!Activated, Agent!Reverted
<1> HIDE DEF moved
<1> QED BY <1>1, <1>2, <1>3, RecordedState DEF Agent!Records

-----------------------------------------------------------------------------
(* Type correctness.                                                       *)

Trees == [Agent!Versions -> {"absent", "partial", "whole"}]

LEMMA JobsOf ==
  ASSUME NEW job \in Agent!Jobs
  PROVE  /\ job.at \in Agent!Points /\ job.version \in 0..MaxVersion
         /\ \A point \in Agent!Points :
              /\ [job EXCEPT !.at = point] \in Agent!Jobs
              /\ [job EXCEPT !.at = point].at = point
              /\ [job EXCEPT !.at = point].version = job.version
BY DEF Agent!Jobs

LEMMA IdleOf ==
  /\ Agent!Idle \in Agent!Jobs /\ Agent!Idle.at = "idle"
  /\ Command!Idle = Agent!Idle
BY VersionBound, BuildBound
DEF Agent!Idle, Command!Idle, Agent!Jobs, Agent!Points

LEMMA FreshState ==
  /\ Agent!Typed(Agent!Fresh)
  /\ Agent!Fresh.current_version = 0 /\ Agent!Fresh.previous_version = 0
  /\ \A v \in Agent!Versions : Agent!Fresh.quarantined[v] = "none"
  /\ Command!Fresh = Agent!Fresh
<1>1. /\ Agent!Fresh.current_version = 0 /\ Agent!Fresh.previous_version = 0
      /\ Agent!Fresh.quarantined = [v \in Agent!Versions |-> "none"]
      /\ Agent!Fresh.history = <<>>
      /\ Command!Fresh = Agent!Fresh
  BY DEF Agent!Fresh, Command!Fresh, Command!Versions, Agent!Versions
<1>2. Agent!Fresh \in Agent!DeviceState
  BY VersionBound DEF Agent!Fresh, Agent!DeviceState, Agent!Verdicts, Agent!Records
<1> QED BY <1>1, <1>2, WindowBound DEF Agent!Typed

-----------------------------------------------------------------------------
(* What a step of the agent does to what the processes share.              *)

Named == {disk.current_version, disk.previous_version,
          agentMem.current_version, agentMem.previous_version,
          commandMem.current_version, commandMem.previous_version}

AgentUnobjected ==
  agentJob.at \notin {"idle", "rejected"} =>
    agentMem.quarantined[agentJob.version] = "none"

(* The agent moves its copy forward, forgets no rollback it knows of, puts *)
(* nothing but its copy into the file, and takes nothing away that any     *)
(* copy of the state names.                                                *)
AgentGuarantee ==
  /\ UNCHANGED <<running, commandVars>>
  /\ Agent!Typed(agentMem') /\ Agent!Sound(agentMem)'
  /\ agentMem'.current_version >= agentMem.current_version
  /\ \A v \in Agent!Versions : OffIn(agentMem, v) => OffIn(agentMem', v)
  /\ disk' \in {disk, agentMem'}
  /\ bundle' \in Trees
  /\ \A v \in Named \ {0} : Agent!Runnable(v) => Agent!Runnable(v)'
  /\ agentJob' \in Agent!Jobs /\ AgentJobConsistent' /\ AgentUnobjected'

(* A version under way at the agent is named by no copy of the state.      *)
LEMMA StagedIsNotNamed ==
  ASSUME ProcessTypeOK, WritersInvariant, "agent" \in running,
         agentJob.at \notin {"idle", "rejected"}
  PROVE  agentJob.version \in Agent!Versions \ Named
<1>1. /\ agentMem.current_version \in Nat /\ agentMem.previous_version \in Nat
      /\ commandMem.current_version \in Nat /\ commandMem.previous_version \in Nat
      /\ disk.current_version \in Nat /\ disk.previous_version \in Nat
      /\ agentJob.version \in 0..MaxVersion
  BY StateTyped, JobsOf DEF ProcessTypeOK
<1>2. agentJob.version > agentMem.current_version
  BY DEF WritersInvariant, AgentJobConsistent
<1>3. /\ disk.current_version <= agentMem.current_version
      /\ commandMem.current_version <= disk.current_version
  BY DEF WritersInvariant, CopiesOrdered
<1>4. /\ agentMem.previous_version <= agentMem.current_version
      /\ commandMem.previous_version <= commandMem.current_version
      /\ disk.previous_version <= disk.current_version
  BY <1>1 DEF WritersInvariant, Agent!Sound
<1> QED BY <1>1, <1>2, <1>3, <1>4, VersionBound DEF Named, Agent!Versions

LEMMA AgentGuarantees ==
  ASSUME ProcessTypeOK, WritersInvariant, AgentUnobjected, AgentStep
  PROVE  AgentGuarantee
<1> DEFINE Consistent(j, s) ==
             /\ j \in Agent!Jobs
             /\ j.at \in {"idle", "fetch", "place", "staged", "gate", "rejected", "point", "commit"}
             /\ j.at \notin {"idle", "rejected"} => j.version > s.current_version
             /\ j.at \in {"point", "commit"} => Agent!Runnable(j.version)
             /\ j.at \notin {"idle", "rejected"} => s.quarantined[j.version] = "none"
           Kept == bundle' \in Trees /\ \A v \in Named \ {0} : Agent!Runnable(v) => Agent!Runnable(v)'
<1>1. /\ "agent" \in running
      /\ UNCHANGED <<running, commandVars>>
      /\ Agent!Typed(agentMem) /\ Agent!Sound(agentMem) /\ Consistent(agentJob, agentMem)
      /\ bundle \in Trees
  BY DEF AgentStep, ProcessTypeOK, WritersInvariant, AgentJobConsistent, AgentUnobjected, Trees
<1>2. /\ agentMem.current_version \in Nat /\ agentMem.previous_version \in Nat
      /\ agentJob.version \in 0..MaxVersion /\ agentJob.version \in Nat
      /\ agentJob.at \notin {"idle", "rejected"} => agentJob.version \in Agent!Versions \ Named
  BY <1>1, StateTyped, JobsOf, VersionBound, StagedIsNotNamed
<1>21. ASSUME NEW s
       PROVE  Consistent(Agent!Idle, s)
  BY IdleOf
<1>3. \A point \in {"fetch", "place", "staged", "gate", "rejected", "point", "commit"} :
        /\ [agentJob EXCEPT !.at = point] \in Agent!Jobs
        /\ [agentJob EXCEPT !.at = point].at = point
        /\ [agentJob EXCEPT !.at = point].version = agentJob.version
  <2>1. agentJob \in Agent!Jobs
    BY <1>1
  <2> HIDE DEF Consistent, Kept
  <2> QED BY <2>1 DEF Agent!Points, Agent!Jobs
<1>4. ASSUME UNCHANGED bundle
      PROVE  Kept
  BY <1>1, <1>4 DEF Agent!Runnable
<1>5. ASSUME UNCHANGED <<disk, agentMem>>, Kept, Consistent(agentJob, agentMem)'
      PROVE  AgentGuarantee
  <2>1. Agent!Sound(agentMem)'
    BY <1>1, <1>5 DEF Agent!Sound, Named
  <2>2. agentMem'.current_version >= agentMem.current_version
    BY <1>2, <1>5
  <2>3. AgentJobConsistent' /\ AgentUnobjected' /\ agentJob' \in Agent!Jobs
    BY <1>5 DEF AgentJobConsistent, AgentUnobjected
  <2> QED BY <1>1, <1>5, <2>1, <2>2, <2>3 DEF AgentGuarantee
<1>6. ASSUME NEW s, NEW next, Agent!Save(s, next), UNCHANGED bundle,
             Agent!Typed(s), Agent!Sound(s), Consistent(next, s),
             s.current_version >= agentMem.current_version,
             \A v \in Agent!Versions : OffIn(agentMem, v) => OffIn(s, v)
      PROVE  AgentGuarantee
  <2>1. /\ agentMem' = s /\ disk' \in {disk, s}
        /\ agentJob' = next \/ agentJob' = Agent!Idle
    BY <1>6 DEF Agent!Save
  <2>2. Agent!Sound(agentMem)'
    BY <1>6, <2>1 DEF Agent!Sound, Agent!Runnable
  <2>3. Consistent(agentJob, agentMem)'
    BY <1>6, <2>1, IdleOf DEF Agent!Runnable
  <2>4. AgentJobConsistent' /\ AgentUnobjected' /\ agentJob' \in Agent!Jobs
    BY <2>3 DEF AgentJobConsistent, AgentUnobjected
  <2> QED BY <1>1, <1>4, <1>6, <2>1, <2>2, <2>4 DEF AgentGuarantee
<1>7. ASSUME NEW p \in Agent!Pointers, Agent!Check(p)
      PROVE  AgentGuarantee
  <2>1. [at |-> "fetch", version |-> p.version, sha |-> p.sha] \in Agent!Jobs
    BY VersionBound DEF Agent!Pointers, Agent!Jobs, Agent!Points, Agent!Versions, Agent!Shas
  <2>2. /\ agentJob' = [at |-> "fetch", version |-> p.version, sha |-> p.sha]
        /\ UNCHANGED <<disk, agentMem, bundle>>
        /\ p.version > agentMem.current_version
        /\ agentMem.quarantined[p.version] = "none"
    BY <1>7 DEF Agent!Check, Agent!Candidate
  <2>3. Consistent(agentJob, agentMem)'
    BY <2>1, <2>2
  <2> QED BY <1>4, <1>5, <2>2, <2>3
<1>8. ASSUME NEW content, Agent!StageVerified(content)
      PROVE  AgentGuarantee
  <2>1. Consistent(agentJob, agentMem)'
    BY <1>1, <1>3, <1>8 DEF Agent!StageVerified, Agent!At
  <2> QED BY <1>4, <1>5, <1>8, <2>1 DEF Agent!StageVerified
<1>9. ASSUME NEW content, Agent!StageRaises(content) \/ Agent!HostFault \/ Agent!GateRaises
      PROVE  AgentGuarantee
  <2>1. agentJob' = Agent!Idle /\ UNCHANGED <<disk, agentMem, bundle>>
    BY <1>9 DEF Agent!StageRaises, Agent!HostFault, Agent!GateRaises
  <2>2. Consistent(agentJob, agentMem)'
    BY <2>1, IdleOf
  <2> QED BY <1>4, <1>5, <2>1, <2>2
<1>10. ASSUME agentJob.at \in {"fetch", "gate"}, NEW why \in {"staging", "gate"},
              NEW next, next \in {Agent!Idle, [agentJob EXCEPT !.at = "rejected"]},
              Agent!Save(Agent!Condemned(agentMem, agentJob.version, why), next),
              UNCHANGED bundle
       PROVE  AgentGuarantee
  <2> DEFINE s == Agent!Condemned(agentMem, agentJob.version, why)
  <2>1. /\ Agent!Typed(s)
        /\ s.current_version = agentMem.current_version
        /\ s.previous_version = agentMem.previous_version
        /\ \A w \in Agent!Versions :
             s.quarantined[w] = IF w = agentJob.version THEN why ELSE agentMem.quarantined[w]
    <3>1. why \in Agent!Verdicts /\ Agent!Typed(agentMem) /\ agentJob.version \in 0..MaxVersion
      BY <1>1, <1>2 DEF Agent!Verdicts
    <3> HIDE DEF Consistent, Kept
    <3> QED BY <3>1, CondemnedState
  <2>2. agentMem.quarantined[agentJob.version] = "none" /\ agentJob.version \in Agent!Versions
    BY <1>1, <1>2, <1>10
  <2>3. \A v \in Agent!Versions : OffIn(agentMem, v) => OffIn(s, v)
    BY <2>1, <2>2 DEF OffIn, Condemns
  <2>4. Agent!Sound(s)
    BY <1>1, <2>1 DEF Agent!Sound
  <2>5. Consistent(next, s)
    <3>1. CASE next = Agent!Idle
      BY <1>21, <3>1
    <3>2. CASE next = [agentJob EXCEPT !.at = "rejected"]
      <4>1. next \in Agent!Jobs /\ next.at = "rejected"
        BY <1>3, <3>2
      <4> QED BY <4>1
    <3> QED BY <1>10, <3>1, <3>2
  <2>6. s.current_version >= agentMem.current_version
    BY <1>2, <2>1
  <2>7. Agent!Save(s, next)
    BY <1>10
  <2> HIDE DEF s, Consistent
  <2> QED BY <1>6, <1>10, <2>1, <2>3, <2>4, <2>5, <2>6, <2>7
<1>11. ASSUME NEW content, Agent!StageRefused(content)
       PROVE  AgentGuarantee
  BY <1>10, <1>11 DEF Agent!StageRefused
<1>12. CASE Agent!GateRejects
  BY <1>10, <1>12 DEF Agent!GateRejects, Agent!At
<1>13. ASSUME NEW content, agentJob.at = "place", UNCHANGED <<disk, agentMem>>,
              bundle' = [bundle EXCEPT ![agentJob.version] = content],
              content \in {"absent", "partial", "whole"},
              agentJob' \in {agentJob, [agentJob EXCEPT !.at = "staged"]}
       PROVE  AgentGuarantee
  <2>1. agentJob.version \in Agent!Versions \ Named
    BY <1>2, <1>13
  <2>2. Kept
    BY <1>1, <1>13, <2>1 DEF Agent!Runnable, Trees, Named
  <2>3. Consistent(agentJob, agentMem)'
    <3>1. /\ agentJob' \in Agent!Jobs /\ agentJob'.at \in {"place", "staged"}
          /\ agentJob'.version = agentJob.version
      BY <1>1, <1>3, <1>13
    <3> QED BY <1>1, <1>13, <3>1
  <2> QED BY <1>5, <1>13, <2>2, <2>3
<1>14. CASE Agent!RemoveOld \/ Agent!FinishRemove \/ Agent!MoveIntoPlace
  BY <1>13, <1>14 DEF Agent!RemoveOld, Agent!FinishRemove, Agent!MoveIntoPlace, Agent!At
<1>15. ASSUME NEW next, Agent!Save(Agent!Recorded(agentMem, "other"), next), UNCHANGED bundle,
              Consistent(next, agentMem)
       PROVE  AgentGuarantee
  <2> DEFINE s == Agent!Recorded(agentMem, "other")
  <2>1. /\ Agent!Typed(s)
        /\ s.current_version = agentMem.current_version
        /\ s.previous_version = agentMem.previous_version
        /\ s.quarantined = agentMem.quarantined
    BY <1>1, RecordedState DEF Agent!Records
  <2>2. Agent!Sound(s)
    BY <1>1, <2>1 DEF Agent!Sound
  <2>3. Consistent(next, s)
    BY <1>15, <2>1
  <2>4. Agent!Save(s, next)
    BY <1>15
  <2>5. /\ s.current_version >= agentMem.current_version
        /\ \A v \in Agent!Versions : OffIn(agentMem, v) => OffIn(s, v)
    BY <1>2, <2>1 DEF OffIn, Condemns
  <2> HIDE DEF s, Consistent
  <2> QED BY <1>6, <1>15, <2>1, <2>2, <2>3, <2>4, <2>5
<1>16. CASE Agent!RecordStaged \/ Agent!RecordRejected
  <2> DEFINE gate == [agentJob EXCEPT !.at = "gate"]
  <2>1. CASE Agent!RecordStaged
    <3>1. Agent!Save(Agent!Recorded(agentMem, "other"), gate) /\ UNCHANGED bundle
      BY <2>1 DEF Agent!RecordStaged, Agent!At
    <3>2. Consistent(gate, agentMem)
      BY <1>1, <1>3, <2>1 DEF Agent!RecordStaged
    <3> HIDE DEF gate, Consistent
    <3> QED BY <1>15, <3>1, <3>2
  <2>2. CASE Agent!RecordRejected
    <3>1. Agent!Save(Agent!Recorded(agentMem, "other"), Agent!Idle) /\ UNCHANGED bundle
      BY <2>2 DEF Agent!RecordRejected
    <3>2. Consistent(Agent!Idle, agentMem)
      BY <1>21
    <3> HIDE DEF Consistent
    <3> QED BY <1>15, <3>1, <3>2
  <2> QED BY <1>16, <2>1, <2>2
<1>17. CASE Agent!GatePasses
  <2>1. Consistent(agentJob, agentMem)'
    BY <1>1, <1>3, <1>17 DEF Agent!GatePasses, Agent!At, Agent!Runnable
  <2> QED BY <1>4, <1>5, <1>17, <2>1 DEF Agent!GatePasses
<1>18. CASE Agent!PointCurrent
  <2>1. Consistent(agentJob, agentMem)'
    BY <1>1, <1>3, <1>18 DEF Agent!PointCurrent, Agent!At, Agent!Runnable
  <2> QED BY <1>4, <1>5, <1>18, <2>1 DEF Agent!PointCurrent
<1>19. CASE Agent!CommitActivation
  <2> DEFINE s == Agent!Activated(agentMem, agentJob.version)
  <2>1. /\ Agent!Typed(s)
        /\ s.current_version = agentJob.version
        /\ s.previous_version = agentMem.current_version
        /\ s.quarantined = agentMem.quarantined
    BY <1>1, <1>2, MovedState
  <2>2. /\ Agent!Runnable(agentJob.version)
        /\ agentJob.version > agentMem.current_version
        /\ agentMem.quarantined[agentJob.version] = "none"
    BY <1>1, <1>19 DEF Agent!CommitActivation
  <2>3. Agent!Sound(s)
    BY <1>1, <1>2, <2>1, <2>2 DEF Agent!Sound
  <2>4. Agent!Save(s, Agent!Idle) /\ UNCHANGED bundle
    BY <1>19 DEF Agent!CommitActivation
  <2>5. Consistent(Agent!Idle, s)
    BY IdleOf
  <2>6. /\ s.current_version >= agentMem.current_version
        /\ \A v \in Agent!Versions : OffIn(agentMem, v) => OffIn(s, v)
    BY <1>2, <2>1, <2>2 DEF OffIn, Condemns
  <2> HIDE DEF s, Consistent
  <2> QED BY <1>6, <2>1, <2>3, <2>4, <2>5, <2>6
<1>20. /\ ~Agent!PointBack /\ ~Agent!CommitBack /\ ~Agent!Freeze /\ ~Agent!FinishCopy
  BY <1>1 DEF Agent!PointBack, Agent!CommitBack, Agent!Freeze, Agent!FinishCopy
<1> QED
  BY <1>7, <1>8, <1>9, <1>11, <1>12, <1>14, <1>16, <1>17, <1>18, <1>19, <1>20
  DEF AgentStep, Agent!UpdateStep

-----------------------------------------------------------------------------
(* What a step of a command does to what the processes share.              *)

CommandUnobjected ==
  commandMem.current_version = 0 => \A v \in Agent!Versions : ~Condemns(commandMem, v)

(* A command takes its copy back, or gives a device its first version;     *)
(* it forgets no rollback, puts nothing but its copy into the file, and    *)
(* that only as it moves on, and takes no bundle away at all.              *)
CommandGuarantee ==
  /\ UNCHANGED <<running, agentVars>>
  /\ Agent!Typed(commandMem') /\ Agent!Sound(commandMem)'
  /\ \/ commandMem.current_version = 0
     \/ commandMem'.current_version \in 1..commandMem.current_version
  /\ \A v \in Agent!Versions : OffIn(commandMem, v) => OffIn(commandMem', v)
  /\ disk' \in {disk, commandMem'}
  /\ commandJob' = commandJob => disk' = disk
  /\ bundle' \in Trees
  /\ \A v \in Agent!Versions : Agent!Runnable(v) => Agent!Runnable(v)'
  /\ commandJob' \in Agent!Jobs /\ CommandJobConsistent' /\ CommandUnobjected'

LEMMA CommandGuarantees ==
  ASSUME ProcessTypeOK, WritersInvariant, CommandUnobjected, CommandStep
  PROVE  CommandGuarantee
<1> DEFINE Consistent(j, s) ==
             /\ j \in Agent!Jobs
             /\ j.at \in {"idle", "copy", "gate", "rejected", "point", "commit",
                          "point_back", "commit_back", "freeze"}
             /\ j.at \in {"copy", "gate", "point", "commit"} =>
                  j.version \in Agent!Versions /\ s.current_version = 0
             /\ j.at \in {"point", "commit"} => Agent!Runnable(j.version)
             /\ j.at \in {"point_back", "commit_back"} => s.previous_version # 0
           Kept == bundle' \in Trees /\ \A v \in Agent!Versions : Agent!Runnable(v) => Agent!Runnable(v)'
           Unobjected(s) == s.current_version = 0 => \A v \in Agent!Versions : ~Condemns(s, v)
<1>1. /\ "command" \in running
      /\ UNCHANGED <<running, agentVars>>
      /\ Agent!Typed(commandMem) /\ Agent!Sound(commandMem)
      /\ Consistent(commandJob, commandMem) /\ Unobjected(commandMem)
      /\ bundle \in Trees
  BY DEF CommandStep, ProcessTypeOK, WritersInvariant, CommandJobConsistent,
         CommandUnobjected, Trees
<1>2. /\ commandMem.current_version \in Nat /\ commandMem.previous_version \in Nat
      /\ commandMem.current_version \in 0..MaxVersion
      /\ commandJob.version \in 0..MaxVersion
      /\ commandMem.previous_version # 0 =>
           /\ commandMem.previous_version < commandMem.current_version
           /\ commandMem.previous_version \in Agent!Versions
           /\ commandMem.current_version \in Agent!Versions
      /\ commandMem.current_version # 0 => commandMem.current_version \in Agent!Versions
  BY <1>1, StateTyped, JobsOf, VersionBound DEF Agent!Sound, Agent!Versions
<1>3. ASSUME NEW s
      PROVE  Consistent(Agent!Idle, s)
  BY IdleOf
<1>4. \A point \in {"gate", "rejected", "point", "commit", "commit_back", "freeze"} :
        /\ [commandJob EXCEPT !.at = point] \in Agent!Jobs
        /\ [commandJob EXCEPT !.at = point].at = point
        /\ [commandJob EXCEPT !.at = point].version = commandJob.version
  <2>1. commandJob \in Agent!Jobs
    BY <1>1
  <2> HIDE DEF Consistent, Kept
  <2> QED BY <2>1 DEF Agent!Points, Agent!Jobs
<1>5. ASSUME UNCHANGED bundle
      PROVE  Kept
  BY <1>1, <1>5 DEF Agent!Runnable
<1>6. ASSUME UNCHANGED <<disk, commandMem>>, Kept, Consistent(commandJob, commandMem)'
      PROVE  CommandGuarantee
  <2>1. Agent!Sound(commandMem)'
    <3>1. commandMem.current_version # 0 => Agent!Runnable(commandMem.current_version)'
      BY <1>1, <1>2, <1>6 DEF Agent!Sound
    <3>2. commandMem.previous_version # 0 => Agent!Runnable(commandMem.previous_version)'
      BY <1>1, <1>2, <1>6 DEF Agent!Sound
    <3> QED BY <1>1, <1>6, <3>1, <3>2 DEF Agent!Sound
  <2>2. \/ commandMem.current_version = 0
        \/ commandMem'.current_version \in 1..commandMem.current_version
    BY <1>2, <1>6
  <2>3. CommandJobConsistent' /\ commandJob' \in Agent!Jobs
    BY <1>6 DEF CommandJobConsistent
  <2>4. CommandUnobjected'
    BY <1>1, <1>6 DEF CommandUnobjected, Condemns
  <2> QED BY <1>1, <1>6, <2>1, <2>2, <2>3, <2>4 DEF CommandGuarantee
<1>7. ASSUME NEW s, NEW next, Command!Save(s, next), UNCHANGED bundle, next # commandJob,
             Agent!Typed(s), Agent!Sound(s), Consistent(next, s), Unobjected(s),
             \/ commandMem.current_version = 0
             \/ s.current_version \in 1..commandMem.current_version,
             \A v \in Agent!Versions : OffIn(commandMem, v) => OffIn(s, v)
      PROVE  CommandGuarantee
  <2>1. /\ commandMem' = s
        /\ \/ disk' = s /\ commandJob' = next
           \/ disk' = disk /\ commandJob' = Agent!Idle
    BY <1>7, IdleOf DEF Command!Save
  <2>2. Agent!Sound(commandMem)'
    BY <1>7, <2>1 DEF Agent!Sound, Agent!Runnable
  <2>3. Consistent(commandJob, commandMem)'
    <3>1. Consistent(next, s)'
      BY <1>7 DEF Agent!Runnable
    <3> QED BY <2>1, <3>1, IdleOf
  <2>4. CommandJobConsistent' /\ commandJob' \in Agent!Jobs
    BY <2>3 DEF CommandJobConsistent
  <2>5. CommandUnobjected'
    BY <1>7, <2>1 DEF CommandUnobjected, Condemns
  <2> HIDE DEF Consistent
  <2> QED BY <1>1, <1>5, <1>7, <2>1, <2>2, <2>4, <2>5 DEF CommandGuarantee
<1>8. CASE Command!Rollback
  <2> DEFINE s == Agent!Condemned(commandMem, commandMem.current_version, "rollback")
             next == [at |-> "point_back", version |-> commandMem.current_version, sha |-> 0]
  <2>1. /\ Agent!Typed(s)
        /\ s.current_version = commandMem.current_version
        /\ s.previous_version = commandMem.previous_version
        /\ \A w \in Agent!Versions :
             s.quarantined[w] = IF w = commandMem.current_version THEN "rollback"
                                ELSE commandMem.quarantined[w]
    <3>1. "rollback" \in Agent!Verdicts
      BY DEF Agent!Verdicts
    <3> HIDE DEF Consistent, Kept, Unobjected
    <3> QED BY <1>1, <1>2, <3>1, CondemnedState
  <2>2. /\ commandMem.previous_version # 0 /\ commandJob = Agent!Idle
        /\ Command!Save(s, next) /\ UNCHANGED bundle
    BY <1>8, SameOperators, IdleOf DEF Command!Rollback
  <2>3. Consistent(next, s)
    BY <1>2, <2>1, <2>2, BuildBound DEF Agent!Jobs, Agent!Points
  <2>4. next # commandJob
    BY <2>2 DEF Agent!Idle
  <2>5. Agent!Sound(s) /\ Unobjected(s)
    BY <1>1, <1>2, <2>1, <2>2 DEF Agent!Sound
  <2>6. \A v \in Agent!Versions : OffIn(commandMem, v) => OffIn(s, v)
    BY <2>1 DEF OffIn, Condemns
  <2>7. s.current_version \in 1..commandMem.current_version
    BY <1>2, <2>1, <2>2
  <2> HIDE DEF s, next, Consistent, Unobjected
  <2> QED BY <1>7, <2>1, <2>2, <2>3, <2>4, <2>5, <2>6, <2>7
<1>9. ASSUME NEW v \in Factory, Command!Install(v)
      PROVE  CommandGuarantee
  <2> DEFINE next == [at |-> IF bundle[v] = "absent" THEN "copy" ELSE "gate",
                      version |-> v, sha |-> 0]
  <2>1. /\ v \in Agent!Versions /\ v \in 0..MaxVersion
        /\ commandMem.current_version = 0
        /\ bundle' = [bundle EXCEPT ![v] = IF @ = "absent" THEN "partial" ELSE @]
        /\ commandJob' = next /\ UNCHANGED <<disk, commandMem>>
    BY <1>9, FactoryImages, VersionBound DEF Command!Install, Agent!Versions
  <2>2. Kept
    BY <1>1, <2>1 DEF Agent!Runnable, Trees
  <2>3. Consistent(commandJob, commandMem)'
    <3>1. next \in Agent!Jobs /\ next.at \in {"copy", "gate"} /\ next.version = v
      BY <2>1, BuildBound DEF Agent!Jobs, Agent!Points
    <3> HIDE DEF next
    <3> QED BY <2>1, <3>1
  <2> QED BY <1>6, <2>1, <2>2, <2>3
<1>10. CASE Command!HostFault \/ Command!GateRaises
  <2>1. commandJob' = Agent!Idle /\ UNCHANGED <<disk, commandMem, bundle>>
    BY <1>10, IdleOf DEF Command!HostFault, Command!GateRaises
  <2>2. Consistent(commandJob, commandMem)'
    BY <2>1, IdleOf
  <2> QED BY <1>5, <1>6, <2>1, <2>2
<1>11. CASE Command!GateRejects
  <2> DEFINE s == Agent!Condemned(commandMem, commandJob.version, "gate")
             next == [commandJob EXCEPT !.at = "rejected"]
  <2>1. /\ Agent!Typed(s)
        /\ s.current_version = commandMem.current_version
        /\ s.previous_version = commandMem.previous_version
        /\ \A w \in Agent!Versions :
             s.quarantined[w] = IF w = commandJob.version THEN "gate"
                                ELSE commandMem.quarantined[w]
    <3>1. "gate" \in Agent!Verdicts
      BY DEF Agent!Verdicts
    <3> HIDE DEF Consistent, Kept, Unobjected
    <3> QED BY <1>1, <1>2, <3>1, CondemnedState
  <2>2. /\ commandJob.at = "gate" /\ commandMem.current_version = 0
        /\ Command!Save(s, next) /\ UNCHANGED bundle
    BY <1>1, <1>11, SameOperators DEF Command!GateRejects, Command!At
  <2>3. next \in Agent!Jobs /\ next.at = "rejected"
    BY <1>4
  <2>4. Consistent(next, s) /\ next # commandJob
    BY <2>2, <2>3
  <2>5. Agent!Sound(s)
    BY <1>1, <2>1 DEF Agent!Sound
  <2>6. \A v \in Agent!Versions : ~Condemns(commandMem, v) /\ ~Condemns(s, v)
    BY <1>1, <2>1, <2>2 DEF Condemns
  <2>7. \A v \in Agent!Versions : OffIn(commandMem, v) => OffIn(s, v)
    BY <2>6 DEF OffIn
  <2> HIDE DEF s, next, Consistent
  <2> QED BY <1>7, <2>1, <2>2, <2>4, <2>5, <2>6, <2>7
<1>12. CASE Command!RecordRejected
  <2> DEFINE s == Agent!Recorded(commandMem, "other")
  <2>1. /\ Agent!Typed(s)
        /\ s.current_version = commandMem.current_version
        /\ s.previous_version = commandMem.previous_version
        /\ s.quarantined = commandMem.quarantined
    BY <1>1, RecordedState DEF Agent!Records
  <2>2. /\ Command!Save(s, Agent!Idle) /\ UNCHANGED bundle /\ commandJob # Agent!Idle
    BY <1>12, SameOperators, IdleOf DEF Command!RecordRejected
  <2>3. Agent!Sound(s) /\ Unobjected(s)
    BY <1>1, <2>1 DEF Agent!Sound, Condemns
  <2>4. \/ commandMem.current_version = 0
        \/ s.current_version \in 1..commandMem.current_version
    BY <1>2, <2>1
  <2>5. \A v \in Agent!Versions : OffIn(commandMem, v) => OffIn(s, v)
    BY <2>1 DEF OffIn, Condemns
  <2> HIDE DEF s, Consistent, Unobjected
  <2> QED BY <1>3, <1>7, <2>1, <2>2, <2>3, <2>4, <2>5
<1>13. CASE Command!GatePasses
  <2>1. Consistent(commandJob, commandMem)'
    BY <1>1, <1>4, <1>13 DEF Command!GatePasses, Command!At, Agent!Runnable
  <2> QED BY <1>5, <1>6, <1>13, <2>1 DEF Command!GatePasses
<1>14. CASE Command!PointCurrent
  <2>1. Consistent(commandJob, commandMem)'
    BY <1>1, <1>4, <1>14 DEF Command!PointCurrent, Command!At, Agent!Runnable
  <2> QED BY <1>5, <1>6, <1>14, <2>1 DEF Command!PointCurrent
<1>15. CASE Command!CommitActivation
  <2> DEFINE s == Agent!Activated(commandMem, commandJob.version)
  <2>1. /\ Agent!Typed(s)
        /\ s.current_version = commandJob.version
        /\ s.previous_version = commandMem.current_version
        /\ s.quarantined = commandMem.quarantined
    BY <1>1, <1>2, MovedState
  <2>2. /\ commandMem.current_version = 0
        /\ Agent!Runnable(commandJob.version) /\ commandJob.version \in Agent!Versions
    BY <1>1, <1>15 DEF Command!CommitActivation
  <2>3. Agent!Sound(s) /\ Unobjected(s)
    BY <2>1, <2>2, VersionBound DEF Agent!Sound, Agent!Versions
  <2>4. Command!Save(s, Agent!Idle) /\ UNCHANGED bundle /\ commandJob # Agent!Idle
    BY <1>15, SameOperators, IdleOf DEF Command!CommitActivation
  <2>5. \A v \in Agent!Versions : OffIn(commandMem, v) => OffIn(s, v)
    BY <1>1, <2>2 DEF OffIn
  <2> HIDE DEF s, Consistent, Unobjected
  <2> QED BY <1>3, <1>7, <2>1, <2>2, <2>3, <2>4, <2>5
<1>16. CASE Command!PointBack
  <2>1. Consistent(commandJob, commandMem)'
    BY <1>1, <1>4, <1>16 DEF Command!PointBack, Command!At
  <2> QED BY <1>5, <1>6, <1>16, <2>1 DEF Command!PointBack
<1>17. CASE Command!CommitBack
  <2> DEFINE s == Agent!Reverted(commandMem)
             next == IF Command!OverBudget(s) THEN [commandJob EXCEPT !.at = "freeze"]
                     ELSE Agent!Idle
  <2>1. /\ Agent!Typed(s)
        /\ s.current_version = commandMem.previous_version
        /\ s.previous_version = 0
        /\ s.quarantined = commandMem.quarantined
    BY <1>1, <1>2, MovedState
  <2>2. /\ commandJob.at = "commit_back" /\ commandMem.previous_version # 0
        /\ Command!Save(s, next) /\ UNCHANGED bundle
    BY <1>1, <1>17, SameOperators, IdleOf DEF Command!CommitBack, Command!At
  <2>3. Consistent(next, s) /\ next # commandJob
    <3>1. CASE next = Agent!Idle
      BY <3>1, <1>3, <2>2, IdleOf
    <3>2. CASE next = [commandJob EXCEPT !.at = "freeze"]
      <4>1. next \in Agent!Jobs /\ next.at = "freeze"
        BY <1>4, <3>2
      <4> QED BY <4>1, <2>2
    <3> QED BY <3>1, <3>2
  <2>4. Agent!Sound(s) /\ Unobjected(s)
    BY <1>1, <1>2, <2>1, <2>2 DEF Agent!Sound
  <2>5. s.current_version \in 1..commandMem.current_version
    BY <1>2, <2>1, <2>2
  <2>6. \A v \in Agent!Versions : OffIn(commandMem, v) => OffIn(s, v)
    BY <2>1 DEF OffIn, Condemns, Agent!Versions
  <2> HIDE DEF s, next, Consistent, Unobjected
  <2> QED BY <1>7, <2>1, <2>2, <2>3, <2>4, <2>5, <2>6
<1>18. CASE Command!Freeze
  <2> DEFINE s == [commandMem EXCEPT !.updates_frozen = TRUE]
  <2>1. /\ Agent!Typed(s)
        /\ s.current_version = commandMem.current_version
        /\ s.previous_version = commandMem.previous_version
        /\ s.quarantined = commandMem.quarantined
    BY <1>1 DEF Agent!Typed, Agent!DeviceState
  <2>2. /\ Command!Save(s, Agent!Idle) /\ UNCHANGED bundle /\ commandJob # Agent!Idle
    BY <1>18, IdleOf DEF Command!Freeze
  <2>3. Agent!Sound(s) /\ Unobjected(s)
    BY <1>1, <2>1 DEF Agent!Sound, Condemns
  <2>4. \/ commandMem.current_version = 0
        \/ s.current_version \in 1..commandMem.current_version
    BY <1>2, <2>1
  <2>5. \A v \in Agent!Versions : OffIn(commandMem, v) => OffIn(s, v)
    BY <2>1 DEF OffIn, Condemns
  <2> HIDE DEF s, Consistent, Unobjected
  <2> QED BY <1>3, <1>7, <2>1, <2>2, <2>3, <2>4, <2>5
<1>19. CASE Command!FinishCopy
  <2>1. Kept
    BY <1>1, <1>2, <1>19 DEF Command!FinishCopy, Agent!Runnable, Trees
  <2>2. Consistent(commandJob, commandMem)'
    BY <1>1, <1>4, <1>19 DEF Command!FinishCopy, Command!At
  <2> QED BY <1>6, <1>19, <2>1, <2>2 DEF Command!FinishCopy
<1>20. /\ ~Command!RemoveOld /\ ~Command!FinishRemove
       /\ ~Command!MoveIntoPlace /\ ~Command!RecordStaged
  BY <1>1 DEF Command!RemoveOld, Command!FinishRemove, Command!MoveIntoPlace,
              Command!RecordStaged
<1> QED
  BY <1>8, <1>9, <1>10, <1>11, <1>12, <1>13, <1>14, <1>15, <1>16, <1>17, <1>18,
     <1>19, <1>20
  DEF CommandStep, Command!UpdateStep

-----------------------------------------------------------------------------
(* The inductive invariant.                                                *)

LEMMA VerdictsSplit == WritersInvariant => AgentUnobjected /\ CommandUnobjected
BY DEF WritersInvariant, VerdictsOrdered, AgentUnobjected, CommandUnobjected

LEMMA InvariantStarts == ProcessInit => ProcessInvariant
<1> SUFFICES ASSUME ProcessInit PROVE ProcessInvariant
  OBVIOUS
<1> USE FreshState, IdleOf DEF ProcessInit
<1>1. ProcessTypeOK
  BY DEF ProcessTypeOK, Processes
<1>2. VerdictsOrdered
  BY DEF VerdictsOrdered, Condemns
<1>3. WritersInvariant
  BY <1>2 DEF WritersInvariant, Agent!Sound, CopiesOrdered, AgentJobConsistent,
              CommandJobConsistent
<1> QED BY <1>1, <1>3 DEF ProcessInvariant

LEMMA AgentStepKeeps ==
  ASSUME ProcessInvariant, AgentStep
  PROVE  ProcessInvariant'
<1>1. AgentGuarantee /\ ProcessTypeOK /\ WritersInvariant /\ VerdictsOrdered /\ "agent" \in running
  BY AgentGuarantees, VerdictsSplit DEF ProcessInvariant, WritersInvariant, AgentStep
<1>2. /\ agentMem.current_version \in Nat /\ agentMem'.current_version \in Nat
      /\ disk.current_version \in Nat
      /\ commandMem.current_version \in Nat
  BY <1>1, StateTyped DEF ProcessTypeOK, AgentGuarantee
<1>3. ProcessTypeOK'
  BY <1>1 DEF ProcessTypeOK, AgentGuarantee, commandVars, Trees, Agent!Typed
<1>4. Agent!Sound(disk)' /\ Agent!Sound(commandMem)'
  <2>1. /\ Agent!Sound(disk) /\ Agent!Sound(commandMem) /\ Agent!Sound(agentMem)'
        /\ disk' \in {disk, agentMem'} /\ commandMem' = commandMem
        /\ \A v \in Named \ {0} : Agent!Runnable(v) => Agent!Runnable(v)'
    BY <1>1 DEF WritersInvariant, AgentGuarantee, commandVars
  <2>2. Agent!Sound(commandMem)'
    BY <2>1 DEF Named, Agent!Sound
  <2>3. CASE disk' = disk
    BY <2>1, <2>3 DEF Named, Agent!Sound
  <2>4. CASE disk' = agentMem'
    BY <2>1, <2>2, <2>4 DEF Agent!Sound, Agent!Runnable
  <2> QED BY <2>1, <2>2, <2>3, <2>4
<1>5. CopiesOrdered'
  <2>1. CopiesOrdered /\ "agent" \in running /\ disk' \in {disk, agentMem'}
        /\ UNCHANGED <<running, commandMem>>
        /\ agentMem'.current_version >= agentMem.current_version
    BY <1>1 DEF WritersInvariant, AgentGuarantee, commandVars
  <2>2. CASE disk' = disk
    BY <1>2, <2>1, <2>2 DEF CopiesOrdered
  <2>3. CASE disk' = agentMem'
    BY <1>2, <2>1, <2>3 DEF CopiesOrdered
  <2> QED BY <2>1, <2>2, <2>3
<1>6. CommandJobConsistent'
  <2>1. /\ CommandJobConsistent /\ UNCHANGED <<commandMem, commandJob>>
        /\ commandJob.at \notin {"point", "commit"}
    BY <1>1, IdleOf DEF WritersInvariant, CopiesOrdered, CommandJobConsistent,
                        AgentGuarantee, commandVars, ProcessTypeOK
  <2> QED BY <2>1 DEF CommandJobConsistent
<1>7. VerdictsOrdered'
  BY <1>1, <1>2 DEF VerdictsOrdered, AgentGuarantee, AgentUnobjected, commandVars,
                   WritersInvariant, CopiesOrdered, Condemns
<1>8. WritersInvariant'
  BY <1>1, <1>4, <1>5, <1>6, <1>7 DEF WritersInvariant, AgentGuarantee
<1> QED BY <1>3, <1>8 DEF ProcessInvariant

LEMMA CommandStepKeeps ==
  ASSUME ProcessInvariant, CommandStep
  PROVE  ProcessInvariant'
<1>1. CommandGuarantee /\ ProcessTypeOK /\ WritersInvariant /\ VerdictsOrdered /\ "command" \in running
  BY CommandGuarantees, VerdictsSplit DEF ProcessInvariant, WritersInvariant, CommandStep
<1>2. /\ commandMem.current_version \in Nat /\ commandMem'.current_version \in Nat
      /\ disk.current_version \in Nat /\ disk.current_version \in 0..MaxVersion
      /\ agentMem.current_version \in Nat /\ agentMem.current_version \in 0..MaxVersion
      /\ disk.previous_version \in 0..MaxVersion
      /\ agentMem.previous_version \in 0..MaxVersion
      /\ agentJob.version \in 0..MaxVersion
      /\ \A v \in 0..MaxVersion : v # 0 => v \in Agent!Versions
  BY <1>1, StateTyped, JobsOf, VersionBound
  DEF ProcessTypeOK, CommandGuarantee, Agent!Versions
<1>3. ProcessTypeOK'
  BY <1>1 DEF ProcessTypeOK, CommandGuarantee, agentVars, Trees, Agent!Typed
<1>4. Agent!Sound(disk)' /\ Agent!Sound(agentMem)'
  <2>1. /\ Agent!Sound(disk) /\ Agent!Sound(agentMem) /\ Agent!Sound(commandMem)'
        /\ disk' \in {disk, commandMem'} /\ agentMem' = agentMem
        /\ \A v \in Agent!Versions : Agent!Runnable(v) => Agent!Runnable(v)'
    BY <1>1 DEF WritersInvariant, CommandGuarantee, agentVars
  <2>2. Agent!Sound(agentMem)'
    BY <1>2, <2>1 DEF Agent!Sound
  <2>3. CASE disk' = disk
    BY <1>2, <2>1, <2>3 DEF Agent!Sound
  <2>4. CASE disk' = commandMem'
    BY <2>1, <2>2, <2>4 DEF Agent!Sound, Agent!Runnable
  <2> QED BY <2>1, <2>2, <2>3, <2>4
<1>5. CopiesOrdered'
  <2>1. CopiesOrdered /\ "command" \in running /\ disk' \in {disk, commandMem'}
        /\ UNCHANGED <<running, agentMem>>
        /\ \/ commandMem.current_version = 0
           \/ commandMem'.current_version \in 1..commandMem.current_version
    BY <1>1 DEF WritersInvariant, CommandGuarantee, agentVars
  <2>2. CASE disk' = disk
    BY <1>2, <2>1, <2>2 DEF CopiesOrdered
  <2>3. CASE disk' = commandMem'
    BY <1>2, <2>1, <2>3 DEF CopiesOrdered
  <2> QED BY <2>1, <2>2, <2>3
<1>6. AgentJobConsistent'
  <2>1. AgentJobConsistent /\ UNCHANGED <<agentMem, agentJob>>
    BY <1>1 DEF WritersInvariant, CommandGuarantee, agentVars
  <2>2. agentJob.at \in {"point", "commit"} => agentJob.version \in Agent!Versions
    BY <1>2, <2>1 DEF AgentJobConsistent
  <2> QED BY <1>1, <2>1, <2>2 DEF AgentJobConsistent, CommandGuarantee
<1>7. VerdictsOrdered'
  <2>1. /\ VerdictsOrdered /\ CommandUnobjected' /\ disk' \in {disk, commandMem'}
        /\ UNCHANGED <<agentMem, agentJob>>
    BY <1>1 DEF CommandGuarantee, agentVars
  <2> QED BY <2>1 DEF VerdictsOrdered, CommandUnobjected, Condemns
<1>8. WritersInvariant'
  BY <1>1, <1>4, <1>5, <1>6, <1>7 DEF WritersInvariant, CommandGuarantee
<1> QED BY <1>3, <1>8 DEF ProcessInvariant

(* A process starts from the file and leaves nothing behind in memory.     *)
LEMMA StartStopKeeps ==
  ASSUME ProcessInvariant, StartAgent \/ StopAgent \/ StartCommand \/ StopCommand
  PROVE  ProcessInvariant'
<1>1. /\ ProcessTypeOK /\ WritersInvariant /\ VerdictsOrdered
      /\ UNCHANGED <<disk, bundle>>
      /\ disk.current_version \in Nat
      /\ commandMem.current_version \in Nat
  BY StateTyped
  DEF ProcessInvariant, ProcessTypeOK, WritersInvariant, StartAgent, StopAgent, StartCommand,
      StopCommand, shared
<1> DEFINE Untouched(v) == Agent!Runnable(v)' = Agent!Runnable(v)
<1>2. \A v : Untouched(v)
  BY <1>1 DEF Agent!Runnable
<1>3. CASE StartAgent \/ StopAgent
  <2>1. /\ UNCHANGED <<commandMem, commandJob>>
        /\ \/ /\ running' = running \cup {"agent"} /\ agentMem' = disk
              /\ agentJob' = agentJob /\ agentJob = Agent!Idle /\ disk.current_version # 0
           \/ /\ running' = running \ {"agent"} /\ agentMem' = Agent!Fresh
              /\ agentJob' = Agent!Idle
    BY <1>1, <1>3 DEF StartAgent, StopAgent, ProcessTypeOK, commandVars
  <2>2. ProcessTypeOK'
    BY <1>1, <2>1, FreshState, IdleOf DEF ProcessTypeOK, Processes, Agent!Typed
  <2>3. Agent!Sound(agentMem)' /\ Agent!Sound(disk)' /\ Agent!Sound(commandMem)'
    BY <1>1, <1>2, <2>1, FreshState DEF WritersInvariant, Agent!Sound
  <2>4. AgentJobConsistent' /\ CommandJobConsistent'
    BY <1>1, <1>2, <2>1, IdleOf DEF WritersInvariant, AgentJobConsistent, CommandJobConsistent
  <2>5. CopiesOrdered'
    BY <1>1, <2>1 DEF WritersInvariant, CopiesOrdered
  <2>6. VerdictsOrdered'
    BY <1>1, <2>1, IdleOf DEF VerdictsOrdered, Condemns
  <2> QED BY <2>2, <2>3, <2>4, <2>5, <2>6 DEF ProcessInvariant, WritersInvariant
<1>4. CASE StartCommand \/ StopCommand
  <2>1. /\ UNCHANGED <<agentMem, agentJob>>
        /\ \/ /\ running' = running \cup {"command"} /\ commandMem' = disk
              /\ commandJob' = commandJob /\ commandJob = Agent!Idle
           \/ /\ running' = running \ {"command"} /\ commandMem' = Agent!Fresh
              /\ commandJob' = Agent!Idle
    BY <1>1, <1>4, FreshState, IdleOf DEF StartCommand, StopCommand, ProcessTypeOK, agentVars
  <2>2. ProcessTypeOK'
    BY <1>1, <2>1, FreshState, IdleOf DEF ProcessTypeOK, Processes, Agent!Typed
  <2>3. Agent!Sound(agentMem)' /\ Agent!Sound(disk)' /\ Agent!Sound(commandMem)'
    BY <1>1, <1>2, <2>1, FreshState DEF WritersInvariant, Agent!Sound
  <2>4. AgentJobConsistent' /\ CommandJobConsistent'
    BY <1>1, <1>2, <2>1, IdleOf DEF WritersInvariant, AgentJobConsistent, CommandJobConsistent
  <2>5. CopiesOrdered'
    BY <1>1, <2>1, FreshState DEF WritersInvariant, CopiesOrdered
  <2>6. VerdictsOrdered'
    BY <1>1, <2>1, FreshState DEF VerdictsOrdered, Condemns
  <2> QED BY <2>2, <2>3, <2>4, <2>5, <2>6 DEF ProcessInvariant, WritersInvariant
<1> QED BY <1>3, <1>4

LEMMA StepsKeep ==
  ASSUME ProcessInvariant, [ProcessNext]_processVars
  PROVE  ProcessInvariant'
<1>1. CASE UNCHANGED processVars
  BY <1>1
  DEF ProcessInvariant, ProcessTypeOK, WritersInvariant, VerdictsOrdered, CopiesOrdered, Condemns,
      AgentJobConsistent, CommandJobConsistent, Agent!Sound, Agent!Runnable, Agent!Typed,
      processVars, shared, agentVars, commandVars
<1> QED
  BY <1>1, AgentStepKeeps, CommandStepKeeps, StartStopKeeps DEF ProcessNext

(* The invariant of the two writers, for all constants: the file and both  *)
(* memories stay well-formed however the saves interleave, the copies are  *)
(* ordered, and the version being staged is newer than all of them.        *)
THEOREM ProcessInvariantHolds == ProcessSpec => []ProcessInvariant
<1> QED BY InvariantStarts, StepsKeep, PTL DEF ProcessSpec

(* `device rollback' and `device install' beside a running agent, with no  *)
(* lock and any fault: whoever saves last, and whenever the power fails,   *)
(* state.json names a complete and gated version to boot, and if it names  *)
(* one to go back to, then that is one, too.                               *)
THEOREM TwoWritersAlwaysKeepBundles == ProcessSpec => []TwoWritersKeepBundles
<1>1. ProcessInvariant => TwoWritersKeepBundles
  BY DEF ProcessInvariant, WritersInvariant, TwoWritersKeepBundles, Agent!BootsGated,
         Agent!SpareReady, Agent!Sound
<1> QED BY <1>1, ProcessInvariantHolds, PTL

(* What a running agent writes over the file, with a copy that may be far  *)
(* older than the file, never takes the device to an older version; only a *)
(* command does.                                                           *)
THEOREM AgentAlwaysAdvances == ProcessSpec => AgentNeverLowers
<1>1. ASSUME ProcessInvariant, [ProcessNext]_processVars, commandVars' = commandVars
      PROVE  disk'.current_version >= disk.current_version
  <2>1. disk.current_version \in Nat /\ agentMem.current_version \in Nat
    BY <1>1, StateTyped DEF ProcessInvariant, ProcessTypeOK
  <2>2. CASE AgentStep
    <3>1. AgentGuarantee /\ "agent" \in running
      BY <1>1, <2>2, AgentGuarantees, VerdictsSplit DEF ProcessInvariant, AgentStep
    <3>2. agentMem'.current_version \in Nat
      BY <3>1, StateTyped DEF AgentGuarantee
    <3>3. disk.current_version <= agentMem.current_version
      BY <1>1, <3>1 DEF ProcessInvariant, WritersInvariant, CopiesOrdered
    <3> QED BY <2>1, <3>1, <3>2, <3>3 DEF AgentGuarantee
  <2>3. CASE CommandStep
    <3>1. CommandGuarantee
      BY <1>1, <2>3, CommandGuarantees, VerdictsSplit DEF ProcessInvariant
    <3> QED BY <1>1, <2>1, <3>1 DEF CommandGuarantee, commandVars
  <2>4. ASSUME UNCHANGED disk
        PROVE  disk'.current_version >= disk.current_version
    BY <2>1, <2>4
  <2> QED
    BY <1>1, <2>2, <2>3, <2>4
    DEF ProcessNext, StartAgent, StopAgent, StartCommand, StopCommand, shared, processVars
<1>2. ProcessInvariant /\ [ProcessNext]_processVars =>
        [commandVars' = commandVars => disk'.current_version >= disk.current_version]_processVars
  BY <1>1
<1> QED BY <1>2, ProcessInvariantHolds, PTL DEF ProcessSpec, AgentNeverLowers

(* A version that was rolled back, and that the file and the copy of every *)
(* running process condemn and do not name, is off this device for good:   *)
(* no save of either process takes the verdict back, replaces it by        *)
(* another or names the version again.  So restarting the agent after      *)
(* `device rollback' is enough to make the rollback last.                  *)
THEOREM RolledBackIsForGood == ProcessSpec => RolledBackForGood
<1>1. ASSUME ProcessInvariant, [ProcessNext]_processVars, NEW v \in Agent!Versions, Off(v)
      PROVE  Off(v)'
  <2>1. CASE AgentStep
    <3>1. AgentGuarantee /\ "agent" \in running
      BY <1>1, <2>1, AgentGuarantees, VerdictsSplit DEF ProcessInvariant, AgentStep
    <3>2. OffIn(disk', v) /\ OffIn(agentMem', v)
      BY <1>1, <3>1 DEF Off, AgentGuarantee
    <3> QED BY <1>1, <3>1, <3>2 DEF Off, AgentGuarantee, commandVars
  <2>2. CASE CommandStep
    <3>1. CommandGuarantee /\ "command" \in running
      BY <1>1, <2>2, CommandGuarantees, VerdictsSplit DEF ProcessInvariant, CommandStep
    <3>2. OffIn(disk', v) /\ OffIn(commandMem', v)
      BY <1>1, <3>1 DEF Off, CommandGuarantee
    <3> QED BY <1>1, <3>1, <3>2 DEF Off, CommandGuarantee, agentVars
  <2>3. CASE StartAgent \/ StopAgent \/ StartCommand \/ StopCommand
    BY <1>1, <2>3
    DEF Off, StartAgent, StopAgent, StartCommand, StopCommand, shared, agentVars, commandVars
  <2>4. CASE UNCHANGED processVars
    BY <1>1, <2>4 DEF Off, processVars, shared, agentVars, commandVars
  <2> QED BY <1>1, <2>1, <2>2, <2>3, <2>4 DEF ProcessNext
<1>2. ProcessInvariant /\ [ProcessNext]_processVars =>
        [\A v \in Agent!Versions : Off(v) => Off(v)']_processVars
  BY <1>1
<1> QED BY <1>2, ProcessInvariantHolds, PTL DEF ProcessSpec, RolledBackForGood

=============================================================================
