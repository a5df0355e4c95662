--------------------------- MODULE DeviceProcesses ---------------------------
(***************************************************************************)
(* The commands of cli.py on one device: `device run' is the agent, a      *)
(* process that lives for long; `device rollback' and `device install' are *)
(* processes of their own that may be started beside it.                   *)
(*                                                                         *)
(* Each process constructs a DeviceAgent, and with it an OTAClient that    *)
(* reads state.json once and from then on saves its own copy.  They share  *)
(* the file, the bundles and the link, and no lock.  Module OTAClient      *)
(* describes either of them.                                               *)
(***************************************************************************)
EXTENDS Integers, Sequences, FiniteSets

CONSTANTS MaxVersion, Kind, Factory, Bucket, Percents, MaxBuilds, Window,
          MaxRollbacks, Faults

ASSUME VersionBound == MaxVersion \in Nat \ {0}
ASSUME BuildBound == MaxBuilds \in Nat \ {0}
ASSUME WindowBound == Window \in Nat \ {0}
ASSUME FactoryImages == Factory \subseteq 1..MaxVersion

VARIABLES
  disk, bundle, link,        \* what the processes share (see OTAClient)
  running,                   \* the processes there are
  agentMem, agentJob,        \* the state and the program point of the agent
  commandMem, commandJob     \* and of the command

shared == <<disk, bundle, link>>
agentVars == <<agentMem, agentJob>>
commandVars == <<commandMem, commandJob>>
processVars == <<shared, running, agentVars, commandVars>>

Processes == {"agent", "command"}

(* `device run' polls and nothing else *)
Agent == INSTANCE OTAClient
           WITH mem <- agentMem, job <- agentJob, Operator <- {}

(* the command does what a person asks for *)
Command == INSTANCE OTAClient
             WITH mem <- commandMem, job <- commandJob, Operator <- {"rollback"}

-----------------------------------------------------------------------------
(* _agent(): the constructor reads state.json and loads the current        *)
(* policy, which fails when its directory is not complete                  *)
Constructs == disk.current_version # 0 => Agent!Runnable(disk.current_version)

(* run() refuses to start without a policy                                 *)
StartAgent ==
  /\ "agent" \notin running
  /\ disk.current_version # 0
  /\ Constructs
  /\ running' = running \cup {"agent"}
  /\ agentMem' = disk
  /\ UNCHANGED <<shared, agentJob, commandVars>>

(* the run is over, or, with "crash", the process ends anywhere            *)
StopAgent ==
  /\ "agent" \in running
  /\ agentJob = Agent!Idle \/ "crash" \in Faults
  /\ running' = running \ {"agent"}
  /\ agentMem' = Agent!Fresh
  /\ agentJob' = Agent!Idle
  /\ UNCHANGED <<shared, commandVars>>

AgentStep ==
  /\ "agent" \in running
  /\ \/ \E p \in Agent!Pointers : Agent!Check(p)
     \/ \E content \in Agent!Contents :
          \/ Agent!StageVerified(content)
          \/ Agent!StageRefused(content)
          \/ Agent!StageRaises(content)
     \/ Agent!UpdateStep
     \/ Agent!HostFault
  /\ UNCHANGED <<running, commandVars>>

StartCommand ==
  /\ "command" \notin running
  /\ Constructs
  /\ running' = running \cup {"command"}
  /\ commandMem' = disk
  /\ UNCHANGED <<shared, agentVars, commandJob>>

StopCommand ==
  /\ "command" \in running
  /\ commandJob = Command!Idle \/ "crash" \in Faults
  /\ running' = running \ {"command"}
  /\ commandMem' = Command!Fresh
  /\ commandJob' = Command!Idle
  /\ UNCHANGED <<shared, agentVars>>

(* device_rollback(), or device_install() on a device without a version    *)
CommandStep ==
  /\ "command" \in running
  /\ \/ Command!Rollback
     \/ \E v \in Factory : Command!Install(v)
     \/ Command!UpdateStep
     \/ Command!HostFault
  /\ UNCHANGED <<running, agentVars>>

-----------------------------------------------------------------------------
ProcessInit ==
  /\ disk = Agent!Fresh
  /\ bundle = [v \in Agent!Versions |-> "absent"]
  /\ link = 0
  /\ running = {}
  /\ agentMem = Agent!Fresh
  /\ agentJob = Agent!Idle
  /\ commandMem = Agent!Fresh
  /\ commandJob = Agent!Idle

ProcessNext ==
  \/ StartAgent \/ AgentStep \/ StopAgent
  \/ StartCommand \/ CommandStep \/ StopCommand

ProcessSpec == ProcessInit /\ [][ProcessNext]_processVars

-----------------------------------------------------------------------------
(* Properties.                                                             *)

(* Two processes that save over each other never leave the device with a   *)
(* state that names, to boot or to go back to, anything but a complete,    *)
(* gated bundle: neither stages over a version that the other's copy of    *)
(* the state may bring back.                                               *)
TwoWritersKeepBundles == Agent!BootsGated /\ Agent!SpareReady

(* The copy of a running agent may be older than state.json, but what it   *)
(* saves never takes the device back to an older version.                  *)
AgentNeverLowers ==
  [][commandVars' = commandVars => disk'.current_version >= disk.current_version]_processVars

(* Restarting the agent after a rollback makes the rollback last: a version *)
(* that the file and the copy of every running process condemn and do not  *)
(* name is never named or forgiven again, whichever of them saves next and *)
(* however long the hub goes on offering it.                               *)
Condemns(s, v) == s.quarantined[v] = "rollback"

OffIn(s, v) == Condemns(s, v) /\ v \notin {s.current_version, s.previous_version}

Off(v) ==
  /\ OffIn(disk, v)
  /\ "agent" \in running => OffIn(agentMem, v)
  /\ "command" \in running => OffIn(commandMem, v)

RolledBackForGood ==
  [][\A v \in Agent!Versions : Off(v) => Off(v)']_processVars

(* "Return to the previous version and quarantine the current one": when   *)
(* the command has done so and is gone, the device keeps its verdict.      *)
RollbackHolds ==
  [][\A v \in Agent!Versions :
       "command" \notin running /\ disk.quarantined[v] = "rollback"
         => disk'.quarantined[v] = "rollback"]_processVars

-----------------------------------------------------------------------------
(* Why two writers are safe.                                               *)

(* The type of every variable, and what is left of a process that ended.   *)
ProcessTypeOK ==
  /\ running \subseteq Processes
  /\ Agent!Typed(disk) /\ Agent!Typed(agentMem) /\ Agent!Typed(commandMem)
  /\ bundle \in [Agent!Versions -> {"absent", "partial", "whole"}]
  /\ agentJob \in Agent!Jobs /\ commandJob \in Agent!Jobs
  /\ "agent" \notin running => agentMem = Agent!Fresh /\ agentJob = Agent!Idle
  /\ "command" \notin running => commandMem = Agent!Fresh /\ commandJob = Agent!Idle

(* The three copies of the state are ordered: the command's is the oldest  *)
(* version, because a command only goes back, and the agent's the newest,  *)
(* because an agent only goes forward; the file is in between.  Only a     *)
(* device without a version is given its first one by a command, and it    *)
(* has no agent yet.                                                       *)
CopiesOrdered ==
  /\ "agent" \in running =>
       disk.current_version # 0 /\ disk.current_version <= agentMem.current_version
  /\ disk.current_version # 0 => commandMem.current_version <= disk.current_version
  /\ "command" \in running /\ commandMem.current_version = 0 => disk.current_version = 0

(* What the program point of either process implies about the version it   *)
(* works on.                                                               *)
AgentJobConsistent ==
  /\ agentJob.at \in {"idle", "fetch", "place", "staged", "gate", "rejected", "point", "commit"}
  /\ agentJob.at \notin {"idle", "rejected"} => agentJob.version > agentMem.current_version
  /\ agentJob.at \in {"point", "commit"} => Agent!Runnable(agentJob.version)

CommandJobConsistent ==
  /\ commandJob.at \in {"idle", "copy", "gate", "rejected", "point", "commit",
                        "point_back", "commit_back", "freeze"}
  /\ commandJob.at \in {"copy", "gate", "point", "commit"} =>
       commandJob.version \in Agent!Versions /\ commandMem.current_version = 0
  /\ commandJob.at \in {"point", "commit"} => Agent!Runnable(commandJob.version)
  /\ commandJob.at \in {"point_back", "commit_back"} => commandMem.previous_version # 0

(* A device without a version has nothing to roll back, and an update in   *)
(* progress is of a version that the agent has nothing against.            *)
VerdictsOrdered ==
  /\ \A s \in {disk, commandMem} :
       s.current_version = 0 => \A v \in Agent!Versions : ~Condemns(s, v)
  /\ agentJob.at \notin {"idle", "rejected"} =>
       agentMem.quarantined[agentJob.version] = "none"

(* The inductive strengthening of the properties above: what the agent     *)
(* stages is newer than anything that any of the three copies of the state *)
(* names, so whoever saves last names whole bundles.                       *)
WritersInvariant ==
  /\ Agent!Sound(disk) /\ Agent!Sound(agentMem) /\ Agent!Sound(commandMem)
  /\ CopiesOrdered /\ VerdictsOrdered
  /\ AgentJobConsistent /\ CommandJobConsistent

(* With the types it is inductive.                                         *)
ProcessInvariant == ProcessTypeOK /\ WritersInvariant

=============================================================================
