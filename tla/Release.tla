------------------------------- MODULE Release -------------------------------
(***************************************************************************)
(* One release from the workstation to the control loop: build() and       *)
(* publish() write and sign a bundle, a device downloads it or installs it *)
(* as its factory image, the health gate looks at it, and DeviceAgent      *)
(* loads it and feeds it observations.                                     *)
(*                                                                         *)
(* Module OTAClient takes the verdict of verification and of the gate as   *)
(* given (its constant Kind); this one opens them up.  A bundle directory  *)
(* is what state each of its files is in, a policy is the columns it names *)
(* and the shape of its layers, and a value is known by the column it is a *)
(* value of.  The numbers the gate measures are free.                      *)
(***************************************************************************)
EXTENDS Integers, Sequences, FiniteSets, Functions

CONSTANTS
  Observed,       \* the columns observe() gives the values of, in its order
  DeviceColumns,  \* the columns the device is configured to publish
  Foreign,        \* columns other devices publish
  Joints,         \* joints of the arm (7)
  MaxColumns,     \* bound: the columns of a policy
  MaxHead         \* bound: the outputs of a policy

Columns == Range(Observed) \cup Range(DeviceColumns) \cup Foreign

ASSUME ObservedAssumption ==
  /\ Observed \in Seq(Range(Observed)) /\ Observed # <<>>
  /\ DeviceColumns \in Seq(Range(DeviceColumns)) /\ DeviceColumns # <<>>
ASSUME JointsAssumption == Joints \in Nat \ {0}
ASSUME BoundsAssumption == MaxColumns \in Nat \ {0} /\ MaxHead \in Nat \ {0}

VARIABLES
  policy,     \* the policy that is released
  probe,      \* where its probe set comes from
  building,   \* where build() is
  listed,     \* the files the manifest lists and hashes
  built,      \* the directory build() writes
  archive,    \* <version>.tar.gz, as its members
  present,    \* bundles/<version> exists on the device
  dest,       \* what it holds
  older,      \* the device runs an older version already
  job,        \* where poll() or install_local() is
  active,     \* state.json names the release as current
  condemned,  \* it is in quarantine
  agent       \* the device process

releaseVars == <<policy, probe, building, listed, built, archive, present, dest,
                 older, job, active, condemned, agent>>

hubVars == <<policy, probe, building, listed, built, archive>>
deviceVars == <<present, dest, older, job, active, condemned, agent>>

-----------------------------------------------------------------------------
(* Policies.  The first layer takes one input for each column named; the   *)
(* constructor does not look at the other layers (fit) or at the outputs   *)
(* (head), nor at whether the action columns name a gripper target, the    *)
(* last one, that the head has no output for.                              *)

Policies ==
  [ columns : UNION {[1..n -> Columns] : n \in 1..MaxColumns},
    head : 1..MaxHead,
    gripper : BOOLEAN,
    fit : BOOLEAN ]

(* forward() on a vector of that many values does not raise                *)
Accepts(width) == policy.fit /\ width = Len(policy.columns)

(* bind(): the named column of the observation in each slot                *)
Bind(observation) == [k \in DOMAIN policy.columns |-> observation[policy.columns[k]]]

(* ReachWorkload.step(): the deltas must broadcast over the joints         *)
Moves == policy.head = 1 \/ policy.head >= Joints

(* sample_observations(n, policy.forward): the vector of observe(), fed by *)
(* position.  The scratch workload is a default one, and observe() gives   *)
(* the same values whatever columns a workload is configured with.         *)
Samples == Accepts(Len(Observed)) /\ Moves

(* InferenceRuntime.step() catches what the policy raises; what it looks   *)
(* up in the action afterwards, the gripper target, is outside its try     *)
StepReturns == policy.gripper => policy.head > Joints

-----------------------------------------------------------------------------
(* The bundle.                                                             *)

Files == {"policy", "probe", "manifest", "sig"}
Absent == [f \in Files |-> "absent"]

(* the files a finished bundle of this release has                         *)
Contents == IF probe = "none" THEN Files \ {"probe"} ELSE Files

(* [deviation] the bundle is signed first and its probe recorded last      *)
PrecedingProbeLast(f) ==
  CASE f = "policy" -> {}
    [] f = "manifest" -> {"policy"}
    [] f = "sig" -> {"policy", "manifest"}
    [] f = "probe" -> Files \ {"probe"}

(* build() writes the files in this order                                  *)
Preceding(f) ==
  CASE f = "policy" -> {}
    [] f = "probe" -> {"policy"}
    [] f = "manifest" -> {"policy", "probe"}
    [] f = "sig" -> Files \ {"sig"}

(* the file build() works on                                               *)
Writing(f) ==
  /\ building = "writing"
  /\ f \in Contents
  /\ built[f] # "whole"
  /\ \A g \in Preceding(f) \cap Contents : built[g] = "whole"

(* [deviation] a listed file that is not there is passed over              *)
VerifiedIfPresent(dir) ==
  /\ dir["manifest"] = "whole"
  /\ dir["sig"] = "whole"
  /\ \A f \in listed : dir[f] \in {"absent", "whole"}

(* verify(): the signature is the one over this manifest and every listed  *)
(* file has its hash.  A torn manifest does not even parse.                *)
Verified(dir) ==
  /\ dir["manifest"] = "whole"
  /\ dir["sig"] = "whole"
  /\ \A f \in listed : dir[f] = "whole"

(* bundle build: build_calibration() records the probe set before anything *)
(* is written.  (A probe that is too narrow would be padded afterwards,    *)
(* but the policy that needs it has raised by then.)                       *)
BeginBuild ==
  /\ building = "begin"
  /\ probe = "calibrated" => Samples
  /\ building' = "writing"
  /\ UNCHANGED <<policy, probe, listed, built, archive>>
  /\ UNCHANGED deviceVars

CalibrationRaises ==
  /\ building = "begin"
  /\ probe = "calibrated" /\ ~Samples
  /\ building' = "failed"
  /\ UNCHANGED <<policy, probe, listed, built, archive>>
  /\ UNCHANGED deviceVars

(* A file is created.  The expected actions are computed before the probe  *)
(* file is, and what is there is hashed before the manifest is.            *)
CreateFile(f) ==
  /\ Writing(f)
  /\ built[f] = "absent"
  /\ f = "probe" => policy.fit
  /\ built' = [built EXCEPT ![f] = "torn"]
  /\ listed' = IF f = "manifest"
                 THEN {g \in Files \ {"manifest", "sig"} : built[g] # "absent"}
                 ELSE listed
  /\ UNCHANGED <<policy, probe, building, archive>>
  /\ UNCHANGED deviceVars

CompleteFile(f) ==
  /\ Writing(f)
  /\ built[f] = "torn"
  /\ built' = [built EXCEPT ![f] = "whole"]
  /\ UNCHANGED <<policy, probe, building, listed, archive>>
  /\ UNCHANGED deviceVars

(* build() is interrupted, or the policy raises on the probe set.  The     *)
(* directory stays, and build() never writes into one that exists.         *)
BuildFails ==
  /\ building = "writing"
  /\ building' = "failed"
  /\ UNCHANGED <<policy, probe, listed, built, archive>>
  /\ UNCHANGED deviceVars

(* publish() in another process, at any time: verify, then pack            *)
Publish ==
  /\ Verified(built)
  /\ archive' = built
  /\ UNCHANGED <<policy, probe, building, listed, built>>
  /\ UNCHANGED deviceVars

-----------------------------------------------------------------------------
(* The device gets the bundle.                                             *)

(* stage(): the archive is downloaded, unpacked and verified in scratch    *)
Stage ==
  /\ agent = "up" /\ job = "idle"
  /\ older /\ ~active /\ ~condemned
  /\ Verified(archive)
  /\ job' = "place"
  /\ UNCHANGED <<present, dest, older, active, condemned, agent>>
  /\ UNCHANGED hubVars

(* a directory that is there already goes first, file by file              *)
RemoveFile(f) ==
  /\ job = "place"
  /\ dest[f] # "absent"
  /\ dest' = [dest EXCEPT ![f] = "absent"]
  /\ UNCHANGED <<present, older, job, active, condemned, agent>>
  /\ UNCHANGED hubVars

RemoveDirectory ==
  /\ job = "place"
  /\ present /\ dest = Absent
  /\ present' = FALSE
  /\ UNCHANGED <<dest, older, job, active, condemned, agent>>
  /\ UNCHANGED hubVars

MoveIntoPlace ==
  /\ job = "place"
  /\ ~present
  /\ present' = TRUE
  /\ dest' = archive
  /\ job' = "gate"
  /\ UNCHANGED <<older, active, condemned, agent>>
  /\ UNCHANGED hubVars

(* install_local(): a directory that exists is taken for a copy, even one  *)
(* that a power cut left empty                                             *)
Install ==
  /\ agent = "up" /\ job = "idle"
  /\ ~older /\ ~active
  /\ Verified(built)
  /\ job' = IF present THEN "gate" ELSE "copy"
  /\ present' = TRUE
  /\ UNCHANGED <<dest, older, active, condemned, agent>>
  /\ UNCHANGED hubVars

(* the files are copied one by one, in the order the directory gives them  *)
BeginCopy(f) ==
  /\ job = "copy"
  /\ built[f] = "whole" /\ dest[f] = "absent"
  /\ \A g \in Files : dest[g] # "torn"
  /\ dest' = [dest EXCEPT ![f] = "torn"]
  /\ UNCHANGED <<present, older, job, active, condemned, agent>>
  /\ UNCHANGED hubVars

EndCopy(f) ==
  /\ job = "copy"
  /\ dest[f] = "torn"
  /\ dest' = [dest EXCEPT ![f] = "whole"]
  /\ job' = IF \A g \in Contents \ {f} : dest[g] = "whole" THEN "gate" ELSE "copy"
  /\ UNCHANGED <<present, older, active, condemned, agent>>
  /\ UNCHANGED hubVars

-----------------------------------------------------------------------------
(* activate(): verify again, then health_check.                            *)

(* every column the policy names is one the device publishes               *)
ContractHolds == Range(policy.columns) \subseteq Range(DeviceColumns)

(* [deviation] the gate looks at the contract and does not run the policy  *)
GateRunsNothing == TRUE

(* warmup() and the probe steps return.  Both feed the policy vectors of   *)
(* its own width.                                                          *)
GateRuns == policy.fit /\ StepReturns

GateRaises ==
  /\ job = "gate"
  /\ ~Verified(dest) \/ (ContractHolds /\ ~GateRuns)
  /\ job' = "idle"
  /\ UNCHANGED <<present, dest, older, active, condemned, agent>>
  /\ UNCHANGED hubVars

(* no: the contract, or whatever the probe steps measure                   *)
GateRejects ==
  /\ job = "gate"
  /\ Verified(dest)
  /\ ContractHolds => GateRuns
  /\ condemned' = TRUE
  /\ job' = "idle"
  /\ UNCHANGED <<present, dest, older, active, agent>>
  /\ UNCHANGED hubVars

(* yes: `current' and state.json name the release (see OTAClient)          *)
GatePasses ==
  /\ job = "gate"
  /\ Verified(dest)
  /\ ContractHolds /\ GateRuns
  /\ active' = TRUE
  /\ job' = "load"
  /\ UNCHANGED <<present, dest, older, condemned, agent>>
  /\ UNCHANGED hubVars

-----------------------------------------------------------------------------
(* The agent runs it.                                                      *)

(* _load_current(): the directory is loaded without another verification,  *)
(* warmed up, and the detector calibrated on the workload                  *)
Loads == dest["policy"] = "whole" /\ policy.fit /\ Samples

(* what run() hands the policy in a control step: the vector of observe()  *)
Fed == Observed

(* poll_updates() and install_local() load what was activated; an          *)
(* exception ends the process                                              *)
LoadActivated ==
  /\ job = "load"
  /\ agent' = IF Loads THEN "up" ELSE "dead"
  /\ job' = "idle"
  /\ UNCHANGED <<present, dest, older, active, condemned>>
  /\ UNCHANGED hubVars

(* every device command starts by constructing the agent; with nothing     *)
(* activated there is nothing to load, and an older version is known to    *)
Boot ==
  /\ agent = "off"
  /\ agent' = IF active => Loads THEN "up" ELSE "dead"
  /\ UNCHANGED <<present, dest, older, job, active, condemned>>
  /\ UNCHANGED hubVars

PowerCut ==
  /\ agent # "off"
  /\ agent' = "off"
  /\ job' = "idle"
  /\ UNCHANGED <<present, dest, older, active, condemned>>
  /\ UNCHANGED hubVars

-----------------------------------------------------------------------------
ReleaseInit ==
  /\ policy \in Policies
  /\ probe \in {"none", "given", "calibrated"}
  /\ building = "begin"
  /\ listed = {}
  /\ built = Absent
  /\ archive = Absent
  /\ present = FALSE
  /\ dest = Absent
  /\ older \in BOOLEAN
  /\ job = "idle"
  /\ active = FALSE
  /\ condemned = FALSE
  /\ agent = "off"

HubStep ==
  \/ BeginBuild \/ CalibrationRaises \/ BuildFails \/ Publish
  \/ \E f \in Files : CreateFile(f) \/ CompleteFile(f)

DeviceStep ==
  \/ Stage \/ RemoveDirectory \/ MoveIntoPlace \/ Install
  \/ \E f \in Files : RemoveFile(f) \/ BeginCopy(f) \/ EndCopy(f)
  \/ GateRaises \/ GateRejects \/ GatePasses
  \/ LoadActivated \/ Boot \/ PowerCut

ReleaseNext == HubStep \/ DeviceStep

ReleaseSpec == ReleaseInit /\ [][ReleaseNext]_releaseVars

-----------------------------------------------------------------------------
(* Properties.                                                             *)

States == {"absent", "torn", "whole"}

(* The type of every variable.                                             *)
ReleaseTypeOK ==
  /\ policy \in Policies
  /\ probe \in {"none", "given", "calibrated"}
  /\ building \in {"begin", "writing", "failed"}
  /\ listed \subseteq Files
  /\ built \in [Files -> States]
  /\ archive \in [Files -> States]
  /\ present \in BOOLEAN
  /\ dest \in [Files -> States]
  /\ older \in BOOLEAN
  /\ job \in {"idle", "place", "copy", "gate", "load"}
  /\ active \in BOOLEAN
  /\ condemned \in BOOLEAN
  /\ agent \in {"off", "up", "dead"}

Complete(dir) == \A f \in Contents : dir[f] = "whole"

(* However build() is interrupted, and even when publish() runs beside it, *)
(* what is published is a complete bundle.                                 *)
PublishedIsComplete == archive = Absent \/ Complete(archive)

(* No interrupted copy, removal or download is ever activated: the         *)
(* directory of the active version is complete, although the agent that    *)
(* loads it does not verify it again.                                      *)
ActiveIsComplete == active => Complete(dest)

(* A device whose agent cannot be started any more has activated a policy  *)
(* that is not as wide as the vector of observe(), or that computes fewer  *)
(* actions than the arm has joints: never a damaged bundle.  (The gate is  *)
(* no help there: it feeds every policy vectors of the policy's own width, *)
(* and a device configured with more columns than observe() gives cannot   *)
(* load a policy made for exactly those.)                                  *)
DeadOnlyByWidth ==
  agent = "dead" => \/ Len(policy.columns) # Len(Observed)
                    \/ policy.head < Joints

(* What each place a bundle is in owes to the build it comes from: the     *)
(* manifest exists only when all that it has to list does, only whole      *)
(* builds are published, and the device works on nothing else.             *)
BuildTraced ==
  /\ \A f \in Files \ Contents : built[f] = "absent" /\ dest[f] = "absent"
  /\ built["manifest"] # "absent" => listed = Contents \ {"manifest", "sig"}
  /\ archive # Absent => archive = built /\ Complete(built)
  /\ present \/ dest = Absent
  /\ job = "place" => Complete(archive)
  /\ job = "copy" => Complete(built) /\ present
  /\ job # "idle" => built["manifest"] = "whole"

(* What activation has established, and that nothing touches the directory *)
(* or the policy of an active version afterwards.                          *)
ActivationStands ==
  /\ active => /\ Complete(dest) /\ ContractHolds /\ GateRuns
               /\ job \in {"idle", "load"}
  /\ job = "load" => active
  /\ agent = "dead" => active /\ ~Samples

(* The inductive strengthening of the three properties above.              *)
ReleaseInvariant == ReleaseTypeOK /\ BuildTraced /\ ActivationStands

(* A running policy that names just the columns observed is fed what it    *)
(* would bind by name: every value in the slot it was trained with it in.  *)
FedByName ==
  /\ active /\ agent = "up" /\ job = "idle"
  /\ Range(policy.columns) = Range(Observed)
  => Fed = Bind([c \in Range(Observed) |-> c])

=============================================================================
