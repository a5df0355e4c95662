----------------------------- MODULE ControlLoop -----------------------------
(***************************************************************************)
(* The device's one process: DeviceAgent.run of agent.py, with the         *)
(* inference runtime (runtime.py) and the edge-case detector               *)
(* (telemetry.py) it drives in every control step, and what it does        *)
(* between two steps: heartbeat, poll, upload.                             *)
(*                                                                         *)
(* The two links are reduced to what the loop sees of them, the outcome of *)
(* a poll and of a flush; modules OTAClient and Uplink open them up.  An   *)
(* observation is reduced to what the policy and the detector make of it.  *)
(***************************************************************************)
EXTENDS Integers

CONSTANTS
  Signals,         \* the detector's stateless reasons that may occur
  BurstLength,     \* deadline misses in a row that make a burst (5)
  Cooldown,        \* cooldown_steps (100)
  HeartbeatEvery,  \* heartbeat_every (200)
  OtaEvery,        \* ota_every (500)
  UploadEvery,     \* upload_every (100)
  MaxMultiplier,   \* max_backoff_multiplier (32)
  Grippers,        \* the gripper targets a policy may command
  RunSteps,        \* the steps of one run()
  MaxRuns,         \* bound: how often run() is called
  MaxVersion,      \* bound: versions 1..MaxVersion
  Happenings       \* what may go other than smoothly (see below)

(* fail: an inference raises or is not finite.  update: a poll activates.  *)
(* unsaved: it does, but the final save of state.json fails.  restart: the *)
(* process ends at any point, be it by a power cut or by an exception that *)
(* leaves run(), and another one is started.                               *)
HappeningKinds == {"fail", "update", "unsaved", "restart"}

ASSUME SignalsAssumption == Signals \subseteq {"action_saturated", "observation_ood"}
ASSUME BurstLengthAssumption == BurstLength \in Nat \ {0}
ASSUME CooldownAssumption == Cooldown \in Nat \ {0}
ASSUME HeartbeatEveryAssumption == HeartbeatEvery \in Nat \ {0}
ASSUME OtaEveryAssumption == OtaEvery \in Nat \ {0}
ASSUME UploadEveryAssumption == UploadEvery \in Nat \ {0}
ASSUME MaxMultiplierAssumption == MaxMultiplier \in Nat \ {0}
ASSUME GrippersAssumption == Grippers \subseteq Int
ASSUME BoundsAssumption ==
  RunSteps \in Nat /\ MaxRuns \in Nat /\ MaxVersion \in Nat \ {0}
ASSUME HappeningsAssumption == Happenings \subseteq HappeningKinds

VARIABLES
  pc,         \* where the loop is (see Points)
  i,          \* control steps of this run()
  runs,       \* calls of run() so far
  runtime,    \* the InferenceRuntime: its policy's version, n, last gripper
  detector,   \* the EdgeCaseDetector
  stamp,      \* telemetry.policy_version
  version,    \* ota.state.current_version of the process
  saved,      \* the same in state.json
  outcome,    \* what the poll returned and is still to be acted on
  told,       \* history: the version this process was started with, or that
              \* its last ota event announced
  backoff,    \* _steps_since_upload and consecutive_failures
  command,    \* the gripper target the actuators were last given
  hushed      \* history: occurrences of a reason since the last event on it

policyVars == <<runtime, stamp>>
otaVars == <<version, saved, outcome, told>>
loopVars == <<pc, i, runs, policyVars, detector, otaVars, backoff, command, hushed>>

(* load and report are the two halves of poll_updates() after the poll     *)
Points == {"step", "heartbeat", "poll", "load", "report", "upload"}
Outcomes == {"none", "updated", "refused"}

Reasons == Signals \cup {"deadline_burst", "inference_failed"}

Runtime(v) == [version |-> v, n |-> 0, gripper |-> 0]

(* calibrated_on() the states that version v visits                        *)
Detector(v) ==
  [ policy |-> v, step |-> 0, misses |-> 0,
    last |-> [r \in Reasons |-> 0],
    suppressed |-> [r \in Reasons |-> 0] ]

Smaller(a, b) == IF a < b THEN a ELSE b

-----------------------------------------------------------------------------
(* One control step.                                                       *)

(* [deviation] the hold action is zero throughout                          *)
HoldActionZero == 0

(* hold_action(): zero joint deltas, the gripper where the policy last     *)
(* put it                                                                  *)
HoldAction == runtime.gripper

(* InferenceRuntime.step(): what the policy commands, or the hold action   *)
Infer(failed, gripper) ==
  /\ command' = IF failed THEN HoldAction ELSE gripper
  /\ runtime' = [runtime EXCEPT !.n = @ + 1,
                                !.gripper = IF failed THEN @ ELSE gripper]

(* [deviation] a step in time takes one miss off instead of all            *)
MissesLeaking(missed) == detector.misses + IF missed THEN 1 ELSE -1

(* inspect(): deadline misses in a row                                     *)
Misses(missed) == IF missed THEN detector.misses + 1 ELSE 0

(* inspect(): the reasons this step is interesting.  A hold action does    *)
(* not saturate; a burst is reported when it reaches its length.           *)
Interesting(failed, missed, signals) ==
  (IF failed THEN {"inference_failed"} \cup (signals \ {"action_saturated"}) ELSE signals)
    \cup (IF Misses(missed) = BurstLength THEN {"deadline_burst"} ELSE {})

(* _apply_cooldown(): those of them that are emitted                       *)
Emitted(reasons) ==
  {r \in reasons : \/ detector.last[r] = 0
                   \/ detector.step + 1 - detector.last[r] >= Cooldown}

(* [deviation] a suppressed occurrence prolongs the cooldown               *)
InspectProlonging(reasons, missed) ==
  detector' =
    [ policy |-> detector.policy,
      step |-> detector.step + 1,
      misses |-> Misses(missed),
      last |-> [r \in Reasons |->
                  IF r \in reasons THEN detector.step + 1 ELSE detector.last[r]],
      suppressed |-> [r \in Reasons |->
                        detector.suppressed[r] + IF r \in reasons \ Emitted(reasons) THEN 1 ELSE 0] ]

(* [deviation] an event about a reason settles its count                   *)
InspectSettling(reasons, missed) ==
  detector' =
    [ policy |-> detector.policy,
      step |-> detector.step + 1,
      misses |-> Misses(missed),
      last |-> [r \in Reasons |->
                  IF r \in Emitted(reasons) THEN detector.step + 1 ELSE detector.last[r]],
      suppressed |-> [r \in Reasons |->
                        IF r \in Emitted(reasons) THEN 0
                        ELSE detector.suppressed[r] + IF r \in reasons THEN 1 ELSE 0] ]

Inspect(reasons, missed) ==
  detector' =
    [ policy |-> detector.policy,
      step |-> detector.step + 1,
      misses |-> Misses(missed),
      last |-> [r \in Reasons |->
                  IF r \in Emitted(reasons) THEN detector.step + 1 ELSE detector.last[r]],
      suppressed |-> [r \in Reasons |->
                        detector.suppressed[r] + IF r \in reasons \ Emitted(reasons) THEN 1 ELSE 0] ]

(* run(): a failed step is recorded as a failure whatever the detector     *)
(* says, and then not as a flag; another one as a flag if anything is left *)
(* of its reasons.                                                         *)
Account(failed, reasons) ==
  hushed' = [r \in Reasons |->
               IF r \notin reasons THEN hushed[r]
               ELSE IF failed \/ r \in Emitted(reasons) THEN 0
               ELSE hushed[r] + 1]

ControlStep ==
  /\ pc = "step"
  /\ i < RunSteps
  /\ \E failed, missed \in BOOLEAN, signals \in SUBSET Signals, gripper \in Grippers :
       /\ failed => "fail" \in Happenings
       /\ Infer(failed, gripper)
       /\ Inspect(Interesting(failed, missed, signals), missed)
       /\ Account(failed, Interesting(failed, missed, signals))
  /\ i' = i + 1
  /\ pc' = "heartbeat"
  /\ UNCHANGED <<runs, stamp, otaVars, backoff>>

-----------------------------------------------------------------------------
(* Between two control steps.                                              *)

(* heartbeat(): the suppressed counts go out with it and start again       *)
Report ==
  detector' = [detector EXCEPT !.suppressed = [r \in Reasons |-> 0]]

Heartbeat ==
  /\ pc = "heartbeat"
  /\ IF i % HeartbeatEvery = 0 THEN Report ELSE UNCHANGED detector
  /\ pc' = "poll"
  /\ UNCHANGED <<i, runs, policyVars, otaVars, backoff, command, hushed>>

(* _load_current(): the activated policy, in a new runtime, with a new     *)
(* detector                                                                *)
LoadCurrent(v) ==
  /\ runtime' = Runtime(v)
  /\ stamp' = v
  /\ detector' = Detector(v)

(* poll() says that nothing was offered, or it is not the time to poll     *)
PollKeeps ==
  /\ pc = "poll"
  /\ pc' = "upload"
  /\ UNCHANGED <<i, runs, policyVars, detector, otaVars, backoff, command, hushed>>

(* a candidate was refused, by staging, by the gate or by an exception.    *)
(* Unless it was one that leaves no record, the whole state in memory was  *)
(* saved on the way, with what an earlier activation could not save.       *)
PollRefuses ==
  /\ pc = "poll"
  /\ i % OtaEvery = 0
  /\ saved' \in {saved, version}
  /\ outcome' = "refused"
  /\ pc' = "report"
  /\ UNCHANGED <<i, runs, policyVars, detector, version, told, backoff, command,
                 hushed>>

PollUpdates ==
  /\ "update" \in Happenings
  /\ pc = "poll"
  /\ i % OtaEvery = 0
  /\ \E v \in version + 1 .. MaxVersion : version' = v /\ saved' = v
  /\ outcome' = "updated"
  /\ pc' = "load"
  /\ UNCHANGED <<i, runs, policyVars, detector, told, backoff, command, hushed>>

(* [deviation] whether poll() updated is read off the state in memory      *)
PollUnsavedLoading ==
  /\ "unsaved" \in Happenings
  /\ pc = "poll"
  /\ i % OtaEvery = 0
  /\ version' \in version + 1 .. MaxVersion
  /\ saved' = version
  /\ outcome' = "updated"
  /\ pc' = "load"
  /\ UNCHANGED <<i, runs, policyVars, detector, told, backoff, command, hushed>>

(* The candidate was staged, and the whole state saved with the record of  *)
(* that; activate() has then set current_version when its save raises.     *)
(* poll() reports that the candidate was not adopted: nothing is loaded.   *)
PollUnsaved ==
  /\ "unsaved" \in Happenings
  /\ pc = "poll"
  /\ i % OtaEvery = 0
  /\ version' \in version + 1 .. MaxVersion
  /\ saved' = version
  /\ outcome' = "refused"
  /\ pc' = "report"
  /\ UNCHANGED <<i, runs, policyVars, detector, told, backoff, command, hushed>>

(* poll_updates(): the version that was activated is loaded                *)
LoadUpdate ==
  /\ pc = "load"
  /\ LoadCurrent(version)
  /\ pc' = "report"
  /\ UNCHANGED <<i, runs, otaVars, backoff, command, hushed>>

(* [deviation] the event announces whatever candidate there was            *)
RecordOtaAlways ==
  /\ pc = "report"
  /\ told' = version
  /\ outcome' = "none"
  /\ pc' = "upload"
  /\ UNCHANGED <<i, runs, policyVars, detector, version, saved, backoff, command,
                 hushed>>

(* poll_updates(): the ota event, which says from and to which version, or *)
(* which version was refused                                               *)
RecordOta ==
  /\ pc = "report"
  /\ told' = IF outcome = "updated" THEN version ELSE told
  /\ outcome' = "none"
  /\ pc' = "upload"
  /\ UNCHANGED <<i, runs, policyVars, detector, version, saved, backoff, command,
                 hushed>>

(* [deviation] the multiplier is not capped                                *)
MultiplierUncapped(failures) == 2 ^ failures

Multiplier(failures) == Smaller(2 ^ failures, MaxMultiplier)

(* flush(): nothing to send or no uploader, an answer, or an exception     *)
Flushed(failures) == {failures, 0, failures + 1}

(* maybe_upload(): on schedule, less often after failures                  *)
MaybeUpload ==
  /\ pc = "upload"
  /\ IF backoff.since + 1 < UploadEvery * Multiplier(backoff.failures)
       THEN backoff' = [backoff EXCEPT !.since = @ + 1]
       ELSE \E failures \in Flushed(backoff.failures) :
              backoff' = [since |-> 0, failures |-> failures]
  /\ pc' = "step"
  /\ UNCHANGED <<i, runs, policyVars, detector, otaVars, command, hushed>>

(* run() ends with a heartbeat and drain_telemetry(), which flushes until  *)
(* a flush fails or the spool is empty and leaves the schedule alone; and  *)
(* may be called again                                                     *)
FinishRun ==
  /\ pc = "step"
  /\ i = RunSteps
  /\ runs < MaxRuns
  /\ Report
  /\ \E failures \in Flushed(backoff.failures) \cup {1} :
       backoff' = [backoff EXCEPT !.failures = failures]
  /\ i' = 0
  /\ runs' = runs + 1
  /\ UNCHANGED <<pc, policyVars, otaVars, command, hushed>>

(* a new process: what was in memory only is gone                          *)
Restart ==
  /\ "restart" \in Happenings
  /\ runs < MaxRuns
  /\ version' = saved
  /\ LoadCurrent(saved)
  /\ told' = saved
  /\ outcome' = "none"
  /\ backoff' = [since |-> 0, failures |-> 0]
  /\ pc' = "step"
  /\ i' = 0
  /\ runs' = runs + 1
  /\ hushed' = [r \in Reasons |-> 0]
  /\ UNCHANGED <<saved, command>>

-----------------------------------------------------------------------------
(* the factory image is installed: version 1 runs                          *)
LoopInit ==
  /\ pc = "step"
  /\ i = 0
  /\ runs = 0
  /\ runtime = Runtime(1)
  /\ detector = Detector(1)
  /\ stamp = 1
  /\ version = 1
  /\ saved = 1
  /\ outcome = "none"
  /\ told = 1
  /\ backoff = [since |-> 0, failures |-> 0]
  /\ command = 0
  /\ hushed = [r \in Reasons |-> 0]

LoopNext ==
  \/ ControlStep \/ Heartbeat
  \/ PollKeeps \/ PollRefuses \/ PollUpdates \/ PollUnsaved
  \/ LoadUpdate \/ RecordOta
  \/ MaybeUpload \/ FinishRun \/ Restart

LoopSpec == LoopInit /\ [][LoopNext]_loopVars

-----------------------------------------------------------------------------
(* Properties.                                                             *)

(* The type of every variable.                                             *)
LoopTypeOK ==
  /\ pc \in Points
  /\ i \in 0..RunSteps
  /\ runs \in 0..MaxRuns
  /\ runtime \in [version : 1..MaxVersion, n : Nat, gripper : Grippers \cup {0}]
  /\ detector \in [policy : 1..MaxVersion, step : Nat, misses : Nat,
                   last : [Reasons -> Nat], suppressed : [Reasons -> Nat]]
  /\ stamp \in 1..MaxVersion
  /\ version \in 1..MaxVersion
  /\ saved \in 1..MaxVersion
  /\ outcome \in Outcomes
  /\ told \in 1..MaxVersion
  /\ backoff \in [since : Nat, failures : Nat]
  /\ command \in Grippers \cup {0}
  /\ hushed \in [Reasons -> Nat]

(* No rollback, no older policy: whatever saves fail and wherever the      *)
(* process ends, the policy in control is never followed by an older one.  *)
(* A restart loads what state.json names, so nothing may be put in control *)
(* that is not saved; what is saved, or in memory only, may be newer.      *)
PolicyNeverGoesBack == [][runtime'.version >= runtime.version]_loopVars

(* No control step, heartbeat or upload follows an update that the hub was *)
(* not told of: the events carry the version the process started with or   *)
(* the one its last ota event announced.                                   *)
UpdatesAreAnnounced == pc \notin {"load", "report"} => stamp = told

(* However long the hub was away, the next upload is never further off     *)
(* than upload_every * max_backoff_multiplier control steps.               *)
UploadComesBack == backoff.since < UploadEvery * MaxMultiplier

(* A lasting incident is heard of again and again: of a reason that keeps  *)
(* occurring, fewer than a cooldown's worth of occurrences pass between    *)
(* two events about such a step.                                           *)
IncidentIsHeardOf == \A r \in Reasons : hushed[r] < Cooldown

(* Were the next inference to fail, the hold action would leave the        *)
(* gripper where the last step put it, once a policy has made one step.    *)
HoldKeepsGripper == runtime.n > 0 => HoldAction = command

(* Suppressed occurrences are counted, not discarded: a count only leaves  *)
(* the detector with a heartbeat or, unreported, with the detector itself, *)
(* which an update or a restart replaces.                                  *)
CountsAreKept ==
  [][\/ \A r \in Reasons : detector'.suppressed[r] >= detector.suppressed[r]
     \/ pc \in {"heartbeat", "load"}
     \/ runs' = runs + 1]_loopVars

=============================================================================
