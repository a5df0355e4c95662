-------------------------- MODULE ControlLoopProofs --------------------------
(***************************************************************************)
(* Proofs about module ControlLoop, for every period, cooldown, number of  *)
(* steps and number of versions.  The one safety property that is not here *)
(* is UploadComesBack: it needs a fact about powers of two, which takes an *)
(* induction.                                                              *)
(***************************************************************************)
EXTENDS ControlLoop, TLAPS

(* What the program point says about a poll that is still to be acted on.  *)
PollPending ==
  /\ pc = "load" => outcome = "updated" /\ version = saved
  /\ pc = "report" => stamp = IF outcome = "updated" THEN version ELSE told

(* What runs is not newer than what state.json names, nor that than what   *)
(* the process takes for current.                                          *)
SavedBetween == runtime.version <= saved /\ saved <= version

(* The occurrences since the last event on a reason fit in the steps since *)
(* then, once the running policy's detector has emitted it.                *)
HushedSince ==
  \A r \in Reasons :
    detector.last[r] # 0 =>
      /\ detector.last[r] <= detector.step
      /\ hushed[r] <= detector.step - detector.last[r]

(* The inductive invariant of the loop.                                    *)
LoopInvariant ==
  /\ LoopTypeOK
  /\ SavedBetween
  /\ UpdatesAreAnnounced
  /\ PollPending
  /\ HoldKeepsGripper
  /\ HushedSince
  /\ IncidentIsHeardOf

(* A new runtime and a new detector are of their types.                    *)
LEMMA NewTyped ==
  ASSUME NEW v \in 1..MaxVersion
  PROVE  /\ Runtime(v) \in [version : 1..MaxVersion, n : Nat, gripper : Grippers \cup {0}]
         /\ Runtime(v).version = v
         /\ Runtime(v).n = 0
         /\ Detector(v) \in [policy : 1..MaxVersion, step : Nat, misses : Nat,
                             last : [Reasons -> Nat], suppressed : [Reasons -> Nat]]
         /\ Detector(v).policy = v
         /\ \A r \in Reasons : Detector(v).last[r] = 0 /\ Detector(v).suppressed[r] = 0
BY DEF Runtime, Detector

(* Emitting and accounting keep what is said about the reasons.            *)
LEMMA ReasonsKept ==
  ASSUME LoopInvariant, NEW failed \in BOOLEAN, NEW missed \in BOOLEAN,
         NEW reasons \in SUBSET Reasons,
         Inspect(reasons, missed), Account(failed, reasons)
  PROVE  /\ detector' \in [policy : 1..MaxVersion, step : Nat, misses : Nat,
                           last : [Reasons -> Nat], suppressed : [Reasons -> Nat]]
         /\ detector'.policy = detector.policy
         /\ hushed' \in [Reasons -> Nat]
         /\ HushedSince'
         /\ IncidentIsHeardOf'
         /\ \A r \in Reasons : detector'.suppressed[r] >= detector.suppressed[r]
<1>1. /\ detector.step \in Nat /\ detector.misses \in Nat
      /\ detector.policy \in 1..MaxVersion
      /\ \A r \in Reasons : /\ detector.last[r] \in Nat
                            /\ detector.suppressed[r] \in Nat
                            /\ hushed[r] \in Nat
                            /\ hushed[r] < Cooldown
      /\ Cooldown \in Nat \ {0}
  BY CooldownAssumption DEF LoopInvariant, LoopTypeOK, IncidentIsHeardOf
<1>2. Misses(missed) \in Nat
  BY <1>1 DEF Misses
<1>3. /\ detector'.policy = detector.policy
      /\ detector'.step = detector.step + 1
      /\ detector'.misses = Misses(missed)
      /\ detector'.last =
           [r \in Reasons |->
              IF r \in Emitted(reasons) THEN detector.step + 1 ELSE detector.last[r]]
      /\ detector'.suppressed =
           [r \in Reasons |->
              detector.suppressed[r] + IF r \in reasons \ Emitted(reasons) THEN 1 ELSE 0]
  BY DEF Inspect
<1>4. detector' \in [policy : 1..MaxVersion, step : Nat, misses : Nat,
                     last : [Reasons -> Nat], suppressed : [Reasons -> Nat]]
  BY <1>1, <1>2 DEF Inspect
<1>5. ASSUME NEW r \in Reasons
      PROVE  /\ hushed'[r] \in Nat
             /\ hushed'[r] < Cooldown
             /\ detector'.last[r] # 0 =>
                  /\ detector'.last[r] <= detector'.step
                  /\ hushed'[r] <= detector'.step - detector'.last[r]
  <2>1. /\ detector'.last[r] = IF r \in Emitted(reasons) THEN detector.step + 1
                                                          ELSE detector.last[r]
        /\ hushed'[r] = IF r \notin reasons THEN hushed[r]
                        ELSE IF failed \/ r \in Emitted(reasons) THEN 0
                        ELSE hushed[r] + 1
    BY <1>3 DEF Account
  <2>2. detector.last[r] # 0 => /\ detector.last[r] <= detector.step
                                /\ hushed[r] <= detector.step - detector.last[r]
    BY DEF LoopInvariant, HushedSince
  <2>3. r \in Emitted(reasons) => r \in reasons
    BY DEF Emitted
  <2>4. r \in reasons /\ r \notin Emitted(reasons) =>
          detector.last[r] # 0 /\ ~(detector.step + 1 - detector.last[r] >= Cooldown)
    BY DEF Emitted
  <2> QED BY <1>1, <1>3, <2>1, <2>2, <2>3, <2>4
<1>6. \A r \in Reasons : detector'.suppressed[r] >= detector.suppressed[r]
  BY <1>1, <1>3
<1>7. hushed' \in [Reasons -> Nat]
  BY <1>5 DEF Account
<1> QED BY <1>3, <1>4, <1>5, <1>6, <1>7 DEF HushedSince, IncidentIsHeardOf

(* What a control step may find interesting is a set of reasons.           *)
LEMMA InterestingReasons ==
  ASSUME NEW failed \in BOOLEAN, NEW missed \in BOOLEAN, NEW signals \in SUBSET Signals
  PROVE  Interesting(failed, missed, signals) \in SUBSET Reasons
BY DEF Interesting, Reasons

LEMMA LoopStarts == LoopInit => LoopInvariant
<1> SUFFICES ASSUME LoopInit PROVE LoopInvariant
  OBVIOUS
<1>1. 1 \in 1..MaxVersion /\ Cooldown > 0 /\ RunSteps \in Nat /\ MaxRuns \in Nat
  BY BoundsAssumption, CooldownAssumption
<1>2. LoopTypeOK
  BY <1>1, NewTyped DEF LoopInit, LoopTypeOK, Points, Outcomes
<1> QED
  BY <1>1, <1>2, NewTyped
  DEF LoopInit, LoopInvariant, SavedBetween,
      UpdatesAreAnnounced, PollPending, HoldKeepsGripper, HushedSince, IncidentIsHeardOf


(* Every action of the loop keeps the invariant, no count is lost but with *)
(* a heartbeat or with its detector, and no policy but for a newer one.    *)
LEMMA LoopSteps ==
  ASSUME LoopInvariant, [LoopNext]_loopVars
  PROVE  /\ LoopInvariant'
         /\ [\/ \A r \in Reasons : detector'.suppressed[r] >= detector.suppressed[r]
             \/ pc \in {"heartbeat", "load"}
             \/ runs' = runs + 1]_loopVars
         /\ [runtime'.version >= runtime.version]_loopVars
<1> DEFINE Kept == \/ \A r \in Reasons : detector'.suppressed[r] >= detector.suppressed[r]
                   \/ pc \in {"heartbeat", "load"}
                   \/ runs' = runs + 1
             Onwards == runtime'.version >= runtime.version
<1>1. /\ LoopTypeOK /\ SavedBetween
      /\ UpdatesAreAnnounced /\ PollPending /\ HoldKeepsGripper
      /\ HushedSince /\ IncidentIsHeardOf
  BY DEF LoopInvariant
<1>2. /\ RunSteps \in Nat /\ MaxRuns \in Nat
      /\ i \in 0..RunSteps /\ runs \in 0..MaxRuns
      /\ version \in 1..MaxVersion /\ saved \in 1..MaxVersion
      /\ told \in 1..MaxVersion /\ stamp \in 1..MaxVersion
      /\ runtime.version \in 1..MaxVersion /\ MaxVersion \in Nat
      /\ runtime.version <= saved /\ saved <= version
      /\ \A r \in Reasons : detector.suppressed[r] >= detector.suppressed[r]
  BY <1>1, BoundsAssumption DEF LoopTypeOK, SavedBetween
<1>s. ASSUME UNCHANGED detector
      PROVE  Kept
  BY <1>s, <1>2
<1>t. ASSUME runtime'.version = runtime.version
      PROVE  Onwards
  BY <1>t, <1>2
<1>3. CASE UNCHANGED loopVars
  BY <1>1, <1>3
  DEF loopVars, policyVars, otaVars, LoopInvariant, LoopTypeOK, SavedBetween, UpdatesAreAnnounced, PollPending, HoldKeepsGripper, HushedSince,
      IncidentIsHeardOf, HoldAction
<1>4. CASE ControlStep
  <2>1. PICK failed \in BOOLEAN, missed \in BOOLEAN, signals \in SUBSET Signals,
             gripper \in Grippers :
          /\ Infer(failed, gripper)
          /\ Inspect(Interesting(failed, missed, signals), missed)
          /\ Account(failed, Interesting(failed, missed, signals))
    BY <1>4 DEF ControlStep
  <2>2. /\ detector' \in [policy : 1..MaxVersion, step : Nat, misses : Nat,
                           last : [Reasons -> Nat], suppressed : [Reasons -> Nat]]
        /\ detector'.policy = detector.policy
        /\ hushed' \in [Reasons -> Nat]
        /\ HushedSince' /\ IncidentIsHeardOf'
        /\ Kept
    BY <2>1, ReasonsKept, InterestingReasons
  <2>3. /\ pc = "step" /\ pc' = "heartbeat" /\ i < RunSteps /\ i' = i + 1
        /\ UNCHANGED <<runs, stamp, version, saved, outcome, told, backoff>>
    BY <1>4 DEF ControlStep, otaVars
  <2>4. /\ runtime' \in [version : 1..MaxVersion, n : Nat, gripper : Grippers \cup {0}]
        /\ runtime'.version = runtime.version
        /\ command' = runtime'.gripper
        /\ command' \in Grippers \cup {0}
    <3> DEFINE g == IF failed THEN runtime.gripper ELSE gripper
    <3>1. runtime \in [version : 1..MaxVersion, n : Nat, gripper : Grippers \cup {0}]
      BY <1>1 DEF LoopTypeOK
    <3>2. g \in Grippers \cup {0}
      BY <3>1
    <3>3. runtime' = [runtime EXCEPT !.n = @ + 1, !.gripper = g] /\ command' = g
      BY <2>1 DEF Infer, HoldAction
    <3> HIDE DEF g
    <3>4. runtime' = [version |-> runtime.version, n |-> runtime.n + 1, gripper |-> g]
      BY <3>1, <3>3
    <3>5. runtime.version \in 1..MaxVersion /\ runtime.n + 1 \in Nat
      BY <3>1
    <3> QED BY <3>2, <3>3, <3>4, <3>5
  <2>5. LoopTypeOK'
    BY <1>1, <1>2, <2>2, <2>3, <2>4 DEF LoopTypeOK, Points
  <2> QED
    BY <1>1, <2>2, <2>3, <2>4, <2>5
    DEF LoopInvariant, SavedBetween, UpdatesAreAnnounced,
        PollPending, HoldKeepsGripper, HoldAction
<1>r. ASSUME Report
      PROVE  /\ detector' \in [policy : 1..MaxVersion, step : Nat, misses : Nat,
                                last : [Reasons -> Nat], suppressed : [Reasons -> Nat]]
             /\ detector'.policy = detector.policy
             /\ detector'.step = detector.step
             /\ detector'.last = detector.last
  BY <1>1, <1>r DEF Report, LoopTypeOK
<1>5. CASE Heartbeat
  <2>1. /\ detector' \in [policy : 1..MaxVersion, step : Nat, misses : Nat,
                           last : [Reasons -> Nat], suppressed : [Reasons -> Nat]]
        /\ detector'.policy = detector.policy
        /\ detector'.step = detector.step
        /\ detector'.last = detector.last
    BY <1>1, <1>5, <1>r DEF Heartbeat, LoopTypeOK
  <2>2. /\ pc = "heartbeat" /\ pc' = "poll"
        /\ UNCHANGED <<i, runs, runtime, stamp, version, saved, outcome, told, backoff,
                       command, hushed>>
    BY <1>5 DEF Heartbeat, policyVars, otaVars
  <2> QED
    BY <1>1, <2>1, <2>2
    DEF LoopInvariant, LoopTypeOK, Points, SavedBetween,
        UpdatesAreAnnounced, PollPending, HoldKeepsGripper, HushedSince,
        IncidentIsHeardOf, HoldAction
<1>6. CASE PollKeeps \/ PollRefuses \/ PollUpdates \/ PollUnsaved
  <2>1. /\ pc = "poll"
        /\ UNCHANGED <<i, runs, runtime, stamp, detector, told, backoff, command, hushed>>
        /\ \/ pc' = "upload" /\ UNCHANGED <<version, saved, outcome>>
           \/ pc' = "report" /\ outcome' = "refused" /\ saved' \in {saved, version}
              /\ version' \in version .. MaxVersion
           \/ pc' = "load" /\ outcome' = "updated" /\ saved' = version'
              /\ version' \in version .. MaxVersion
    BY <1>2, <1>6 DEF PollKeeps, PollRefuses, PollUpdates, PollUnsaved, policyVars, otaVars
  <2>2. LoopTypeOK'
    BY <1>1, <1>2, <2>1 DEF LoopTypeOK, Points, Outcomes
  <2> QED
    BY <1>1, <1>2, <1>t, <1>s, <2>1, <2>2
    DEF LoopInvariant, SavedBetween, UpdatesAreAnnounced,
        PollPending, HoldKeepsGripper, HushedSince, IncidentIsHeardOf, HoldAction
<1>7. CASE LoadUpdate
  <2>1. /\ runtime' = Runtime(version) /\ detector' = Detector(version)
        /\ stamp' = version
        /\ pc = "load" /\ pc' = "report" /\ outcome = "updated" /\ version = saved
        /\ UNCHANGED <<i, runs, version, saved, outcome, told, backoff, command, hushed>>
    BY <1>1, <1>7 DEF LoadUpdate, LoadCurrent, otaVars, PollPending
  <2>2. LoopTypeOK'
    BY <1>1, <1>2, <2>1, NewTyped DEF LoopTypeOK, Points
  <2> QED
    BY <1>1, <1>2, <2>1, <2>2, NewTyped
    DEF LoopInvariant, SavedBetween, UpdatesAreAnnounced,
        PollPending, HoldKeepsGripper, HushedSince, IncidentIsHeardOf
<1>8. CASE RecordOta
  <2>1. /\ pc = "report" /\ pc' = "upload" /\ outcome' = "none"
        /\ told' = IF outcome = "updated" THEN version ELSE told
        /\ UNCHANGED <<i, runs, runtime, stamp, detector, version, saved, backoff, command,
                       hushed>>
    BY <1>8 DEF RecordOta, policyVars
  <2>2. LoopTypeOK'
    BY <1>1, <1>2, <2>1 DEF LoopTypeOK, Points, Outcomes
  <2> QED
    BY <1>1, <1>2, <1>t, <1>s, <2>1, <2>2
    DEF LoopInvariant, SavedBetween, UpdatesAreAnnounced,
        PollPending, HoldKeepsGripper, HushedSince, IncidentIsHeardOf, HoldAction
<1>f. ASSUME NEW failures \in Nat
      PROVE  Flushed(failures) \in SUBSET Nat
  BY DEF Flushed
<1>9. CASE MaybeUpload
  <2>1. /\ pc = "upload" /\ pc' = "step"
        /\ UNCHANGED <<i, runs, runtime, stamp, detector, version, saved, outcome, told,
                       command, hushed>>
    BY <1>9 DEF MaybeUpload, policyVars, otaVars
  <2>2. backoff.since \in Nat /\ backoff.failures \in Nat
    BY <1>1 DEF LoopTypeOK
  <2>3. backoff' \in [since : Nat, failures : Nat]
    <3>1. CASE backoff' = [backoff EXCEPT !.since = @ + 1]
      BY <1>1, <2>2, <3>1 DEF LoopTypeOK
    <3>2. CASE \E failures \in Flushed(backoff.failures) :
                 backoff' = [since |-> 0, failures |-> failures]
      BY <1>f, <2>2, <3>2
    <3> QED BY <1>9, <3>1, <3>2 DEF MaybeUpload
  <2>4. LoopTypeOK'
    BY <1>1, <2>1, <2>3 DEF LoopTypeOK, Points
  <2> QED
    BY <1>1, <1>2, <1>t, <1>s, <2>1, <2>4
    DEF LoopInvariant, SavedBetween, UpdatesAreAnnounced,
        PollPending, HoldKeepsGripper, HushedSince, IncidentIsHeardOf, HoldAction
<1>10. CASE FinishRun
  <2>1. /\ Report /\ pc = "step" /\ i' = 0 /\ runs < MaxRuns /\ runs' = runs + 1
        /\ UNCHANGED <<pc, runtime, stamp, version, saved, outcome, told, command, hushed>>
        /\ \E failures \in Flushed(backoff.failures) \cup {1} :
              backoff' = [backoff EXCEPT !.failures = failures]
    BY <1>10 DEF FinishRun, policyVars, otaVars
  <2>2. backoff' \in [since : Nat, failures : Nat]
    BY <1>1, <1>f, <2>1 DEF LoopTypeOK
  <2>3. LoopTypeOK'
    BY <1>1, <1>2, <1>r, <2>1, <2>2 DEF LoopTypeOK
  <2> QED
    BY <1>1, <1>2, <1>t, <1>r, <2>1, <2>3
    DEF LoopInvariant, SavedBetween, UpdatesAreAnnounced,
        PollPending, HoldKeepsGripper, HushedSince, IncidentIsHeardOf, HoldAction
<1>11. CASE Restart
  <2>1. /\ runtime' = Runtime(saved) /\ detector' = Detector(saved) /\ stamp' = saved
        /\ version' = saved /\ told' = saved /\ outcome' = "none"
        /\ backoff' = [since |-> 0, failures |-> 0]
        /\ pc' = "step" /\ i' = 0 /\ runs < MaxRuns /\ runs' = runs + 1
        /\ hushed' = [r \in Reasons |-> 0]
        /\ UNCHANGED <<saved, command>>
    BY <1>11 DEF Restart, LoadCurrent
  <2>2. LoopTypeOK'
    BY <1>1, <1>2, <2>1, NewTyped DEF LoopTypeOK, Points, Outcomes
  <2> QED
    BY <1>1, <1>2, <2>1, <2>2, NewTyped, CooldownAssumption
    DEF LoopInvariant, SavedBetween, UpdatesAreAnnounced,
        PollPending, HoldKeepsGripper, HushedSince, IncidentIsHeardOf
<1> QED
  BY <1>3, <1>4, <1>5, <1>6, <1>7, <1>8, <1>9, <1>10, <1>11 DEF LoopNext

(* The loop's invariant, through updates, failed saves and restarts.       *)
THEOREM LoopInvariantHolds == LoopSpec => []LoopInvariant
BY LoopStarts, LoopSteps, PTL DEF LoopSpec

(* The types of the loop: counters never run below zero.                   *)
THEOREM LoopAlwaysTyped == LoopSpec => []LoopTypeOK
<1>1. LoopInvariant => LoopTypeOK
  BY DEF LoopInvariant
<1> QED BY <1>1, LoopInvariantHolds, PTL

(* No policy is followed by an older one.                                  *)
THEOREM PolicyNeverFallsBack == LoopSpec => PolicyNeverGoesBack
BY LoopInvariantHolds, LoopSteps, PTL DEF LoopSpec, PolicyNeverGoesBack

(* No update goes unannounced while its process lives.                     *)
THEOREM UpdatesAlwaysAnnounced == LoopSpec => []UpdatesAreAnnounced
<1>1. LoopInvariant => UpdatesAreAnnounced
  BY DEF LoopInvariant
<1> QED BY <1>1, LoopInvariantHolds, PTL

(* A lasting incident is heard of within every cooldown's worth of it.     *)
THEOREM IncidentAlwaysHeardOf == LoopSpec => []IncidentIsHeardOf
<1>1. LoopInvariant => IncidentIsHeardOf
  BY DEF LoopInvariant
<1> QED BY <1>1, LoopInvariantHolds, PTL

(* The hold action never moves the gripper of a policy that has acted.     *)
THEOREM HoldAlwaysKeepsGripper == LoopSpec => []HoldKeepsGripper
<1>1. LoopInvariant => HoldKeepsGripper
  BY DEF LoopInvariant
<1> QED BY <1>1, LoopInvariantHolds, PTL

(* Suppressed occurrences leave the detector with a heartbeat only, or     *)
(* with the detector.                                                      *)
THEOREM CountsAlwaysKept == LoopSpec => CountsAreKept
BY LoopInvariantHolds, LoopSteps, PTL DEF LoopSpec, CountsAreKept

-----------------------------------------------------------------------------
(* Backing off.                                                            *)

LEMMA WaitsAreCapped ==
  ASSUME NEW failures \in Nat
  PROVE  /\ UploadEvery * Multiplier(failures) \in Int
         /\ UploadEvery * Multiplier(failures) <= UploadEvery * MaxMultiplier
<1>1. 2 ^ failures \in Int
  OBVIOUS
<1>2. Multiplier(failures) \in Int /\ Multiplier(failures) <= MaxMultiplier
  BY <1>1, MaxMultiplierAssumption DEF Multiplier, Smaller
<1>3. \A a, b \in Int, c \in Nat : a <= b => c * a <= c * b
  OBVIOUS
<1> QED BY <1>2, <1>3, UploadEveryAssumption, MaxMultiplierAssumption

(* However long the hub is away, the next upload is at most upload_every * *)
(* max_backoff_multiplier control steps off.                               *)
THEOREM UploadAlwaysComesBack == LoopSpec => []UploadComesBack
<1>1. LoopInit => UploadComesBack
  BY UploadEveryAssumption, MaxMultiplierAssumption DEF LoopInit, UploadComesBack
<1>2. LoopTypeOK /\ UploadComesBack /\ [LoopNext]_loopVars => UploadComesBack'
  <2> SUFFICES ASSUME LoopTypeOK, UploadComesBack, [LoopNext]_loopVars
               PROVE  UploadComesBack'
    OBVIOUS
  <2>1. /\ backoff \in [since : Nat, failures : Nat]
        /\ 0 < UploadEvery * MaxMultiplier
    BY UploadEveryAssumption, MaxMultiplierAssumption DEF LoopTypeOK
  <2>2. CASE MaybeUpload
    <3>1. CASE backoff.since + 1 < UploadEvery * Multiplier(backoff.failures)
      <4>1. backoff'.since = backoff.since + 1
        BY <2>1, <2>2, <3>1 DEF MaybeUpload
      <4> QED
        BY <2>1, <3>1, <4>1, WaitsAreCapped, UploadEveryAssumption,
           MaxMultiplierAssumption
        DEF UploadComesBack
    <3>2. CASE ~(backoff.since + 1 < UploadEvery * Multiplier(backoff.failures))
      <4>1. backoff'.since = 0
        BY <2>2, <3>2 DEF MaybeUpload
      <4> QED BY <2>1, <4>1 DEF UploadComesBack
    <3> QED BY <3>1, <3>2
  <2>3. CASE FinishRun
    <3>1. backoff'.since = backoff.since
      BY <2>1, <2>3 DEF FinishRun
    <3> QED BY <3>1 DEF UploadComesBack
  <2>4. CASE Restart
    BY <2>1, <2>4 DEF Restart, UploadComesBack
  <2>5. CASE UNCHANGED backoff
    BY <2>5 DEF UploadComesBack
  <2> QED
    BY <2>2, <2>3, <2>4, <2>5
    DEF LoopNext, loopVars, ControlStep, Heartbeat, PollKeeps, PollRefuses, PollUpdates,
        PollUnsaved, LoadUpdate, RecordOta
<1> QED BY <1>1, <1>2, LoopAlwaysTyped, PTL DEF LoopSpec

=============================================================================
