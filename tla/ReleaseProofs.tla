---------------------------- MODULE ReleaseProofs ----------------------------
(***************************************************************************)
(* Theorems about a release on its way from the workstation to the control *)
(* loop, for every device, every policy and every size of either.          *)
(***************************************************************************)
EXTENDS Release, TLAPS

-----------------------------------------------------------------------------
(* A directory whose signature and listed hashes check is complete, once   *)
(* the manifest lists what the build had to list.                          *)
LEMMA VerifiedIsComplete ==
  ASSUME BuildTraced, NEW dir, Verified(dir), built["manifest"] # "absent"
  PROVE  Complete(dir)
BY DEF BuildTraced, Verified, Complete, Contents, Files

(* One file of a directory changes its state, the others do not.           *)
LEMMA OneFileChanges ==
  ASSUME NEW dir \in [Files -> States], NEW f \in Files, NEW state \in States
  PROVE  /\ [dir EXCEPT ![f] = state] \in [Files -> States]
         /\ [dir EXCEPT ![f] = state][f] = state
         /\ \A g \in Files \ {f} : [dir EXCEPT ![f] = state][g] = dir[g]
OBVIOUS

-----------------------------------------------------------------------------
(* The steps of the workstation.                                           *)

(* Neither build() nor publish() touches what the device has, and what is  *)
(* whole or published stays what it is.                                    *)
LEMMA HubPreserves ==
  ASSUME ReleaseInvariant, HubStep
  PROVE  ReleaseInvariant'
<1>1. ReleaseTypeOK /\ BuildTraced /\ ActivationStands
  BY DEF ReleaseInvariant
<1>2. /\ UNCHANGED deviceVars
      /\ policy' = policy
      /\ probe' = probe
  BY DEF HubStep, BeginBuild, CalibrationRaises, BuildFails, Publish, CreateFile,
         CompleteFile
<1>3. Contents' = Contents
  BY <1>2 DEF Contents
<1>4. ActivationStands'
  BY <1>1, <1>2, <1>3
  DEF ActivationStands, deviceVars, Complete, ContractHolds, GateRuns, StepReturns,
      Samples, Accepts, Moves
<1>5. SUFFICES ReleaseTypeOK' /\ BuildTraced'
  BY <1>4 DEF ReleaseInvariant
<1>6. CASE BeginBuild \/ CalibrationRaises \/ BuildFails
  <2>1. UNCHANGED <<listed, built, archive>> /\ building' \in {"begin", "writing", "failed"}
    BY <1>1, <1>6 DEF BeginBuild, CalibrationRaises, BuildFails
  <2> QED BY <1>1, <1>2, <1>3, <2>1 DEF ReleaseTypeOK, BuildTraced, deviceVars, Complete
<1>7. CASE Publish
  <2>1. UNCHANGED <<building, listed, built>> /\ archive' = built /\ Verified(built)
    BY <1>7 DEF Publish
  <2>2. Complete(built)
    BY <1>1, <2>1, VerifiedIsComplete DEF Verified
  <2>3. archive = Absent \/ archive = built
    BY <1>1 DEF BuildTraced
  <2>4. job = "place" => Complete(built)
    BY <2>2
  <2> QED BY <1>1, <1>2, <1>3, <2>1, <2>2 DEF ReleaseTypeOK, BuildTraced, deviceVars, Complete
<1>8. ASSUME NEW f \in Files, CreateFile(f)
      PROVE  ReleaseTypeOK' /\ BuildTraced'
  <2>1. /\ UNCHANGED <<building, archive>>
        /\ f \in Contents
        /\ built[f] = "absent"
        /\ built' = [built EXCEPT ![f] = "torn"]
        /\ \A g \in Preceding(f) \cap Contents : built[g] = "whole"
    BY <1>8 DEF CreateFile, Writing
  <2>2. built \in [Files -> States] /\ "torn" \in States
    BY <1>1 DEF ReleaseTypeOK, States
  <2>3. /\ built' \in [Files -> States]
        /\ built'[f] = "torn"
        /\ \A g \in Files \ {f} : built'[g] = built[g]
    BY <2>1, <2>2, OneFileChanges
  <2>4. listed' = IF f = "manifest"
                    THEN {g \in Files \ {"manifest", "sig"} : built[g] # "absent"}
                    ELSE listed
    BY <1>8 DEF CreateFile
  <2>5. ReleaseTypeOK'
    BY <1>1, <1>2, <2>1, <2>3, <2>4 DEF ReleaseTypeOK, deviceVars
  <2>6. built'["manifest"] # "absent" => listed' = Contents \ {"manifest", "sig"}
    <3>1. CASE f = "manifest"
      <4>1. \A g \in Contents \ {"manifest", "sig"} : built[g] = "whole"
        BY <2>1, <3>1 DEF Preceding, Contents, Files
      <4>2. \A g \in Files \ Contents : built[g] = "absent"
        BY <1>1 DEF BuildTraced
      <4>3. Contents \subseteq Files
        BY DEF Contents
      <4> QED BY <2>4, <3>1, <4>1, <4>2, <4>3
    <3>2. CASE f # "manifest"
      BY <1>1, <2>3, <2>4, <3>2 DEF BuildTraced, Files
    <3> QED BY <3>1, <3>2
  <2>7. ~Complete(built) /\ "manifest" \in Files
    BY <2>1 DEF Complete, Files
  <2>8. archive = Absent /\ job # "copy"
    BY <1>1, <2>7 DEF BuildTraced
  <2>9. job # "place"
    BY <1>1, <2>8 DEF BuildTraced, Complete, Absent, Contents, Files
  <2>10. job # "idle" => f # "manifest"
    BY <1>1, <2>1 DEF BuildTraced
  <2> QED BY <1>1, <1>2, <1>3, <2>1, <2>3, <2>5, <2>6, <2>7, <2>8, <2>9, <2>10
          DEF BuildTraced, deviceVars
<1>9. ASSUME NEW f \in Files, CompleteFile(f)
      PROVE  ReleaseTypeOK' /\ BuildTraced'
  <2>1. /\ UNCHANGED <<building, listed, archive>>
        /\ f \in Contents
        /\ built[f] = "torn"
        /\ built' = [built EXCEPT ![f] = "whole"]
    BY <1>9 DEF CompleteFile, Writing
  <2>2. built \in [Files -> States] /\ "whole" \in States
    BY <1>1 DEF ReleaseTypeOK, States
  <2>3. /\ built' \in [Files -> States]
        /\ built'[f] = "whole"
        /\ \A g \in Files \ {f} : built'[g] = built[g]
    BY <2>1, <2>2, OneFileChanges
  <2>4. ReleaseTypeOK'
    BY <1>1, <1>2, <2>1, <2>3 DEF ReleaseTypeOK, deviceVars
  <2>5. ~Complete(built) /\ "manifest" \in Files
    BY <2>1 DEF Complete, Files
  <2>6. archive = Absent /\ job # "copy"
    BY <1>1, <2>5 DEF BuildTraced
  <2>7. job # "place"
    BY <1>1, <2>6 DEF BuildTraced, Complete, Absent, Contents, Files
  <2>8. built'["manifest"] # "absent" => listed' = Contents \ {"manifest", "sig"}
    BY <1>1, <2>1, <2>3, <2>5 DEF BuildTraced
  <2>9. job # "idle" => built'["manifest"] = "whole"
    BY <1>1, <2>3, <2>5 DEF BuildTraced
  <2> QED BY <1>1, <1>2, <1>3, <2>1, <2>3, <2>4, <2>6, <2>7, <2>8, <2>9
          DEF BuildTraced, deviceVars
<1> QED BY <1>6, <1>7, <1>8, <1>9 DEF HubStep

-----------------------------------------------------------------------------
(* The steps of the device.                                                *)

(* The device leaves the hub alone; while no version is active it may work *)
(* on the directory, and afterwards it does not touch it.                  *)
LEMMA DevicePreserves ==
  ASSUME ReleaseInvariant, DeviceStep
  PROVE  ReleaseInvariant'
<1>1. ReleaseTypeOK /\ BuildTraced /\ ActivationStands
  BY DEF ReleaseInvariant
<1>2. UNCHANGED hubVars
  BY DEF DeviceStep, Stage, RemoveDirectory, MoveIntoPlace, Install, RemoveFile, BeginCopy, EndCopy,
         GateRaises, GateRejects, GatePasses, LoadActivated, Boot, PowerCut
<1>3. /\ Contents' = Contents
      /\ ContractHolds' = ContractHolds
      /\ GateRuns' = GateRuns
      /\ Samples' = Samples
      /\ Complete(built)' = Complete(built)
      /\ Complete(archive)' = Complete(archive)
  BY <1>2 DEF hubVars, Contents, ContractHolds, GateRuns, StepReturns, Samples,
              Accepts, Moves, Complete
<1>4. /\ policy' = policy /\ probe' = probe /\ building' = building
      /\ listed' = listed /\ built' = built /\ archive' = archive
  BY <1>2 DEF hubVars
<1> USE <1>1, <1>3, <1>4 DEF ReleaseInvariant
<1>5. CASE Stage
  <2>1. archive # Absent
    BY <1>5 DEF Stage, Verified, Absent, Files
  <2>2. Complete(archive) /\ archive["manifest"] = "whole" /\ archive = built
    BY <1>5, <2>1 DEF Stage, Verified, BuildTraced
  <2> QED BY <1>5, <2>2 DEF Stage, ReleaseTypeOK, BuildTraced, ActivationStands, Complete
<1>6. CASE MoveIntoPlace
  <2>1. ~active /\ agent # "dead" /\ Complete(archive) /\ built["manifest"] = "whole"
    BY <1>6 DEF MoveIntoPlace, ActivationStands, BuildTraced
  <2>2. archive # Absent
    BY <2>1 DEF Complete, Absent, Contents, Files
  <2>3. archive = built
    BY <2>2 DEF BuildTraced
  <2> QED BY <1>6, <2>1, <2>3 DEF MoveIntoPlace, ReleaseTypeOK, BuildTraced, ActivationStands
<1>7. CASE Install
  <2>1. ~active /\ built["manifest"] = "whole" /\ Complete(built)
    BY <1>7, VerifiedIsComplete DEF Install, Verified
  <2> QED BY <1>7, <2>1 DEF Install, ReleaseTypeOK, BuildTraced, ActivationStands
<1>8. ASSUME NEW f \in Files, RemoveFile(f)
      PROVE  ReleaseInvariant'
  <2>1. ~active /\ agent # "dead"
    BY <1>8 DEF RemoveFile, ActivationStands
  <2>2. dest \in [Files -> States] /\ "absent" \in States
    BY DEF ReleaseTypeOK, States
  <2>3. /\ dest' \in [Files -> States]
        /\ dest'[f] = "absent"
        /\ \A g \in Files \ {f} : dest'[g] = dest[g]
    BY <1>8, <2>2, OneFileChanges DEF RemoveFile
  <2>4. present
    BY <1>8 DEF RemoveFile, BuildTraced, Absent
  <2> QED BY <1>8, <2>1, <2>3, <2>4 DEF RemoveFile, ReleaseTypeOK, BuildTraced, ActivationStands
<1>9. ASSUME NEW f \in Files, BeginCopy(f)
      PROVE  ReleaseInvariant'
  <2>1. ~active /\ agent # "dead" /\ f \in Contents
    BY <1>9 DEF BeginCopy, ActivationStands, BuildTraced
  <2>2. dest \in [Files -> States] /\ "torn" \in States
    BY DEF ReleaseTypeOK, States
  <2>3. /\ dest' \in [Files -> States]
        /\ dest'[f] = "torn"
        /\ \A g \in Files \ {f} : dest'[g] = dest[g]
    BY <1>9, <2>2, OneFileChanges DEF BeginCopy
  <2> QED BY <1>9, <2>1, <2>3 DEF BeginCopy, ReleaseTypeOK, BuildTraced, ActivationStands
<1>10. ASSUME NEW f \in Files, EndCopy(f)
       PROVE  ReleaseInvariant'
  <2>1. ~active /\ agent # "dead" /\ f \in Contents
    BY <1>10 DEF EndCopy, ActivationStands, BuildTraced
  <2>2. dest \in [Files -> States] /\ "whole" \in States
    BY DEF ReleaseTypeOK, States
  <2>3. /\ dest' \in [Files -> States]
        /\ dest'[f] = "whole"
        /\ \A g \in Files \ {f} : dest'[g] = dest[g]
    BY <1>10, <2>2, OneFileChanges DEF EndCopy
  <2>4. job' \in {"gate", "copy"}
    BY <1>10 DEF EndCopy
  <2> QED BY <1>10, <2>1, <2>3, <2>4 DEF EndCopy, ReleaseTypeOK, BuildTraced, ActivationStands
<1>11. CASE GateRaises
  BY <1>11 DEF GateRaises, ReleaseTypeOK, BuildTraced, ActivationStands, Complete
<1>12. CASE GateRejects
  BY <1>12 DEF GateRejects, ReleaseTypeOK, BuildTraced, ActivationStands, Complete
<1>13. CASE GatePasses
  <2>1. Complete(dest)
    BY <1>13, VerifiedIsComplete DEF GatePasses, BuildTraced
  <2> QED BY <1>13, <2>1 DEF GatePasses, ReleaseTypeOK, BuildTraced, ActivationStands, Complete
<1>14. CASE LoadActivated
  <2>1. active /\ Complete(dest) /\ GateRuns
    BY <1>14 DEF LoadActivated, ActivationStands
  <2>2. Loads = Samples
    BY <2>1 DEF Loads, Complete, Contents, Files, GateRuns, Samples, Accepts
  <2> QED BY <1>14, <2>1, <2>2
          DEF LoadActivated, ReleaseTypeOK, BuildTraced, ActivationStands, Complete
<1>15. CASE Boot
  <2>1. active => Loads = Samples
    BY DEF ActivationStands, Loads, Complete, Contents, Files, GateRuns, Samples, Accepts
  <2> QED BY <1>15, <2>1 DEF Boot, ReleaseTypeOK, BuildTraced, ActivationStands, Complete
<1>16. CASE PowerCut
  BY <1>16 DEF PowerCut, ReleaseTypeOK, BuildTraced, ActivationStands, Complete
<1>17. CASE RemoveDirectory
  BY <1>17 DEF RemoveDirectory, ReleaseTypeOK, BuildTraced, ActivationStands, Complete
<1> QED BY <1>5, <1>6, <1>7, <1>8, <1>9, <1>10, <1>11, <1>12, <1>13, <1>14, <1>15, <1>16,
           <1>17 DEF DeviceStep

-----------------------------------------------------------------------------
(* The inductive invariant holds in every reachable state, whatever the    *)
(* device's columns, the policy's shape and the interleaving of the build, *)
(* a publish beside it, power cuts and copies.                             *)
THEOREM ReleaseInvariantHolds == ReleaseSpec => []ReleaseInvariant
<1>1. ReleaseInit => ReleaseInvariant
  <2> SUFFICES ASSUME ReleaseInit PROVE ReleaseInvariant
    OBVIOUS
  <2>1. Absent \in [Files -> States] /\ \A f \in Files : Absent[f] = "absent"
    BY DEF Absent, States
  <2>2. ReleaseTypeOK
    BY <2>1 DEF ReleaseInit, ReleaseTypeOK
  <2>3. BuildTraced /\ ActivationStands
    BY <2>1 DEF ReleaseInit, BuildTraced, ActivationStands, Files
  <2> QED BY <2>2, <2>3 DEF ReleaseInvariant
<1>2. ReleaseInvariant /\ [ReleaseNext]_releaseVars => ReleaseInvariant'
  <2>1. ASSUME ReleaseInvariant, UNCHANGED releaseVars
        PROVE  ReleaseInvariant'
    BY <2>1 DEF releaseVars, ReleaseInvariant, ReleaseTypeOK, BuildTraced,
      ActivationStands, Complete, Contents, ContractHolds, GateRuns, StepReturns,
      Samples, Accepts, Moves
  <2> QED BY <2>1, HubPreserves, DevicePreserves DEF ReleaseNext
<1> QED BY <1>1, <1>2, PTL DEF ReleaseSpec

(* publish() may run at any moment of build(), and build() may die at any: *)
(* what is published is complete.                                          *)
THEOREM PublishedAlwaysComplete == ReleaseSpec => []PublishedIsComplete
<1>1. ReleaseInvariant => PublishedIsComplete
  BY DEF ReleaseInvariant, BuildTraced, PublishedIsComplete
<1> QED BY <1>1, ReleaseInvariantHolds, PTL

(* No interrupted copy, removal or download is ever activated.             *)
THEOREM ActiveAlwaysComplete == ReleaseSpec => []ActiveIsComplete
<1>1. ReleaseInvariant => ActiveIsComplete
  BY DEF ReleaseInvariant, ActivationStands, ActiveIsComplete
<1> QED BY <1>1, ReleaseInvariantHolds, PTL

(* Only a policy of another width than the vector of observe(), or of too  *)
(* few actions, can keep its agent from starting.                          *)
THEOREM DeadAlwaysByWidth == ReleaseSpec => []DeadOnlyByWidth
<1>1. ReleaseInvariant => DeadOnlyByWidth
  <2> SUFFICES ASSUME ReleaseInvariant, agent = "dead"
               PROVE  \/ Len(policy.columns) # Len(Observed)
                      \/ policy.head < Joints
    BY DEF DeadOnlyByWidth
  <2>1. ~Samples /\ policy.fit
    BY DEF ReleaseInvariant, ActivationStands, GateRuns
  <2>2. policy.head \in Int /\ Joints \in Int
    BY JointsAssumption, BoundsAssumption DEF ReleaseInvariant, ReleaseTypeOK, Policies
  <2> QED BY <2>1, <2>2 DEF Samples, Accepts, Moves
<1> QED BY <1>1, ReleaseInvariantHolds, PTL

=============================================================================
