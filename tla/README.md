# edge-policy-runtime: verification project

TLA+ models of the over-the-air update client, the release publisher, a release
on its way from the build to the control loop, the telemetry up-link, the hub's
telemetry store, the device's control loop and the processes on a device; TLC
runs that check them on small instances; and TLAPS proofs of every safety
property that holds, for every instance. The models are written from the code under
`src/edge_runtime`, one action per durable effect. File names below are relative
to that directory.

## 1. Inventory

| Part | Code | State it keeps | Operations | Talks to |
| --- | --- | --- | --- | --- |
| OTA client | `ota.py: OTAClient` | `state.json` (current, previous, quarantine, history, frozen), `bundles/<v>/`, `current` symlink; a copy of the state in memory | `poll` = check, stage, gate, activate; `rollback`; `unfreeze` | release source (read), file system |
| Publishing | `ota.py: publish`, `bundle.py: pack` | `<version>.tar.gz`, `<channel>.json` | pack the archive, then replace the pointer | devices, through those two files only |
| Bundle | `bundle.py` | the files of one directory | build, sign, verify, pack, unpack, `write_atomically` | called by the two above |
| Transport | `transport.py` | none | `latest`, `fetch`, `send`, each with a timeout | hub |
| Spool and telemetry client | `telemetry.py: Spool, TelemetryClient` | deque and `spool.jsonl`; consecutive failures | record, evict, batch, flush, acknowledge | uploader |
| Hub server | `server.py: ReleaseStore` | `telemetry.jsonl`, `_seen` | `accept` under a lock, threads for requests | devices |
| Device agent | `agent.py: DeviceAgent` | steps since upload, current runtime and detector | `run`, `poll_updates`, `maybe_upload`, `drain_telemetry`, `install_local` | everything above, in one thread |
| Inference runtime | `runtime.py` | last gripper target, counters, latency window | `step`, `hold_action`, `warmup` | policy |
| Edge-case detector | `telemetry.py: EdgeCaseDetector` | misses in a row, last emission and suppressed count per reason | `inspect`, `drain_suppressed` | agent |
| Policy and workload | `policy.py`, `workload.py` | the contract of a policy; the order of an observation | `forward`, `bind`; `observe`, `step`, `sample_observations` | gate, runtime, agent |
| Command line | `cli.py` | none; one process per command | `bundle build`, `device install / run / rollback` | the same files as a running agent |
| Quantization | `quantize.py` | none | numerics | build |

**What is hard here.**

- *Power.* The device may lose power between any two effects: between the
  symlink and `state.json`, in the middle of `rmtree` or of a copy, between two
  saves of one rollback. Only what is on disk survives.
- *Failed saves.* `write_atomically` can raise with the new state already in
  memory. The process then decides by a state the disk does not have.
- *Two processes, no lock.* `device rollback` reads and writes the state of a
  device whose agent is running with a copy of its own.
- *Two reads, one release.* The pointer and the archive are fetched separately
  while somebody publishes, and `publish` may read what `build` still writes.
- *A contract checked in one place and used in another.* The gate compares names
  of columns; the control loop feeds a vector by position.
- *An unreliable up-link.* Timeouts, lost answers, requests that arrive after the
  device gave up on them, duplicates, restarts of either end, full disks.
- *Long legal sequences.* Rollouts, rejections, rollbacks and unfreezes share
  one spare slot, one quarantine and one budget over the life of a device.
- *A loop that must not stop*, with a backoff, cooldowns and counters that a
  policy swap replaces in mid-incident.

**What makes each part correct.** The update client: it always boots a gated
bundle and can always go back to one; quarantine, freeze and budget mean what
they say; a good release is adopted in the end. The publisher and the bundle:
nothing but a complete bundle is ever published, pointed at or activated. The
up-link: at least once, stored once, eviction by class before age, and the
backlog drains. The loop: each change of the running version is announced, no
older version comes back in control, a lasting incident keeps being heard of, backing off is bounded, a
failed step holds the gripper. Processes side by side: whatever they overwrite of
each other's, the device boots and keeps its spare.

## 2. Modules

```
UpdateLifecycle  (abstract)               TelemetryDelivery  (abstract)
      ^ implements                              ^ implements
  OTAClient <------ INSTANCE, twice         Uplink -- EXTENDS Telemetry, ReleaseStore
      ^ EXTENDS            |
  Downlink            DeviceProcesses       ControlLoop         Release
      | INSTANCE
  Publisher

proofs:  OTAClientProofs <- OTAClientLifecycle <- OTAClientCalm <- DownlinkProofs
         DeviceProcessesProofs
         ReleaseProofs     ControlLoopProofs     UplinkProofs
```

The modules named `MC...` hold the values of the constants for TLC. A definition
marked `[deviation]` stands next to the one it deviates from and describes a
plausible mistake in that code; no specification uses it. Replacing the
definition by it makes the property listed with it in `PROJECT.json` fail.

### OTAClient

| Variable | Code |
| --- | --- |
| `disk` | `state.json` as a reboot would read it |
| `mem` | `OTAClient.state` |
| `bundle` | `bundles/<v>`: absent, partial, whole |
| `link` | the `current` symlink |
| `job` | the program point inside `poll`, `rollback` or `install_local` |

Each program point between two durable effects is a value of `job.at`, so
`Restart` can fall between any two: `Check`, `StageVerified` / `StageRefused` /
`StageRaises`, `RemoveOld`, `FinishRemove` (the two halves of `rmtree`),
`MoveIntoPlace`, `RecordStaged`, `GatePasses` / `GateRejects` + `RecordRejected` /
`GateRaises`, `PointCurrent`, `CommitActivation`; `Rollback`, `PointBack`,
`CommitBack`, `Freeze`; `Install`, `FinishCopy`; `Unfreeze`. Every save goes
through `Save`, which changes `mem` and either `disk` too or ends the operation.

*Abstractions.* What a release is, seen from this device, is the constant
`Kind`: `good`, `refused` (verification raises `BundleError`), `alien`
(verification raises something else, as a manifest that does not parse does),
`unfit` (the gate says no), `raising` (the gate raises). A fault of the machine ends the operation without a verdict
(`HostFault`), except where the code takes it for one of the release: an OSError
while the archive is written is a failed download (`StageRefused`), and a lack of
memory while the gate loads the policy is one that does not load (`Unhealthy`).
A quarantine reason is
reduced to who condemned the version, a history entry to whether it is a
rollback, and the history to its last `Window` entries, which is all
`recent_rollbacks` reads. The hash of a device and a version is the constant
`Bucket`. The release server is left free: pointer and archive are parameters of
the actions.

### Publisher and Downlink

`Publisher` is `publish()`: `BeginPack` truncates the archive, `EndPack`
completes it, `WritePointer` replaces the pointer; `PublisherDies` stops it
anywhere. A version may be published again at any time, as for a wider rollout,
and is packed again, under the pointer that announces the former archive.
`Downlink` closes `OTAClient` with it: `latest` and `fetch` read the two files as
they are at that moment.

### Release

One release, opened up: a bundle directory (`built`, `archive`, `dest`) is the
state of each of its four files, and `listed` is what the manifest hashes.
`BeginBuild`, `CreateFile`, `CompleteFile` and `BuildFails` are `build()`, file
by file, in its order; `Publish` packs what verifies, at any time. On the device
`Stage`, `RemoveFile`, `RemoveDirectory`, `MoveIntoPlace` are the download, and
`Install`, `BeginCopy`, `EndCopy` the factory copy; `PowerCut` stops either at any
file, or before the first (`present` is whether the directory exists).
`GateRaises`, `GateRejects`, `GatePasses` are `activate()`, and `LoadActivated`
and `Boot` what the agent does with the result.

A policy is the columns it names, the width of its head, whether its layers fit
together and whether its action columns name a gripper target; the initial state
chooses any such policy that the constructor accepts. A value is known by the
column it is a value of. `Observed` is what `observe()` returns, whatever columns
a workload is given; `DeviceColumns` what the device is configured with and the
gate compares with. (No command configures others than the observed ones, so the
runs have the two equal; the theorems do not.) So "the vector the loop hands over" (`Fed`) and
"the vector `bind` would make of the observation" (`Bind`) can be compared. What
the gate measures (latency, deviation) is a free choice.

### DeviceProcesses

Two instances of `OTAClient` over one `disk`, `bundle` and `link`, each with its
own memory and program point: the agent of `device run`, which polls, and a
command, which rolls back or installs the first version. Either is started and
ends at any time between its operations, and anywhere with `crash`. (`cli.py`
has no command that unfreezes.) `device install` of a newer version beside a
running agent is left out: a running agent has a current version, and `Install`
is modelled here for a device without one. (`OTAClient` has the installation of
an older image over a newer version too, with one process.)

### Telemetry, ReleaseStore, Uplink

`Telemetry` is the spool: events are numbered as they are recorded, which is
their order in the deque, so the deque is a set of numbers. `ReleaseStore` is
`accept()`: how often each event has a whole line in `telemetry.jsonl`, whether
the file ends in an unfinished line, and `_seen`. `Uplink` composes them with
`flush()` and a link on which a request nobody waits for any more (`stray`) may
still be handled, any number of times. The `dropped` counters of the spool are
replaced by the set `shed` of the events evicted.

### ControlLoop

One control step (`runtime.step`, `detector.inspect`, the failure or flag
event), then heartbeat, poll, upload, in the order of `run()`. `poll_updates()`
is three actions, because the process may end between them: the poll itself
(`PollKeeps`, `PollRefuses`, `PollUpdates`, `PollUnsaved`), `LoadUpdate`, and
`RecordOta`, the event about it. Of the two links only the outcomes remain;
`version` and `saved` are `current_version` in memory and on disk. `hushed`
(occurrences of a reason since the last event about it) and `told` (the version
the events were last said to be about) are history variables. Observations are
free: any step may fail, miss its deadline or raise any signal.

## 3. Runs

| Run | Instance | Shows |
| --- | --- | --- |
| `device_faults` | 3 good versions and one alien one, window 3, budget 1, all five faults, rollback and unfreeze; any server | type correctness, `BootsGated`, `SpareReady`, the inductive `DeviceInvariant` (`UpdateInvariant` and `VerdictInvariant`), `QuarantineHolds`, `FrozenStandsStill` |
| `downlink_crashes` | good, refused, good; each packed up to twice; budget 1; 50 % and 100 % rollouts; crashes, interrupted and repeated publishes; all operator commands | `PointerResolves`, `CondemnedOnlyIfRepacked`; the device implements `UpdateLifecycle` |
| `downlink_calm` | good, alien, good, unfit, good; four packings, of which any may be a second one; rollouts; budget 2; no faults; rollback and unfreeze | `LinkFollowsState`, `RolledBackStaysOff`, `BudgetFreezes`, `StagedOnlyOnce`, and the liveness property `GoodReleaseAdopted` |
| `beside` | 4 versions, the third alien; agent and command; all five faults | types and the inductive invariant (`ProcessInvariant`), `TwoWritersKeepBundles`, `AgentNeverLowers`, `RolledBackForGood` |
| `release` | a device of 2 columns and 3 joints, one foreign column; policies of up to 3 columns and 4 outputs | `ReleaseInvariant`, `PublishedIsComplete`, `ActiveIsComplete`, `DeadOnlyByWidth` |
| `uplink_faults` | 4 events of any kind, room for 3, batches of 2; every fault of the device and of the link; hub crashes | types and batch size, `SpoolBounded`, `NothingLost`, `AnswerIsStored`, `ImportantOutlivesRoutine`; implements `TelemetryDelivery` |
| `uplink_live` | 2 events, batches of 2; every fault there is, torn lines and full disks included | `StoredOnce` and the liveness property `SpoolDrains` |
| `loop` | 3 versions, 2 runs of 4 steps, burst 2, cooldown 2, heartbeat every 3, poll every 2, upload every step, multiplier at most 2 | `PolicyNeverGoesBack`, `UpdatesAreAnnounced`, `UploadComesBack`, `IncidentIsHeardOf`, `HoldKeepsGripper`, `CountsAreKept` |

The four runs named `viol_...` are described in section 4.

**Bounds, and why they are enough.** Three versions are the fewest with an
update, a rollback and a further update past the version rolled back; the
interplay of current, previous and candidate involves no more, and a fourth one
lets another kind of release or another process come in between. Five make every
kind of release appear between good ones. A window of three and a budget of one
or two reach the freeze, its lifting and a rollback that leaves the window. Two
builds tell an archive from its predecessor, and four packings of five versions
leave room for one good version to be published again and two others to go past
it. Two columns and a foreign one make
every kind of contract: the same, reordered, repeated, a part, a superset, a
replacement; three joints tell a head that broadcasts (1) from one that is too
narrow (2), that fits (3) and that has a gripper output (4). Four events over
three places make eviction choose, and batches of two leave a hub crash in
between them. The loop's periods are small and different so that heartbeat, poll
and upload meet in all combinations; eight steps outlast every one of them.
Two events and batches of two make a backlog of one batch, sent whole, in part
or one by one; more did not finish in the time a run is given.
`MaxVersion`, `MaxBuilds`, `MaxPacks`, `MaxColumns`, `MaxHead`, `MaxEvents`, `RunSteps` and
`MaxRuns` are the bounds that keep the models finite; deadlock checking is off
where a model stops because a bound is reached, or because everything has been
published and decided.

**Fairness.** `FairDownlinkSpec`: weak fairness of the poll and of the
client's own steps, because `run()` polls every `ota_every` steps and `poll()`
runs to its end in one call. Nothing is assumed of the publisher or the
operator. `FairUplinkSpec`: a call that is out is given up in the end (every
request has a timeout) and a process that ended is started again (weak); and
again and again, if not always, the device stays up until an upload, the hub
answers and the answer arrives and is saved (strong fairness of `Send`,
`Answer`, `Confirm`). Without the last three nobody can promise delivery.

## 4. Where the code and its documents differ

Each of these is a run that TLC ends with a counterexample.

- `viol_gate_blind`: `Policy.bind` fails loudly "rather than silently
  mis-slotting", but it is never reached: the loop hands over an array. The gate
  asks whether the device has every column the policy names, in any order and
  with others left over, and tries the policy on vectors of its own width. A
  policy with the device's columns in another order is activated and mis-slotted;
  that is what TLC prints. One with some of them is activated, and `_load_current()` then raises outside
  `poll()`'s `try`; the agent dies, and so does every later one in its
  constructor, the one of `device rollback` included (`agent = "dead"`).
- `viol_rollback_undone`: a rollback from the command line beside a running agent
  is complete and saved, and undone by the next save of the agent, which writes
  its older copy of `state.json`: version, quarantine and rollback record. The
  freeze of an exhausted budget is lost in the same way. What does hold is
  `RolledBackForGood`: once the file and the copy of every running process have
  rolled a version back, nobody names or forgives it again. Restarting the agent
  after the command is enough to make a rollback last.
- `viol_dropped_download`: a dropped connection during `fetch` is an `OTAError`
  like a forged archive, and quarantines the version for good. "A failure here
  costs only bandwidth." A full disk of the device during the download does the
  same.
- `viol_hub_full`: `accept` marks events as seen before they are written; after
  a flush that failed the retry is confirmed as a duplicate and the device
  deletes events that nobody has.

Others were met while modelling and are reachable in the modules with other
constants or a stronger property; they have no run of their own:

- *A gate that raises.* A release whose layers do not fit together makes
  `warmup()` raise: `activate` quarantines only a returned verdict, so the release
  is downloaded again by every poll (`StagedOnlyOnce` fails with a `raising`
  version), and each time an `ota` event of the highest priority is spooled. A
  manifest that does not parse (`alien`) has the same effect one step earlier.
- *Budget and power.* With `crash`, `BudgetFreezes` fails: power lost between the
  two saves of the rollback that exhausts the budget leaves the rollbacks on
  record and the device unfrozen.
- *Counts of a replaced detector.* An update installs a new detector; suppressed
  counts that no heartbeat has reported go with the old one (the `load` exception
  of `CountsAreKept`).
- *First step after a swap.* A new runtime takes the gripper to be at 0.0; if its
  first inference fails, the hold action commands that (the `n > 0` of
  `HoldKeepsGripper`).
- *Crash before the event.* Power lost between an activation and its `ota` event:
  the hub learns of the update only from the version on later events.
- *Activation that is saved late.* `activate()` sets `current_version` before the
  save that may fail; the candidate is then reported as rejected and not loaded.
  The next candidate that is refused, or only staged, saves the whole state in
  memory (`PollRefuses`): `state.json`, "what version is live", then names a
  version that was announced as rejected and does not run, and the next restart
  runs it unannounced. `PolicyNeverGoesBack` is what holds: what is saved is
  never older than what runs. Until then the next `ota` event's `from_version`
  names a version that never ran.
- *Link and state.* With `crash` in `Faults`, `LinkFollowsState` fails: power
  lost between repoint and save leaves `current` on the new version and
  `state.json` on the old one; a later staging of the new version removes the
  directory under the link. The device boots by `state.json`.
- *Interrupted rollback.* With `crash` or `host`, `RolledBackStaysOff` fails:
  the quarantine is saved first, so the device may go on running a version it
  has quarantined until the rollback is asked for again.
- *Unsaved rollback, then clearing.* With `save`, `crash` and `clear`,
  `BootsGated` fails: a rollback is saved in memory only, the operator clears
  the quarantine, the same version is staged again over the directory that
  `state.json` still names as current, and power is lost in between. (It takes
  one process that does all of it, as the class allows; the commands of the CLI
  are one process each.)
- *Reinstalling an older factory image.* With `reinstall`, the newer version
  becomes the spare and staging may destroy it (`SpareReady` fails with
  `crash`; without faults of the machine it is put back, theorem `SpareAlwaysSurvives`); installing the same version twice makes it its own spare, and a
  rollback then quarantines the version it returns to.
- *Partial factory copy.* `install_local` interrupted in its copy, or between
  `mkdir` and the first file, finds the directory on the next attempt, does not
  copy again and fails verification.
- *Configured columns.* `observe()` gives the default vector whatever
  `obs_columns` a workload is given, and detector and probe set are calibrated on
  a default workload: a device configured with another number of columns passes
  the gate with a policy of its own width and cannot load it (`DeadOnlyByWidth`
  therefore speaks of `Observed`).
- *Padding that is never reached.* `bundle build --requires-column` has
  `build_calibration` raise (`CalibrationRaises`) before the branch that would pad
  the probe set.
- *Publishing a version again.* The archive changes under a pointer that
  announces the former hash, during the publish and for as long as an
  interrupted one is not repeated. A device that polls then quarantines a good
  version, in passing runs too: it is what the exceptions for versions packed
  more than once in `PointerResolves`, `CondemnedOnlyIfRepacked` and `Withheld`
  (of `GoodReleaseAdopted`) are for. `publish` promises that a
  device polling in the middle "sees the old version" (`ota.py:176-178`); it does
  not, if the old pointer names the version that is packed again.
- *Torn line on the hub.* With `torn` in `HubFaults`, `NothingLost` and
  `AnswerIsStored` fail: the first event appended after an unfinished line is
  glued to it, confirmed, and unreadable.
- *Full device disk.* `flush()` "never raises", but `acknowledge()` saves
  outside its `try`; the exception ends the control loop (`SaveFails`).

## 5. Proofs

Every theorem holds for all values of the constants that their assumptions
admit. What it assumes beyond them is in the last column.

| Theorem | States | Assumes |
| --- | --- | --- |
| `TypeCorrect` | `Spec => []TypeOK` | |
| `UpdateInvariantHolds`, `AlwaysBoots`, `AlwaysSpare` | `[]UpdateInvariant`, `[]BootsGated`, `[]SpareReady` | `Disciplined` |
| `VerdictInvariantHolds`, `DeviceInvariantHolds`, `QuarantineAlwaysHolds`, `FrozenAlwaysStands` | `[]VerdictInvariant`, `[]DeviceInvariant`, `QuarantineHolds`, `FrozenStandsStill` | `Disciplined` |
| `DeviceImplementsLifecycle` | `Spec => ImplementsLifecycle` | `Disciplined`, saves succeed |
| `LinkAlwaysFollows`, `BudgetAlwaysFreezes` | `[]LinkFollowsState`, `BudgetFreezes` | no crash, saves succeed |
| `RolledBackAlwaysOff` | `[]RolledBackStaysOff` | `Disciplined`, no crash, no I/O error, saves succeed |
| `AlwaysStagedOnce` | `StagedOnlyOnce` | the same, no `clear`, and no release makes the gate raise |
| `ReinstalledAlwaysBoots`, `SpareAlwaysSurvives` | `[]BootsGated`, `[]SpareSurvives` | not `Disciplined`; no crash, no I/O error, saves succeed |
| `DownlinkImplementsOTAClient` | `DownlinkSpec => Spec` | |
| `DownlinkAlwaysBoots`, `DownlinkImplementsLifecycle`, `DownlinkCalm` | the same of the closed system (`DownlinkCalm`: link, rollback, budget and `StagedOnlyOnce` in one) | as above |
| `PointerAlwaysResolves` | `[]PointerResolves` | |
| `AlwaysCondemnedOnlyIfRepacked` | `[]CondemnedOnlyIfRepacked` | downloads and this machine do not fail, deadlines are met; crashes, failed saves and repeated publishes are allowed |
| `ProcessInvariantHolds`, `TwoWritersAlwaysKeepBundles`, `AgentAlwaysAdvances`, `RolledBackIsForGood` | the four properties of `beside` | |
| `ReleaseInvariantHolds`, `PublishedAlwaysComplete`, `ActiveAlwaysComplete`, `DeadAlwaysByWidth` | the four properties of `release` | |
| `LoopInvariantHolds` and the seven others of `ControlLoopProofs` | the seven properties of `loop` | |
| `UplinkAlwaysTyped`, `SpoolAlwaysBounded`, `ImportantAlwaysOutlives`, `AlwaysStoredOnce` | types, `[]SpoolBounded`, `[]ImportantOutlivesRoutine`, `[]StoredOnce` | |
| `NothingEverLost`, `AnswerAlwaysStored`, `UplinkImplementsDelivery` | `[]NothingLost`, `[]AnswerIsStored`, the refinement | the hub may crash, but not inside a line, and has room on its disk |

`Disciplined`: factory images are not reinstalled over a device that already has
a version, and saves do not fail on a device whose quarantine an operator clears.
That, each "no crash" and the gate that does not raise are needed: section 4 has
the counterexamples.

*Booting (`OTAClientProofs`).* `BootsGated` is not inductive: `stage()` deletes
a directory, and nothing in `BootsGated` says that the version it deletes is not
the current one. `check()` only offers versions newer than the one in memory, and
memory may differ from the disk after a failed save. `UpdateInvariant` adds what
closes the gap:

- `Sound(disk)` and `Sound(mem)`: both name runnable versions, and the spare is
  the older of the two;
- `DiskLags`: what the disk still names is either not newer than what memory
  names, or in memory's quarantine (a rollback that could not be saved);
- `JobConsistent`: at each program point, what is known about the version being
  worked on: it is newer than the current one, and, while it can still be
  deleted, not in quarantine.

Together they give `StagedIsNotInUse`: the version being staged is none of the
four that memory and disk name. `SavePreserves` and `NoSavePreserves` treat the
two outcomes of a save once for all actions; `NextPreserves` then has one step
per action.

*Verdicts and the lifecycle (`OTAClientLifecycle`).* A step changes
`current_version` on disk either by the save that ends an activation or a
rollback, or by a later save that carries an older failed one with it.
`VerdictInvariant` covers both: memory forgets no verdict of the disk, an update
in progress is not in memory's quarantine, and what memory runs the disk does not
object to. With saves that succeed `mem = disk`, and each action is then matched
with an action of `UpdateLifecycle` or with a stutter.

*A device on which nothing fails (`OTAClientCalm`).* For `StagedOnlyOnce`, the
invariant (`StagedInvariant`) accounts for every directory there is: its version
is under way, or condemned, or not newer than what runs. The last case has to say
more, because a rollback lowers what runs: such a version is also not newer than
the spare, or it is what runs, which the rollback condemns. For the two theorems
without `Disciplined`, `UpdateInvariant` cannot be used: the spare may be the
newer version, and then it may be the one being staged. `ReinstallInvariant` says
that it is whole at every point but `place`, and that what comes back there is a
version whose kind is good. (No run has `reinstall` without faults; TLC agreed
with the invariant, its two theorems and the moment at `place` on an instance of
four versions.)

*Two writers (`DeviceProcessesProofs`).* The argument is one of assumption and
guarantee. `AgentGuarantee` and `CommandGuarantee` say what a step of either
process may do to the file and to the bundles, and `AgentGuarantees` and
`CommandGuarantees` show that the actions of `OTAClient` do no more; the two
instances of one specification are then never opened again. `ProcessInvariant`
is what makes them fit: whatever runs in the command's copy is not newer than
what the file names, nor that than what the agent's copy names (`CopiesOrdered`),
because a command only rolls back or installs a first version, and an agent only
moves on. So what the agent stages is newer than anything any of the three names
(`StagedIsNotNamed`), and it alone stages. `VerdictsOrdered` is needed for
`RolledBackForGood` alone: an update in progress is of a version that the agent
has nothing against.

*The down-link (`DownlinkProofs`).* The closed system is an instance of the open
one, so the theorems about `OTAClient` are inherited by it (the run
`downlink_crashes` has crashes only; `DownlinkImplementsLifecycle` covers
failures of downloads, host and deadlines too). `PointerAlwaysResolves` needs
that an announced hash is the one of some packing of that version, and, unless it
was a former one, of the archive that is there (`Announced`), and that a publish
in progress is about the latest packing. `AlwaysCondemnedOnlyIfRepacked` carries
this along the poll: the hash a job compares with was announced by a pointer, so
that a mismatch means that the version was packed again between the two reads or
before them.

*A release (`ReleaseProofs`).* `ReleaseInvariant` traces each place a bundle is in
to a complete build (`BuildTraced`): the manifest exists only when everything it
has to list does, so that a directory that verifies is complete
(`VerifiedIsComplete`). `ActivationStands` says that what activation established
is not touched afterwards.

*The loop (`ControlLoopProofs`).* `PolicyNeverGoesBack` needs that what is saved
lies between what runs and what memory names (`SavedBetween`), also while a save
has failed. `LoopInvariant` adds to the properties, besides that, what a poll has left to do at each point (`PollPending`) and that the occurrences since
the last event on a reason are at most the steps since then (`HushedSince`).

*The up-link (`UplinkProofs`).* For the spool: only recorded events are about, and
at most one is evicted for a new one, of the least important class
(`OneVictim`, from the existence of a least element, by well-foundedness). For
delivery (`Durable`): every id the hub has seen is on its file. For
`StoredOnce` the converse (`Once`): every id on the file has been seen.

*Only model-checked:* liveness (`GoodReleaseAdopted`, `SpoolDrains`), which like
anything else about `ENABLED` is outside TLAPS here. The properties of the runs
named `viol_...` do not hold (`NothingLost` does under the hypotheses above, and
is proved under those).

## 6. Not modelled

- `quantize.py`: an offline computation on floating-point weights, without state
  and without interaction; what comes out is a policy like any other. The
  numerics of `policy.py` and the simulated arm of `workload.py`, for the same
  reason; their contracts are in `Release`.
- Key handling, hashing and archive formats, beyond whether they verify.
- Latency percentiles and the numeric thresholds of gate and detector.
- Power cuts of the hub machine and write-back order of the file systems: a
  completed rename or flush counts as durable. (`telemetry.jsonl` and the bundle
  files are not fsynced.)
- Disk usage: scratch directories and old bundles are never removed.
- The read-only handlers of the server and commands of the CLI, `status`,
  `snapshot`, `stats`.
- More than one device: devices share nothing but what `Downlink` and `Uplink`
  leave free.

## 7. What could come next

1. `ControlLoop` with the spool of `Telemetry`, to relate the heartbeat's counts
   to eviction.
2. The installation of an older image beside a running agent in
   `DeviceProcesses`: the copies are no longer ordered then.
