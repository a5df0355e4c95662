-------------------------------- MODULE Uplink -------------------------------
(***************************************************************************)
(* The up-link as a whole: TelemetryClient.flush() of one device, an       *)
(* unreliable connection with timeouts, and the hub's ReleaseStore.        *)
(*                                                                         *)
(* flush() is synchronous: while a request is out, the device does nothing *)
(* else.  When it gives up on the answer the request may still be on its   *)
(* way, or be queued in one of the server's threads, and be accepted later *)
(* and more than once: it is then one of the stray requests.               *)
(***************************************************************************)
EXTENDS Telemetry, ReleaseStore

CONSTANT LinkFaults   \* lost, crash, full: see the actions

LinkFaultKinds == {"lost", "crash", "full"}
ASSUME LinkFaultsAssumption == LinkFaults \subseteq LinkFaultKinds
ASSUME StoredIdsAssumption == StoredIds = Ids

VARIABLES
  call,       \* the flush() under way: its batch and how far it has come
  stray,      \* requests nobody waits for any more
  alive       \* the device's process runs

uplinkVars == <<telemetryVars, storeVars, call, stray, alive>>

NoCall == [at |-> "none", events |-> {}]

UplinkInit ==
  /\ TelemetryInit
  /\ StoreInit
  /\ call = NoCall
  /\ stray = {}
  /\ alive = TRUE

device == <<telemetryVars, alive>>

-----------------------------------------------------------------------------
(* The device.                                                             *)

(* any of record()'s callers, between uploads                              *)
RecordEvent ==
  /\ alive
  /\ call = NoCall
  /\ \E kind \in EventKinds : Record(kind)
  /\ UNCHANGED <<storeVars, call, stray, alive>>

(* flush(): with something to send, post one batch                         *)
Send ==
  /\ alive
  /\ call = NoCall
  /\ spool # {}
  /\ \E b \in Batches : call' = [at |-> "posted", events |-> b]
  /\ UNCHANGED <<storeVars, device, stray>>

(* [deviation] the batch counts as delivered once it has been posted       *)
GiveUpForgetting ==
  /\ "lost" \in LinkFaults \/ call.at = "broken"
  /\ alive
  /\ call # NoCall
  /\ stray' = IF call.at = "posted" THEN stray \cup {call.events} ELSE stray
  /\ call' = NoCall
  /\ Acknowledge(call.events)
  /\ UNCHANGED <<storeVars, alive>>

(* flush(): send() raises (timeout, refused, reset, an error status): the  *)
(* batch stays in the spool, the request may still arrive                  *)
GiveUp ==
  /\ "lost" \in LinkFaults \/ call.at = "broken"
  /\ alive
  /\ call # NoCall
  /\ stray' = IF call.at = "posted" THEN stray \cup {call.events} ELSE stray
  /\ call' = NoCall
  /\ UNCHANGED <<storeVars, device>>

(* flush(): the confirmed ids leave the spool and the file is saved        *)
Confirm ==
  /\ alive
  /\ call.at = "answered"
  /\ call' = NoCall
  /\ Acknowledge(call.events)
  /\ UNCHANGED <<storeVars, stray, alive>>

(* append() or acknowledge() cannot save spool.jsonl (disk full): the      *)
(* exception leaves record() or flush() and ends the control loop          *)
SaveFails ==
  /\ "full" \in LinkFaults
  /\ alive
  /\ call.at \in {"none", "answered"}
  /\ alive' = FALSE
  /\ call' = NoCall
  /\ UNCHANGED <<telemetryVars, storeVars, stray>>

(* the device loses power; a request that was out may still arrive         *)
DeviceCrash ==
  /\ "crash" \in LinkFaults
  /\ alive
  /\ alive' = FALSE
  /\ stray' = IF call.at = "posted" THEN stray \cup {call.events} ELSE stray
  /\ call' = NoCall
  /\ UNCHANGED <<telemetryVars, storeVars>>

(* Spool(): a new process loads spool.jsonl                                *)
DeviceStarts ==
  /\ ~alive
  /\ alive' = TRUE
  /\ UNCHANGED <<telemetryVars, storeVars, call, stray>>

-----------------------------------------------------------------------------
(* The hub: do_POST of the request that is waited for, or of a stray one.  *)

Answer ==
  /\ call.at = "posted"
  /\ Accept(call.events)
  /\ call' = [call EXCEPT !.at = "answered"]
  /\ UNCHANGED <<device, stray>>

(* the handler dies or raises: the connection breaks, and only the device's*)
(* own GiveUp ends the call                                                *)
Breaks ==
  /\ call.at = "posted"
  /\ AcceptCrashes(call.events) \/ AcceptFails(call.events)
  /\ call' = [call EXCEPT !.at = "broken"]
  /\ UNCHANGED <<device, stray>>

(* a stray request is handled; another copy of it may still be about       *)
AcceptStray ==
  \E b \in stray :
    /\ Accept(b) \/ AcceptCrashes(b) \/ AcceptFails(b)
    /\ stray' \in {stray, stray \ {b}}
    /\ UNCHANGED <<device, call>>

HubRestarts == Reopen /\ UNCHANGED <<device, call, stray>>

UplinkNext ==
  \/ RecordEvent \/ Send \/ GiveUp \/ Confirm
  \/ SaveFails \/ DeviceCrash \/ DeviceStarts
  \/ Answer \/ Breaks \/ AcceptStray \/ HubRestarts

UplinkSpec == UplinkInit /\ [][UplinkNext]_uplinkVars

(* The control loop uploads every upload_every steps, at the latest every  *)
(* max_backoff_multiplier times that; flush() ends by itself, at its       *)
(* timeout if need be; a process that ended is started again.  Nobody has  *)
(* to be up all the time: it is only assumed that again and again the      *)
(* device stays up until an upload, the hub handles a request that is      *)
(* waited for, and an answer arrives and can be saved.                     *)
FairUplinkSpec ==
  /\ UplinkSpec
  /\ WF_uplinkVars(GiveUp) /\ WF_uplinkVars(DeviceStarts)
  /\ SF_uplinkVars(Send) /\ SF_uplinkVars(Answer) /\ SF_uplinkVars(Confirm)

-----------------------------------------------------------------------------
(* Properties.                                                             *)

Posts == {b \in SUBSET Ids : Cardinality(b) <= BatchSize}

(* The type of every variable; no request, waited for or not, is larger    *)
(* than one batch.                                                         *)
UplinkTypeOK ==
  /\ kinds \in Seq(EventKinds) /\ Len(kinds) <= MaxEvents
  /\ spool \subseteq Ids
  /\ shed \subseteq Ids
  /\ lines \in [Ids -> Nat]
  /\ torn \in BOOLEAN
  /\ seen \subseteq Ids
  /\ call \in [at : {"none", "posted", "answered", "broken"}, events : Posts]
  /\ stray \subseteq Posts
  /\ alive \in BOOLEAN

(* The spool never outgrows its budget.                                    *)
SpoolBounded == Cardinality(spool) <= Capacity

(* At least once: every event that was ever recorded is on the device, or  *)
(* on the hub, or was evicted to make room.                                *)
NothingLost == 1..Len(kinds) \subseteq spool \cup shed \cup Readable(lines)

(* and the hub stores it once, however often it is sent: late copies,      *)
(* resent batches and restarts of the hub included.                        *)
StoredOnce == \A e \in Ids : lines[e] <= 1

(* What the hub answers with is on its file.                               *)
AnswerIsStored == call.at = "answered" => call.events \subseteq Readable(lines)

(* Eviction is by class before age: as long as the events of a class and   *)
(* of those above it would fit in the spool by themselves, none is shed,   *)
(* whatever else is recorded and however long the hub is away.             *)
Important(priority) == {e \in 1..Len(kinds) : PriorityOf(kinds[e]) <= priority}

ImportantOutlivesRoutine ==
  \A priority \in 0..2 :
    Cardinality(Important(priority)) <= Capacity =>
      shed \cap Important(priority) = {}

(* Nothing stays in the spool for ever: however often requests, answers,   *)
(* saves and either machine fail, each event is evicted or confirmed.      *)
SpoolDrains == \A e \in Ids : e \in spool ~> e \notin spool

(* Every event's life follows the abstract delivery.                       *)
Delivery ==
  INSTANCE TelemetryDelivery
    WITH held <- spool,
         evicted <- shed,
         stored <- Readable(lines)

ImplementsDelivery == Delivery!Spec

=============================================================================
