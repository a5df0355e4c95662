----------------------------- MODULE ReleaseStore ----------------------------
(***************************************************************************)
(* The hub side of the up-link: ReleaseStore.accept of server.py, which    *)
(* appends events to telemetry.jsonl and deduplicates them by id, and the  *)
(* constructor, which reads the ids back after a restart.                  *)
(*                                                                         *)
(* A lock is held for the whole of accept(), so requests are handled one   *)
(* at a time.  A line of the file is a whole event or garbage; only how    *)
(* often each event has a whole line matters, and whether the file ends in *)
(* the middle of one.                                                      *)
(***************************************************************************)
EXTENDS Integers, FiniteSets

CONSTANTS
  StoredIds,     \* the event ids there can be
  HubFaults      \* crash, torn, full: see the actions

HubFaultKinds == {"crash", "torn", "full"}
ASSUME HubFaultsAssumption == HubFaults \subseteq HubFaultKinds

VARIABLES
  lines,      \* how many whole lines of telemetry.jsonl hold each event
  torn,       \* telemetry.jsonl ends in an unfinished line
  seen        \* _seen of the running server

storeVars == <<lines, torn, seen>>

StoreInit ==
  /\ lines = [e \in StoredIds |-> 0]
  /\ torn = FALSE
  /\ seen = {}

(* Append one line for each of the events.  After an unfinished line the   *)
(* first of them, whichever it is, only completes the garbage.             *)
Appended(events) ==
  IF torn /\ events # {}
    THEN {[e \in StoredIds |-> lines[e] + IF e \in events \ {f} THEN 1 ELSE 0] :
            f \in events}
    ELSE {[e \in StoredIds |-> lines[e] + IF e \in events THEN 1 ELSE 0]}

Readable(file) == {e \in StoredIds : file[e] > 0}

(* [deviation] no deduplication                                            *)
FreshAll(events) == events

Fresh(events) == events \ seen

(* [deviation] the answer goes out before the events are on the file      *)
AcceptUnwritten(events) ==
  /\ seen' = seen \cup events
  /\ UNCHANGED <<lines, torn>>

(* accept(): every event of the request is on file when it returns, and    *)
(* all of their ids are returned                                           *)
Accept(events) ==
  /\ lines' \in Appended(Fresh(events))
  /\ torn' = (torn /\ Fresh(events) = {})
  /\ seen' = seen \cup events

(* The server dies in the middle of accept() and is started again.  What   *)
(* had left the write buffer stays, and its last line may be unfinished:   *)
(* the buffer is written out whenever it is full, at any byte.             *)
AcceptCrashes(events) ==
  /\ "crash" \in HubFaults
  /\ \E written \in SUBSET Fresh(events) :
       /\ lines' \in Appended(written)
       /\ \/ torn' = (torn /\ written = {})
          \/ "torn" \in HubFaults /\ written # Fresh(events) /\ torn' = TRUE
  /\ seen' = Readable(lines')

(* The disk is full: write() or flush() raises and the request is never    *)
(* answered, but the ids handled until then are already in _seen.  Where   *)
(* the disk takes a part of the buffer, it may end within a line.          *)
AcceptFails(events) ==
  /\ "full" \in HubFaults
  /\ \E handled \in SUBSET Fresh(events) :
       /\ \E written \in SUBSET handled :
            /\ lines' \in Appended(written)
            /\ \/ torn' = (torn /\ written = {})
               \/ "torn" \in HubFaults /\ torn' = TRUE
       /\ seen' = seen \cup handled

(* ReleaseStore(): a new process reads the ids of the whole lines          *)
Reopen ==
  /\ "crash" \in HubFaults
  /\ seen' = Readable(lines)
  /\ UNCHANGED <<lines, torn>>

=============================================================================
