------------------------------ MODULE Telemetry ------------------------------
(***************************************************************************)
(* The device side of the up-link: class Spool of telemetry.py, a bounded  *)
(* event queue that survives restarts and evicts by priority, and record() *)
(* of TelemetryClient.                                                     *)
(*                                                                         *)
(* Events are numbered in the order they are recorded, which is also their *)
(* order in the deque and in spool.jsonl: the deque is the set of its      *)
(* numbers.  The file is replaced atomically on every change, and a save   *)
(* that fails ends the process (nothing between it and the control loop    *)
(* catches the exception), so memory and file never differ while it runs.  *)
(***************************************************************************)
EXTENDS Integers, Sequences, FiniteSets

CONSTANTS
  Capacity,      \* spool_capacity (2000)
  BatchSize,     \* batch_size (128)
  MaxEvents      \* bound: how many events are ever recorded

Ids == 1..MaxEvents
EventKinds == {"failure", "ota", "flag", "heartbeat"}

ASSUME CapacityAssumption == Capacity \in Nat \ {0}
ASSUME BatchSizeAssumption == BatchSize \in Nat \ {0}
ASSUME MaxEventsAssumption == MaxEvents \in Nat

VARIABLES
  kinds,      \* the kind of every event recorded so far, in order
  spool,      \* the events held on the device
  shed        \* history: the events evicted for lack of room

telemetryVars == <<kinds, spool, shed>>

(* PRIORITY: lower is kept longer                                          *)
PriorityOf(kind) ==
  CASE kind \in {"failure", "ota"} -> 0
    [] kind = "flag" -> 1
    [] kind = "heartbeat" -> 2

TelemetryInit ==
  /\ kinds = <<>>
  /\ spool = {}
  /\ shed = {}

(* [deviation] a ring buffer: the oldest event goes, whatever it says      *)
VictimsOldest(held, known) ==
  {e \in held : \A f \in held : e <= f}

(* _evict: the lowest class (highest number) first, the oldest of it       *)
Victims(held, known) ==
  {e \in held :
     \A f \in held :
       \/ PriorityOf(known[f]) < PriorityOf(known[e])
       \/ (PriorityOf(known[f]) = PriorityOf(known[e]) /\ e <= f)}

(* [deviation] one event too many is kept                                  *)
OverflowsLate(held) == Cardinality(held) > Capacity + 1

Overflows(held) == Cardinality(held) > Capacity

(* record(): append, evict when over capacity, save                        *)
Record(kind) ==
  LET held == spool \cup {Len(kinds) + 1}
      victims == IF Overflows(held) THEN Victims(held, Append(kinds, kind)) ELSE {}
  IN  /\ Len(kinds) < MaxEvents
      /\ kinds' = Append(kinds, kind)
      /\ spool' = held \ victims
      /\ shed' = shed \cup victims

(* [deviation] the batch is the whole spool, whatever its size             *)
BatchesWhole == {spool}

(* batch(): the BatchSize most important events.  Inside a class the code  *)
(* orders by wall-clock time, which a clock adjustment may reverse: any    *)
(* order inside a class is allowed here.                                   *)
Batches ==
  {b \in SUBSET spool :
     /\ Cardinality(b) = IF Cardinality(spool) < BatchSize
                           THEN Cardinality(spool) ELSE BatchSize
     /\ \A e \in b, f \in spool \ b : PriorityOf(kinds[e]) <= PriorityOf(kinds[f])}

(* [deviation] the confirmed events stay                                   *)
AcknowledgeNothing(ids) == UNCHANGED <<kinds, spool, shed>>

(* acknowledge(): exactly the confirmed events are removed                 *)
Acknowledge(ids) ==
  /\ spool' = spool \ ids
  /\ UNCHANGED <<kinds, shed>>

=============================================================================
