-------------------------- MODULE TelemetryDelivery --------------------------
(***************************************************************************)
(* What the up-link promises about every event: it is kept on the device   *)
(* until the hub has it, unless the device had to make room, and the hub   *)
(* then has it for good.  Networks, batches, acknowledgements, retries and *)
(* restarts are not here; module Uplink is shown to implement this one.    *)
(***************************************************************************)
EXTENDS Integers

CONSTANT MaxEvents

VARIABLES
  held,       \* the events on the device
  evicted,    \* the events it gave up for lack of room
  stored      \* the events the hub has

delivery == <<held, evicted, stored>>

Init == held = {} /\ evicted = {} /\ stored = {}

(* A new event is held, or evicts itself or another held event at once.    *)
Record(e) ==
  /\ e \notin held \cup evicted \cup stored
  /\ \E room \in {{}} \cup {{f} : f \in held \cup {e}} :
       /\ held' = (held \cup {e}) \ room
       /\ evicted' = evicted \cup room
  /\ UNCHANGED stored

(* Only events that were recorded reach the hub, in any number at a time.  *)
Store ==
  /\ stored' \in SUBSET (held \cup evicted \cup stored)
  /\ stored \subseteq stored'
  /\ UNCHANGED <<held, evicted>>

(* The device forgets only what the hub has.                               *)
Forget ==
  /\ held' \in SUBSET held
  /\ held \ held' \subseteq stored
  /\ UNCHANGED <<evicted, stored>>

Next == (\E e \in 1..MaxEvents : Record(e)) \/ Store \/ Forget

Spec == Init /\ [][Next]_delivery

=============================================================================
