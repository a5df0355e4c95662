----------------------------- MODULE UplinkProofs ----------------------------
(***************************************************************************)
(* Proofs about the up-link, for every capacity, batch size and number of  *)
(* events, with requests, answers and saves that fail, and devices and     *)
(* hubs that crash at any point.                                           *)
(***************************************************************************)
EXTENDS Uplink, FiniteSetTheorems, WellFoundedInduction, TLAPS

-----------------------------------------------------------------------------
(* The spool: who is evicted.                                              *)

(* A set of event numbers has a smallest one.                              *)
LEMMA Oldest ==
  ASSUME NEW S \in SUBSET Nat, S # {}
  PROVE  \E e \in S : \A f \in S : e <= f
<1>1. IsWellFoundedOn(OpToRel(<, Nat), Nat)
  BY NatLessThanWellFounded
<1>2. PICK e \in S : \A f \in S : <<f, e>> \notin OpToRel(<, Nat)
  BY <1>1, WFMin
<1>3. \A f \in S : ~(f < e)
  BY <1>2 DEF OpToRel
<1> QED BY <1>3

LEMMA Priorities ==
  ASSUME NEW kind \in EventKinds
  PROVE  PriorityOf(kind) \in 0..2
BY DEF EventKinds, PriorityOf

(* At most one event is evicted for a new one, it is one of the least      *)
(* important, and there is one.                                            *)
LEMMA OneVictim ==
  ASSUME NEW held \in SUBSET Nat, NEW known,
         \A e \in held : known[e] \in EventKinds
  PROVE  /\ \A e, f \in Victims(held, known) : e = f
         /\ held # {} => Victims(held, known) # {}
         /\ \A e \in Victims(held, known) :
              /\ e \in held
              /\ \A f \in held : PriorityOf(known[f]) <= PriorityOf(known[e])
<1> DEFINE rank(e) == PriorityOf(known[e])
           class(p) == {e \in held : rank(e) = p}
<1>1. \A e \in held : rank(e) \in 0..2
  BY Priorities
<1>2. Victims(held, known) =
        {e \in held : \A f \in held : rank(f) < rank(e) \/ (rank(f) = rank(e) /\ e <= f)}
  BY DEF Victims
<1>3. ASSUME NEW e \in Victims(held, known)
      PROVE  /\ e \in held
             /\ \A f \in held : rank(f) <= rank(e)
             /\ \A f \in held : rank(f) = rank(e) => e <= f
  <2>1. e \in held
    BY <1>2
  <2>2. ASSUME NEW f \in held
        PROVE  rank(f) <= rank(e) /\ (rank(f) = rank(e) => e <= f)
    <3>1. rank(f) < rank(e) \/ (rank(f) = rank(e) /\ e <= f)
      BY <1>2
    <3>2. rank(e) \in 0..2 /\ rank(f) \in 0..2
      BY <1>1, <2>1
    <3> HIDE DEF rank
    <3> QED BY <3>1, <3>2
  <2> QED BY <2>1, <2>2
<1>4. ASSUME NEW e \in Victims(held, known), NEW f \in Victims(held, known)
      PROVE  e = f
  <2>1. e \in held /\ f \in held /\ rank(f) \in 0..2 /\ rank(e) \in 0..2
    BY <1>1, <1>3
  <2>2. rank(e) <= rank(f) /\ rank(f) <= rank(e)
    BY <1>3
  <2>3. rank(e) = rank(f) => e <= f /\ f <= e
    BY <1>3
  <2> HIDE DEF rank
  <2> QED BY <2>1, <2>2, <2>3
<1>5. ASSUME held # {}
      PROVE  Victims(held, known) # {}
  <2>1. PICK p \in 0..2 : class(p) # {} /\ \A f \in held : rank(f) <= p
    <3> HIDE DEF rank
    <3>1. \A f \in held : rank(f) = 0 \/ rank(f) = 1 \/ rank(f) = 2
      BY <1>1
    <3>2. CASE \E e \in held : rank(e) = 2
      BY <3>1, <3>2
    <3>3. CASE (\E e \in held : rank(e) = 1) /\ (\A e \in held : rank(e) # 2)
      BY <3>1, <3>3
    <3>4. CASE \A e \in held : rank(e) = 0
      <4>1. class(0) # {}
        BY <1>5, <3>4
      <4>2. \A f \in held : rank(f) <= 0
        BY <3>4
      <4> HIDE DEF class
      <4> QED BY <4>1, <4>2
    <3> QED BY <3>1, <3>2, <3>3, <3>4
  <2>2. PICK e \in class(p) : \A f \in class(p) : e <= f
    BY <2>1, Oldest
  <2> HIDE DEF rank
  <2>3. e \in held /\ \A f \in held : rank(f) < rank(e) \/ (rank(f) = rank(e) /\ e <= f)
    BY <1>1, <2>1, <2>2
  <2> QED BY <1>2, <2>3
<1> QED BY <1>3, <1>4, <1>5


Known == 1..Len(kinds)

(* What record() does to the spool, in memory and on the disk.             *)
LEMMA RecordStep ==
  ASSUME kinds \in Seq(EventKinds), spool \subseteq Known, shed \subseteq Known,
         SpoolBounded, ImportantOutlivesRoutine,
         NEW kind \in EventKinds, Record(kind)
  PROVE  /\ kinds' \in Seq(EventKinds)
         /\ Len(kinds') = Len(kinds) + 1
         /\ Len(kinds') <= MaxEvents
         /\ spool' \subseteq Known' /\ shed' \subseteq Known'
         /\ \E room \in {{}} \cup {{f} : f \in spool \cup {Len(kinds) + 1}} :
              /\ spool' = (spool \cup {Len(kinds) + 1}) \ room
              /\ shed' = shed \cup room
         /\ SpoolBounded'
         /\ ImportantOutlivesRoutine'
<1> DEFINE new == Len(kinds) + 1
           held == spool \cup {new}
           known == Append(kinds, kind)
           victims == IF Overflows(held) THEN Victims(held, known) ELSE {}
<1>1. /\ Len(kinds) < MaxEvents
      /\ kinds' = known
      /\ spool' = held \ victims
      /\ shed' = shed \cup victims
  BY DEF Record
<1>2. /\ Len(kinds) \in Nat /\ MaxEvents \in Nat /\ Capacity \in Nat \ {0}
      /\ known \in Seq(EventKinds) /\ Len(known) = new /\ new \in Nat \ {0}
      /\ \A e \in Known : known[e] = kinds[e] /\ known[e] \in EventKinds
      /\ known[new] = kind
      /\ Known' = 1..new /\ Known \subseteq 1..new
  BY <1>1, MaxEventsAssumption, CapacityAssumption DEF Known
<1>3. /\ held \in SUBSET Nat /\ held # {} /\ held \subseteq 1..new
      /\ \A e \in held : known[e] \in EventKinds
  <2> HIDE DEF new, known
  <2>1. held \subseteq 1..new /\ new \in held
    BY <1>2
  <2>2. \A e \in held : e = new \/ e \in Known
    BY <1>2
  <2>3. 1..new \subseteq Nat
    BY <1>2
  <2> HIDE DEF held
  <2> QED BY <1>2, <2>1, <2>2, <2>3
<1>4. /\ \A e, f \in Victims(held, known) : e = f
      /\ Victims(held, known) # {}
      /\ \A e \in Victims(held, known) :
           /\ e \in held
           /\ \A f \in held : PriorityOf(known[f]) <= PriorityOf(known[e])
  BY <1>3, OneVictim
<1>5. /\ IsFiniteSet(1..new) /\ IsFiniteSet(spool) /\ IsFiniteSet(held)
      /\ Cardinality(spool) \in Nat /\ Cardinality(held) \in Nat
      /\ Cardinality(held) <= Cardinality(spool) + 1
  <2>1. IsFiniteSet(1..new)
    BY <1>2, FS_Interval
  <2>2. IsFiniteSet(spool)
    BY <1>2, <2>1, FS_Subset
  <2>3. /\ IsFiniteSet(held)
        /\ Cardinality(held) = IF new \in spool THEN Cardinality(spool)
                                                ELSE Cardinality(spool) + 1
    BY <2>2, FS_AddElement
  <2> HIDE DEF new, held
  <2> QED BY <2>1, <2>2, <2>3, FS_CardinalityType
<1> HIDE DEF new, held, known
<1>6. /\ ~Overflows(held) => victims = {}
      /\ Overflows(held) => \E f \in Victims(held, known) : victims = {f}
      /\ victims \subseteq held
      /\ victims \in {{}} \cup {{f} : f \in held}
  <2>1. CASE ~Overflows(held)
    BY <2>1
  <2>2. CASE Overflows(held)
    <3>1. PICK f \in Victims(held, known) : TRUE
      BY <1>4
    <3>2. victims = {f} /\ f \in held
      BY <1>4, <2>2, <3>1
    <3> QED BY <2>2, <3>2
  <2> QED BY <2>1, <2>2
<1>11. \A e \in victims : Overflows(held) /\ e \in Victims(held, known)
  OBVIOUS
<1> HIDE DEF victims
<1>7. SpoolBounded'
  <2>1. CASE ~Overflows(held)
    <3>1. spool' = held
      BY <1>1, <1>6, <2>1
    <3> QED BY <1>2, <1>5, <2>1, <3>1 DEF Overflows, SpoolBounded
  <2>2. CASE Overflows(held)
    <3>1. PICK f \in held : spool' = held \ {f}
      BY <1>1, <1>6, <2>2
    <3>2. Cardinality(held \ {f}) = Cardinality(held) - 1
      BY <1>5, FS_RemoveElement
    <3> QED BY <1>2, <1>5, <3>1, <3>2 DEF SpoolBounded
  <2> QED BY <2>1, <2>2
<1>8. ImportantOutlivesRoutine'
  <2> SUFFICES ASSUME NEW p \in 0..2, NEW e \in shed',
                      e \in Important(p)', Cardinality(Important(p)') <= Capacity
               PROVE  FALSE
    BY DEF ImportantOutlivesRoutine
  <2>1. /\ Important(p)' = {x \in 1..new : PriorityOf(known[x]) <= p}
        /\ Important(p) = {x \in Known : PriorityOf(kinds[x]) <= p}
        /\ Important(p) \subseteq Important(p)'
    BY <1>1, <1>2 DEF Important, Known
  <2>2. IsFiniteSet(Important(p)') /\ Cardinality(Important(p)') \in Nat
    BY <1>5, <2>1, FS_Subset, FS_CardinalityType
  <2>3. CASE e \in shed
    <3>1. e \in Important(p)
      BY <1>2, <2>1, <2>3 DEF Known
    <3>2. Cardinality(Important(p)) <= Cardinality(Important(p)')
      BY <2>1, <2>2, FS_Subset
    <3>3. IsFiniteSet(Important(p)) /\ Cardinality(Important(p)) \in Nat
      BY <2>1, <2>2, FS_Subset, FS_CardinalityType
    <3>4. Cardinality(Important(p)) <= Capacity
      BY <1>2, <2>2, <3>2, <3>3
    <3> QED BY <2>3, <3>1, <3>4 DEF ImportantOutlivesRoutine
  <2>4. CASE e \in victims
    <3>1. Overflows(held) /\ e \in Victims(held, known)
      BY <1>11, <2>4
    <3>2. /\ e \in held /\ PriorityOf(known[e]) <= p
          /\ \A f \in held : PriorityOf(known[f]) <= PriorityOf(known[e])
      BY <1>4, <2>1, <3>1
    <3>3. held \subseteq Important(p)'
      <4> SUFFICES ASSUME NEW f \in held PROVE f \in Important(p)'
        OBVIOUS
      <4>1. PriorityOf(known[f]) \in 0..2 /\ PriorityOf(known[e]) \in 0..2
        BY <1>3, <3>2, Priorities
      <4>2. PriorityOf(known[f]) <= p
        BY <3>2, <4>1
      <4> QED BY <1>3, <2>1, <4>2
    <3>4. Cardinality(held) <= Cardinality(Important(p)')
      BY <2>2, <3>3, FS_Subset
    <3> QED BY <1>2, <1>5, <2>2, <3>1, <3>4 DEF Overflows
  <2> QED BY <1>1, <2>3, <2>4
<1>9. spool' \subseteq 1..new /\ shed' \subseteq 1..new
  BY <1>1, <1>2, <1>3, <1>6
<1>10. \E room \in {{}} \cup {{f} : f \in held} :
          spool' = held \ room /\ shed' = shed \cup room
  BY <1>1, <1>6
<1>12. Len(kinds') = new /\ new <= MaxEvents /\ kinds' \in Seq(EventKinds)
  BY <1>1, <1>2 DEF new
<1>13. spool' \subseteq Known' /\ shed' \subseteq Known'
  BY <1>2, <1>9
<1> QED BY <1>7, <1>8, <1>10, <1>12, <1>13 DEF new, held


-----------------------------------------------------------------------------
(* The hub: what a request leaves on its file.                             *)

LEMMA AppendedLines ==
  ASSUME lines \in [Ids -> Nat], NEW events \in SUBSET Ids, NEW file \in Appended(events)
  PROVE  /\ file \in [Ids -> Nat]
         /\ Readable(lines) \subseteq Readable(file)
         /\ Readable(file) \subseteq Readable(lines) \cup events
         /\ torn = FALSE => Readable(file) = Readable(lines) \cup events
<1>1. PICK missed \in SUBSET events :
        /\ file = [e \in Ids |-> lines[e] + IF e \in events \ missed THEN 1 ELSE 0]
        /\ torn = FALSE => missed = {}
  <2>1. CASE torn /\ events # {}
    <3>1. PICK f \in events :
            file = [e \in Ids |-> lines[e] + IF e \in events \ {f} THEN 1 ELSE 0]
      BY <2>1, StoredIdsAssumption DEF Appended
    <3>2. torn # FALSE /\ {f} \in SUBSET events
      BY <2>1
    <3> QED BY <3>1, <3>2
  <2>2. CASE ~(torn /\ events # {})
    <3>1. file = [e \in Ids |-> lines[e] + IF e \in events \ {} THEN 1 ELSE 0]
      BY <2>2, StoredIdsAssumption DEF Appended
    <3> QED BY <3>1
  <2> QED BY <2>1, <2>2
<1>2. \A e \in Ids : /\ lines[e] \in Nat
                     /\ file[e] = lines[e] + IF e \in events \ missed THEN 1 ELSE 0
  BY <1>1
<1>3. \A e \in Ids : /\ file[e] \in Nat
                     /\ lines[e] > 0 => file[e] > 0
                     /\ file[e] > 0 => lines[e] > 0 \/ e \in events
                     /\ torn = FALSE /\ e \in events => file[e] > 0
  BY <1>1, <1>2
<1>4. file \in [Ids -> Nat]
  BY <1>1, <1>3
<1> QED BY <1>3, <1>4, StoredIdsAssumption DEF Readable

(* Whatever becomes of a request, the file forgets nothing and holds only  *)
(* events that were sent.                                                  *)
LEMMA RequestHandled ==
  ASSUME lines \in [Ids -> Nat], torn \in BOOLEAN, seen \subseteq Ids,
         NEW events \in SUBSET Ids,
         Accept(events) \/ AcceptCrashes(events) \/ AcceptFails(events)
  PROVE  /\ lines' \in [Ids -> Nat] /\ torn' \in BOOLEAN /\ seen' \subseteq Ids
         /\ Readable(lines) \subseteq Readable(lines)'
         /\ Readable(lines)' \subseteq Readable(lines) \cup events
<1>1. PICK written \in SUBSET events : lines' \in Appended(written)
  <2>1. CASE Accept(events)
    <3>1. Fresh(events) \in SUBSET events /\ lines' \in Appended(Fresh(events))
      BY <2>1 DEF Accept, Fresh
    <3> QED BY <3>1
  <2>2. CASE AcceptCrashes(events)
    BY <2>2 DEF AcceptCrashes, Fresh
  <2>3. CASE AcceptFails(events)
    BY <2>3 DEF AcceptFails, Fresh
  <2> QED BY <2>1, <2>2, <2>3
<1>2. written \in SUBSET Ids
  OBVIOUS
<1>3. /\ lines' \in [Ids -> Nat]
      /\ Readable(lines) \subseteq Readable(lines')
      /\ Readable(lines') \subseteq Readable(lines) \cup written
  BY <1>1, <1>2, AppendedLines
<1>4. torn' \in BOOLEAN
  BY DEF Accept, AcceptCrashes, AcceptFails
<1>5. seen' \subseteq Ids
  BY StoredIdsAssumption DEF Accept, AcceptCrashes, AcceptFails, Fresh, Readable
<1> QED BY <1>3, <1>4, <1>5 DEF Readable

(* A hub that may crash, but is not cut off in the middle of a line and    *)
(* has room on its disk, has every event it says it has.                   *)
LEMMA RequestStored ==
  ASSUME HubFaults \subseteq {"crash"},
         lines \in [Ids -> Nat], torn = FALSE, seen \subseteq Readable(lines),
         NEW events \in SUBSET Ids,
         Accept(events) \/ AcceptCrashes(events) \/ AcceptFails(events)
  PROVE  /\ torn' = FALSE
         /\ seen' \subseteq Readable(lines)'
         /\ Accept(events) => events \subseteq Readable(lines)'
<1>1. CASE Accept(events)
  <2>1. Fresh(events) \in SUBSET Ids /\ lines' \in Appended(Fresh(events))
    BY <1>1 DEF Accept, Fresh
  <2>2. Readable(lines') = Readable(lines) \cup Fresh(events)
    BY <2>1, AppendedLines
  <2> QED BY <1>1, <2>2 DEF Accept, Fresh, Readable
<1>2. CASE AcceptCrashes(events) /\ ~Accept(events)
  BY <1>2 DEF AcceptCrashes, Readable
<1>3. ~AcceptFails(events)
  BY DEF AcceptFails
<1> QED BY <1>1, <1>2, <1>3


-----------------------------------------------------------------------------
(* The invariants of the whole.                                            *)

(* What holds whatever fails: only recorded events are about, and the      *)
(* spool's two promises.                                                   *)
UplinkInvariant ==
  /\ UplinkTypeOK
  /\ spool \cup shed \subseteq Known
  /\ Readable(lines) \subseteq Known
  /\ call.events \subseteq Known
  /\ \A b \in stray : b \subseteq Known
  /\ SpoolBounded
  /\ ImportantOutlivesRoutine

LEMMA UplinkStarts == UplinkInit => UplinkInvariant
<1> SUFFICES ASSUME UplinkInit PROVE UplinkInvariant
  OBVIOUS
<1>1. /\ kinds = <<>> /\ spool = {} /\ shed = {} /\ torn = FALSE /\ seen = {}
      /\ lines = [e \in Ids |-> 0] /\ call = NoCall /\ stray = {} /\ alive = TRUE
  BY StoredIdsAssumption DEF UplinkInit, TelemetryInit, StoreInit
<1>2. /\ Cardinality({}) = 0 /\ Capacity \in Nat /\ BatchSize \in Nat /\ MaxEvents \in Nat
  BY FS_EmptySet, CapacityAssumption, BatchSizeAssumption, MaxEventsAssumption
<1>3. {} \in Posts
  BY <1>2 DEF Posts
<1>4. UplinkTypeOK
  <2>1. kinds \in Seq(EventKinds) /\ Len(kinds) = 0
    BY <1>1
  <2>2. call \in [at : {"none", "posted", "answered", "broken"}, events : Posts]
    BY <1>1, <1>3 DEF NoCall
  <2>3. lines \in [Ids -> Nat]
    BY <1>1
  <2>4. /\ spool \subseteq Ids /\ shed \subseteq Ids /\ seen \subseteq Ids
        /\ torn \in BOOLEAN /\ stray \subseteq Posts /\ alive \in BOOLEAN
        /\ Len(kinds) <= MaxEvents
    <3>1. Len(kinds) <= MaxEvents
      BY <1>2, <2>1
    <3> QED BY <1>1, <3>1
  <2> QED BY <2>1, <2>2, <2>3, <2>4 DEF UplinkTypeOK
<1>5. Readable(lines) = {}
  BY <1>1, StoredIdsAssumption DEF Readable
<1>6. SpoolBounded /\ ImportantOutlivesRoutine
  BY <1>1, <1>2 DEF SpoolBounded, ImportantOutlivesRoutine
<1> QED BY <1>1, <1>4, <1>5, <1>6 DEF UplinkInvariant, NoCall

(* A batch is small enough and made of what the spool holds.               *)
LEMMA BatchPosted ==
  ASSUME UplinkInvariant, NEW b \in Batches
  PROVE  b \in Posts /\ b \subseteq Known
<1>1. b \subseteq spool /\ spool \subseteq Ids /\ spool \subseteq Known
  BY DEF Batches, UplinkInvariant, UplinkTypeOK
<1>2. IsFiniteSet(spool) /\ Cardinality(spool) \in Nat
  <2>1. IsFiniteSet(Ids)
    BY FS_Interval, MaxEventsAssumption DEF Ids
  <2> QED BY <1>1, <2>1, FS_Subset, FS_CardinalityType
<1>3. Cardinality(b) = IF Cardinality(spool) < BatchSize THEN Cardinality(spool)
                                                         ELSE BatchSize
  BY DEF Batches
<1>4. Cardinality(b) <= BatchSize
  BY <1>2, <1>3, BatchSizeAssumption
<1> QED BY <1>1, <1>4 DEF Posts

(* What the two promises of the spool depend on.                           *)
LEMMA SpoolPromises ==
  ASSUME UplinkInvariant, UNCHANGED <<kinds, shed>>, spool' \in SUBSET spool
  PROVE  SpoolBounded' /\ ImportantOutlivesRoutine'
<1>1. IsFiniteSet(Ids)
  BY FS_Interval, MaxEventsAssumption DEF Ids
<1>2. /\ IsFiniteSet(spool) /\ Cardinality(spool) \in Nat
      /\ IsFiniteSet(spool') /\ Cardinality(spool') \in Nat
      /\ Cardinality(spool') <= Cardinality(spool)
  BY <1>1, FS_Subset, FS_CardinalityType DEF UplinkInvariant, UplinkTypeOK
<1>3. SpoolBounded'
  BY <1>2, CapacityAssumption DEF UplinkInvariant, SpoolBounded
<1>4. ImportantOutlivesRoutine'
  BY DEF UplinkInvariant, ImportantOutlivesRoutine, Important
<1> QED BY <1>3, <1>4

(* A request is handled: the one that is waited for, or a stray one.       *)
LEMMA HubSteps ==
  ASSUME UplinkInvariant, Answer \/ Breaks \/ AcceptStray
  PROVE  /\ UNCHANGED <<kinds, spool, shed, alive>>
         /\ \E b \in SUBSET Ids :
              /\ b \subseteq Known
              /\ Accept(b) \/ AcceptCrashes(b) \/ AcceptFails(b)
              /\ call' = call \/ call'.at # "answered" \/ (Accept(b) /\ call'.events = b)
         /\ call' \in [at : {"none", "posted", "answered", "broken"}, events : Posts]
         /\ call'.events = call.events
         /\ stray' \subseteq stray
<1>1. /\ call \in [at : {"none", "posted", "answered", "broken"}, events : Posts]
      /\ call.events \in SUBSET Ids /\ call.events \subseteq Known
      /\ \A b \in stray : b \in SUBSET Ids /\ b \subseteq Known
  BY DEF UplinkInvariant, UplinkTypeOK, Posts
<1>2. CASE Answer
  BY <1>1, <1>2 DEF Answer, device, telemetryVars
<1>3. CASE Breaks
  BY <1>1, <1>3 DEF Breaks, device, telemetryVars
<1>4. CASE AcceptStray
  BY <1>1, <1>4 DEF AcceptStray, device, telemetryVars
<1> QED BY <1>2, <1>3, <1>4

LEMMA UplinkSteps ==
  ASSUME UplinkInvariant, [UplinkNext]_uplinkVars
  PROVE  UplinkInvariant'
<1>1. /\ kinds \in Seq(EventKinds) /\ Len(kinds) <= MaxEvents
      /\ spool \subseteq Ids /\ shed \subseteq Ids
      /\ lines \in [Ids -> Nat] /\ torn \in BOOLEAN /\ seen \subseteq Ids
      /\ call \in [at : {"none", "posted", "answered", "broken"}, events : Posts]
      /\ stray \subseteq Posts /\ alive \in BOOLEAN
      /\ spool \cup shed \subseteq Known /\ Readable(lines) \subseteq Known
      /\ call.events \subseteq Known /\ \A b \in stray : b \subseteq Known
      /\ SpoolBounded /\ ImportantOutlivesRoutine
  BY DEF UplinkInvariant, UplinkTypeOK
<1>2. NoCall \in [at : {"none", "posted", "answered", "broken"}, events : Posts]
      /\ NoCall.events = {}
  BY FS_EmptySet, BatchSizeAssumption DEF NoCall, Posts
<1>3. ASSUME UNCHANGED <<kinds, lines, torn, seen, shed>>,
             spool' \in SUBSET spool,
             call' \in [at : {"none", "posted", "answered", "broken"}, events : Posts],
             call'.events \subseteq Known,
             stray' \subseteq stray \cup {call.events},
             alive' \in BOOLEAN
      PROVE  UplinkInvariant'
  <2>1. SpoolBounded' /\ ImportantOutlivesRoutine'
    BY <1>3, SpoolPromises
  <2>2. UplinkTypeOK'
    BY <1>1, <1>3 DEF UplinkTypeOK
  <2>3. Known' = Known /\ Readable(lines)' = Readable(lines)
    BY <1>3 DEF Known, Readable
  <2> QED BY <1>1, <1>3, <2>1, <2>2, <2>3 DEF UplinkInvariant
<1>4. CASE UNCHANGED uplinkVars
  BY <1>1, <1>3, <1>4 DEF uplinkVars, telemetryVars, storeVars
<1>5. CASE RecordEvent
  <2>1. PICK kind \in EventKinds : Record(kind)
    BY <1>5 DEF RecordEvent
  <2>2. UNCHANGED <<lines, torn, seen, call, stray, alive>>
    BY <1>5 DEF RecordEvent, storeVars
  <2>3. /\ kinds' \in Seq(EventKinds) /\ Len(kinds') = Len(kinds) + 1
        /\ Len(kinds') <= MaxEvents
        /\ spool' \subseteq Known' /\ shed' \subseteq Known'
        /\ SpoolBounded' /\ ImportantOutlivesRoutine'
    BY <1>1, <2>1, RecordStep
  <2>4. Known \subseteq Known' /\ Known' \subseteq Ids
    BY <1>1, <2>3, MaxEventsAssumption DEF Known, Ids
  <2>5. UplinkTypeOK'
    BY <1>1, <2>2, <2>3, <2>4 DEF UplinkTypeOK
  <2>6. Readable(lines)' = Readable(lines)
    BY <2>2 DEF Readable
  <2> QED BY <1>1, <2>2, <2>3, <2>4, <2>5, <2>6 DEF UplinkInvariant
<1>6. CASE Send
  <2>1. PICK b \in Batches : call' = [at |-> "posted", events |-> b]
    BY <1>6 DEF Send
  <2>2. b \in Posts /\ b \subseteq Known
    BY BatchPosted
  <2>3. UNCHANGED <<kinds, spool, shed, lines, torn, seen, stray, alive>>
    BY <1>6 DEF Send, storeVars, device, telemetryVars
  <2> QED BY <1>1, <1>3, <2>1, <2>2, <2>3
<1>7. CASE GiveUp \/ SaveFails \/ DeviceCrash \/ DeviceStarts
  BY <1>1, <1>2, <1>3, <1>7
  DEF GiveUp, SaveFails, DeviceCrash, DeviceStarts, storeVars, device, telemetryVars
<1>8. CASE Confirm
  BY <1>1, <1>2, <1>3, <1>8 DEF Confirm, Acknowledge, storeVars
<1>9. CASE Answer \/ Breaks \/ AcceptStray
  <2>1. /\ UNCHANGED <<kinds, spool, shed, alive>>
        /\ call' \in [at : {"none", "posted", "answered", "broken"}, events : Posts]
        /\ call'.events = call.events
        /\ stray' \subseteq stray
    BY <1>9, HubSteps
  <2>2. PICK b \in SUBSET Ids :
          /\ b \subseteq Known
          /\ Accept(b) \/ AcceptCrashes(b) \/ AcceptFails(b)
    BY <1>9, HubSteps
  <2>3. /\ lines' \in [Ids -> Nat] /\ torn' \in BOOLEAN /\ seen' \subseteq Ids
        /\ Readable(lines)' \subseteq Readable(lines) \cup b
    BY <1>1, <2>2, RequestHandled
  <2>4. UplinkTypeOK'
    BY <1>1, <2>1, <2>3 DEF UplinkTypeOK
  <2>5. SpoolBounded' /\ ImportantOutlivesRoutine' /\ Known' = Known
    BY <1>1, <2>1, SpoolPromises DEF Known
  <2>6. Readable(lines)' \subseteq Known'
    BY <1>1, <2>2, <2>3, <2>5
  <2>7. call'.events \subseteq Known' /\ \A x \in stray' : x \subseteq Known'
    BY <1>1, <2>1, <2>5
  <2>8. spool' \cup shed' \subseteq Known'
    <3>1. spool' = spool /\ shed' = shed
      BY <2>1
    <3> QED BY <1>1, <2>5, <3>1
  <2> QED BY <2>4, <2>5, <2>6, <2>7, <2>8 DEF UplinkInvariant
<1>10. CASE HubRestarts
  <2>1. /\ UNCHANGED <<kinds, spool, shed, lines, torn, call, stray, alive>>
        /\ seen' = Readable(lines)
    BY <1>10 DEF HubRestarts, Reopen, device, telemetryVars
  <2>2. UplinkTypeOK'
    BY <1>1, <2>1, StoredIdsAssumption DEF UplinkTypeOK, Readable
  <2>3. SpoolBounded' /\ ImportantOutlivesRoutine'
    BY <1>1, <2>1, SpoolPromises
  <2>4. Known' = Known /\ Readable(lines)' = Readable(lines)
    BY <2>1 DEF Known, Readable
  <2> QED BY <1>1, <2>1, <2>2, <2>3, <2>4 DEF UplinkInvariant
<1> QED
  BY <1>4, <1>5, <1>6, <1>7, <1>8, <1>9, <1>10 DEF UplinkNext


(* What the hub has it has for good, as long as it is not cut off in the   *)
(* middle of a line and its disk is not full.                              *)
Durable ==
  /\ torn = FALSE
  /\ seen \subseteq Readable(lines)
  /\ NothingLost
  /\ AnswerIsStored

LEMMA DurableStarts == UplinkInit => Durable
BY StoredIdsAssumption
DEF UplinkInit, TelemetryInit, StoreInit, Durable, NothingLost, AnswerIsStored, NoCall,
    Readable

LEMMA DurableSteps ==
  ASSUME HubFaults \subseteq {"crash"}, UplinkInvariant, Durable, [UplinkNext]_uplinkVars
  PROVE  Durable'
<1>1. /\ kinds \in Seq(EventKinds)
      /\ lines \in [Ids -> Nat] /\ torn \in BOOLEAN /\ seen \subseteq Ids
      /\ torn = FALSE /\ seen \subseteq Readable(lines)
      /\ Known \subseteq spool \cup shed \cup Readable(lines)
      /\ call.at = "answered" => call.events \subseteq Readable(lines)
  BY DEF UplinkInvariant, UplinkTypeOK, Durable, NothingLost, AnswerIsStored, Known
<1>2. ASSUME UNCHANGED <<kinds, lines, torn, shed>>,
             seen' \in {seen, Readable(lines)},
             Known \subseteq spool' \cup shed \cup Readable(lines),
             call' = call \/ call'.at # "answered"
      PROVE  Durable'
  <2>1. Readable(lines)' = Readable(lines) /\ Known' = Known
    BY <1>2 DEF Readable, Known
  <2> QED BY <1>1, <1>2, <2>1 DEF Durable, NothingLost, AnswerIsStored, Known
<1>3. CASE UNCHANGED uplinkVars
  BY <1>1, <1>2, <1>3 DEF uplinkVars, telemetryVars, storeVars
<1>4. CASE RecordEvent
  <2>1. PICK kind \in EventKinds : Record(kind)
    BY <1>4 DEF RecordEvent
  <2>2. UNCHANGED <<lines, torn, seen, call>>
    BY <1>4 DEF RecordEvent, storeVars
  <2>3. /\ Len(kinds') = Len(kinds) + 1
        /\ \E room \in {{}} \cup {{f} : f \in spool \cup {Len(kinds) + 1}} :
             /\ spool' = (spool \cup {Len(kinds) + 1}) \ room
             /\ shed' = shed \cup room
    BY <2>1, RecordStep DEF UplinkInvariant, UplinkTypeOK
  <2>4. spool' \cup shed' = spool \cup shed \cup {Len(kinds) + 1}
    <3>1. PICK room \in SUBSET (spool \cup {Len(kinds) + 1}) :
            /\ spool' = (spool \cup {Len(kinds) + 1}) \ room
            /\ shed' = shed \cup room
      BY <2>3
    <3> QED BY <3>1
  <2>5. Known' = Known \cup {Len(kinds) + 1}
    BY <1>1, <2>3 DEF Known
  <2>6. Readable(lines)' = Readable(lines)
    BY <2>2 DEF Readable
  <2>7. NothingLost'
    BY <1>1, <2>4, <2>5, <2>6 DEF NothingLost, Known
  <2> QED BY <1>1, <2>2, <2>6, <2>7 DEF Durable, AnswerIsStored
<1>5. CASE Send \/ GiveUp \/ SaveFails \/ DeviceCrash \/ DeviceStarts
  <2>1. /\ UNCHANGED <<kinds, lines, torn, shed, seen, spool>>
        /\ call' = call \/ call'.at # "answered"
    BY <1>5
    DEF Send, GiveUp, SaveFails, DeviceCrash, DeviceStarts, storeVars, device,
        telemetryVars, NoCall
  <2> QED BY <1>1, <1>2, <2>1
<1>6. CASE Confirm
  <2>1. /\ UNCHANGED <<kinds, lines, torn, shed, seen>>
        /\ spool' = spool \ call.events /\ call'.at # "answered"
        /\ call.at = "answered"
    BY <1>6 DEF Confirm, Acknowledge, storeVars, NoCall
  <2> QED BY <1>1, <1>2, <2>1
<1>7. CASE Answer \/ Breaks \/ AcceptStray
  <2>1. UNCHANGED <<kinds, spool, shed>>
    BY <1>7, HubSteps
  <2>2. PICK b \in SUBSET Ids :
          /\ Accept(b) \/ AcceptCrashes(b) \/ AcceptFails(b)
          /\ call' = call \/ call'.at # "answered" \/ (Accept(b) /\ call'.events = b)
    BY <1>7, HubSteps
  <2>3. Readable(lines) \subseteq Readable(lines)'
    BY <1>1, <2>2, RequestHandled
  <2>4. /\ torn' = FALSE /\ seen' \subseteq Readable(lines)'
        /\ Accept(b) => b \subseteq Readable(lines)'
    BY <1>1, <2>2, RequestStored
  <2>5. NothingLost'
    BY <1>1, <2>1, <2>3 DEF NothingLost, Known
  <2>6. AnswerIsStored'
    BY <1>1, <2>2, <2>3, <2>4 DEF AnswerIsStored
  <2> QED BY <2>4, <2>5, <2>6 DEF Durable
<1>8. CASE HubRestarts
  BY <1>1, <1>2, <1>8 DEF HubRestarts, Reopen, device, telemetryVars
<1> QED
  BY <1>3, <1>4, <1>5, <1>6, <1>7, <1>8 DEF UplinkNext

(* At most once: the running server knows every id that its file holds, so *)
(* that only ids without a line are ever written.                          *)
Once ==
  /\ StoredOnce
  /\ Readable(lines) \subseteq seen

LEMMA RequestOnce ==
  ASSUME lines \in [Ids -> Nat], Once, NEW events \in SUBSET Ids,
         Accept(events) \/ AcceptCrashes(events) \/ AcceptFails(events)
  PROVE  Once'
<1>1. PICK written \in SUBSET Fresh(events) :
        /\ lines' \in Appended(written)
        /\ \/ seen' = Readable(lines')
           \/ seen \cup written \subseteq seen'
  <2>1. CASE Accept(events)
    <3>1. lines' \in Appended(Fresh(events)) /\ seen \cup Fresh(events) \subseteq seen'
      BY <2>1 DEF Accept, Fresh
    <3> QED BY <3>1
  <2>2. CASE AcceptCrashes(events)
    BY <2>2 DEF AcceptCrashes
  <2>3. CASE AcceptFails(events)
    BY <2>3 DEF AcceptFails
  <2> QED BY <2>1, <2>2, <2>3
<1>2. written \in SUBSET Ids /\ \A e \in written : lines[e] = 0
  BY <1>1, StoredIdsAssumption DEF Fresh, Once, Readable
<1>3. \A e \in Ids : lines'[e] = lines[e] \/ (e \in written /\ lines'[e] = lines[e] + 1)
                       \/ lines'[e] = lines[e] + 0
  BY <1>1, <1>2, StoredIdsAssumption DEF Appended
<1>4. \A e \in Ids : lines'[e] <= 1
  BY <1>2, <1>3 DEF Once, StoredOnce
<1>5. Readable(lines') \subseteq Readable(lines) \cup written
  BY <1>1, <1>2, AppendedLines
<1>6. Readable(lines') \subseteq seen'
  BY <1>1, <1>5 DEF Once
<1> QED BY <1>4, <1>6 DEF Once, StoredOnce, Readable

LEMMA OnceSteps ==
  ASSUME UplinkInvariant, Once, [UplinkNext]_uplinkVars
  PROVE  Once'
<1>1. lines \in [Ids -> Nat]
  BY DEF UplinkInvariant, UplinkTypeOK
<1>2. CASE Answer \/ Breaks \/ AcceptStray
  BY <1>1, <1>2, HubSteps, RequestOnce
<1>3. CASE lines' = lines /\ seen' \in {seen, Readable(lines)}
  BY <1>3 DEF Once, StoredOnce, Readable
<1>4. CASE UNCHANGED uplinkVars
  BY <1>3, <1>4 DEF uplinkVars, storeVars
<1>5. CASE \/ RecordEvent \/ Send \/ GiveUp \/ Confirm \/ SaveFails \/ DeviceCrash
           \/ DeviceStarts \/ HubRestarts
  BY <1>3, <1>5
  DEF RecordEvent, Send, GiveUp, Confirm, SaveFails, DeviceCrash, DeviceStarts,
      HubRestarts, Reopen, storeVars
<1> QED BY <1>2, <1>4, <1>5 DEF UplinkNext

-----------------------------------------------------------------------------
(* The theorems.                                                           *)

LEMMA UplinkInvariantHolds == UplinkSpec => []UplinkInvariant
BY UplinkStarts, UplinkSteps, PTL DEF UplinkSpec

LEMMA DurableHolds ==
  ASSUME HubFaults \subseteq {"crash"}
  PROVE  UplinkSpec => []Durable
BY UplinkInvariantHolds, DurableStarts, DurableSteps, PTL DEF UplinkSpec

(* The types of the whole: no request is ever larger than one batch.       *)
THEOREM UplinkAlwaysTyped == UplinkSpec => []UplinkTypeOK
<1>1. UplinkInvariant => UplinkTypeOK
  BY DEF UplinkInvariant
<1> QED BY <1>1, UplinkInvariantHolds, PTL

(* The spool keeps its budget, whatever fails.                             *)
THEOREM SpoolAlwaysBounded == UplinkSpec => []SpoolBounded
<1>1. UplinkInvariant => SpoolBounded
  BY DEF UplinkInvariant
<1> QED BY <1>1, UplinkInvariantHolds, PTL

(* No event is evicted while its class and those above it would fit.       *)
THEOREM ImportantAlwaysOutlives == UplinkSpec => []ImportantOutlivesRoutine
<1>1. UplinkInvariant => ImportantOutlivesRoutine
  BY DEF UplinkInvariant
<1> QED BY <1>1, UplinkInvariantHolds, PTL

(* At least once: every event is on the device, on the hub or evicted.     *)
THEOREM NothingEverLost ==
  ASSUME HubFaults \subseteq {"crash"}
  PROVE  UplinkSpec => []NothingLost
<1>1. Durable => NothingLost
  BY DEF Durable
<1> QED BY <1>1, DurableHolds, PTL

(* What the hub has confirmed is on its file.                              *)
THEOREM AnswerAlwaysStored ==
  ASSUME HubFaults \subseteq {"crash"}
  PROVE  UplinkSpec => []AnswerIsStored
<1>1. Durable => AnswerIsStored
  BY DEF Durable
<1> QED BY <1>1, DurableHolds, PTL

(* The hub stores no event twice, whatever fails on either machine and     *)
(* however often a request is repeated.                                    *)
THEOREM AlwaysStoredOnce == UplinkSpec => []StoredOnce
<1>1. UplinkInit => Once
  BY StoredIdsAssumption DEF UplinkInit, StoreInit, Once, StoredOnce, Readable
<1>2. UplinkInvariant /\ Once /\ [UplinkNext]_uplinkVars => Once'
  BY OnceSteps
<1>3. Once => StoredOnce
  BY DEF Once
<1> QED BY <1>1, <1>2, <1>3, UplinkInvariantHolds, PTL DEF UplinkSpec

(* Every step of the up-link is a step of the delivery or changes nothing  *)
(* it speaks of.                                                           *)
LEMMA DeliveryStep ==
  ASSUME HubFaults \subseteq {"crash"}, UplinkInvariant, Durable, [UplinkNext]_uplinkVars
  PROVE  [Delivery!Next]_(Delivery!delivery)
<1>1. /\ kinds \in Seq(EventKinds) /\ Len(kinds) <= MaxEvents
      /\ lines \in [Ids -> Nat] /\ torn \in BOOLEAN /\ seen \subseteq Ids
      /\ spool \cup shed \subseteq Known /\ Readable(lines) \subseteq Known
      /\ Known \subseteq spool \cup shed \cup Readable(lines)
      /\ call.at = "answered" => call.events \subseteq Readable(lines)
  BY DEF UplinkInvariant, UplinkTypeOK, Durable, NothingLost, AnswerIsStored, Known
<1>2. ASSUME UNCHANGED <<spool, shed, lines>>
      PROVE  UNCHANGED Delivery!delivery
  BY <1>2 DEF Delivery!delivery, Readable
<1>3. CASE UNCHANGED uplinkVars
  BY <1>2, <1>3 DEF uplinkVars, telemetryVars, storeVars
<1>4. CASE RecordEvent
  <2>1. PICK kind \in EventKinds : Record(kind)
    BY <1>4 DEF RecordEvent
  <2>2. /\ Len(kinds') = Len(kinds) + 1 /\ Len(kinds') <= MaxEvents
        /\ \E room \in {{}} \cup {{f} : f \in spool \cup {Len(kinds) + 1}} :
             /\ spool' = (spool \cup {Len(kinds) + 1}) \ room
             /\ shed' = shed \cup room
    BY <2>1, RecordStep DEF UplinkInvariant, UplinkTypeOK
  <2>3. PICK e \in 1..MaxEvents : e = Len(kinds) + 1
    BY <1>1, <2>2, MaxEventsAssumption
  <2>4. e \notin spool \cup shed \cup Readable(lines)
    BY <1>1, <2>3 DEF Known
  <2>5. Readable(lines)' = Readable(lines)
    BY <1>4 DEF RecordEvent, storeVars, Readable
  <2>6. Delivery!Record(e)
    BY <2>2, <2>3, <2>4, <2>5 DEF Delivery!Record
  <2> QED BY <2>6 DEF Delivery!Next
<1>5. CASE Send \/ GiveUp \/ SaveFails \/ DeviceCrash \/ DeviceStarts \/ HubRestarts
  BY <1>2, <1>5
  DEF Send, GiveUp, SaveFails, DeviceCrash, DeviceStarts, HubRestarts, Reopen, storeVars,
      device, telemetryVars
<1>6. CASE Confirm
  <2>1. /\ UNCHANGED <<shed, lines>> /\ spool' = spool \ call.events
        /\ call.events \subseteq Readable(lines)
    BY <1>1, <1>6 DEF Confirm, Acknowledge, storeVars
  <2>2. Readable(lines)' = Readable(lines)
    BY <2>1 DEF Readable
  <2>3. Delivery!Forget
    BY <2>1, <2>2 DEF Delivery!Forget
  <2> QED BY <2>3 DEF Delivery!Next
<1>7. CASE Answer \/ Breaks \/ AcceptStray
  <2>1. UNCHANGED <<spool, shed>>
    BY <1>7, HubSteps
  <2>2. PICK b \in SUBSET Ids :
          /\ b \subseteq Known
          /\ Accept(b) \/ AcceptCrashes(b) \/ AcceptFails(b)
    BY <1>7, HubSteps
  <2>3. /\ Readable(lines) \subseteq Readable(lines)'
        /\ Readable(lines)' \subseteq Readable(lines) \cup b
    BY <1>1, <2>2, RequestHandled
  <2>4. Delivery!Store
    BY <1>1, <2>1, <2>2, <2>3 DEF Delivery!Store
  <2> QED BY <2>4 DEF Delivery!Next
<1> QED
  BY <1>3, <1>4, <1>5, <1>6, <1>7 DEF UplinkNext

(* With a hub that may crash and requests that may be lost, late or        *)
(* repeated, every event's life follows the abstract delivery.             *)
THEOREM UplinkImplementsDelivery ==
  ASSUME HubFaults \subseteq {"crash"}
  PROVE  UplinkSpec => ImplementsDelivery
<1>1. UplinkInit => Delivery!Init
  BY StoredIdsAssumption
  DEF UplinkInit, TelemetryInit, StoreInit, Delivery!Init, Readable
<1>2. UplinkInvariant /\ Durable /\ [UplinkNext]_uplinkVars
        => [Delivery!Next]_(Delivery!delivery)
  BY DeliveryStep
<1> QED BY <1>1, <1>2, UplinkInvariantHolds, DurableHolds, PTL
        DEF UplinkSpec, ImplementsDelivery, Delivery!Spec

=============================================================================
