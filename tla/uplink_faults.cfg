SPECIFICATION UplinkSpec
CONSTANTS
  Capacity = 3
  BatchSize = 2
  MaxEvents = 4
  StoredIds <- AllIds
  LinkFaults = {"lost", "crash", "full"}
  HubFaults = {"crash"}
INVARIANTS UplinkTypeOK SpoolBounded NothingLost AnswerIsStored ImportantOutlivesRoutine
PROPERTY ImplementsDelivery
CHECK_DEADLOCK FALSE
