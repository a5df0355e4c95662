SPECIFICATION FairUplinkSpec
CONSTANTS
  Capacity = 2
  BatchSize = 2
  MaxEvents = 2
  StoredIds <- AllIds
  LinkFaults = {"lost", "crash", "full"}
  HubFaults = {"crash", "torn", "full"}
INVARIANT StoredOnce
PROPERTY SpoolDrains
CHECK_DEADLOCK FALSE
