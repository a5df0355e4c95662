SPECIFICATION UplinkSpec
CONSTANTS
  Capacity = 2
  BatchSize = 2
  MaxEvents = 2
  StoredIds <- AllIds
  LinkFaults = {}
  HubFaults = {"full"}
INVARIANT NothingLost
CHECK_DEADLOCK FALSE
