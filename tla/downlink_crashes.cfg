SPECIFICATION DownlinkSpec
CONSTANTS
  MaxVersion = 3
  Kind <- GoodRefusedGood
  Factory = {1}
  Bucket <- LateLast
  Percents = {50, 100}
  MaxBuilds = 2
  MaxPacks = 6
  Window = 2
  MaxRollbacks = 1
  Faults = {"crash"}
  Operator = {"rollback", "unfreeze", "clear"}
INVARIANTS PointerResolves CondemnedOnlyIfRepacked
PROPERTY ImplementsLifecycle
CHECK_DEADLOCK FALSE
