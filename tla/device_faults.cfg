SPECIFICATION Spec
CONSTANTS
  MaxVersion = 4
  Kind <- GoodGoodGoodAlien
  Factory = {1, 2}
  Bucket <- LateBucket
  Percents = {100}
  MaxBuilds = 1
  Window = 3
  MaxRollbacks = 1
  Faults = {"net", "host", "slow", "save", "crash"}
  Operator = {"rollback", "unfreeze"}
INVARIANTS TypeOK BootsGated SpareReady DeviceInvariant
PROPERTIES QuarantineHolds FrozenStandsStill
