SPECIFICATION ProcessSpec
CONSTANTS
  MaxVersion = 4
  Kind <- AlienThird
  Factory = {1}
  Bucket <- AnyBucket
  Percents = {100}
  MaxBuilds = 1
  Window = 2
  MaxRollbacks = 2
  Faults = {"crash", "save", "host", "net", "slow"}
INVARIANTS ProcessInvariant TwoWritersKeepBundles
PROPERTIES AgentNeverLowers RolledBackForGood
CHECK_DEADLOCK FALSE
