SPECIFICATION DownlinkSpec
CONSTANTS
  MaxVersion = 2
  Kind <- GoodGood
  Factory = {1}
  Bucket <- LateLast
  Percents = {100}
  MaxBuilds = 1
  MaxPacks = 2
  Window = 2
  MaxRollbacks = 2
  Faults = {"net"}
  Operator = {}
INVARIANT QuarantineBlamesTheRelease
CHECK_DEADLOCK FALSE
