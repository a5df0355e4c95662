SPECIFICATION FairDownlinkSpec
CONSTANTS
  MaxVersion = 5
  Kind <- MixedFive
  Factory = {1}
  Bucket <- LateLast
  Percents = {50, 100}
  MaxBuilds = 2
  MaxPacks = 4
  Window = 5
  MaxRollbacks = 2
  Faults = {}
  Operator = {"rollback", "unfreeze"}
INVARIANTS LinkFollowsState RolledBackStaysOff
PROPERTIES BudgetFreezes StagedOnlyOnce GoodReleaseAdopted
CHECK_DEADLOCK FALSE
