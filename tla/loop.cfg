SPECIFICATION LoopSpec
CONSTANTS
  Signals <- OneSignal
  BurstLength = 2
  Cooldown = 2
  HeartbeatEvery = 3
  OtaEvery = 2
  UploadEvery = 1
  MaxMultiplier = 2
  Grippers = {0, 1}
  RunSteps = 4
  MaxRuns = 1
  MaxVersion = 3
  Happenings = {"fail", "update", "unsaved", "restart"}
INVARIANTS LoopTypeOK UpdatesAreAnnounced UploadComesBack IncidentIsHeardOf HoldKeepsGripper
PROPERTIES CountsAreKept PolicyNeverGoesBack
CHECK_DEADLOCK FALSE
