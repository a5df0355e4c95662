SPECIFICATION ReleaseSpec
CONSTANTS
  Observed <- TwoColumns
  DeviceColumns <- TwoColumns
  Foreign = {"force"}
  Joints = 3
  MaxColumns = 3
  MaxHead = 4
INVARIANTS ReleaseInvariant PublishedIsComplete ActiveIsComplete DeadOnlyByWidth
CHECK_DEADLOCK FALSE
