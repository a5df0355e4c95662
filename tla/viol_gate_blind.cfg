SPECIFICATION ReleaseSpec
CONSTANTS
  Observed <- TwoColumns
  DeviceColumns <- TwoColumns
  Foreign = {"force"}
  Joints = 1
  MaxColumns = 3
  MaxHead = 2
INVARIANT FedByName
CHECK_DEADLOCK FALSE
