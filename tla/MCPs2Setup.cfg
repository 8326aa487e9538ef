SPECIFICATION FairSpec
CONSTANTS
  PortCounts = {1, 2}
  Devices = {"none", "ancient", "keyboard", "mouse", "odd"}
  BiosConfigs = {65, 69, 71}
  AbsentTest = {0, None}
  StatusErrors = TRUE
  KeyBytes = {0, 3, 21, 68}
  MaxKeys = 3
  None = None
  QEMU = TRUE
INVARIANTS
  PortsReady
  ReportsTheDevices
PROPERTIES
  SetupReturns
\* The setup ends.
CHECK_DEADLOCK FALSE
