SPECIFICATION Spec
CONSTANTS
  MaxCores = 3
  OldEntries = 4
  Area = 131064
  Machines <- MCMachines
INVARIANT EveryCoreBoots
CHECK_DEADLOCK FALSE
