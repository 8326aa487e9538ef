SPECIFICATION Spec
CONSTANTS
  MaxCores = 3
  OldEntries = 4
  Area = 131064
  Machines <- MCMachines
INVARIANTS
  CachesAreRight
  FpuIsReady
  FindsTheTables
  FastIdIsOwn
  IrqsAreRouted
CHECK_DEADLOCK FALSE
