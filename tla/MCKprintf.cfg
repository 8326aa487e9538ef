SPECIFICATION Spec
CONSTANTS
  CPUs = {0, 1}
  MaxRecursion = 2
  AbortMessages = 1
  MaxNest = 2
  MaxEntries = 2
INVARIANTS
  OutputExclusive
  IrqFlagIsKept
PROPERTIES
  FaultIsReported
  PrintsComplete
\* Every core may stop.
CHECK_DEADLOCK FALSE
