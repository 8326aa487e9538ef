SPECIFICATION Spec
CONSTANTS
  CPUs = {0, 1}
  MaxRecursion = 2
  Contexts <- MCContexts
  CpuOf <- MCCpuOf
INVARIANTS
  WordCounts
  MutualExclusion
PROPERTIES
  OnlyOwnerChanges
  ImplementsMutex
\* A core whose recursion count is at the limit waits for itself forever.
CHECK_DEADLOCK FALSE
