SPECIFICATION Spec
CONSTANTS
  Machines <- MCMachines
  Commands <- MCCommands
  MaxKeys = 1
  MaxMoves = 1
  MaxLate = 1
INVARIANTS
  GatePresentWhenTaken
  SetsAgree
PROPERTIES
  SetupEnds
  BytesAreServed
CHECK_DEADLOCK FALSE
