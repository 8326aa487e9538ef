SPECIFICATION Spec
CONSTANTS
  Madt <- MCMadt
  BootCore = 0
  Silent = {}
  IpiTimeouts = TRUE
  Pause = 2
  ShortPoll = 1
  LongPoll = 5
  Rounds = 2
  Cycle = 8
  Freq = 8
  Slots = 2
  Cells = {finished}
  NoCell = NoCell
  MaxElapsed = 20
  Durations <- MCDurations
INVARIANTS
  MainIsSet
  SetupIsComplete
PROPERTIES
  SetupEnds
\* The boot core stops at the end of its setup.
CHECK_DEADLOCK FALSE
