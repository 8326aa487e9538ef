SPECIFICATION TimerSpec
CONSTANTS
  Cycle = 32768
  Freq = 596591
  Slots = 2
  Cells = {c1, c2}
  NoCell = NoCell
  MaxElapsed = 150000
  Durations <- MCDurations
INVARIANTS
  SlotInBounds
PROPERTIES
  WaitLastsItsCounts
  QuietCallsReturn
\* The assertion on the number of timeouts stops the core.
CHECK_DEADLOCK FALSE
