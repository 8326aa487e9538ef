SPECIFICATION TerminalSpec
CONSTANTS
  Width = 2
  Height = 2
  MemHeight = 4
  TabStop = 2
  Modulus = 16
  MaxKeys = 2
INVARIANTS
  WindowInHistory
  StoresInHistory
  LineIsShown
\* A store outside the history ends the behaviour.
CHECK_DEADLOCK FALSE
