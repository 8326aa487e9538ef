SPECIFICATION PrintfSpec
CONSTANTS
  Calls <- MCCalls
  Bits = 12
INVARIANTS
  PrintsTheCall
  TextFromFormat
  DigitsKept
\* A print ends.
CHECK_DEADLOCK FALSE
