SPECIFICATION Spec
CONSTANTS
  Keys <- MCKeys
  MaxStrokes = 3
  Modes = {"Testing", "Typing"}
  Moves <- MCMoves
  MaxPackets = 2
  Width = 6
  Height = 6
  Pitch = 7
  Pixels = 49
  Test <- MCTest
  Plans <- MCPlans
INVARIANTS
  SequenceIndexInBounds
  StrokesInOrder
  OwnBytes
  CursorFollowsMouse
  CursorLeavesNoTrace
  LineIsStraight
\* The user stops.
CHECK_DEADLOCK FALSE
