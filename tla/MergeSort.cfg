SPECIFICATION Spec
CONSTANTS
  Keys = {1, 2, 3}
  LineLength <- MCLineLength
  FirstBlocks <- MCFirstBlocks
  MaxLen = 7
INVARIANTS
  PassInvariant
  Sorted
  RoomForLines
CHECK_DEADLOCK FALSE
