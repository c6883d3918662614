SPECIFICATION LogFairSpec
CONSTANTS
  Client = {c1, c2}
  MaxMsg = 4
INVARIANT
  WrittenInOrder
PROPERTIES
  WalkWritesAll
  ExitCompletes
CHECK_DEADLOCK FALSE
