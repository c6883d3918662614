SPECIFICATION LogSpec
CONSTANTS
  Client = {c1}
  MaxMsg = 3
INVARIANT FlushedAtExit
CHECK_DEADLOCK FALSE
