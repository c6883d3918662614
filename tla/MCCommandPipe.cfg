SPECIFICATION FairSpec
CONSTANTS
  Client = {c1, c2, c3, c4}
  BodyLen = 2
  Capacity = 7
INVARIANTS
  UnmixedIsIntact
  ParsedOnce
PROPERTIES
  UnmixedIsParsed
  MixedEnds
CHECK_DEADLOCK FALSE
