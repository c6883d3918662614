SPECIFICATION FairSpec
CONSTANTS
  Key = {k1, k2}
  End = End
  Null = Null
INVARIANTS
  JoinedBeforeFreed
  NothingIsLeft
PROPERTY ShutdownEnds
CHECK_DEADLOCK FALSE
