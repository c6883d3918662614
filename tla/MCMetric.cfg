SPECIFICATION Spec
CONSTANTS
  Key = {k1, k2}
  NoKey = NoKey
  NumItem = 2
  Interval <- MCInterval
  Channel <- MCChannel
  Stuck = {}
  MaxPending = 3
SYMMETRY Symmetry
INVARIANTS
  NoUseAfterFree
  NoUseAfterClose
  UnitLockNeverBlocks
PROPERTY ImplementsUnitLife
