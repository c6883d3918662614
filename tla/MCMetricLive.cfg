SPECIFICATION FairSpec
CONSTANTS
  Key = {k1, k2}
  NoKey = NoKey
  NumItem = 1
  Interval <- MCInterval
  Channel <- MCLiveChannel
  Stuck = {k1}
  MaxPending = 2
PROPERTIES
  ActionsAreRun
  PeriodicItemsAreUpdated
  UnloadCompletes
