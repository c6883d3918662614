CONSTANTS
  NestingLimit = 2
  Texts <- MCTexts
  Codes <- MCCodes
  Items <- MCItems
  Values <- MCValues
  DefaultSize = 18
  IntMax = 40
  Sizes <- MCSizes
  Documents <- MCDocuments
  Trees <- MCTrees
  Height <- MCHeight
  Changes <- MCChanges
  JiffiesRange = 1000000
  Unreadable = Unreadable
  Lines = 3
  StatContents <- MCStatContents
  Times <- MCTimes
  MaxRuns = 3
  MountLine <- MCMountLine
  MaxMounts = 3
SPECIFICATION Spec
INVARIANT InterruptsAreSystem
CHECK_DEADLOCK FALSE
