SPECIFICATION Spec
CONSTANTS
  NumItem = 2
  Interval <- MCInterval
  MaxTicks = 6
INVARIANT RunOnceIsRun
CHECK_DEADLOCK FALSE
