SPECIFICATION Spec
CONSTANTS
  NumItem = 3
  Interval <- MCInterval
  MaxTicks = 13
INVARIANTS
  PeriodicOnSchedule
  RunOnceOutcome
CHECK_DEADLOCK FALSE
