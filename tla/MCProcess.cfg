SPECIFICATION TimeSpec
CONSTANTS
  MaxPid = 5
  MaxNow = 3
INVARIANTS
  SoleRunner
  DeadNeverResumed
  HaltsOnlyWithoutWork
  ShowsWhatWasSpent
  TimeConserved
PROPERTIES
  ZombiesStayDead
CHECK_DEADLOCK FALSE
