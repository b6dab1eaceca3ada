SPECIFICATION FairSpec
CONSTANTS
  MaxTime = 4
  MaxLimit = 3
\* poll ends.
CHECK_DEADLOCK FALSE
INVARIANTS
  EndsByDeadline
  FailureIsEarned
  NothingLeftBehind
PROPERTIES
  PollEnds
