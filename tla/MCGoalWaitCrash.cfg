SPECIFICATION FairSpec
CONSTANTS
  MaxIds = 1
  Crashes = 2
\* A cancelled goal accepts no command.
CHECK_DEADLOCK FALSE
INVARIANTS
  WatchFollowsWait
PROPERTIES
  ImplementsGoal
  WatchSettles
