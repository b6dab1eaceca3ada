SPECIFICATION Spec
CONSTANTS
  MaxIds = 2
  Crashes = 0
\* A cancelled goal accepts no command.
CHECK_DEADLOCK FALSE
INVARIANTS
  WaitInvariant
  WatchFollowsWait
PROPERTIES
  RolledBackNeverStarts
