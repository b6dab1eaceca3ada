SPECIFICATION Spec
CONSTANTS
  Size = 3
  Plan <- MCPlan
  MaxIds = 3
\* A completed goal accepts no command.
CHECK_DEADLOCK FALSE
INVARIANTS
  DependenciesComplete
  NoConflictingWriters
  IdSettledOnce
  SoundFrontier
  EscapesAreValid
PROPERTIES
  DispatchFreezes
  GoalIsFinal
