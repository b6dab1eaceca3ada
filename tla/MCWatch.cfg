SPECIFICATION MCSpec
CONSTANTS
  MaxAttempts = 2
  MaxFaults = 2
  MaxReadFaults = 1
  MaxCrashes = 1
  MaxTogether = 3
\* A finished watch stops.
CHECK_DEADLOCK FALSE
INVARIANTS
  ProgramRunsAtMostOnce
  GoalProgramNeedsActivation
  ProgramUnderLock
  AttemptIsDurableFirst
  CompletedMeansDelivered
PROPERTIES
  RecordStands
  WakeIsNotRepeated
  NoWakeAfterCancel
  EveryWatchEnds
