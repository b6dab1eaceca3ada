SPECIFICATION Spec
CONSTANTS
  MaxAttempts = 2
  MaxFaults = 0
  MaxReadFaults = 0
  MaxCrashes = 1
  MaxTogether = 1
\* A finished watch stops.
CHECK_DEADLOCK FALSE
PROPERTIES
  UnconfirmedIsNeverReplayed
