SPECIFICATION Spec
CONSTANTS
  MaxAttempts = 2
  MaxFaults = 1
  MaxReadFaults = 0
  MaxCrashes = 0
  MaxTogether = 1
\* A finished watch stops.
CHECK_DEADLOCK FALSE
PROPERTIES
  CancelledSendsNoCompletion
