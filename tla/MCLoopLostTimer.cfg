SPECIFICATION FairSpec
CONSTANTS
  root = root
  dashboard = dashboard
  daemon = daemon
  other1 = other1
  other2 = other2
  Clients = {root}
  Daemon = daemon
  Limit = 2
  Linked = FALSE
  Others = {}
  MaxFinished = 1
  Faults = 1
  Crashes = 0
\* The service may stay idle, nobody has to send a command.
CHECK_DEADLOCK FALSE
PROPERTIES
  ReconciledMeansTimed
