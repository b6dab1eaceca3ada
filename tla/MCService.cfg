SPECIFICATION FairSpec
CONSTANTS
  c1 = c1
  c2 = c2
  p1 = p1
  p2 = p2
  p3 = p3
  Clients = {c1, c2}
  Processes = {p1, p2, p3}
  Stops = 2
  Kills = 1
\* The service may run on, and nobody has to start or stop it.
CHECK_DEADLOCK FALSE
INVARIANTS
  OneReachableService
  StoppedIsGone
PROPERTIES
  StartSucceeds
