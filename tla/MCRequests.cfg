SPECIFICATION RFairSpec
CONSTANTS
  session1 = session1
  session2 = session2
  Followers = {session1}
  Submitted <- Woken
  MaxAttempts = 1
  MaxFaults = 2
  MaxReadFaults = 1
  MaxCrashes = 1
  MaxTogether = 2
\* A finished watch stops, and nobody has to look at it.
CHECK_DEADLOCK FALSE
INVARIANTS
  FollowersHear
PROPERTIES
  FollowIsAnswered
  OutcomeIsDurable
  VerifiedMeansStarted
