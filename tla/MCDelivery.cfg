SPECIFICATION Spec
CONSTANTS
  MaxAttempts = 3
  Kills = 1
INVARIANTS
  OneTurnAtMost
  TruthfulVerdicts
