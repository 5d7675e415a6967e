SPECIFICATION FairRecoverySpec
CONSTANTS
  a = a
  b = b
  c1 = c1
  c2 = c2
  NoItem = NoItem
  Items <- OneItem
  Order <- OrderOne
  Deps <- NoDeps
  Rank <- EqualRank
  Comments = {}
  MaxSessions = 2
  MaxCommits = 2
  MaxFaults = 2
  Events = {"crash", "shutdown", "hold", "session-death", "external-merge", "main-ci-failure"}
  NotAliveThreshold = 1
  MaxRetries = 1
  MaxCiRetries = 1
  MaxReviewRounds = 1
  MaxFixForwardRetries = 2
  MaxMergeRetries = 1
  MaxRebaseAttempts = 1
  FixForward = TRUE
  ManualReview = {}
  Stacking = FALSE
  Limits = {1}
  Strategy = "auto"
  Interactive = FALSE
PROPERTIES
  LandedSettles
