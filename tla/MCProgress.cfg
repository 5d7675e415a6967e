SPECIFICATION FairSpec
CONSTANTS
  a = a
  b = b
  c1 = c1
  c2 = c2
  NoItem = NoItem
  Items <- OneItem
  Order <- OrderOne
  Deps <- NoDeps
  Rank <- EqualRank
  Comments = {c1}
  MaxSessions = 2
  MaxCommits = 3
  MaxFaults = 1
  Events = {"session-death", "ci-failure", "request-changes", "conflict", "launch-failure", "blind-poll", "existing-pr", "merge-failure", "external-merge", "comment"}
  NotAliveThreshold = 1
  MaxRetries = 1
  MaxCiRetries = 1
  MaxReviewRounds = 2
  MaxFixForwardRetries = 1
  MaxMergeRetries = 1
  MaxRebaseAttempts = 1
  FixForward = FALSE
  ManualReview = {}
  Stacking = FALSE
  Limits = {1}
  Strategy = "auto"
PROPERTY EverySettles
