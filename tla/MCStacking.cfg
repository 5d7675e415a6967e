SPECIFICATION Spec
CONSTANTS
  a = a
  b = b
  c1 = c1
  c2 = c2
  NoItem = NoItem
  Items <- TwoItems
  Order <- OrderTwo
  Deps <- BOnA
  Rank <- EqualRank
  Comments = {}
  MaxSessions = 2
  MaxCommits = 2
  MaxFaults = 1
  Events = {"limit", "intake", "conflict", "merge-failure", "pushback"}
  NotAliveThreshold = 1
  MaxRetries = 1
  MaxCiRetries = 1
  MaxReviewRounds = 1
  MaxFixForwardRetries = 1
  MaxMergeRetries = 1
  MaxRebaseAttempts = 1
  FixForward = FALSE
  ManualReview = {}
  Stacking = TRUE
  Limits = {1, 2}
  Strategy = "auto"
INVARIANTS
  DependencyMergesFirst
PROPERTIES
  LaunchesRight
  WaitIsExplained
