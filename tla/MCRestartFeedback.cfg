SPECIFICATION RecoverySpec
CONSTANTS
  a = a
  b = b
  c1 = c1
  c2 = c2
  NoItem = NoItem
  Items <- OneItem
  Order <- OrderOne
  Deps <- NoDeps
  Rank <- EqualRank
  Comments = {c1, c2}
  MaxSessions = 2
  MaxCommits = 2
  MaxFaults = 1
  Events = {"crash", "comment", "request-changes", "external-merge", "feedback-done", "merge-failure"}
  NotAliveThreshold = 1
  MaxRetries = 1
  MaxCiRetries = 1
  MaxReviewRounds = 1
  MaxFixForwardRetries = 1
  MaxMergeRetries = 1
  MaxRebaseAttempts = 1
  FixForward = FALSE
  ManualReview = {}
  Stacking = FALSE
  Limits = {1}
  Strategy = "auto"
  Interactive = FALSE
PROPERTIES
  CommentsOutlast
  MergeEarned
