SPECIFICATION FairSpec
CONSTANTS
  MaxPulls = 3
  MaxComments = 2
  MaxSeconds = 3
  Budgets <- Themes
CHECK_DEADLOCK FALSE

  
PROPERTIES
  
  PassIsEarned
  MergeNoticed
