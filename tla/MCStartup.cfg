SPECIFICATION TerminalSpec
CONSTANTS
  MaxIds = 3
  MaxFiles = 4
  Days <- SomeDays
  MaxRows = 4
  Reports = {"implementing", "ready"}
  Viewports = {2, 4, 5}
  MaxPresses = 3
  MaxNews = 1
  Batches <- Chatter
  LogMax = 12
  PageRows = {10, 14}
  Needed = {1}
  DepReports = {"queued", "done"}
  Bodies = {1, 4}
  MaxPageKeys = 4
  MaxPageNews = 2
CHECK_DEADLOCK FALSE
INVARIANTS
  StartsWhatWasAsked
  ListFits
PROPERTIES
  BacklogRight
  
  SelectionFollows
  TextReached
