SPECIFICATION FairSpec
CONSTANTS
  None = None
  a = a
  Items = {a}
  Requests <- Asked
  Modes = {TRUE, FALSE}
  Startups <- AloneOrJoined
  MaxPipe = 1
  BypassEnabled = FALSE
  MaxLimit = 2
  MaxEvents = 2
CHECK_DEADLOCK FALSE
INVARIANTS
  OneSession
PROPERTIES
  SettledPage
  QuitEnds
  FollowsMain
