SPECIFICATION Spec
CONSTANTS
  a = a
  b = b
  reviewer = reviewer
  rebaser = rebaser
  fixer = fixer
  Items = {a, b}
  Helpers = {reviewer, rebaser, fixer}
  Environments <- Terminals
  Contains <- DistinctIds
  MaxSessions = 4
  MaxCrashes = 1
INVARIANTS
  OneImplementer
  ImplementerReached
SYMMETRY Alike
CHECK_DEADLOCK FALSE
