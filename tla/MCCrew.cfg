SPECIFICATION FleetSpec

CONSTANTS
    base = base
    stacked = stacked
    alice = alice
    bob = bob
    None = None
    Items = {base, stacked}
    Daemons = {alice, bob}
    Dependencies <- MCDependencies
    Priority <- MCPriority
    Authored <- MCAuthored
    MaxSyncs = 2
    GivesUp = {stacked}
    MaxInFlight = 1
    MaxFaults = 1
    Shared = {base}
    MaxUpsets = 1
    MaxUpdates = 2
INVARIANTS
  ClaimsSound
PROPERTIES
  
  ImplementsBoard
  AbandonedReleased
  OwnersMerge
