SPECIFICATION FairSpec

CONSTANTS
    merge = merge
    poll = poll
    status = status
    query = query
    Requests <- MCRequests
    Exempt = {query}
    Priority <- MCPriority
    MaxConcurrency = 1
    BurstSize = 2
    TokenUnit = 2
    RefillRate = 1
    Budgets <- MCBudgets
    MaxSyncs = 1
INVARIANTS
  SemaphoreSound
PROPERTIES
  HandOverByPriority
  NoTokenBeforeReset
  EveryCallReturns
