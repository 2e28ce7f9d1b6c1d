SPECIFICATION Spec
CONSTANTS
    c1 = c1
    c2 = c2
    a1 = a1
    a2 = a2
    Conns <- MCConns
    Slow = {}
    Agents <- MCAgents
    Filters <- MCNoFilter
    MaxSubs = 2
    MaxEvents = 1
    MaxRequests = 2
INVARIANT
    AbortLosesNothing
CHECK_DEADLOCK FALSE
