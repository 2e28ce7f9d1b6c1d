SPECIFICATION Spec
CONSTANTS
    c1 = c1
    c2 = c2
    a1 = a1
    a2 = a2
    Conns <- MCConns
    Slow = {}
    Agents <- MCAgents
    Filters <- MCNoFilter
    MaxSubs = 1
    MaxEvents = 1
    MaxRequests = 1
PROPERTY
    StopsThroughShuttingDown
CHECK_DEADLOCK FALSE
