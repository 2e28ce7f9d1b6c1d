SPECIFICATION FairSpec
CONSTANTS
    c1 = c1
    c2 = c2
    a1 = a1
    a2 = a2
    Conns <- MCConns
    Slow <- MCSlow
    Agents <- MCAgents
    Filters <- MCNoFilter
    MaxSubs = 2
    MaxEvents = 1
    MaxRequests = 3
PROPERTIES
    ShutdownCompletes
    LostClientsCleanedUp
    PublicationsEnd
CHECK_DEADLOCK FALSE
