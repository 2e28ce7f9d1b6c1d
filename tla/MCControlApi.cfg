SPECIFICATION Spec
CONSTANTS
    c1 = c1
    c2 = c2
    a1 = a1
    a2 = a2
    Conns <- MCConns
    Slow <- MCSlow
    Agents <- MCAgents
    Filters <- MCFilters
    MaxSubs = 2
    MaxEvents = 2
    MaxRequests = 3
INVARIANTS
    TypeOK
    TablesAgree
    StoppedIsClean
    NotificationsWanted
    OneShutdownAccepted
    OvertakenOnlyAfterWaiting
PROPERTIES
    StatusMovesForward
    ImplementsPubSub
CHECK_DEADLOCK FALSE
