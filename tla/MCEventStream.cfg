SPECIFICATION Spec
CONSTANTS
    NoLimit = NoLimit
    MaxEvents = 3
    Types = {AgentFailed, AgentRestarted}
    Limits <- MCLimits
    MaxAppends = 6
INVARIANTS
    TypeOK
    HoldsNewest
    IdFollowsPosition
PROPERTY
    ImplementsLog
