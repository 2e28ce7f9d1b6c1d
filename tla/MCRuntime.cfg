SPECIFICATION Spec
CONSTANTS
    NoLimit = NoLimit
    NoError = NoError
    MaxEvents = 2
    Configured = {agent1, agent2}
    Errors = {crash}
    MaxAppends = 4
SYMMETRY Symmetry
INVARIANTS
    TypeOK
    UpMeansRegistered
    StatusFollowsEvents
    ErrorMeansFailed
    ViewsAgree
PROPERTIES
    MailReportedAtStart
    OnlyForward
