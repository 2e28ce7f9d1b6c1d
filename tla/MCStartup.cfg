SPECIFICATION Spec
CONSTANTS
    Unset = Unset
    Blank = Blank
    NotAPort = NotAPort
    Invalid = Invalid
    Absent = Absent
    Malformed = Malformed
    p1 = p1
    p2 = p2
    Procs = {p1, p2}
    Cwd <- MCCwd
    Home <- MCHome
    Dirs <- MCDirs
    Commands <- MCCommands
    Contents <- MCContents
    Trimmed <- MCTrimmed
SYMMETRY Symmetry
INVARIANTS
    TypeOK
    RetryRecovers
    AgentsAsCreated
    FailedStartLaunchesNothing
    ConfigIsStable
    MetadataNotAbove
    ClientReachesServer
CHECK_DEADLOCK FALSE
