SPECIFICATION Spec
CONSTANTS
    Absent = Absent
    Procs = {p1, p2, p3}
    MaxAgents = 2
    Overlap = FALSE
SYMMETRY Symmetry
INVARIANT
    RunsOnDiskState
PROPERTY
    NeverOverwritten
CHECK_DEADLOCK FALSE
