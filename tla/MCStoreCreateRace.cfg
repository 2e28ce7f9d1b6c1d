SPECIFICATION Spec
CONSTANTS
    Absent = Absent
    Procs = {p1, p2}
    MaxAgents = 1
    Overlap = TRUE
PROPERTY
    NeverOverwritten
CHECK_DEADLOCK FALSE
