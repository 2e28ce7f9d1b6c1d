SPECIFICATION Spec
CONSTANTS
    Absent = Absent
    Procs = {p1, p2, p3}
    MaxAgents = 1
    Overlap = TRUE
SYMMETRY Symmetry
INVARIANTS
    TypeOK
    NeverTorn
    CreatedIsComplete
PROPERTY
    ImplementsStore
CHECK_DEADLOCK FALSE
