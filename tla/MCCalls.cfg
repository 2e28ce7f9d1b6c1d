SPECIFICATION FairSpec
CONSTANTS
    a1 = a1
    Agents = {a1}
    Garbage = Garbage
    NotJson = NotJson
    NotAnObject = NotAnObject
    NoMethod = NoMethod
    NotAMapping = NotAMapping
    None = None
    Callers = {c1, c2}
    Frames <- MCFrames
    MaxEvents = 2
INVARIANTS
    TypeOK
    AnswerIsOwn
    AnswerTellsEffect
    CodeFitsFault
PROPERTY
    CallsEnd
CHECK_DEADLOCK FALSE
