SPECIFICATION FairSpec
CONSTANTS
    w1 = w1
    w2 = w2
    t1 = t1
    t2 = t2
    t3 = t3
    Workers = {w1, w2}
    Tasks = {t1, t2, t3}
    NoTask = NoTask
    Looping = {t1}
    SemMax = 2
    MaxCreates = 2
    Patient = FALSE
INVARIANTS
    TypeOK
    Accounted
    HandlesOutlive
PROPERTIES
    TaskStarts
    IdleReleaseEnds
CHECK_DEADLOCK FALSE
