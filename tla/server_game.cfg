SPECIFICATION Spec
CONSTANTS
    w1 = w1
    w2 = w2
    Workers = {w1, w2}
    MaxConn = 1
    PoolSize = 1
    MaxAccepts = 2
    MaxFrames = 2
    MaxSends = 1
    MaxStarts = 1
    FrameKinds = {"good"}
    OnRecvCalls = {"close"}
    QuietClose = FALSE
SYMMETRY Symmetry
INVARIANTS
    ConnLimit
    NeverRefused
    NothingLeft
PROPERTIES
    SessionKept
CHECK_DEADLOCK FALSE
