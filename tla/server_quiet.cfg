SPECIFICATION Spec
CONSTANTS
    w1 = w1
    w2 = w2
    Workers = {w1, w2}
    MaxConn = 2
    PoolSize = 1
    MaxAccepts = 2
    MaxFrames = 2
    MaxSends = 1
    MaxStarts = 1
    FrameKinds = {"good", "undecryptable", "malformed"}
    OnRecvCalls = {"none", "send", "close"}
    QuietClose = TRUE
SYMMETRY Symmetry
INVARIANTS
    TypeOK
    NoFault
PROPERTIES
    RemovedIsClosed
CHECK_DEADLOCK FALSE
