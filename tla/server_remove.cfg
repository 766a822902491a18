SPECIFICATION Spec
CONSTANTS
    w1 = w1
    w2 = w2
    Workers = {w1, w2}
    MaxConn = 1
    PoolSize = 1
    MaxAccepts = 2
    MaxFrames = 1
    MaxSends = 1
    MaxStarts = 1
    FrameKinds = {"good", "undecryptable", "malformed"}
    OnRecvCalls = {"none", "send", "close"}
    QuietClose = FALSE
SYMMETRY Symmetry
INVARIANTS
    RemoveFindsEntry
CHECK_DEADLOCK FALSE
