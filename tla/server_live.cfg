SPECIFICATION FairSpec
CONSTANTS
    w1 = w1
    w2 = w2
    Workers = {w1, w2}
    MaxConn = 1
    PoolSize = 1
    MaxAccepts = 1
    MaxFrames = 2
    MaxSends = 2
    MaxStarts = 1
    FrameKinds = {"good", "undecryptable", "malformed"}
    OnRecvCalls = {"none", "send", "close"}
    QuietClose = FALSE
PROPERTIES
    Reported
CHECK_DEADLOCK FALSE
