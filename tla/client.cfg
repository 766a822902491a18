SPECIFICATION FairSpec
CONSTANTS
    MaxStarts = 2
    MaxFrames = 2
    Envs <- AllEnvs
INVARIANTS
    NoFault
    ClosedOnce
    KeysAreOwn
PROPERTIES
    SendsAfterHandshake
    SessionKept
    Recovers
CHECK_DEADLOCK FALSE
