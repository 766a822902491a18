SPECIFICATION FairSpec
CONSTANTS
    Envs <- Environment
INVARIANTS
    NoWildPointer
    NoOrphans
PROPERTIES
    ReleaseReturns
CHECK_DEADLOCK FALSE
