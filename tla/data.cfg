SPECIFICATION Spec
CONSTANTS
    Byte <- MCByte
    Zero = 0
    Prepend = 1
    InitSize = 3
    IntSize = 2
    MaxLen = 3
    MaxChunk = 3
    MaxSent = 3
    Payloads <- MCPayloads
    BadLens = {0, 4}
    IntOf <- MCIntOf
    BytesOf <- MCBytesOf
    Timers = {t1, t2}
    Address = {1, 2, 3}
    Wrap = 4
    MaxTick = 4
    FirstTicks = {0}
    Delays = {0, 2}
    Intervals = {0, 1}
    Loggers = {l1, l2}
    BuffSize = 3
    RolSize = 4
    Lengths = {1, 2}
    MaxLines = 4
    AesLen = 2
    LenSize = 1
    MsgLens = {1, 2, 3, 4, 5, 6}
INVARIANTS
    StreamKept
    MessagesInOrder
    BufferBounded
    EntitiesOwned
    NeverEarly
    DeletedIsSilent
    LinesInOrder
    StopKeeps
    ShortArrives
PROPERTIES
    DueFires
    AllWritten
CHECK_DEADLOCK FALSE
