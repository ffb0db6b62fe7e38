CONSTANTS
    w1 = w1
    w2 = w2
    r1 = r1
    NoMsg = NoMsg
    Writers <- MCWriters
    Readers <- MCReaders
    Timed <- AllTimed
    QueueSize = 3
    BlockSize = 2
    DataSize = 1
    Sizes <- MCSizes
    BufSizes = {2}
    MaxMsgs = 2
    MaxDeaths = 2
    MaxCreates = 1
    MidWrite = FALSE
SPECIFICATION CrashSpec
INVARIANT Ownership
PROPERTY FifoButForRestarts
CHECK_DEADLOCK FALSE
