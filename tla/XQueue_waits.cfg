CONSTANTS
    w1 = w1
    w2 = w2
    r1 = r1
    r2 = r2
    NoMsg = NoMsg
    Writers <- MCWriters
    Readers <- OneReader
    Timed <- NoThreads
    QueueSize = 3
    BlockSize = 2
    DataSize = 1
    Sizes <- OneLong
    BufSizes = {3}
    MaxMsgs = 2
SPECIFICATION FairSpec
INVARIANTS SemaphoresExact
PROPERTIES EventuallyRead WriteReturns
CHECK_DEADLOCK FALSE
