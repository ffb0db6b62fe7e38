CONSTANTS
    w1 = w1
    w2 = w2
    r1 = r1
    r2 = r2
    NoMsg = NoMsg
    Writers <- MCWriters
    Readers <- TwoReaders
    Timed <- AllTimed
    QueueSize = 3
    BlockSize = 2
    DataSize = 1
    Sizes <- MixedSizes
    BufSizes = {1, 3}
    MaxMsgs = 2
SPECIFICATION Spec
INVARIANTS TypeOK Ownership Conservation WriteTokens Readable
PROPERTY FifoSpec
CHECK_DEADLOCK FALSE
