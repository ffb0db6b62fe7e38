CONSTANTS
    w1 = w1
    w2 = w2
    r1 = r1
    NoMsg = NoMsg
    Nil = Nil
    Writers <- MCWriters
    Readers <- MCReaders
    Timed <- MCTimed
    QueueSize = 3
    BlockSize = 2
    DataSize = 1
    Sizes <- MCSizes
    BufSizes = {1, 3}
    MaxMsgs = 2
SPECIFICATION Spec
INVARIANT LinksMirror
PROPERTY ListsSpec
CHECK_DEADLOCK FALSE
