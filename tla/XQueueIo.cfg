CONSTANTS
    Producer = {p1}
    Configs <- MCConfigs
    QueueSize = 2
    SlotReused = FALSE
    Stops = TRUE
    MaxMsgs = 6
SPECIFICATION FairSpec
INVARIANT NothingLost
PROPERTIES LossySpec Received StopReturns
CHECK_DEADLOCK FALSE
