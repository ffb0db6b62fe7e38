CONSTANTS
    s1 = s1
    s2 = s2
    None = None
    Sock = {s1, s2}
    HelloReSend = 1
    QuoteLimit = 1
    CheckService = TRUE
    MaxBreaks = 1
    Paused = TRUE
    Stops = TRUE
SPECIFICATION FairSpec
INVARIANTS
    OneLink
    Supervised
PROPERTIES
    Patient
    UpAgain
CHECK_DEADLOCK FALSE
