CONSTANTS
    p1 = p1
    p2 = p2
    k1 = k1
    k2 = k2
    Endpoint = {p1, p2}
    Key = {k1}
    None = None
    Sender = {s1}
    Number = {1, 2}
    SocketIds <- AnyNumber
    KeysOf <- SharedKey
    Modes = {0, 1}
    MaxFds = 2
    SendsFail = TRUE
    Early = FALSE
    Paused = TRUE
    Stops = FALSE
SPECIFICATION FairSpec
INVARIANTS TablesLive Watched
PROPERTIES ClosedInTheEnd SendReturns
CHECK_DEADLOCK FALSE
