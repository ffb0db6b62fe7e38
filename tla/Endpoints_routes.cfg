CONSTANTS
    p1 = p1
    p2 = p2
    k1 = k1
    k2 = k2
    Endpoint = {p1, p2}
    Key = {k1, k2}
    None = None
    Sender = {s1}
    Number = {1, 2}
    SocketIds <- OwnNumber
    KeysOf <- CommonKey
    Modes = {0, 1, 2}
    MaxFds = 2
    SendsFail = TRUE
    Early = TRUE
    Paused = TRUE
    Stops = FALSE
SPECIFICATION Spec
INVARIANT NotInUse
PROPERTY RouteSpec
CHECK_DEADLOCK FALSE
