CONSTANTS
    p1 = p1
    p2 = p2
    k1 = k1
    k2 = k2
    Endpoint = {p1, p2}
    Key = {k1}
    None = None
    Sender = {s1}
    Number = {1, 2}
    SocketIds <- EveryNumber
    KeysOf <- SharedKey
    Modes = {0}
    MaxFds = 1
    SendsFail = FALSE
    Early = TRUE
    Paused = FALSE
    Stops = TRUE
SPECIFICATION Spec
SYMMETRY Symmetry
INVARIANTS TypeOK OneOwner RouteKnown
CHECK_DEADLOCK FALSE
