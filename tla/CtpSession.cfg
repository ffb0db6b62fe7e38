CONSTANTS
    i1 = i1
    i2 = i2
    x = x
    Listed <- MCListed
    Filtered = {x}
    LoginLimit = 1
    MaxFaults = 1
    None = None
SPECIFICATION FairSpec
INVARIANT FlagRight
PROPERTIES WholeInTheEnd ListSubscribed
CHECK_DEADLOCK FALSE
