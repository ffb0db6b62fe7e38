CONSTANTS
    i1 = i1
    i2 = i2
    slow = slow
    quick = quick
    None = None
    Item = {i1, i2}
    Cond = {slow, quick}
    ItemOf <- MCItemOf
    Value <- MCValue
    Match <- MCMatch
    Keep <- MCKeep
SPECIFICATION FairSpec
INVARIANTS
    Honest
    Balanced
PROPERTIES
    Announced
