CONSTANTS
    Byte <- MCByte
    NoByte = NoByte
    MaxPacket = 7
    LengthPos = 1
    LengthBytes = 1
    IncludesHeader = FALSE
    FixHeadLen = 2
    LengthField <- Digit
    SizeRange = 16
    Reuse = FALSE
    CopiesDown = FALSE
    MaxBytes = 7
    MaxConns = 2
SPECIFICATION Spec
INVARIANTS Kept RoomLeft Eager
PROPERTY StreamSpec
CHECK_DEADLOCK FALSE
