SPECIFICATION Spec
CONSTANTS
    Bytes = {2, 125, 126}
    MaxMessage = 2
    MaxFrames = 2
    MaxLine = 16
    BufLen = 17
INVARIANTS
    TypeOK
    FlagsOnlyAtEnds
    DecodeInPlace
    FirstFrameHandled
CHECK_DEADLOCK FALSE
