SPECIFICATION Spec
CONSTANTS
    RecvWait = 1
    SendDelay = 2
    ErrorDelay = 2
    LoopDelay = 4
    GsmBusy = 1
    AppDelay1 = 2
    AppDelay2 = 4
    MaxLines = 2
    MaxModem = 1
    MaxRecords = 1
    MaxFrames = 2
    Faults = TRUE
INVARIANTS
    TypeOK
    NoOverwrite
    HandledOnceInOrder
