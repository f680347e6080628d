SPECIFICATION Spec
CONSTANTS
    RecvWait = 5
    SendDelay = 10
    ErrorDelay = 10
    LoopDelay = 20
    GsmBusy = 0
    AppDelay1 = 10
    AppDelay2 = 22
    MaxLines = 2
    MaxModem = 2
    MaxRecords = 1
    MaxFrames = 0
    Faults = FALSE
INVARIANTS
    NoRecordLost
