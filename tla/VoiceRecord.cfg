SPECIFICATION FairSpec
CONSTANTS
    MaxChunks = 4
    MaxStarts = 2
    Faults = TRUE
INVARIANTS
    TypeOK
    VoiceFileWhole
    VoiceKept
PROPERTIES
    LockReleased
CHECK_DEADLOCK FALSE
