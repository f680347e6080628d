SPECIFICATION FairSpec
CONSTANTS
    MaxFrames = 2
    MaxOwn = 1
    MaxFaults = 2
    OwnPackets = {"0102", "0002", "0800"}
INVARIANTS
    TypeOK
    CommandAnswered
    OwnNumber
PROPERTIES
    AnswersInOrder
    EverythingSent
    RedialsForAddress
