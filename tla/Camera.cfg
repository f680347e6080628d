SPECIFICATION CamSpec
CONSTANTS
    MaxPackets = 1
    EmptyFiles = FALSE
    Mp3Packets = 1
    VoiceUploads = FALSE
    MenuUploads = FALSE
    MaxRequests = 0
    CameraNums = {1, 2}
    PicturePages = 2
    Console = FALSE
INVARIANTS
    CamTypeOK
    PictureWhole
