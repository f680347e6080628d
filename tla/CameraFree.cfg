SPECIFICATION FairCamSpec
CONSTANTS
    MaxPackets = 2
    EmptyFiles = FALSE
    Mp3Packets = 1
    VoiceUploads = FALSE
    MenuUploads = FALSE
    MaxRequests = 1
    CameraNums = {1}
    PicturePages = 1
    Console = TRUE
INVARIANTS
    TakeSupervised
    PhotoBusyMeansTransfer
PROPERTIES
    CameraFreeAgain
    CompleteBeforeWait
