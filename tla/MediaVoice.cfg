SPECIFICATION Spec
CONSTANTS
    MaxPackets = 2
    EmptyFiles = TRUE
    Mp3Packets = 1
    VoiceUploads = TRUE
    MenuUploads = TRUE
    MaxRequests = 1
CONSTRAINT FewSoundPackets
INVARIANTS
    TypeOK
PROPERTIES
    NoMixedPackets
