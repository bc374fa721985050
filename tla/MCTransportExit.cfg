\* Malformed records from another client: does the warden survive them?
CONSTANTS
    EnvelopeSigningBytes <- MCSigningBytes
    MaxRecordLen = 2
    MaxCounter = 2
    MaxRogueFrames <- MCMaxRogueFrames
    MaxBoots = 1
    Uptimes <- MCOneUptime
    RogueFrameKinds <- MCAllRogue
    HostCrashes = FALSE
    MaxResets = 0

SPECIFICATION Spec

INVARIANT WardenKeepsServing

CHECK_DEADLOCK FALSE
