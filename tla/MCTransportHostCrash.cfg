\* The device's host crashes once after its heartbeat reached the warden's
\* connection, then boots and connects again.
CONSTANTS
    EnvelopeSigningBytes <- MCSigningBytes
    MaxRecordLen = 2
    MaxBoots = 2
    MaxCounter = 1
    Uptimes <- MCOneUptime
    RogueFrameKinds <- MCNoRogue
    MaxRogueFrames <- MCMaxRogueFrames
    HostCrashes = TRUE
    MaxResets = 0

SPECIFICATION Spec

PROPERTY HeartbeatEventuallyDelivered

CHECK_DEADLOCK FALSE
