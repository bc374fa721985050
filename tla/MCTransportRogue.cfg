\* A second client writing forged, replayed, empty, oversized and
\* undecodable frames while the device sends its heartbeats.
CONSTANTS
    EnvelopeSigningBytes <- MCSigningBytes
    MaxRecordLen = 2
    MaxCounter = 2
    MaxRogueFrames <- MCMaxRogueFrames
    MaxBoots = 1
    Uptimes <- MCUptimes
    RogueFrameKinds <- MCAllRogue
    HostCrashes = FALSE
    MaxResets = 0

SPECIFICATION Spec

INVARIANT AcceptedAuthentic
PROPERTY DeviceServedOnceOtherCloses

\* Both mains end with an error on a failed read or write.
CHECK_DEADLOCK FALSE
