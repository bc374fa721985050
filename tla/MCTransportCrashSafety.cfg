\* The device process killed or its host crashed once, with chunked writes
\* and one network reset: framing and the warden's error classification.
CONSTANTS
    EnvelopeSigningBytes <- MCSigningBytes
    MaxRecordLen = 2
    MaxBoots = 2
    MaxCounter = 2
    Uptimes <- MCOneUptime
    RogueFrameKinds <- MCNoRogue
    MaxRogueFrames <- MCMaxRogueFrames
    HostCrashes = TRUE
    MaxResets = 1

SPECIFICATION Spec

INVARIANT TypeOK
INVARIANT FramingAligned
INVARIANT DeviceOnlyExitIsTruncation


\* Both mains end with an error on a failed read or write, so the system
\* really stops.
CHECK_DEADLOCK FALSE
