\* The device and the warden over one connection per device process, with
\* chunked writes, one restart of the device (a
\* process kill) and one network reset.
CONSTANTS
    EnvelopeSigningBytes <- MCSigningBytes
    MaxRecordLen = 2
    MaxBoots = 2
    MaxCounter = 2
    Uptimes <- MCOneUptime
    RogueFrameKinds <- MCNoRogue
    MaxRogueFrames <- MCMaxRogueFrames
    HostCrashes = FALSE
    MaxResets = 1

SPECIFICATION Spec

PROPERTY ImplementsFifoChannel

PROPERTY HeartbeatEventuallyDelivered

\* Both mains end with an error on a failed read or write, so the system
\* really stops.
CHECK_DEADLOCK FALSE
