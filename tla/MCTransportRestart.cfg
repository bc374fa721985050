\* A device process restart: are (sender_instance, counter) pairs unique?
CONSTANTS
    EnvelopeSigningBytes <- MCSigningBytes
    MaxRecordLen = 2
    MaxCounter = 2
    MaxRogueFrames <- MCMaxRogueFrames
    MaxBoots = 2
    Uptimes <- MCUptimes
    RogueFrameKinds <- MCNoRogue
    HostCrashes = FALSE
    MaxResets = 0

SPECIFICATION Spec

INVARIANT MessageIdUnique

CHECK_DEADLOCK FALSE
