\* A device process killed inside write_all, or a reset inside a record:
\* does read_record report a clean close?
CONSTANTS
    EnvelopeSigningBytes <- MCSigningBytes
    MaxRecordLen = 2
    MaxCounter = 2
    MaxRogueFrames <- MCMaxRogueFrames
    MaxBoots = 2
    Uptimes <- MCOneUptime
    RogueFrameKinds <- MCNoRogue
    HostCrashes = FALSE
    MaxResets = 1

SPECIFICATION Spec

INVARIANT NoneOnlyAtFrameBoundary

CHECK_DEADLOCK FALSE
