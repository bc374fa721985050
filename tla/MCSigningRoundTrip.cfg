\* Untampered delivery of envelopes whose msg_class is held as Unknown(code).
CONSTANTS
    Str <- MCStr
    Bytes <- MCBytes
    Keys <- MCKeys
    Unsigned <- MCUnsignedUnknown
    Alternatives <- MCAlternatives
    MaxTampers = 0
    SignerKey <- MCSignerKey
    SignerKeyId <- MCSignerKeyId
SPECIFICATION Spec
INVARIANT WireRoundTrip
