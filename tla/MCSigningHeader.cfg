\* Header binding: heartbeats signed, two wire fields rewritten, so that two
\* neighbouring fields can trade their contents.
CONSTANTS
    Str <- MCStr
    Bytes <- MCBytes
    Keys <- MCKeys
    Unsigned <- MCUnsignedHeartbeat
    Alternatives <- MCAlternatives
    MaxTampers = 2
    SignerKey <- MCSignerKey
    SignerKeyId <- MCSignerKeyId
SPECIFICATION Spec
INVARIANT SignatureBinding
