\* verify_envelope_ed25519 on a wire message whose payload was removed.
CONSTANTS
    Str <- MCStr
    Bytes <- MCBytes
    Keys <- MCKeys
    Unsigned <- MCUnsigned
    Alternatives <- MCAlternatives
    MaxTampers = 1
    SignerKey <- MCSignerKey
    SignerKeyId <- MCSignerKeyId
SPECIFICATION Spec
INVARIANT VerifyNeverPanics
