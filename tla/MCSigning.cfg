\* Payload binding: every payload variant signed, one wire field rewritten
\* with any payload or any header value.
CONSTANTS
    Str <- MCStr
    Bytes <- MCBytes
    Keys <- MCKeys
    Unsigned <- MCUnsigned
    Alternatives <- MCAlternatives
    MaxTampers = 1
    SignerKey <- MCSignerKey
    SignerKeyId <- MCSignerKeyId
SPECIFICATION Spec
INVARIANT TypeOK
INVARIANT SignatureBinding
INVARIANT GenuineVerifies
