\* Any sequence of up to seven setter calls on a fresh builder, then build,
\* sign, encode, decode, validate and verify.
CONSTANTS
    TokenLen = 2
    RandomBytes <- MCRandomBytes
    Strings <- MCStrings
    Counters = {0, 1}
    Ttls = {0, 5000}
    Profiles <- MCProfiles
    Payloads <- MCPayloads
    Securities <- MCSecurities
    MaxCalls = 7
    SignerKey <- MCSignerKey
    SignerKeyId <- MCSignerKeyId
SPECIFICATION Spec
INVARIANT BuiltEnvelopeAccepted
INVARIANT IdsAreHexOfDraw
\* build() consumes the builder: a built state is final.
CHECK_DEADLOCK FALSE
