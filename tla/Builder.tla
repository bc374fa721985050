------------------------------ MODULE Builder ------------------------------
(***************************************************************************)
(* EnvelopeBuilder (hmf-core/src/envelope.rs) and the random identifiers   *)
(* of ids.rs it draws.                                                     *)
(*                                                                         *)
(* new() starts from defaults and draws a fresh transaction_id and         *)
(* idempotency_key with random_token_hex; a caller then makes any          *)
(* sequence of with_* calls and finally build().  The type parameters      *)
(* <R, I, C, D> are the flags req.r, req.i, req.c, req.d: with_sender_id, *)
(* with_sender_instance, with_counter and with_delivery_profile set them,  *)
(* and build() exists only on EnvelopeBuilder<Set, Set, Set, Set>.  The    *)
(* built envelope is then used as the end-to-end path of spec 9 uses it:  *)
(* signed, encoded, decoded, validated and verified.                      *)
(***************************************************************************)
EXTENDS Integers, Sequences, SequencesExt, Envelope

CONSTANTS
    TokenLen,       \* bytes random_token_hex draws (16 in the code)
    RandomBytes,    \* values OsRng may give each byte
    Strings,        \* &str arguments of the setters
    Counters,       \* with_counter arguments
    Ttls,           \* with_ttl_ms arguments
    Profiles,       \* with_delivery_profile arguments
    Payloads,       \* with_payload arguments
    Securities,     \* with_security arguments [sig_alg, key_id, auth, signature]
    MaxCalls,       \* with_* calls a caller makes at most
    SignerKey,      \* the key the caller signs the built envelope with
    SignerKeyId

VARIABLES
    b,          \* the builder: the envelope fields and req flags
    built,      \* what build() returned, or NotBuilt
    calls,      \* with_* calls made so far
    drawn       \* the random bytes new() drew, per identifier

vars == <<b, built, calls, drawn>>

NotBuilt == [none |-> TRUE]

\* random_token_hex: each byte as two lowercase hex digits, high nibble
\* first (HEX[b >> 4], HEX[b & 0x0f]), as ASCII.
HEX == <<48, 49, 50, 51, 52, 53, 54, 55, 56, 57, 97, 98, 99, 100, 101, 102>>
RandomTokenHexLowFirst(buf) ==
    FlattenSeq([i \in DOMAIN buf |-> <<HEX[(buf[i] % 16) + 1], HEX[(buf[i] \div 16) + 1]>>])
RandomTokenHex(buf) ==
    FlattenSeq([i \in DOMAIN buf |-> <<HEX[(buf[i] \div 16) + 1], HEX[(buf[i] % 16) + 1]>>])

\* EnvelopeBuilder::new, with the draws of new_transaction_id and
\* new_idempotency_key.
New(txnBytes, idemBytes) ==
    [proto_ver |-> EXPECTED_PROTO_VER, msg_class |-> Variant("Unspecified"),
     delivery_profile |-> Variant("BestEffort"),
     sender_id |-> << >>, sender_instance |-> << >>, counter |-> 0, ttl_ms |-> 0,
     transaction_id |-> RandomTokenHex(txnBytes),
     idempotency_key |-> RandomTokenHex(idemBytes),
     topic |-> << >>, target |-> << >>, scope |-> << >>, payload |-> NoPayload,
     sig_alg |-> Variant("Unspecified"), signature |-> JunkSignature(0),
     key_id |-> << >>, auth_context |-> << >>,
     req |-> [r |-> FALSE, i |-> FALSE, c |-> FALSE, d |-> FALSE]]

Init ==
    /\ \E t, k \in [1 .. TokenLen -> RandomBytes] :
          /\ b = New(t, k)
          /\ drawn = [transaction_id |-> t, idempotency_key |-> k]
    /\ built = NotBuilt
    /\ calls = 0

\* A setter call on a builder not yet consumed by build().
Call(newB) ==
    /\ built = NotBuilt
    /\ calls < MaxCalls
    /\ b' = newB
    /\ calls' = calls + 1
    /\ UNCHANGED <<built, drawn>>

WithSenderId ==
    \E s \in Strings : Call([b EXCEPT !.sender_id = s, !.req.r = TRUE])
WithSenderInstance ==
    \E s \in Strings : Call([b EXCEPT !.sender_instance = s, !.req.i = TRUE])
WithCounter ==
    \E n \in Counters : Call([b EXCEPT !.counter = n, !.req.c = TRUE])
WithDeliveryProfile ==
    \E p \in Profiles : Call([b EXCEPT !.delivery_profile = p, !.req.d = TRUE])
WithTtlMs == \E t \in Ttls : Call([b EXCEPT !.ttl_ms = t])
WithTopic == \E s \in Strings : Call([b EXCEPT !.topic = s])
WithTarget == \E s \in Strings : Call([b EXCEPT !.target = s])
WithScope == \E s \in Strings : Call([b EXCEPT !.scope = s])

\* with_payload: msg_class follows the payload's domain.
WithPayloadKeepsClass == \E p \in Payloads : Call([b EXCEPT !.payload = p])
WithPayload ==
    \E p \in Payloads : Call([b EXCEPT !.msg_class = PayloadClass(p), !.payload = p])

WithSecurity ==
    \E sec \in Securities :
        Call([b EXCEPT !.sig_alg = sec.sig_alg, !.key_id = sec.key_id,
                       !.auth_context = sec.auth, !.signature = sec.signature])

\* build(): only on a builder whose four required fields were set.
Build ==
    /\ built = NotBuilt
    /\ b.req = [r |-> TRUE, i |-> TRUE, c |-> TRUE, d |-> TRUE]
    /\ built' = [f \in DOMAIN b \ {"req"} |-> b[f]]
    /\ UNCHANGED <<b, calls, drawn>>

Next ==
    \/ WithSenderId \/ WithSenderInstance \/ WithCounter \/ WithDeliveryProfile
    \/ WithTtlMs \/ WithTopic \/ WithTarget \/ WithScope
    \/ WithPayload \/ WithSecurity \/ Build

Spec == Init /\ [][Next]_vars
-----------------------------------------------------------------------------
(* Properties. *)

\* The end-to-end path of spec 9: sign the envelope, encode it, decode it.
Received(env) == EnvelopeDecode(EnvelopeEncode(SignEnvelopeEd25519(env, SignerKeyId, SignerKey)))

\* Spec 9, end-to-end: an envelope built with a positive counter and ttl
\* and a payload, whatever else the caller set and in whatever order, once
\* signed survives encoding and decoding, passes envelope_validate and
\* verifies with the signer's key: the builder's msg_class always agrees
\* with its payload, and with_security's values are replaced by signing.
BuiltEnvelopeAccepted ==
    (built # NotBuilt /\ built.counter > 0 /\ built.ttl_ms > 0 /\ built.payload # NoPayload)
        => LET r == Received(built)
           IN  /\ r.ok
               /\ EnvelopeValidate(r.env) = "Ok"
               /\ VerifyEnvelopeEd25519(r.env, SignerKey) = "valid"

\* RECURSIVE reference decoder of a lowercase hex string.
HexValue(c) == IF c <= 57 THEN c - 48 ELSE c - 87
RECURSIVE HexDecode(_)
HexDecode(s) ==
    IF Len(s) < 2 THEN << >>
    ELSE <<16 * HexValue(s[1]) + HexValue(s[2])>> \o HexDecode(SubSeq(s, 3, Len(s)))

\* Identifiers (spec 3): transaction_id and idempotency_key are the random bytes
\* hex-encoded, two lowercase hex digits per byte: each decodes back to
\* exactly the bytes OsRng drew.
IdsAreHexOfDraw ==
    \A f \in {"transaction_id", "idempotency_key"} :
        /\ Len(b[f]) = 2 * TokenLen
        /\ \A i \in DOMAIN b[f] : b[f][i] \in Range(HEX)
        /\ HexDecode(b[f]) = drawn[f]
=============================================================================
