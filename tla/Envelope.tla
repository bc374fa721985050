------------------------------ MODULE Envelope ------------------------------
(***************************************************************************)
(* The envelope as the transport sees it, with the operations of hmf-core  *)
(* and hmf-wire-proto that act on a whole envelope:                        *)
(*   envelope_validate          (hmf-core/src/envelope.rs)                 *)
(*   sign/verify_envelope_ed25519 (hmf-core/src/envelope/sign.rs)          *)
(*   ed25519 sign/verify        (hmf-core/src/crypto/ed25519.rs)           *)
(*   envelope_core_to_proto / envelope_proto_to_core (convert/v1.rs)       *)
(*   envelope_encode / envelope_decode (wire/protobuf.rs)                  *)
(*                                                                         *)
(* An envelope is a record of the fields of types.rs's Envelope; strings *)
(* are byte sequences, as in Canonical, whose envelope_signing_bytes is    *)
(* what sign and verify cover.                                             *)
(* An Ed25519 signature is the record [key, msg, len]: the key that made   *)
(* it, the bytes it covers and its length (64 for a real signature).       *)
(* Signatures are unforgeable: only the holder of key k makes [key |-> k]. *)
(***************************************************************************)
EXTENDS Integers, Sequences, FiniteSetsExt, OpenEnum, Canonical

EXPECTED_PROTO_VER == 1

\* An Option<Payload>: [kind |-> "None"], or [kind |-> domain, payload |-> o]
\* where o is the domain struct's Option<sub-message> as a sequence of
\* length 0 or 1, and a sub-message is a record of its Rust fields plus
\* its variant name as "kind".
NoPayload == [kind |-> "None"]
HeartbeatPayload(uptime, health) ==
    [kind |-> "Telemetry",
     payload |-> <<[kind |-> "Heartbeat", uptime_ms |-> uptime, health |-> health]>>]

\* A Vec<u8> that is not a signature: of length n, made by no key.
JunkSignature(n) == [key |-> "none", msg |-> [none |-> TRUE], len |-> n]

\* crypto::ed25519::sign / verify.  Signature::from_slice rejects any length
\* other than 64; verification succeeds only for the key's own signature
\* over exactly these bytes.
Ed25519Sign(sk, msg) == [key |-> sk, msg |-> msg, len |-> 64]
Ed25519VerifyAnyKey(vk, msg, sig) ==
    /\ sig.len = 64
    /\ sig.msg = msg
Ed25519Verify(vk, msg, sig) ==
    /\ sig.len = 64
    /\ sig.key = vk
    /\ sig.msg = msg

\* sign_envelope_ed25519: sets sig_alg and key_id first, then signs the
\* signing bytes, which include both.  envelope_signing_bytes panics
\* ("validated envelope must have payload") when the payload is None.
SignPanics(env) == env.payload.kind = "None"
SignEnvelopeEd25519Stale(env, keyId, sk) ==
    [env EXCEPT !.sig_alg = Variant("Ed25519"), !.key_id = keyId,
                !.signature = Ed25519Sign(sk, EnvelopeSigningBytes(env))]
SignEnvelopeEd25519(env, keyId, sk) ==
    LET e1 == [env EXCEPT !.sig_alg = Variant("Ed25519"), !.key_id = keyId]
    IN  [e1 EXCEPT !.signature = Ed25519Sign(sk, EnvelopeSigningBytes(e1))]

\* verify_envelope_ed25519: "invalid" on a wrong sig_alg or length, "panic"
\* where envelope_signing_bytes would panic on a missing payload.
VerifyEnvelopeEd25519(env, vk) ==
    IF env.sig_alg # Variant("Ed25519") THEN "invalid"
    ELSE IF env.signature.len # 64 THEN "invalid"
    ELSE IF SignPanics(env) THEN "panic"
    ELSE IF Ed25519Verify(vk, EnvelopeSigningBytes(env), env.signature)
         THEN "valid" ELSE "invalid"

\* The msg_class a payload kind requires (envelope_validate's match).
PayloadClass(p) == Variant(p.kind)

\* The variants of ValidateError (hmf-core error.rs), by name.
ValidateErrorNames ==
    {"BadProtoVer", "MissingPayload", "MsgClassMismatch", "BadTtl",
     "BadCounter", "BadSigAlg", "BadSignatureLen", "BadKeyId"}

\* envelope_validate: ordered checks, the first failing one is the error.
ValidationChecks(env) ==
    << <<env.proto_ver = EXPECTED_PROTO_VER, "BadProtoVer">>,
       <<env.ttl_ms # 0, "BadTtl">>,
       <<env.counter # 0, "BadCounter">>,
       <<env.sig_alg = Variant("Ed25519"), "BadSigAlg">>,
       <<env.signature.len = 64, "BadSignatureLen">>,
       <<env.key_id # << >>, "BadKeyId">>,
       <<env.payload.kind # "None", "MissingPayload">>,
       <<env.payload.kind = "None" \/ env.msg_class = PayloadClass(env.payload),
         "MsgClassMismatch">> >>

EnvelopeValidate(env) ==
    LET checks == ValidationChecks(env)
        failed == {i \in 1 .. Len(checks) : ~checks[i][1]}
    IN  IF failed = {} THEN "Ok"
        ELSE checks[Min(failed)][2]

-----------------------------------------------------------------------------
(***************************************************************************)
(* Wire translation and the protobuf codec.  On the wire every enum field  *)
(* is its i32 code.  The codec is a black box: an encoded envelope is      *)
(* WireLen bytes, each carrying the proto message and its position, so     *)
(* decoding succeeds exactly on the bytes some encoding produced; an empty *)
(* buffer decodes to the all-default proto message, as protobuf does.      *)
(***************************************************************************)
\* The per-message conversion functions copy every field and map each
\* enum field through to_i32 (toProto) or from_i32; the sub-message shapes
\* are otherwise the same on both sides (maps and lists are copied as they
\* are).  None of them fails.
ConvEnum(toProto, names, v) == IF toProto THEN ToI32(names, v) ELSE FromI32(names, v)

\* Health taken through the wrong enum table on the way in.
ConvertTelemetrySubMixedUp(s, toProto) ==
    CASE s.kind = "Heartbeat" /\ ~toProto ->
            [s EXCEPT !.health = FromI32(DeathReasonNames, @)]
      [] s.kind = "Heartbeat"   -> [s EXCEPT !.health = ConvEnum(toProto, HealthNames, @)]
      [] s.kind = "Death"       -> [s EXCEPT !.reason = ConvEnum(toProto, DeathReasonNames, @)]
      [] s.kind = "Alarm"       -> [s EXCEPT !.severity = ConvEnum(toProto, AlarmSeverityNames, @)]
      [] s.kind = "Observation" -> [s EXCEPT !.type = ConvEnum(toProto, ObservationTypeNames, @)]
      [] s.kind = "State"       ->
            [s EXCEPT !.items = [i \in DOMAIN @ |->
                                    [@[i] EXCEPT !.quality = ConvEnum(toProto, QualityNames, @)]]]
      [] OTHER                  -> s

\* Telemetry messages, and the quality of each state item.
ConvertTelemetrySub(s, toProto) ==
    CASE s.kind = "Heartbeat"   -> [s EXCEPT !.health = ConvEnum(toProto, HealthNames, @)]
      [] s.kind = "Death"       -> [s EXCEPT !.reason = ConvEnum(toProto, DeathReasonNames, @)]
      [] s.kind = "Alarm"       -> [s EXCEPT !.severity = ConvEnum(toProto, AlarmSeverityNames, @)]
      [] s.kind = "Observation" -> [s EXCEPT !.type = ConvEnum(toProto, ObservationTypeNames, @)]
      [] s.kind = "State"       ->
            [s EXCEPT !.items = [i \in DOMAIN @ |->
                                    [@[i] EXCEPT !.quality = ConvEnum(toProto, QualityNames, @)]]]
      [] OTHER                  -> s

\* Command, config and engineering messages: only Ack and Result carry an
\* enum.
ConvertOpSub(s, toProto) ==
    CASE s.kind = "Ack"    -> [s EXCEPT !.status = ConvEnum(toProto, AckStatusNames, @)]
      [] s.kind = "Result" -> [s EXCEPT !.status = ConvEnum(toProto, ResultStatusNames, @)]
      [] OTHER             -> s

\* telemetry_*_to_* and its siblings: the optional sub-message.
ConvertSub(domain, s, toProto) ==
    IF domain = "Telemetry" THEN ConvertTelemetrySub(s, toProto) ELSE ConvertOpSub(s, toProto)

\* payload_*_to_*: the domain wrapper and its optional sub-message.
ConvertPayload(p, toProto) ==
    IF p.kind = "None" \/ p.payload = << >> THEN p
    ELSE [p EXCEPT !.payload = <<ConvertSub(p.kind, p.payload[1], toProto)>>]

PayloadCoreToProto(p) == ConvertPayload(p, TRUE)
PayloadProtoToCore(p) == ConvertPayload(p, FALSE)

EnvelopeCoreToProto(c) ==
    [c EXCEPT !.msg_class = ToI32(MsgClassNames, @),
              !.delivery_profile = ToI32(DeliveryProfileNames, @),
              !.sig_alg = ToI32(SigAlgNames, @),
              !.payload = PayloadCoreToProto(@)]

EnvelopeProtoToCore(p) ==
    [p EXCEPT !.msg_class = FromI32(MsgClassNames, @),
              !.delivery_profile = FromI32(DeliveryProfileNames, @),
              !.sig_alg = FromI32(SigAlgNames, @),
              !.payload = PayloadProtoToCore(@)]

DefaultProtoEnvelope ==
    [proto_ver |-> 0, msg_class |-> 0, sender_id |-> << >>, sender_instance |-> << >>,
     counter |-> 0, ttl_ms |-> 0, transaction_id |-> << >>, idempotency_key |-> << >>,
     delivery_profile |-> 0, topic |-> << >>, target |-> << >>, scope |-> << >>,
     payload |-> NoPayload, sig_alg |-> 0, signature |-> JunkSignature(0),
     key_id |-> << >>, auth_context |-> << >>]

WireLen == 2

ProtoBytes(p) == [i \in 1 .. WireLen |-> [kind |-> "env", msg |-> p, part |-> i]]
JunkByte == [kind |-> "junk", msg |-> DefaultProtoEnvelope, part |-> 1]

EnvelopeEncode(env) == ProtoBytes(EnvelopeCoreToProto(env))

\* envelope_decode: [ok |-> FALSE] is WireError::Decode.
EnvelopeDecode(bytes) ==
    IF bytes = << >>
    THEN [ok |-> TRUE, env |-> EnvelopeProtoToCore(DefaultProtoEnvelope)]
    ELSE IF bytes[1].kind = "env" /\ bytes = ProtoBytes(bytes[1].msg)
         THEN [ok |-> TRUE, env |-> EnvelopeProtoToCore(bytes[1].msg)]
         ELSE [ok |-> FALSE, env |-> EnvelopeProtoToCore(DefaultProtoEnvelope)]
=============================================================================
