----------------------------- MODULE Canonical -----------------------------
(***************************************************************************)
(* The canonical signing input of hmf-core/src/envelope/signing_bytes.rs, *)
(* byte for byte.  A byte string is a sequence of integers 0..255; a      *)
(* String is its UTF-8 bytes (the same sequence).  SHA-256 is idealised:  *)
(* a digest is one element [sha256 |-> input] that stands for its 32      *)
(* bytes, so two digests are equal exactly when their inputs are.  A f64  *)
(* is given by its bit pattern (to_bits), an integer.                     *)
(*                                                                         *)
(* A map (BTreeMap<String, String>) is a function from keys to values;    *)
(* an Option is a sequence of length 0 or 1; a Vec is a sequence.         *)
(***************************************************************************)
EXTENDS Integers, Sequences, SequencesExt, FiniteSets, OpenEnum

\* DOMAIN_TAG: the ASCII bytes of "HMFv1:envelope-signature".
DOMAIN_TAG ==
    <<72, 77, 70, 118, 49, 58, 101, 110, 118, 101, 108, 111, 112, 101, 45,
      115, 105, 103, 110, 97, 116, 117, 114, 101>>

\* sha256(bytes), idealised as collision-free.
Sha256(bytes) == <<[sha256 |-> bytes]>>

\* v.to_be_bytes() of a w-byte integer; a negative v gives its two's
\* complement, since \div rounds down and % is never negative.
RECURSIVE BeBytes(_, _)
BeBytes(w, v) == IF w = 0 THEN << >> ELSE BeBytes(w - 1, v \div 256) \o <<v % 256>>

PutU8(v) == <<v>>
PutU32(v) == BeBytes(4, v)
PutU64(v) == BeBytes(8, v)
PutI32(v) == BeBytes(4, v)
PutI64(v) == BeBytes(8, v)
PutBool(v) == <<IF v THEN 1 ELSE 0>>
PutF64(bits) == BeBytes(8, bits)

\* A u32 length, then the bytes.
PutBytes(b) == PutU32(Len(b)) \o b
PutStrUnprefixed(s) == s
PutStr(s) == PutBytes(s)

\* A Vec<String>: a u32 count, then every string in order.
PutStrSeq(s) == PutU32(Len(s)) \o FlattenSeq([i \in DOMAIN s |-> PutStr(s[i])])

\* Ord for String: bytewise lexicographic, a proper prefix first.
RECURSIVE LexLt(_, _)
LexLt(a, b) ==
    IF a = << >> THEN b # << >>
    ELSE IF b = << >> THEN FALSE
    ELSE IF Head(a) # Head(b) THEN Head(a) < Head(b)
    ELSE LexLt(Tail(a), Tail(b))

\* put_map_sorted: the count, then (key, value) in BTreeMap order.
PutMapSorted(m) ==
    LET ks == SetToSortSeq(DOMAIN m, LexLt)
    IN  PutU32(Cardinality(DOMAIN m))
          \o FlattenSeq([i \in DOMAIN ks |-> PutStr(ks[i]) \o PutStr(m[ks[i]])])

-----------------------------------------------------------------------------
(* The canonical encoding of each payload message. *)

CanonicalAck(a) == PutI32(ToI32(AckStatusNames, a.status)) \o PutStr(a.detail)

CanonicalOpResult(r) == PutI32(ToI32(ResultStatusNames, r.status)) \o PutStr(r.detail)

CanonicalBirth(b) ==
    PutStr(b.vendor) \o PutStr(b.model) \o PutStr(b.serial) \o PutStr(b.hw_rev)
      \o PutStr(b.fw_rev) \o PutU64(b.uptime_ms) \o PutStrSeq(b.capabilities)

CanonicalHeartbeat(h) == PutU64(h.uptime_ms) \o PutI32(ToI32(HealthNames, h.health))

CanonicalDeath(d) ==
    PutI32(ToI32(DeathReasonNames, d.reason)) \o PutU64(d.uptime_ms) \o PutStr(d.detail)

\* A StateValue: its tag 1..6, then the value, held in the field named
\* after the variant.
CanonicalStateValue(v) ==
    CASE v.kind = "F64"  -> PutU8(1) \o PutF64(v.f64)
      [] v.kind = "I64"  -> PutU8(2) \o PutI64(v.i64)
      [] v.kind = "U64"  -> PutU8(3) \o PutU64(v.u64)
      [] v.kind = "B"    -> PutU8(4) \o PutBool(v.b)
      [] v.kind = "S"    -> PutU8(5) \o PutStr(v.s)
      [] v.kind = "Blob" -> PutU8(6) \o PutBytes(v.blob)

CanonicalStateItem(it) ==
    PutStr(it.key) \o PutStr(it.unit) \o PutI32(ToI32(QualityNames, it.quality))
      \o (IF it.value = << >> THEN PutU8(0) ELSE CanonicalStateValue(it.value[1]))

CanonicalStateUpdate(s) ==
    PutU64(s.local_seq) \o PutU32(Len(s.items))
      \o FlattenSeq([i \in DOMAIN s.items |-> CanonicalStateItem(s.items[i])])

CanonicalAlarm(a) ==
    PutI32(ToI32(AlarmSeverityNames, a.severity)) \o PutStr(a.code) \o PutStr(a.summary)
      \o PutStr(a.detail) \o PutStr(a.related_key) \o PutStr(a.recommended_action)

CanonicalObservation(o) ==
    \* put_opt: 0 for None, 1 and the subject id for Some.
    (IF o.subject = << >> THEN PutU8(0) ELSE PutU8(1) \o PutStr(o.subject[1].subject_id))
      \o PutI32(ToI32(ObservationTypeNames, o.type)) \o PutU32(o.confidence_pct)
      \o PutStr(o.summary) \o PutStr(o.detail)

\* canonical_telemetry: 0 when absent, else the variant's tag and encoding.
CanonicalTelemetry(t) ==
    IF t.payload = << >> THEN PutU8(0)
    ELSE LET s == t.payload[1]
         IN  CASE s.kind = "Birth"       -> PutU8(1) \o CanonicalBirth(s)
               [] s.kind = "Heartbeat"   -> PutU8(2) \o CanonicalHeartbeat(s)
               [] s.kind = "Death"       -> PutU8(3) \o CanonicalDeath(s)
               [] s.kind = "State"       -> PutU8(4) \o CanonicalStateUpdate(s)
               [] s.kind = "Alarm"       -> PutU8(5) \o CanonicalAlarm(s)
               [] s.kind = "Observation" -> PutU8(6) \o CanonicalObservation(s)

CanonicalCommandRequest(r) ==
    PutStr(r.request_id) \o PutStr(r.command) \o PutStr(r.target)
      \o PutMapSorted(r.params) \o PutBytes(r.blob) \o PutBool(r.requires_confirmation)

CanonicalCommand(c) ==
    IF c.payload = << >> THEN PutU8(0)
    ELSE LET s == c.payload[1]
         IN  CASE s.kind = "Request" -> PutU8(1) \o CanonicalCommandRequest(s)
               [] s.kind = "Ack"     -> PutU8(2) \o CanonicalAck(s)
               [] s.kind = "Result"  -> PutU8(3) \o CanonicalOpResult(s)

CanonicalConfig(c) ==
    IF c.payload = << >> THEN PutU8(0)
    ELSE LET s == c.payload[1]
         IN  CASE s.kind = "Query"    -> PutU8(1) \o PutStrSeq(s.keys)
               [] s.kind = "Snapshot" ->
                     PutU8(2) \o PutU64(s.config_version) \o PutMapSorted(s.params)
               [] s.kind = "Update"   ->
                     PutU8(3) \o PutStr(s.update_id) \o PutBool(s.strict)
                       \o PutMapSorted(s.params)
               [] s.kind = "Ack"      -> PutU8(4) \o CanonicalAck(s)
               [] s.kind = "Result"   -> PutU8(5) \o CanonicalOpResult(s)

CanonicalEngineeringRequest(r) ==
    PutStr(r.request_id) \o PutStr(r.action) \o PutStr(r.target)
      \o PutMapSorted(r.params) \o PutBytes(r.blob) \o PutBool(r.requires_confirmation)

CanonicalEngineeringResult(r) ==
    PutI32(ToI32(ResultStatusNames, r.status)) \o PutStr(r.detail)
      \o PutMapSorted(r.outputs) \o PutBytes(r.blob)

CanonicalEngineering(e) ==
    IF e.payload = << >> THEN PutU8(0)
    ELSE LET s == e.payload[1]
         IN  CASE s.kind = "Request" -> PutU8(1) \o CanonicalEngineeringRequest(s)
               [] s.kind = "Ack"     -> PutU8(2) \o CanonicalAck(s)
               [] s.kind = "Result"  -> PutU8(3) \o CanonicalEngineeringResult(s)

\* canonical_payload_bytes: the domain tag 1..4, then the domain's encoding.
CanonicalPayloadBytes(p) ==
    CASE p.kind = "Telemetry"   -> PutU8(1) \o CanonicalTelemetry(p)
      [] p.kind = "Command"     -> PutU8(2) \o CanonicalCommand(p)
      [] p.kind = "Config"      -> PutU8(3) \o CanonicalConfig(p)
      [] p.kind = "Engineering" -> PutU8(4) \o CanonicalEngineering(p)

PayloadHash(p) == Sha256(CanonicalPayloadBytes(p))

\* envelope_signing_bytes: the tag, the header, routing hints, the security
\* header without the signature, the auth_context digest and the payload
\* digest.  Undefined (the code panics) when the payload is None.
EnvelopeSigningBytes(env) ==
    PutBytes(DOMAIN_TAG)
      \o PutU32(env.proto_ver) \o PutI32(ToI32(MsgClassNames, env.msg_class))
      \o PutStr(env.sender_id) \o PutStr(env.sender_instance)
      \o PutU64(env.counter) \o PutU32(env.ttl_ms)
      \o PutStr(env.transaction_id) \o PutStr(env.idempotency_key)
      \o PutI32(ToI32(DeliveryProfileNames, env.delivery_profile))
      \o PutStr(env.topic) \o PutStr(env.target) \o PutStr(env.scope)
      \o PutI32(ToI32(SigAlgNames, env.sig_alg)) \o PutStr(env.key_id)
      \o Sha256(env.auth_context)
      \o PayloadHash(env.payload)
=============================================================================
