----------------------------- MODULE MCSigning -----------------------------
(***************************************************************************)
(* Bounded inputs for Signing.  Strings are "" and "a" (UTF-8 <<97>>), so  *)
(* two neighbouring string fields can trade their contents; every payload  *)
(* variant appears with its string, list, map, option and enum fields      *)
(* varied over two values, and enums include an unrecognized code.         *)
(***************************************************************************)
EXTENDS Signing

S0 == << >>
Sa == <<97>>
Str2 == {S0, Sa}
\* BTreeMaps: empty, one entry, and both keys "" and "a".
Maps == {<< >>} \cup {[k \in {k1} |-> v] : k1 \in Str2, v \in Str2}
          \cup {[k \in Str2 |-> IF k = S0 THEN Sa ELSE S0]}

MCSignerKey == "device-1"
MCSignerKeyId == <<107>>

\* The strings, byte vectors and keys any envelope here carries.
MCStr == Str2 \cup {MCSignerKeyId}
MCBytes == {S0, <<0>>}
MCKeys == {MCSignerKey}

TelemetryPayloads ==
    {[kind |-> "Telemetry", payload |-> << >>]}
    \cup {[kind |-> "Telemetry", payload |-> <<s>>] :
            s \in {[kind |-> "Heartbeat", uptime_ms |-> u, health |-> h] :
                      u \in {0, 1}, h \in {Variant("Ok"), Unknown(7)}}
                  \cup {[kind |-> "Birth", vendor |-> v, model |-> m, serial |-> S0,
                         hw_rev |-> S0, fw_rev |-> S0, uptime_ms |-> 0,
                         capabilities |-> c] :
                          v \in Str2, m \in Str2, c \in {<< >>, <<S0>>}}
                  \cup {[kind |-> "Death", reason |-> Variant("GracefulShutdown"),
                         uptime_ms |-> 0, detail |-> d] : d \in Str2}
                  \cup {[kind |-> "State", local_seq |-> 0, items |-> its] :
                          its \in {<< >>}
                            \cup {<<[key |-> S0, unit |-> S0, quality |-> Variant("Good"),
                                     value |-> val]>> :
                                    val \in {<< >>, <<[kind |-> "S", s |-> S0]>>,
                                             <<[kind |-> "Blob", blob |-> S0]>>,
                                             <<[kind |-> "U64", u64 |-> 0]>>,
                                             <<[kind |-> "I64", i64 |-> -1]>>,
                                             <<[kind |-> "F64", f64 |-> 0]>>,
                                             <<[kind |-> "B", b |-> FALSE]>>}}}
                  \cup {[kind |-> "Alarm", severity |-> Variant("Info"), code |-> c,
                         summary |-> sm, detail |-> S0, related_key |-> S0,
                         recommended_action |-> S0] : c \in Str2, sm \in Str2}
                  \cup {[kind |-> "Observation", subject |-> sb,
                         type |-> Variant("Threat"), confidence_pct |-> 0,
                         summary |-> sm, detail |-> S0] :
                          sb \in {<< >>, <<[subject_id |-> S0]>>}, sm \in Str2}}

AckOf(d) == [kind |-> "Ack", status |-> Variant("Received"), detail |-> d]
ResultOf(d) == [kind |-> "Result", status |-> Variant("Completed"), detail |-> d]

CommandPayloads ==
    {[kind |-> "Command", payload |-> << >>]}
    \cup {[kind |-> "Command", payload |-> <<s>>] :
            s \in {[kind |-> "Request", request_id |-> r, command |-> S0, target |-> S0,
                    params |-> m, blob |-> S0, requires_confirmation |-> b] :
                     r \in Str2, m \in Maps, b \in BOOLEAN}
                  \cup {AckOf(d) : d \in Str2} \cup {ResultOf(d) : d \in Str2}}

ConfigPayloads ==
    {[kind |-> "Config", payload |-> << >>]}
    \cup {[kind |-> "Config", payload |-> <<s>>] :
            s \in {[kind |-> "Query", keys |-> ks] : ks \in {<< >>, <<S0>>, <<Sa>>, <<S0, S0>>}}
                  \cup {[kind |-> "Snapshot", config_version |-> 0, params |-> m] : m \in Maps}
                  \cup {[kind |-> "Update", update_id |-> u, strict |-> b, params |-> m] :
                          u \in Str2, b \in BOOLEAN, m \in Maps}
                  \cup {AckOf(d) : d \in Str2} \cup {ResultOf(d) : d \in Str2}}

EngineeringPayloads ==
    {[kind |-> "Engineering", payload |-> << >>]}
    \cup {[kind |-> "Engineering", payload |-> <<s>>] :
            s \in {[kind |-> "Request", request_id |-> r, action |-> S0, target |-> S0,
                    params |-> m, blob |-> S0, requires_confirmation |-> b] :
                     r \in Str2, m \in Maps, b \in BOOLEAN}
                  \cup {AckOf(d) : d \in Str2}
                  \cup {[kind |-> "Result", status |-> Variant("Completed"), detail |-> d,
                         outputs |-> m, blob |-> bl] :
                          d \in Str2, m \in Maps, bl \in {S0, <<0>>}}}

Payloads == TelemetryPayloads \cup CommandPayloads \cup ConfigPayloads \cup EngineeringPayloads

\* The envelope the signer builds, around each payload.
BaseEnvelope(mc, p) ==
    [proto_ver |-> 1, msg_class |-> mc, sender_id |-> Sa, sender_instance |-> S0,
     counter |-> 1, ttl_ms |-> 5, transaction_id |-> Sa, idempotency_key |-> S0,
     delivery_profile |-> Variant("BestEffort"), topic |-> Sa, target |-> S0,
     scope |-> S0, payload |-> p, sig_alg |-> Variant("Unspecified"),
     signature |-> JunkSignature(0), key_id |-> S0, auth_context |-> S0]

MCUnsigned == {BaseEnvelope(Variant("Telemetry"), p) : p \in Payloads}

\* Fewer envelopes, for an attacker who rewrites two header fields.
MCUnsignedHeartbeat ==
    {BaseEnvelope(Variant("Telemetry"), HeartbeatPayload(u, h)) :
        u \in {0, 1}, h \in {Variant("Ok"), Unknown(7)}}

\* The signer also sets enum fields to recognized codes held as Unknown.
MCUnsignedUnknown ==
    {BaseEnvelope(mc, p) : mc \in {Variant("Telemetry"), Unknown(1), Unknown(99)},
                           p \in {HeartbeatPayload(0, Variant("Ok"))}}

\* Wire values the attacker may write into each field.
MCAlternatives ==
    [proto_ver |-> {1, 2}, msg_class |-> {1, 2, 99},
     sender_id |-> Str2, sender_instance |-> Str2, counter |-> {1, 2},
     ttl_ms |-> {5, 0}, transaction_id |-> Str2, idempotency_key |-> Str2,
     delivery_profile |-> {1, 2}, topic |-> Str2, target |-> Str2, scope |-> Str2,
     payload |-> {PayloadCoreToProto(p) : p \in Payloads} \cup {NoPayload},
     sig_alg |-> {0, 1}, key_id |-> Str2 \cup {MCSignerKeyId},
     auth_context |-> {S0, <<0>>}]
=============================================================================
