------------------------------ MODULE Domain -------------------------------
(***************************************************************************)
(* The domain structs of hmf-core (envelope/types.rs) and the identifier   *)
(* newtypes of ids.rs, as sets of values: the types of Envelope's records. *)
(*                                                                         *)
(* A struct is a record of its fields; a variant of an enum with data is  *)
(* the record of its struct plus its variant name as "kind"; an Option is *)
(* a sequence of length 0 or 1; a Vec is a sequence; a BTreeMap<String,    *)
(* String> is a function from a finite set of strings to strings.  The     *)
(* strings, byte vectors and signing keys in play are constants, so that   *)
(* every type is a set TLC can test membership in.  Integers are Nat for  *)
(* unsigned and Int for signed fields; f64 is abstracted to Int as it is  *)
(* everywhere in this project.                                             *)
(***************************************************************************)
EXTENDS Integers, Sequences, OpenEnum

CONSTANTS
    Str,    \* the Strings in play (byte sequences)
    Bytes,  \* the Vec<u8> values in play, other than signatures
    Keys    \* the signing keys that may have made a signature

\* An open enum as from_i32 produces it: a named variant, or Unknown(i32)
\* of a code that no variant has.  Every enum field of a decoded envelope
\* is of this type; Unknown(1) is a Rust value too, but no decoder gives it.
Enum(names) ==
    {Variant(names[i]) : i \in DOMAIN names}
    \cup [tag : {"Unknown"}, code : Int \ (0 .. Len(names) - 1)]

Option(T) == {<< >>} \cup [1 .. 1 -> T]
StrMap == UNION {[K -> Str] : K \in SUBSET Str}

\* ids.rs: each identifier wraps a String.
DeviceId == Str
InstanceId == Str
TransactionId == Str
IdempotencyKey == Str

\* A signature Vec<u8>, abstracted as Envelope does: the key that made it
\* ("none" for junk) and its length.  The bytes it covers are the signing
\* input, which the type leaves free.
Signature == [key : Keys \cup {"none"}, len : Nat]

\* ----- Telemetry -----
LifecycleBirth ==
    [kind : {"Birth"}, vendor : Str, model : Str, serial : Str, hw_rev : Str,
     fw_rev : Str, uptime_ms : Nat, capabilities : Seq(Str)]
LifecycleHeartbeat ==
    [kind : {"Heartbeat"}, uptime_ms : Nat, health : Enum(HealthNames)]
LifecycleDeath ==
    [kind : {"Death"}, reason : Enum(DeathReasonNames), uptime_ms : Nat, detail : Str]
StateValue ==
    [kind : {"F64"}, f64 : Int] \cup [kind : {"I64"}, i64 : Int]
    \cup [kind : {"U64"}, u64 : Nat] \cup [kind : {"B"}, b : BOOLEAN]
    \cup [kind : {"S"}, s : Str] \cup [kind : {"Blob"}, blob : Bytes]
StateItem ==
    [key : Str, value : Option(StateValue), unit : Str, quality : Enum(QualityNames)]
StateUpdate == [kind : {"State"}, local_seq : Nat, items : Seq(StateItem)]
Alarm ==
    [kind : {"Alarm"}, severity : Enum(AlarmSeverityNames), code : Str,
     summary : Str, detail : Str, related_key : Str, recommended_action : Str]
Subject == [subject_id : Str]
Observation ==
    [kind : {"Observation"}, subject : Option(Subject),
     type : Enum(ObservationTypeNames), confidence_pct : Nat, summary : Str,
     detail : Str]
TelemetryPayload ==
    LifecycleBirth \cup LifecycleHeartbeat \cup LifecycleDeath \cup StateUpdate
    \cup Alarm \cup Observation
Telemetry == [kind : {"Telemetry"}, payload : Option(TelemetryPayload)]

\* ----- Common -----
Ack == [kind : {"Ack"}, status : Enum(AckStatusNames), detail : Str]
OpResult == [kind : {"Result"}, status : Enum(ResultStatusNames), detail : Str]

\* ----- Command -----
CommandRequest ==
    [kind : {"Request"}, request_id : Str, command : Str, target : Str,
     params : StrMap, blob : Bytes, requires_confirmation : BOOLEAN]
Command == [kind : {"Command"}, payload : Option(CommandRequest \cup Ack \cup OpResult)]

\* ----- Config -----
ConfigQuery == [kind : {"Query"}, keys : Seq(Str)]
ConfigSnapshot == [kind : {"Snapshot"}, config_version : Nat, params : StrMap]
ConfigUpdate == [kind : {"Update"}, update_id : Str, strict : BOOLEAN, params : StrMap]
Config ==
    [kind : {"Config"},
     payload : Option(ConfigQuery \cup ConfigSnapshot \cup ConfigUpdate \cup Ack \cup OpResult)]

\* ----- Engineering -----
EngineeringRequest ==
    [kind : {"Request"}, request_id : Str, action : Str, target : Str,
     params : StrMap, blob : Bytes, requires_confirmation : BOOLEAN]
EngineeringResult ==
    [kind : {"Result"}, status : Enum(ResultStatusNames), detail : Str,
     outputs : StrMap, blob : Bytes]
Engineering ==
    [kind : {"Engineering"},
     payload : Option(EngineeringRequest \cup Ack \cup EngineeringResult)]

Payload == Telemetry \cup Command \cup Config \cup Engineering

\* Envelope; its Option<Payload> is a Payload or [kind |-> "None"].
EnvelopeT ==
    [proto_ver : Nat, msg_class : Enum(MsgClassNames), sender_id : DeviceId,
     sender_instance : InstanceId, counter : Nat, ttl_ms : Nat,
     transaction_id : TransactionId, idempotency_key : IdempotencyKey,
     delivery_profile : Enum(DeliveryProfileNames), topic : Str, target : Str,
     scope : Str, payload : Payload \cup {[kind |-> "None"]},
     sig_alg : Enum(SigAlgNames), signature : Signature, key_id : Str,
     auth_context : Bytes]

\* e is a value of type Envelope (its signature's covered bytes aside).
IsEnvelope(e) ==
    [e EXCEPT !.signature = [key |-> e.signature.key, len |-> e.signature.len]] \in EnvelopeT
=============================================================================
