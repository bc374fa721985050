------------------------------ MODULE OpenEnum ------------------------------
(***************************************************************************)
(* The open enumerations of hmf-core (envelope/types.rs).  Every enum has  *)
(* a closed list of named variants, numbered 0, 1, 2, ... in declaration   *)
(* order, plus a catch-all Unknown(i32) carrying the original code.        *)
(*                                                                         *)
(* A domain value is a record: [tag |-> "Telemetry"] for a named variant   *)
(* and [tag |-> "Unknown", code |-> x] for Unknown(x).  Each enum is given *)
(* by the sequence of its variant names; the i-th name has code i - 1.     *)
(***************************************************************************)
EXTENDS Integers, Sequences

Variant(name) == [tag |-> name]
Unknown(x) == [tag |-> "Unknown", code |-> x]

\* Mutant: the range check stops one short of the last variant.
FromI32ShortRange(names, v) ==
    IF v \in 0 .. Len(names) - 2 THEN Variant(names[v + 1]) ELSE Unknown(v)

\* from_i32: total; a code with no named variant becomes Unknown(code).
FromI32(names, v) ==
    IF v \in 0 .. Len(names) - 1 THEN Variant(names[v + 1]) ELSE Unknown(v)

\* to_i32: a named variant gives its position, Unknown(x) gives x back.
ToI32(names, e) ==
    IF e.tag = "Unknown"
    THEN e.code
    ELSE CHOOSE i \in 0 .. Len(names) - 1 : names[i + 1] = e.tag

MsgClassNames == <<"Unspecified", "Telemetry", "Command", "Config", "Engineering">>
DeliveryProfileNames ==
    <<"Unspecified", "BestEffort", "AtLeastOnce", "OrderedReliable", "CriticalExec">>
SigAlgNames == <<"Unspecified", "Ed25519">>
AckStatusNames == <<"Unspecified", "Received", "Rejected">>
ResultStatusNames == <<"Unspecified", "Completed", "Applied", "Rejected", "Failed">>
DeathReasonNames ==
    <<"Unspecified", "GracefulShutdown", "LostNetwork", "WatchdogReset", "FatalFault">>
HealthNames == <<"Unspecified", "Ok", "Degraded", "Faulted">>
QualityNames == <<"Unspecified", "Good", "Uncertain", "Bad">>
AlarmSeverityNames == <<"Unspecified", "Info", "Warning", "Critical">>
ObservationTypeNames == <<"Unspecified", "Threat", "Anomaly", "Compliance">>

=============================================================================
