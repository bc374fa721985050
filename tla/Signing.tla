------------------------------ MODULE Signing ------------------------------
(***************************************************************************)
(* One signed envelope on its way from a signer to a verifier, through    *)
(* an attacker who controls the wire:                                     *)
(*  - the signer builds an envelope, signs it with sign_envelope_ed25519  *)
(*    (envelope/sign.rs) over the canonical bytes of Canonical, and sends *)
(*    its wire form (envelope_core_to_proto, convert/v1.rs);              *)
(*  - the attacker rewrites up to MaxTampers fields of the wire message;  *)
(*  - the verifier translates it back (envelope_proto_to_core) and calls  *)
(*    verify_envelope_ed25519 with the signer's public key.               *)
(* The library API is modelled directly, as a caller that verifies what   *)
(* it decodes (spec 4.3); the warden's path, which validates first, is    *)
(* Transport's.                                                            *)
(***************************************************************************)
EXTENDS Integers, Sequences, FiniteSets, Envelope, Canonical, Domain

CONSTANTS
    Unsigned,       \* envelopes the signer may build, before signing
    Alternatives,   \* field name -> wire values the attacker may write there
    MaxTampers,     \* fields the attacker rewrites at most
    SignerKey,      \* the signer's key pair
    SignerKeyId     \* the key_id it signs with

ASSUME MaxTampers \in Nat

VARIABLES
    pc,         \* "build", "sent" or "done"
    signed,     \* the envelope as signed
    wire,       \* the wire message in flight
    tampers,    \* fields rewritten so far
    received,   \* what envelope_proto_to_core gave the verifier
    verdict     \* what verify_envelope_ed25519 returned

vars == <<pc, signed, wire, tampers, received, verdict>>

NoEnvelopeYet == [none |-> TRUE]

\* sign_envelope_ed25519 then envelope_core_to_proto.
Sign ==
    /\ pc = "build"
    /\ \E e \in Unsigned :
         LET s == SignEnvelopeEd25519(e, SignerKeyId, SignerKey)
         IN  /\ ~SignPanics(e)
             /\ signed' = s
             /\ wire' = EnvelopeCoreToProto(s)
    /\ pc' = "sent"
    /\ UNCHANGED <<tampers, received, verdict>>

\* The attacker replaces one field of the wire message.
Tamper ==
    /\ pc = "sent"
    /\ tampers < MaxTampers
    /\ \E f \in DOMAIN Alternatives :
         \E v \in Alternatives[f] :
           /\ v # wire[f]
           /\ wire' = [wire EXCEPT ![f] = v]
    /\ tampers' = tampers + 1
    /\ UNCHANGED <<pc, signed, received, verdict>>

\* envelope_proto_to_core, then verify_envelope_ed25519.
Receive ==
    /\ pc = "sent"
    /\ LET core == EnvelopeProtoToCore(wire)
       IN  /\ received' = core
           /\ verdict' = VerifyEnvelopeEd25519(core, SignerKey)
    /\ pc' = "done"
    /\ UNCHANGED <<signed, wire, tampers>>

\* The signer's loop moves on to its next envelope.
NextMessage ==
    /\ pc = "done"
    /\ pc' = "build"
    /\ signed' = NoEnvelopeYet
    /\ wire' = NoEnvelopeYet
    /\ tampers' = 0
    /\ received' = NoEnvelopeYet
    /\ verdict' = "none"

Init ==
    /\ pc = "build"
    /\ signed = NoEnvelopeYet
    /\ wire = NoEnvelopeYet
    /\ tampers = 0
    /\ received = NoEnvelopeYet
    /\ verdict = "none"

Next == Sign \/ Tamper \/ Receive \/ NextMessage

Spec == Init /\ [][Next]_vars
-----------------------------------------------------------------------------
(* Properties. *)

\* The type invariant.  envelope_proto_to_core turns whatever wire message
\* the attacker leaves into a value of the domain types (types.rs): every
\* sub-message the struct of its variant, and every enum field an enum of
\* its own kind as from_i32 gives it, so that a code with a name is never
\* held as Unknown.  A from_i32 whose range check misses a variant, or a
\* conversion that reads a field with another enum's table, breaks it.
TypeOK ==
    /\ pc \in {"build", "sent", "done"}
    /\ tampers \in 0 .. MaxTampers
    /\ received = NoEnvelopeYet \/ IsEnvelope(received)
    /\ verdict \in {"none", "valid", "invalid", "panic"}

\* What an untouched wire delivers for the signed envelope.
Delivered(env) == EnvelopeProtoToCore(EnvelopeCoreToProto(env))

\* Signature binding (spec 8): verify_envelope_ed25519 accepts only the
\* envelope that was signed.  Rewriting any signed field, the payload
\* included, makes verification fail: the canonical bytes are injective on
\* every change the attacker can make.
SignatureBinding ==
    verdict = "valid" => received = Delivered(signed)

\* A signed envelope that arrives unchanged verifies with the signer's key
\* (spec 8): signing and verifying compute the same canonical bytes, so
\* sign must set sig_alg and key_id before it computes them.
GenuineVerifies ==
    (pc = "done" /\ wire = EnvelopeCoreToProto(signed)) => verdict = "valid"

\* verify returns false and never raises (spec 4.3), whatever envelope a
\* caller hands it.
VerifyNeverPanics == verdict # "panic"

\* Domain -> wire -> domain is the identity for every representable value,
\* unrecognized enum codes included (spec 4.5, 8).
WireRoundTrip ==
    (pc = "done" /\ wire = EnvelopeCoreToProto(signed)) => received = signed
=============================================================================
