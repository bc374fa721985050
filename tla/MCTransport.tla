----------------------------- MODULE MCTransport ----------------------------
(* Bounds for model checking Transport. *)
EXTENDS Transport

\* Two values of the clock are enough to make two heartbeats with the same
\* counter differ; where only order matters the counter tells them apart.
MCUptimes == {1, 2}
MCOneUptime == {1}

\* The frames a misbehaving client may write.
MCNoRogue == {}
MCAllRogue == {"zero", "toolarge", "junk", "forged", "replay"}

\* The signing input as the signed content itself (the envelope without its
\* signature).  It replaces Canonical's byte-exact envelope_signing_bytes
\* here, which is sound because that encoding is injective on what differs
\* between two envelopes (SignatureBinding, checked by MCSigning), and it
\* keeps the byte strings out of every state.
MCSigningBytes(env) == [f \in DOMAIN env \ {"signature"} |-> env[f]]

\* Bound the other client's frames so the state space stays finite.
MCMaxRogueFrames == 1
=============================================================================
