------------------------------ MODULE Transport -----------------------------
(***************************************************************************)
(* The device and the warden talking over TCP, through hmf-transport.      *)
(*                                                                         *)
(*  - the device (bins/hmf-device/src/main.rs) connects once per process,  *)
(*    then loops: build a heartbeat, sign it, write_record it, counter+1;  *)
(*  - write_record (transport/tcp.rs) validates, encodes, frames with      *)
(*    record_encode (record.rs) and write_all's the frame, which the       *)
(*    kernel may split into several writes;                                *)
(*  - the warden (bins/hmf-warden/src/main.rs) accepts one connection at   *)
(*    a time and loops read_record, which is record_decode (read_exact of  *)
(*    the 4-byte length, then of the payload), decode and validate; then   *)
(*    it verifies the signature and drops the envelope if it is invalid;   *)
(*  - any other client (a misbehaving or hostile peer) may connect and     *)
(*    write arbitrary frames; the network may reset a connection; the      *)
(*    device process may be killed and restarted.                          *)
(*                                                                         *)
(* A connection is the byte stream one client writes: the bytes of the    *)
(* frames it started to write (with each frame's envelope and end offset), *)
(* how many of them reached the socket (wrote), how many the warden        *)
(* consumed (rpos), and the state of the client's end: "open", "fin"      *)
(* (closed: EOF after the buffered bytes) or "rst" (reset: reads fail with *)
(* ConnectionReset, buffered bytes are discarded).  A length prefix is     *)
(* four bytes 0..255; payload bytes are the abstract bytes of Envelope.    *)
(***************************************************************************)
EXTENDS Integers, Sequences, SequencesExt, FiniteSets, Envelope

CONSTANTS
    MaxRecordLen,     \* MAX_RECORD_LEN, scaled down to the abstract byte size
    MaxBoots,         \* device process starts (first boot + restarts)
    MaxCounter,       \* heartbeats sent per device process
    Uptimes,          \* values SystemTime::now() may give uptime_ms
    RogueFrameKinds,  \* frames another client may write ({} for none)
    MaxRogueFrames,   \* frames that client writes at most
    MaxResets,        \* connection resets the network may cause
    HostCrashes       \* whether the device's host may crash (power loss)

ASSUME MaxRecordLen \in Nat /\ MaxRecordLen >= WireLen
ASSUME MaxBoots \in Nat \ {0} /\ MaxCounter \in Nat \ {0}
ASSUME HostCrashes \in BOOLEAN
ASSUME RogueFrameKinds \subseteq {"zero", "toolarge", "junk", "forged", "replay"}

\* The device's fixed key and identities (main.rs 13, 38-47, 59).  A
\* string literal is a byte string; distinct literals get distinct
\* one-byte stand-ins, since only their equality matters here.
DeviceKey == "device-1"
DeviceKeyId == <<1>>
SenderId == <<2>>
DeviceInstance == <<3>>
Topic == <<4>>
Target == <<5>>
Scope == <<6>>
RogueKey == "rogue"

\* format!("txn-{counter}") and format!("idem-{counter}"): the ASCII
\* prefix, then the decimal digits of the counter.
RECURSIVE Decimal(_)
Decimal(n) == IF n < 10 THEN <<48 + n>> ELSE Decimal(n \div 10) \o <<48 + (n % 10)>>
TxnId(counter) == <<116, 120, 110, 45>> \o Decimal(counter)
IdemKey(counter) == <<105, 100, 101, 109, 45>> \o Decimal(counter)

MaxConns == MaxBoots + (IF RogueFrameKinds = {} THEN 0 ELSE 1)
ConnIds == 1 .. MaxConns

VARIABLES
    conns,      \* ConnIds -> connection record
    nextConn,   \* next unused connection id
    backlog,    \* connections established and not yet accepted, in order
    dev,        \* the device process
    warden,     \* the warden process
    rogue,      \* the other client
    resets,     \* resets caused so far
    signed,     \* history: every envelope the device signed
    accepted    \* history: every envelope the warden verified, in order

vars == <<conns, nextConn, backlog, dev, warden, rogue, resets, signed, accepted>>

-----------------------------------------------------------------------------
(* Record framing (record.rs). *)

\* (len as u32).to_be_bytes() and u32::from_be_bytes.
BeBytes4(n) == <<(n \div 16777216) % 256, (n \div 65536) % 256,
                 (n \div 256) % 256, n % 256>>
FromBeBytes4(b) == ((b[1] * 256 + b[2]) * 256 + b[3]) * 256 + b[4]

\* len > u32::MAX, written so that TLC's 32-bit integers do not overflow.
ExceedsU32(n) == (n \div 65536) \div 65536 > 0

\* record_encode: TooLarge above MAX_RECORD_LEN or u32::MAX, else prefix ++ payload.
RecordEncode(payload) ==
    IF Len(payload) > MaxRecordLen \/ ExceedsU32(Len(payload))
    THEN [ok |-> FALSE, bytes |-> << >>]
    ELSE [ok |-> TRUE, bytes |-> BeBytes4(Len(payload)) \o payload]

\* The heartbeat the device builds (main.rs 24-57), before signing.
HeartbeatEnvelope(counter, uptime) ==
    [proto_ver |-> EXPECTED_PROTO_VER, msg_class |-> Variant("Telemetry"),
     sender_id |-> SenderId, sender_instance |-> DeviceInstance,
     counter |-> counter, ttl_ms |-> 5000,
     transaction_id |-> TxnId(counter), idempotency_key |-> IdemKey(counter),
     delivery_profile |-> Variant("BestEffort"), topic |-> Topic,
     target |-> Target, scope |-> Scope,
     payload |-> HeartbeatPayload(uptime, Variant("Ok")),
     sig_alg |-> Variant("Unspecified"), signature |-> JunkSignature(0),
     key_id |-> << >>, auth_context |-> << >>]

NoEnvelope == EnvelopeProtoToCore(DefaultProtoEnvelope)

\* A write unit of a connection: the envelope it carries and its bytes.
Frame(env, bytes) == [env |-> env, bytes |-> bytes]

\* Start writing frame f on connection record cc.
AddFrame(cc, f) ==
    [cc EXCEPT !.bytes = @ \o f.bytes, !.envs = Append(@, f.env),
               !.ends = Append(@, Len(cc.bytes) + Len(f.bytes))]

\* The frames another client may write.  "forged" claims the device's key
\* id but is signed with another key; "replay" resends an envelope the
\* device signed, as seen on the network.
RogueFrames(kind) ==
    CASE kind = "zero"     -> {Frame(NoEnvelope, BeBytes4(0))}
      [] kind = "toolarge" -> {Frame(NoEnvelope, BeBytes4(MaxRecordLen + 1))}
      [] kind = "junk"     -> {Frame(NoEnvelope, BeBytes4(1) \o <<JunkByte>>)}
      [] kind = "forged"   ->
            {LET e == SignEnvelopeEd25519(HeartbeatEnvelope(1, u), DeviceKeyId, RogueKey)
             IN  Frame(e, RecordEncode(EnvelopeEncode(e)).bytes) : u \in Uptimes}
      [] kind = "replay"   ->
            {Frame(e, RecordEncode(EnvelopeEncode(e)).bytes) : e \in signed}

NewConn(client) ==
    [client |-> client, st |-> "open", wclosed |-> FALSE, bytes |-> << >>,
     envs |-> << >>, ends |-> << >>, wrote |-> 0, rpos |-> 0, delivered |-> << >>, ended |-> "no", endpos |-> 0,
     orphan |-> FALSE]

\* The bytes written to c and not yet consumed by the warden.
Unread(c) == SubSeq(conns[c].bytes, conns[c].rpos + 1, conns[c].wrote)

\* Byte offsets at which a frame of c starts or the last one ends.
Boundaries(c) == {0} \cup Range(conns[c].ends)

-----------------------------------------------------------------------------
(* The device process (bins/hmf-device/src/main.rs). *)

\* The warden's listener is bound and not yet closed by its exit.
Listening == warden.pc \notin {"bind", "exited"}

\* TcpStream::connect: refused (ECONNREFUSED, `?` ends main) while no
\* listener is bound: before the warden's bind or after it exited.
DevConnect ==
    /\ dev.pc = "connect"
    /\ \/ /\ Listening
          /\ nextConn <= MaxConns
          /\ conns' = [conns EXCEPT ![nextConn] = NewConn("device")]
          /\ backlog' = Append(backlog, nextConn)
          /\ nextConn' = nextConn + 1
          /\ dev' = [dev EXCEPT !.pc = "send", !.conn = nextConn]
       \/ /\ ~Listening
          /\ dev' = [dev EXCEPT !.pc = "exited"]
          /\ UNCHANGED <<conns, backlog, nextConn>>
    /\ UNCHANGED <<warden, rogue, resets, signed, accepted>>

\* One loop iteration up to write_all: build, sign_envelope_ed25519, then
\* write_record's envelope_validate, envelope_encode and record_encode.
\* The frame becomes the connection's next write unit; its bytes reach the
\* socket in DevWrite.  A failing step ends main with an error.
DevSend ==
    /\ dev.pc = "send"
    /\ dev.counter <= MaxCounter
    /\ \E u \in Uptimes :
         LET env0 == HeartbeatEnvelope(dev.counter, u)
             env == SignEnvelopeEd25519(env0, DeviceKeyId, DeviceKey)
             rec == RecordEncode(EnvelopeEncode(env))
         IN  IF SignPanics(env0) \/ EnvelopeValidate(env) # "Ok" \/ ~rec.ok
             THEN /\ dev' = [dev EXCEPT !.pc = "exited"]
                  /\ conns' = [conns EXCEPT ![dev.conn].st = IF @ = "open" THEN "fin" ELSE @]
                  /\ UNCHANGED signed
             ELSE /\ conns' = [conns EXCEPT ![dev.conn] =
                                               AddFrame(@, Frame(env, rec.bytes))]
                  /\ dev' = [dev EXCEPT !.pc = "write", !.rest = Len(rec.bytes)]
                  /\ signed' = signed \cup {env}
    /\ UNCHANGED <<nextConn, backlog, warden, rogue, resets, accepted>>

\* A write_all that believes it wrote one byte more than it had.
DevWriteOverCount ==
    /\ dev.pc = "write"
    /\ conns[dev.conn].st = "open"
    /\ \E k \in 1 .. dev.rest + 1 :
         /\ conns' = [conns EXCEPT ![dev.conn].wrote = @ + k]
         /\ dev' = IF k >= dev.rest
                   THEN [dev EXCEPT !.pc = "send", !.rest = 0, !.counter = @ + 1]
                   ELSE [dev EXCEPT !.rest = @ - k]
    /\ UNCHANGED <<nextConn, backlog, warden, rogue, resets, signed, accepted>>

\* write_all: one write(2) of k of the remaining bytes.  After the last one
\* main increments counter and sleeps before the next iteration.
DevWrite ==
    /\ dev.pc = "write"
    /\ conns[dev.conn].st = "open"
    /\ \E k \in 1 .. dev.rest :
         /\ conns' = [conns EXCEPT ![dev.conn].wrote = @ + k]
         /\ dev' = IF k = dev.rest
                   THEN [dev EXCEPT !.pc = "send", !.rest = 0, !.counter = @ + 1]
                   ELSE [dev EXCEPT !.rest = @ - k]
    /\ UNCHANGED <<nextConn, backlog, warden, rogue, resets, signed, accepted>>

\* write_all fails (EPIPE / ECONNRESET) once the warden dropped the stream
\* or the connection was reset; `?` ends main and the socket is closed.
DevWriteFails ==
    /\ dev.pc = "write"
    /\ conns[dev.conn].wclosed \/ conns[dev.conn].st = "rst"
    /\ dev' = [dev EXCEPT !.pc = "exited"]
    /\ conns' = [conns EXCEPT ![dev.conn].st = IF @ = "open" THEN "fin" ELSE @]
    /\ UNCHANGED <<nextConn, backlog, warden, rogue, resets, signed, accepted>>

\* The device process is killed (or has exited) and started again: the
\* kernel closes its socket; the new process starts main from the top.
DevRestart ==
    /\ dev.boot < MaxBoots
    /\ conns' = IF dev.conn = 0 THEN conns
                ELSE [conns EXCEPT ![dev.conn].st = IF @ = "open" THEN "fin" ELSE @]
    /\ dev' = [pc |-> "connect", boot |-> dev.boot + 1, counter |-> 1,
               conn |-> 0, rest |-> 0]
    /\ UNCHANGED <<nextConn, backlog, warden, rogue, resets, signed, accepted>>
\* The device's host loses power and boots again.  Unlike a process exit,
\* nothing closes the socket: no FIN or RST is ever sent on the old
\* connection, and the warden, which only reads, never sends a segment
\* that would draw an RST from the rebooted host (no keepalive is set).
\* The connection stays open, orphaned, with what had reached the socket.
DevHostCrash ==
    /\ HostCrashes
    /\ dev.boot < MaxBoots
    /\ dev.conn # 0
    /\ conns' = [conns EXCEPT ![dev.conn].orphan = TRUE]
    /\ dev' = [pc |-> "connect", boot |-> dev.boot + 1, counter |-> 1,
               conn |-> 0, rest |-> 0]
    /\ UNCHANGED <<nextConn, backlog, warden, rogue, resets, signed, accepted>>
-----------------------------------------------------------------------------
(* The warden process (bins/hmf-warden/src/main.rs) and read_record. *)

\* read_exact(buf) of n bytes can return: n unread bytes are there.
ReadExactReadyOffByOne(un, n) == Len(un) > n
ReadExactReady(un, n) == Len(un) >= n

\* read_exact consumes exactly n bytes of the connection.
ReadExactDrains(cc, n) == [cc EXCEPT !.rpos = cc.wrote]
ReadExact(cc, n) == [cc EXCEPT !.rpos = @ + n]

\* TcpListener::bind: from here on connections are established.
WBind ==
    /\ warden.pc = "bind"
    /\ warden' = [warden EXCEPT !.pc = "accept"]
    /\ UNCHANGED <<conns, nextConn, backlog, dev, rogue, resets, signed, accepted>>

\* listener.accept(): the oldest established connection.
WAccept ==
    /\ warden.pc = "accept"
    /\ backlog # << >>
    /\ warden' = [warden EXCEPT !.pc = "prefix", !.conn = Head(backlog)]
    /\ backlog' = Tail(backlog)
    /\ UNCHANGED <<conns, nextConn, dev, rogue, resets, signed, accepted>>

\* A blocking read_exact of n bytes on c returns once n unread bytes are
\* there or the stream has ended.  It fails with the ErrorKind
\* ConnectionReset on a reset (buffered bytes are discarded), and with
\* UnexpectedEof on an EOF before n bytes, the bytes read so far being
\* consumed.  "None" is success.
ReadExactReturns(c, n) == conns[c].st \in {"rst", "fin"} \/ ReadExactReady(Unread(c), n)
\* read_exact of an empty buffer returns Ok without touching the socket.
ReadExactError(c, n) ==
    IF n = 0 THEN "None"
    ELSE IF conns[c].st = "rst" THEN "ConnectionReset"
    ELSE IF ReadExactReady(Unread(c), n) THEN "None"
    ELSE "UnexpectedEof"

\* Where a failed read_exact leaves the reader in the byte stream.
FailedReadPos(c, kind) ==
    IF kind = "ConnectionReset" THEN conns[c].rpos ELSE conns[c].wrote

\* RecordError and TransportError (hmf-transport error.rs) as values; the
\* #[from] conversions wrap an error with the name of its source.
RecordIo(kind) == [tag |-> "Io", kind |-> kind]
TooLarge(len, max) == [tag |-> "TooLarge", len |-> len, max |-> max]
Truncated(expected, got) == [tag |-> "Truncated", expected |-> expected, got |-> got]
TransportErr(from, e) == [from |-> from, err |-> e]
NoError == TransportErr("none", "none")
\* Not a TransportError: envelope_signing_bytes panics inside verify.
VerifyPanic == TransportErr("panic", "MissingPayload")

\* record_decode's map_err on the payload read_exact: an EOF is
\* Truncated { expected: len, got: 0 }, any other error stays Io.
PayloadReadError(kind, len) ==
    IF kind = "UnexpectedEof" THEN Truncated(len, 0) ELSE RecordIo(kind)

\* is_closed: the ErrorKinds read_record takes for a closed connection.
IsClosedNoReset(kind) == kind \in {"UnexpectedEof", "ConnectionAborted"}
IsClosed(kind) == kind \in {"UnexpectedEof", "ConnectionReset", "ConnectionAborted"}

\* read_record returned Ok(None): main breaks out of the read loop, the
\* stream is dropped and the warden goes back to accept.  pos is where
\* the reader stopped in the byte stream.
ReadReturnsNoneNoBreak(c, pos) ==
    /\ conns' = [conns EXCEPT ![c].rpos = pos, ![c].wclosed = TRUE,
                              ![c].ended = "none", ![c].endpos = pos]
    /\ UNCHANGED warden
ReadReturnsNone(c, pos) ==
    /\ conns' = [conns EXCEPT ![c].rpos = pos, ![c].wclosed = TRUE,
                              ![c].ended = "none", ![c].endpos = pos]
    /\ warden' = [pc |-> "accept", conn |-> 0, len |-> 0, err |-> NoError]

\* read_record (or the panic in verify) returned error err: `?` ends main.
\* The listener and every socket of the process are closed.
WardenFails(c, pos, err) ==
    /\ conns' = [d \in ConnIds |->
                   IF d = c
                   THEN [conns[d] EXCEPT !.rpos = pos, !.wclosed = TRUE,
                                         !.ended = "error", !.endpos = pos]
                   ELSE [conns[d] EXCEPT !.wclosed = TRUE]]
    /\ warden' = [warden EXCEPT !.pc = "exited", !.err = err]

\* read_record's match on record_decode's error: an Io error of a closed
\* kind is Ok(None), every other error is returned as TransportError::Record.
ReadRecordFails(c, e, pos) ==
    IF e.tag = "Io" /\ IsClosed(e.kind)
    THEN ReadReturnsNone(c, pos)
    ELSE WardenFails(c, pos, TransportErr("Record", e))

\* record_decode's read_exact of the 4-byte length prefix (its error
\* becomes RecordError::Io through `?`), then the check against max_len.
WReadPrefix ==
    /\ warden.pc = "prefix"
    /\ LET c == warden.conn
           kind == ReadExactError(c, 4)
       IN  /\ ReadExactReturns(c, 4)
           /\ IF kind # "None"
              THEN ReadRecordFails(c, RecordIo(kind), FailedReadPos(c, kind))
              ELSE LET len == FromBeBytes4(SubSeq(Unread(c), 1, 4))
                   IN  IF len > MaxRecordLen
                       THEN ReadRecordFails(c, TooLarge(len, MaxRecordLen),
                                            conns[c].rpos + 4)
                       ELSE /\ conns' = [conns EXCEPT ![c] = ReadExact(@, 4)]
                            /\ warden' = [warden EXCEPT !.pc = "payload", !.len = len]
    /\ UNCHANGED <<nextConn, backlog, dev, rogue, resets, signed, accepted>>

\* The first error after the payload is read: envelope_decode's
\* WireError::Decode and envelope_validate's ValidateError (read_record,
\* both through `?`), then the panic of verify_envelope_ed25519 in main.
PayloadError(d, v) ==
    CASE ~d.ok                          -> TransportErr("Wire", "Decode")
      [] EnvelopeValidate(d.env) # "Ok" -> TransportErr("Validate", EnvelopeValidate(d.env))
      [] v = "panic"                    -> VerifyPanic
      [] OTHER                          -> NoError

\* record_decode's read_exact of the payload, then read_record's decode
\* and validate, then verify_envelope_ed25519 in main: an invalid signature
\* is dropped ("continue"), a valid one is processed.
WReadPayload ==
    /\ warden.pc = "payload"
    /\ LET c == warden.conn
           len == warden.len
           kind == ReadExactError(c, len)
           pos == conns[c].rpos + len
           d == EnvelopeDecode(SubSeq(Unread(c), 1, len))
           v == VerifyEnvelopeEd25519(d.env, DeviceKey)
       IN  /\ ReadExactReturns(c, len)
           /\ IF kind # "None"
              THEN /\ ReadRecordFails(c, PayloadReadError(kind, len), FailedReadPos(c, kind))
                   /\ UNCHANGED accepted
              ELSE IF PayloadError(d, v) # NoError
              THEN WardenFails(c, pos, PayloadError(d, v)) /\ UNCHANGED accepted
              ELSE /\ conns' = [conns EXCEPT ![c] =
                                   [ReadExact(@, len) EXCEPT !.delivered = Append(@, d.env)]]
                   /\ warden' = [warden EXCEPT !.pc = "prefix", !.len = 0]
                   /\ accepted' = IF v = "valid" THEN Append(accepted, d.env) ELSE accepted
    /\ UNCHANGED <<nextConn, backlog, dev, rogue, resets, signed>>

-----------------------------------------------------------------------------
(* The environment: another client, and the network. *)

RogueConnect ==
    /\ rogue.pc = "idle"
    /\ RogueFrameKinds # {}
    /\ \/ /\ Listening
          /\ nextConn <= MaxConns
          /\ conns' = [conns EXCEPT ![nextConn] = NewConn("rogue")]
          /\ backlog' = Append(backlog, nextConn)
          /\ nextConn' = nextConn + 1
          /\ rogue' = [rogue EXCEPT !.pc = "open", !.conn = nextConn]
       \/ /\ ~Listening
          /\ rogue' = [rogue EXCEPT !.pc = "done"]
          /\ UNCHANGED <<conns, backlog, nextConn>>
    /\ UNCHANGED <<dev, warden, resets, signed, accepted>>

RogueSend ==
    /\ rogue.pc = "open"
    /\ rogue.sent < MaxRogueFrames
    /\ conns[rogue.conn].st = "open"
    /\ \E kind \in RogueFrameKinds :
         \E f \in RogueFrames(kind) :
           conns' = [conns EXCEPT ![rogue.conn] =
                                    [AddFrame(@, f) EXCEPT !.wrote = @ + Len(f.bytes)]]
    /\ rogue' = [rogue EXCEPT !.sent = @ + 1]
    /\ UNCHANGED <<nextConn, backlog, dev, warden, resets, signed, accepted>>

RogueClose ==
    /\ rogue.pc = "open"
    /\ conns' = [conns EXCEPT ![rogue.conn].st = IF @ = "open" THEN "fin" ELSE @]
    /\ rogue' = [rogue EXCEPT !.pc = "done"]
    /\ UNCHANGED <<nextConn, backlog, dev, warden, resets, signed, accepted>>

\* The network resets a live connection (RST from a middlebox, peer host
\* reboot): reads on it fail with ConnectionReset.
NetReset ==
    /\ resets < MaxResets
    /\ \E c \in 1 .. nextConn - 1 :
         /\ conns[c].st = "open"
         /\ ~conns[c].wclosed
         /\ conns' = [conns EXCEPT ![c].st = "rst"]
    /\ resets' = resets + 1
    /\ UNCHANGED <<nextConn, backlog, dev, warden, rogue, signed, accepted>>

-----------------------------------------------------------------------------
Init ==
    /\ conns = [c \in ConnIds |-> [NewConn("none") EXCEPT !.st = "idle"]]
    /\ nextConn = 1
    /\ backlog = << >>
    /\ dev = [pc |-> "connect", boot |-> 1, counter |-> 1, conn |-> 0, rest |-> 0]
    /\ warden = [pc |-> "bind", conn |-> 0, len |-> 0, err |-> NoError]
    /\ rogue = [pc |-> "idle", conn |-> 0, sent |-> 0]
    /\ resets = 0
    /\ signed = {}
    /\ accepted = << >>

Next ==
    \/ DevConnect \/ DevSend \/ DevWrite \/ DevWriteFails \/ DevRestart \/ DevHostCrash
    \/ WBind \/ WAccept \/ WReadPrefix \/ WReadPayload
    \/ RogueConnect \/ RogueSend \/ RogueClose \/ NetReset

\* The warden's read loop and the device's send loop never stop by
\* themselves while they can proceed: each is a thread blocked only in a
\* socket call (or a finite sleep).  Restarts, resets and the other
\* client are not assumed to happen.
Fairness ==
    /\ WF_vars(WBind) /\ WF_vars(WAccept) /\ WF_vars(WReadPrefix) /\ WF_vars(WReadPayload)
    /\ WF_vars(DevConnect) /\ WF_vars(DevSend) /\ WF_vars(DevWrite)

Spec == Init /\ [][Next]_vars /\ Fairness
-----------------------------------------------------------------------------
(* Properties. *)

TypeOK ==
    /\ nextConn \in 1 .. MaxConns + 1
    /\ \A c \in ConnIds :
         /\ conns[c].client \in {"none", "device", "rogue"}
         /\ conns[c].st \in {"idle", "open", "fin", "rst"}
         /\ conns[c].wclosed \in BOOLEAN
         /\ conns[c].ended \in {"no", "none", "error"}
         /\ conns[c].rpos \in 0 .. conns[c].wrote
         /\ conns[c].wrote \in 0 .. Len(conns[c].bytes)
         /\ conns[c].orphan \in BOOLEAN
    /\ \A i \in DOMAIN backlog : backlog[i] \in 1 .. nextConn - 1
    /\ dev.pc \in {"connect", "send", "write", "exited"}
    /\ dev.boot \in 1 .. MaxBoots /\ dev.counter \in 1 .. MaxCounter + 1
    /\ warden.pc \in {"bind", "accept", "prefix", "payload", "exited"}
    /\ warden.len \in 0 .. MaxRecordLen
    /\ warden.err.from \in {"none", "Record", "Wire", "Validate", "panic"}
    /\ warden.err.from = "Validate" => warden.err.err \in ValidateErrorNames
    /\ rogue.pc \in {"idle", "open", "done"}
    /\ resets \in 0 .. MaxResets

\* Where the frame the warden is reading starts in the byte stream.
WardenFrameStart ==
    IF warden.pc = "payload" THEN conns[warden.conn].rpos - 4
                             ELSE conns[warden.conn].rpos

\* Framing stays in step with the device: on a device connection, every
\* length prefix the warden reads (and the payload after it) starts where
\* a frame written by write_record starts, whatever the chunking of
\* write_all, restarts and resets.  A record_decode that consumes a byte
\* too many or too few desynchronises every later record.
FramingAligned ==
    \A c \in ConnIds :
        (/\ conns[c].client = "device"
         /\ warden.conn = c
         /\ warden.pc \in {"prefix", "payload"})
        => WardenFrameStart \in Boundaries(c)

\* read_record tells a closed connection from a broken record by the error
\* (is_closed, record_decode's map_err): a reset, or an EOF before a
\* length prefix, is Ok(None); only a stream ending inside a payload is
\* Truncated.  So with only the device connected, whatever the chunking of
\* write_all, the restarts and the resets, the one error that can stop the
\* warden is Truncated, on a connection whose stream ended inside a frame
\* (its device process died in the middle of write_all).
DeviceOnlyExitIsTruncation ==
    (RogueFrameKinds = {} /\ warden.pc = "exited")
        => /\ warden.err.from = "Record"
           /\ warden.err.err.tag = "Truncated"
           /\ conns[warden.conn].endpos \notin Boundaries(warden.conn)

\* The device's connections, seen as the channels of FifoChannel: what
\* write_record was handed on each (envs), what read_record returned on it
\* (delivered), and the connections the warden has dropped.
DeviceConn(c) == conns[c].client = "device"
SignedHeartbeats ==
    {SignEnvelopeEd25519(HeartbeatEnvelope(n, u), DeviceKeyId, DeviceKey) :
        n \in 1 .. MaxCounter, u \in Uptimes}
Chan == INSTANCE FifoChannel WITH
            Conns <- ConnIds,
            Msgs <- SignedHeartbeats,
            sent <- [c \in ConnIds |-> IF DeviceConn(c) THEN conns[c].envs ELSE << >>],
            recv <- [c \in ConnIds |-> IF DeviceConn(c) THEN conns[c].delivered ELSE << >>],
            closed <- {c \in ConnIds : DeviceConn(c) /\ conns[c].wclosed}

\* Transport implements a FIFO channel on every device connection: each
\* read_record returns the oldest envelope the device wrote and the warden
\* has not yet received, unaltered by validation, encoding, framing and
\* decoding, whatever the chunking of write_all, restarts and resets; none
\* is lost in the middle, duplicated or reordered, and nothing is received
\* on a connection the warden has dropped.
ImplementsFifoChannel == Chan!Spec

\* Every envelope the warden accepts (verify_envelope_ed25519 returned
\* true) was signed by the device: frames forged with another key, junk
\* and malformed frames from another client never get through.  Replays
\* of what the device signed are not excluded (replay protection is a
\* caller concern).
AcceptedAuthentic ==
    \A i \in DOMAIN accepted : accepted[i] \in signed

\* Every heartbeat the device has completely written on a connection is
\* eventually returned by read_record, whether or not the warden is
\* serving that connection yet, unless the connection was reset or the
\* warden has stopped: after a restart the new connection waits in the
\* backlog until the warden has read the old one to its EOF (the kernel
\* closes a dead process's socket), broken out of the read loop on
\* Ok(None) and accepted again.
HeartbeatEventuallyDelivered ==
    \A c \in ConnIds, k \in 1 .. MaxCounter :
        (/\ DeviceConn(c)
         /\ k <= Len(conns[c].ends)
         /\ conns[c].ends[k] <= conns[c].wrote)
        ~> (\/ Len(conns[c].delivered) >= k
            \/ conns[c].st = "rst"
            \/ warden.pc = "exited")

\* A device connection established and waiting in the listen backlog.
Queued(c) == DeviceConn(c) /\ \E i \in DOMAIN backlog : backlog[i] = c

\* The warden serves one connection at a time with blocking reads and no
\* timeout (main.rs 18-30), so a device queued behind another client is
\* served only once that client goes away.  If the other client does
\* eventually close its connection, every queued device connection is
\* eventually accepted (or the warden has stopped): each frame it wrote
\* is consumed, its EOF ends the inner loop with Ok(None), and the warden
\* returns to accept.  Without the premise the device starves, which
\* spec 5 allows (timeouts are the caller's).
DeviceServedOnceOtherCloses ==
    (<>(rogue.pc = "done"))
        => \A c \in ConnIds : Queued(c) ~> (warden.conn = c \/ warden.pc = "exited")

\* read_record's Ok(None) means a clean close at a frame boundary (spec
\* 4.7, 4.6: no byte of the length prefix could be read; a stream ending
\* inside a record is Truncated).  So when the warden ends a connection on
\* None, it stopped at a frame boundary of what the client wrote.
NoneOnlyAtFrameBoundary ==
    \A c \in ConnIds :
        conns[c].ended = "none" => conns[c].endpos \in Boundaries(c)

\* A malformed, truncated or invalid record is fatal to its connection or
\* message, never to the warden process (spec 7): the warden keeps
\* accepting connections.
WardenKeepsServing == warden.pc # "exited"

\* sender_instance changes with every process restart (spec 3), so
\* (sender_instance, counter) names one message: two accepted envelopes
\* with the same pair are the same envelope (a replay), never two
\* different messages.
MessageIdUnique ==
    \A i, j \in DOMAIN accepted :
        (/\ accepted[i].sender_instance = accepted[j].sender_instance
         /\ accepted[i].counter = accepted[j].counter)
        => accepted[i] = accepted[j]
=============================================================================
