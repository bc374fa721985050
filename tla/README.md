# TLA+ models of hmf-ics

This directory holds TLA+ models of the HMF (hardened message fabric) demo
system in `src/`, together with the TLC configurations that check them.
`PROJECT.json` lists the components, the runs, the mutants, the map from each
definition to the source lines it models, the findings and the hazards.

## The system

- **hmf-core** (`crates/hmf-core`) defines the domain envelope and its
  pieces:
  - the open enums of `envelope/types.rs`: named variants plus `Unknown(i32)`,
    with `from_i32` and `to_i32`;
  - `envelope_validate` (`envelope.rs`);
  - the canonical signing input `envelope_signing_bytes`
    (`envelope/signing_bytes.rs`);
  - Ed25519 signing and verification of an envelope (`envelope/sign.rs` and
    `crypto/ed25519.rs`).
- **hmf-wire-proto** translates between the domain envelope and the generated
  protobuf envelope (`convert/v1.rs`). It also encodes and decodes that
  envelope with prost (`wire/protobuf.rs`).
- **hmf-transport** frames an encoded envelope as `[u32 BE length][payload]`
  (`record.rs`). Over TCP (`transport/tcp.rs`):
  - `write_record` validates, encodes, frames and calls `write_all`;
  - `read_record` calls `record_decode`, then decode and validate. It maps
    EOF, reset and abort errors to `Ok(None)`.
- **hmf-device** (a binary) connects once. It then loops: build a heartbeat,
  sign it, `write_record` it, increment `counter`, sleep. Any error ends the
  process.
- **hmf-warden** (a binary) accepts one connection at a time and loops on
  `read_record`:
  - `None` closes the connection;
  - an invalid signature drops the envelope;
  - any error from `read_record` (`?`) ends the whole process.

The two processes interact only through the TCP byte stream. Any other client
can also connect to the warden's port.

## Modules

| Module | Models | State and actions |
|---|---|---|
| `OpenEnum` | the enums of `types.rs` | operators only: `FromI32`, `ToI32`, and the name list of every enum |
| `Domain` | the domain structs of `types.rs` and the newtypes of `ids.rs` | operators only: each struct, and each enum with data, as the set of its values (`EnvelopeT`, `Payload`, ...); `Enum(names)` is the set of values `from_i32` gives |
| `Canonical` | `signing_bytes.rs` | operators only: every `put_*`, the canonical form of every payload message, `payload_hash`, `envelope_signing_bytes`, byte for byte |
| `Envelope` | validate, sign, verify, wire translation, codec | operators only |
| `Signing` | one signed envelope crossing an attacker-controlled wire | `Sign`, `Tamper`, `Receive`, `NextMessage` |
| `Transport` | `record.rs`, `tcp.rs`, both binaries, the network, another client | see below |
| `FifoChannel` | what the transport promises a reader | the abstract specification `Transport` is shown to implement |
| `Builder` | `EnvelopeBuilder` (`envelope.rs`) and `random_token_hex` (`ids.rs`) | `b`, `built`, `calls`, `drawn`; one action per `with_*` setter, and `Build` |
| `MCTransport`, `MCSigning`, `MCBuilder` | bounds for TLC | |

### How `Canonical`, `Envelope` and `Signing` correspond to the code

- A string or `Vec<u8>` is a sequence of bytes 0..255. A `BTreeMap` is a
  function from keys to values, and `put_map_sorted` sorts its keys with
  `LexLt`, the `Ord` of `String`. An `Option` is a sequence of length 0
  or 1.
- `BeBytes(w, v)` is `to_be_bytes` of a w-byte integer; negative values
  come out in two's complement. SHA-256 is idealised as collision-free.
- An enum is `[tag |-> name]` or `[tag |-> "Unknown", code |-> x]`. On the
  wire it is its `i32` code. `ConvertTelemetrySub` and `ConvertOpSub`
  follow the per-message functions of `convert/v1.rs`: they copy every
  field and pass each enum through `from_i32` or `to_i32`.
- `SignEnvelopeEd25519` sets `sig_alg` and `key_id`, then signs
  `EnvelopeSigningBytes`. `VerifyEnvelopeEd25519` returns `"invalid"` on
  a wrong algorithm or length, and `"panic"` where `envelope_signing_bytes`
  hits its `expect` on a missing payload.
- `Signing` has three steps. The signer signs an envelope and translates
  it to the wire (`Sign`). An attacker rewrites up to `MaxTampers` wire
  fields with values from `Alternatives` (`Tamper`). The verifier
  translates the result back and verifies it (`Receive`). `NextMessage`
  resets the model for the next envelope.

### How `Builder` corresponds to the code

- `New(t, k)` is `EnvelopeBuilder::new`: the defaults, plus the
  `transaction_id` and `idempotency_key` from `random_token_hex` of the
  random bytes `t` and `k`. `Init` draws these bytes from `RandomBytes`.
- The type-state parameters `<R, I, C, D>` are the flags `b.req`. The four
  required setters set them. `Build` is enabled only when all four are set,
  as `build()` exists only on `EnvelopeBuilder<Set, Set, Set, Set>`.
- Each `with_*` method is one action through `Call`. `Call` also counts the
  calls, up to `MaxCalls`. After `Build` the builder is consumed and no
  action is enabled.
- `WithPayload` also sets `msg_class` from the payload's domain.

### How `Transport` corresponds to the code

`conns[c]` is one TCP connection, seen as the byte stream its client writes:
- `bytes`: the frames the client has started to write;
- `envs` and `ends`: each frame's envelope and the offset where it ends;
- `wrote`: how many bytes reached the socket;
- `rpos`: how many bytes the warden has consumed;
- `st`: the state of the client's end: `open`, `fin` (EOF after the buffered
  bytes) or `rst` (reads fail with ConnectionReset).

`dev` is the device process (its pc, boot, counter, connection, and the bytes
left to write). `warden` is the warden process (its pc, connection, the
length read from the prefix, and the error it exited with).

Actions:
- **Device** (`hmf-device/src/main.rs`):
  - `DevConnect` models line 20.
  - `DevSend` models one loop iteration up to `write_all`: build, sign, then
    the validate, encode and `record_encode` inside `write_record`. If one
    of them fails, `main` ends and the kernel closes the socket.
  - `DevWrite` models one `write(2)` inside `write_all`. After the last chunk
    the counter is incremented (line 63).
  - `DevWriteFails` is `write_all` failing, which ends the process.
  - `DevRestart` is the process being killed and started again. The kernel
    closes its socket, so the warden sees EOF.
  - `DevHostCrash` is the device's host losing power and booting again. No
    FIN or RST is sent, and the warden only reads, so nothing ever provokes
    an RST. The old connection stays open (`orphan`). It is enabled only
    when the constant `HostCrashes` is TRUE.
- **Warden** (`hmf-warden/src/main.rs` and `read_record`):
  - `WBind` is `TcpListener::bind` (line 15). Until it happens, and after
    the warden exits, `Listening` is false. A connect in that state is
    refused: the device's `?` ends it, and the other client gives up.
  - `WAccept` is `listener.accept()`.
  - `WReadPrefix` is `record_decode`'s `read_exact` of the length prefix and
    the TooLarge check.
  - `WReadPayload` is the payload `read_exact`, `envelope_decode`,
    `envelope_validate` and the signature check in `main`.
  - Errors are values, as in `error.rs`. `ReadExactError` gives the
    `ErrorKind` of a failed `read_exact`: `ConnectionReset` or
    `UnexpectedEof`. A `read_exact` of zero bytes (a zero-length frame)
    succeeds without touching the socket, even on a reset connection.
    - `record_decode` wraps it as `RecordError::Io`, or, through its
      `map_err`, as `Truncated` (`PayloadReadError`). `TooLarge` comes from
      the length check.
    - `ReadRecordFails` is `read_record`'s match: an `Io` error whose kind
      satisfies `IsClosed` (`is_closed`) becomes `ReadReturnsNone`, which
      is `Ok(None)` and the `break`.
    - Every other error, and the `WireError::Decode`, `ValidateError` and
      verify panic that `PayloadError` picks in code order, becomes
      `WardenFails`. That is the `?`, which records the error in
      `warden.err` and closes every socket.
- **Environment**:
  - `RogueConnect`, `RogueSend` and `RogueClose` are another client writing
    whole frames of five kinds: zero length, too large, junk, forged with
    another key, and replayed.
  - `NetReset` is the network resetting a connection.

Data abstraction:
- An encoded envelope is `WireLen = 2` abstract bytes, and `MaxRecordLen = 2`
  scales `MAX_RECORD_LEN` down to match.
- A signature is an unforgeable record `[key, msg, len]`.
- The device's string literals are distinct one-byte strings. The
  `format!("txn-{counter}")` ids are the ASCII prefix plus the decimal
  digits.
- `MCTransport` replaces `EnvelopeSigningBytes` with the envelope minus its
  signature, which keeps byte strings out of the states. This is sound
  because the `signing` runs check that the canonical bytes are injective
  on what an attacker can change.

The refinement: `Chan == INSTANCE FifoChannel WITH ...` maps:
- `sent[c]` to `conns[c].envs`, which write_record was handed on device
  connection `c`;
- `recv[c]` to `conns[c].delivered`, which read_record returned;
- `closed` to the device connections the warden has dropped.

`ImplementsFifoChannel == Chan!Spec` is checked as a PROPERTY.

## Runs

| Run | cfg | Checks | Result |
|---|---|---|---|
| transport | `MCTransport.cfg` | `ImplementsFifoChannel`, `HeartbeatEventuallyDelivered` | pass |
| transport_crash | `MCTransportCrashSafety.cfg` | `TypeOK`, `FramingAligned`, `DeviceOnlyExitIsTruncation` | pass |
| transport_rogue | `MCTransportRogue.cfg` | `AcceptedAuthentic`, `DeviceServedOnceOtherCloses` | pass |
| none_boundary | `MCTransportNone.cfg` | `NoneOnlyAtFrameBoundary` | violation |
| warden_exit | `MCTransportExit.cfg` | `WardenKeepsServing` | violation |
| message_id | `MCTransportRestart.cfg` | `MessageIdUnique` | violation |
| signing | `MCSigning.cfg` | `TypeOK`, `SignatureBinding`, `GenuineVerifies` | pass |
| signing_header | `MCSigningHeader.cfg` | `SignatureBinding` | pass |
| verify_panic | `MCSigningPanic.cfg` | `VerifyNeverPanics` | violation |
| wire_roundtrip | `MCSigningRoundTrip.cfg` | `WireRoundTrip` | violation |
| warden_wedged | `MCTransportHostCrash.cfg` | `HeartbeatEventuallyDelivered` | violation |
| builder | `MCBuilder.cfg` | `BuiltEnvelopeAccepted`, `IdsAreHexOfDraw` | pass |

What each run shows:
- **transport**: two device boots (the first one killed), two heartbeats
  per boot, every chunking of every write, and one network reset. Both
  properties hold:
  - `ImplementsFifoChannel`: each device connection behaves as a FIFO
    channel. Every read returns the oldest envelope not yet received,
    unaltered, and nothing arrives after the warden drops the connection.
  - `HeartbeatEventuallyDelivered`: every heartbeat completely written on
    any device connection is eventually returned by `read_record`, unless
    that connection was reset or the warden stopped. This holds whether or
    not the warden serves that connection yet. After a restart, the new
    connection waits until the warden reads the old one to EOF and
    accepts again.
- **transport_crash**: the same bounds, with a host crash as well as a
  process kill. The properties hold:
  - `FramingAligned`: the warden always reads a prefix at a frame boundary.
  - `DeviceOnlyExitIsTruncation`: with only the device connected, the one
    error that can stop the warden is `Truncated` on a stream that ended
    inside a frame. A reset, or an EOF before a prefix, is a clean close.
    This is the `is_closed` classification. Device frames are exactly
    `MaxRecordLen` long, so a TooLarge check that is off by one
    (`record.rs` 40) also breaks this property.
- **transport_rogue**: one boot and another client writing one frame of any of
  the five kinds. `AcceptedAuthentic` holds: every accepted envelope was signed
  by the device. Replays are accepted; the spec leaves replay protection to the
  caller. `DeviceServedOnceOtherCloses`: a queued device connection is
  eventually served, or the warden exits, provided the other client
  eventually finishes. Without that premise the property fails. A silent
  client holds the single-threaded warden in `read_exact` forever, and the
  device's connection waits behind it.
- **signing**: all 150 bounded payloads are signed. Each is sent with one
  wire field rewritten, either to another of the 150 payloads, to no
  payload, or to another value of any header field. The properties hold:
  - `TypeOK`: whatever the attacker leaves on the wire,
    `envelope_proto_to_core` gives a value of the `Domain` types. Every
    enum is as `from_i32` gives it, so a named code is never held as
    `Unknown`. A `from_i32` whose range check stops one variant short
    breaks it.
  - `SignatureBinding`: verification succeeds only for the envelope as it
    was signed.
  - `GenuineVerifies`: an untouched envelope always verifies.
- **signing_header**: four heartbeats with two fields rewritten. This lets
  two neighbouring string fields trade their contents, for example
  `sender_id` "a" and `sender_instance` "". The length prefixes of `put_str`
  keep the signature bound. `GenuineVerifies` is checked by the signing
  run only, over all 150 payloads.
- **builder**: every order of up to 7 setter calls, with arguments that
  include a zero counter and ttl, an `Unknown` delivery profile, three
  payload domains, and `with_security` values that signing must overwrite.
  Both properties hold:
  - `BuiltEnvelopeAccepted`: an envelope that is built with a positive
    counter and ttl and a payload, then signed, survives encode and decode,
    passes `envelope_validate`, and verifies.
  - `IdsAreHexOfDraw`: both random ids are `2 * TokenLen` lowercase hex
    digits, and a reference RECURSIVE decoder gives back the drawn bytes.
- **The six violation runs** are disagreements between the code and
  `spec.md` (see `findings` in PROJECT.json):
  - **none_boundary** (spec 4.6/4.7): a stream ending after 1 to 3 prefix bytes
    is reported as a clean close, not as Truncated.
  - **warden_exit** (spec 7): a single oversized length prefix from any client
    ends the warden.
  - **message_id** (spec 3): the hardcoded `sender_instance`, with `counter`
    restarting at 1, gives two different accepted heartbeats the same
    identity after a restart.
  - **warden_wedged** (spec 5): the device's host crashes, which leaves its
    connection half-open. The warden sets no read timeout (the caller's job
    under spec 5) and no keepalive. It blocks in `read_exact` forever, and
    the rebooted device's heartbeats are never read.
  - **verify_panic** (spec 4.3): an attacker who removes the payload makes
    `verify_envelope_ed25519` panic instead of returning false.
  - **wire_roundtrip** (spec 4.5/8): `Unknown(1)` comes back from the wire as
    `Telemetry`. The signature still verifies, because the signing bytes use
    `to_i32`.

Bounds:
- With 2 heartbeats of 6 bytes each, writes split at every byte, and the reads
  between them, every prefix/payload split point occurs.
- One restart puts a second connection behind the first in the backlog.
- One reset hits at every point of the read.
- One host crash, at any point of the first boot, orphans a connection that
  the warden may already be serving or that may still be queued.
- Larger bounds add no new control path. They only repeat the same frame
  shapes.
- Signing uses two strings, "" and "a". These are enough for two
  neighbouring fields to trade contents, or for a key and value of a map to
  do so. Every payload variant appears, with its string, list, map
  (0, 1 and 2 keys), option, bool and enum fields each varied over two
  values. One tamper reaches every pair of payloads; two reach every swap
  of header fields.
- The builder draws 2 random bytes per id, from 0x0f and 0xa0. These
  exercise a zero high nibble, a letter digit and a zero low nibble; the
  code's 16 bytes only repeat the per-byte step. 7 calls reach every order of
  the four required setters interleaved with the others.
- The device may be started before the warden binds. The model covers this
  because `WBind` is a step of its own.

## Fairness

Weak fairness is assumed on:
- the warden's `bind`, `accept` and both reads;
- the device's connect, send and write.

Each is a thread that is blocked only in a socket call or a finite sleep, so
it runs again whenever it can. There is no fairness on restarts, resets or the
other client, host crashes,
since none of these has to happen. Deadlock checking is off
because both processes end, by design, on an error (`?` in `main`). A stopped
state is therefore a real final state.

## Not modelled, and the plan

- **Start order**: a device started before the warden binds, or after the
  warden exited, is refused and exits; there is no retry. Nothing promises
  delivery in that case, and a refused connect returns at once, so no
  property is stated. Every other property is checked over these
  behaviours.
- **Short reads and writes**: `read_exact` is one step that fires once its
  n bytes are there, and a connection's written bytes are a prefix of its
  frames. So a `read` used in place of `read_exact`, or a `write` in place
  of `write_all`, cannot be expressed. The code calls the std loops.
- **Bind and accept errors**: the `?` on `TcpListener::bind` and on
  `accept` (`hmf-warden/src/main.rs` 15, 18) is not modelled. A failed bind
  looks like a warden that never starts: the device is refused.
- **Planned next**:
  - `Canonical` checked directly against a reference decoder, over bounded
    inputs;
  - wire encoding of the other payload kinds inside `Transport`.
- **Not modelled at all**:
  - `new_sender_instance`, which no binary calls; it is the same draw as
    `new_transaction_id`. `OsRng` itself is a nondeterministic draw. The
    newtypes are in `Domain` as byte strings; their `Display` is the
    identity.
  - the `Display` text of the error types. The error variants are modelled;
    `WireError::Encode` and `Convert` are never constructed by the code;
  - code generation (`build.rs`);
  - printing, including the warden's dump of each accepted envelope
    (`hmf-warden/src/main.rs` 32-49).
