# TLA+ models of the HTTP/1 response core and the WebSocket streams of actix-server-alt

This directory holds TLA+ specifications of:

- the per-connection `Context` (`src/actix-http-alt/src/h1/proto/context.rs`);
- the head encoder and the body framing state machine
  (`src/actix-http-alt/src/h1/proto/encode.rs`);
- the WebSocket stream adapters `DecodeStream` and `EncodeStream`
  (`src/http-ws/src/stream.rs`).

With them come:

- TLC models that check these specifications on small instances, including
  liveness under fairness;
- an abstract body-delivery specification that the framing state machine
  is shown to implement;
- TLAPS proofs, for every value of the constants, of the body-framing
  invariants and of the 100-continue invariant of the request cycle. `spec.md` at the repository root describes the intended
behaviour.

## 1. The system

### Components and how they interact

| Part | Source | State | Operations |
|---|---|---|---|
| Connection Context | context.rs | `ctype` ∈ {Init, Close, KeepAlive, Upgrade}; `state`, a bit set of EXPECT / CONNECT / FORCE_CLOSE; `header_cache`; a reference to the date cache | `new`, `reset`, `set_expect_header`, `set_connect_method`, `set_force_close`, `set_ctype`, getters |
| Head encoder | encode.rs 19-180 | writes to the write buffer; mutates `ctype` and `header_cache` | `encode_continue`, `encode_head` (→ `encode_head_inner`, `encode_version_status_reason`) |
| Encoder selection | encode.rs 182-204 | none | `ResponseBody::encoder(ctype)` |
| TransferEncoding | encode.rs 206-358 | `Kind`: Eof, PlainChunked, EncodeChunked(eof flag), Length(remaining) | `eof`, `chunked`, `plain_chunked`, `length`, `encode`, `encode_eof` |
| Write buffer | buf.rs (not in the repository) | Flat bytes, or a List of fragments plus a scratch buffer | append |
| Dispatcher, body | not in the repository | request cycle; the body's chunks and size hint | described by spec.md §3 and §6 |
| Date cache | not in the repository | a timestamp refreshed every 500 ms | read-only for Context |
| HTTP/2 builder | h2/builder.rs | none | service-factory glue |
| Crate root | lib.rs | none | module declarations |
| WebSocket streams | http-ws/src/stream.rs | `DecodeStream`: the inner stream and a byte buffer; `EncodeStream`: an mpsc receiver and a byte buffer | `poll_next` of each |

A request cycle on one connection, as the dispatcher drives it (spec.md §3):

1. A request is decoded, and `reset` makes `ctype` KeepAlive and clears the
   flags.
2. Request processing sets EXPECT, CONNECT or FORCE_CLOSE.
3. `encode_continue` may be called.
4. `encode_head` writes the status line and the headers. It scans the
   Connection headers, which can change `ctype`. It appends the
   force-close, framing and date lines, and stores the header map in
   `header_cache`.
5. `ResponseBody::encoder(ctype)` picks the TransferEncoding.
6. Each body chunk goes through `encode`.
7. Finally `encode_eof` is called.
8. The connection is kept alive for the next request only if it is
   KeepAlive and not force-closed.

### What is hard here

Everything in the core is sequential per connection (spec.md §5). There
are no threads or locks in this code. The hard behaviours are:

- **Long sequences of legal calls.** Some examples:
  - flags that must not leak from one request to the next;
  - Connection tokens within one value, where the last token wins, and a
    keep-alive decision that must follow what the head told the client;
  - an empty chunk in the middle of a stream;
  - `encode_eof` on a Length body that is still short.
- **Partial failure.** A bad Connection value fails in the middle of the
  head, after bytes were written. A repeated header name panics there
  (encode.rs 84): `HeaderMap::drain` yields `None` as the name of every
  value after the first of a name, and `name.expect` unwraps it.
- **Agreement of two decisions made at different times.** The head
  announces a framing, and the body encoder chosen afterwards must produce
  that framing.
- **Checks that exist only in debug builds.** These are the
  `debug_assert!`s at encode.rs 21, 89 and 93.

The WebSocket streams are different: they are `Stream`s polled by an
executor. Their hard behaviours are:

- a `poll_next` that returns early, on an error item of the inner stream or
  a codec error, after it has moved bytes or messages into its buffer;
- a receive loop cut short by tokio's cooperative budget, so that a
  `Pending` comes back while messages are still queued;
- the end of the stream reported while bytes or frames are still buffered;
- a bounded channel that is full.

PROJECT.json lists each hazard at its line, with the properties that cover
it.

## 2. Modules

| Module | Models | Kind |
|---|---|---|
| `H1Context` | context.rs | the Context state and its operations, used by `H1Connection` |
| `H1TransferEncoding` | encode.rs 206-358 | the body-framing state machine on its own, with a body producer |
| `H1Connection` | encode.rs 19-204 plus the request cycle | the composition: Context, head encoder, encoder selection and `TE == INSTANCE H1TransferEncoding` |
| `BodyDelivery` | spec.md §4.4 and §8 | the abstract specification of any body encoder: what the client receives |
| `H1TransferEncodingRefinement` | none | the refinement mapping from `H1TransferEncoding` to `BodyDelivery` |
| `WsDecodeStream` | stream.rs 15-103 | `DecodeStream::poll_next` over an inner stream that delivers bytes, errors and its end |
| `WsEncodeStream` | stream.rs 105-155 | `EncodeStream::poll_next` over a bounded mpsc channel and its senders |
| `H1TransferEncodingProofs`, `H1TransferEncodingRefinementProofs`, `H1ConnectionProofs`, `WsEncodeStreamProofs`, `WsDecodeStreamProofs` | none | the TLAPS theorems |
| `MC_H1TransferEncoding`, `MC_H1Connection`, `MC_WsDecodeStream`, `MC_WsEncodeStream` | none | model values and constant definitions for TLC |

### H1Context

- **State:** the variables `ctype`, `state` and `header_cache`.
  - `state` is the set of masks that are set, so `insert` is `\cup` and
    `contains` is `\in`.
  - `header_cache` records only whether it is `Some`.
- **Operations:**
  - `ContextInit` is `Context::new`.
  - `Reset` is `reset`.
  - `SetFlag(f)` is `ContextState::insert`, and the three setters are
    instances of it.
- `set_ctype` is applied inside `H1Connection!EncodeHead`, which is where
  the code calls it.

### H1TransferEncoding

- **Variables that mirror the code:**
  - `kind`;
  - `finished`, the bool of `EncodeChunked`;
  - `remaining`, the u64 of `Length`;
  - `wire`, the tokens written to the buffer.
- **Variables that record results:**
  - `reported`, the `Ok(bool)` of the last `encode`;
  - `eofRes`, the result of `encode_eof`.
- **Ghost variables:** `declared` is the content-length, and `sent` is
  what the producer handed in.
- **Producer state:** `calls` and `ended`.
- **Wire data.** The wire is a sequence of tokens:
  - a body byte, `Byte(b)`, with `b` from a small symbol set;
  - a chunk size line, `SizeLine(n)`;
  - a `CRLF`.

  So the hex formatting of `{:X}\r\n` is modelled by what it carries, the
  length. The terminator `0\r\n\r\n` is `<<SizeLine(0), CRLF>>`.
- **Actions.** Each `encode` arm is an action:
  - `EncodePlain` is lines 247-254;
  - `EncodeChunked` is lines 255-303;
  - `EncodeLength` is lines 304-325;
  - `EncodeEof` is lines 332-357.

  Each one includes the early returns. One example is the `*eof` check that
  makes every later chunk a no-op; another is the empty `msg` on a Length
  body with bytes still due.
- **Modes.** The Flat and List modes write the same bytes in the same order,
  so they are one action.
- **Producer.** `Produce`/`Finish` is the producer from spec.md §6, which
  the code's doc comment at encode.rs 183-186 describes:
  - it yields up to `MaxChunks` chunks;
  - an empty chunk is the end-of-body signal unless `EmptyChunkMidStream`
    holds;
  - then it calls `encode_eof`.

### H1Connection

- **Request-cycle variables:**
  - `phase` (idle / request / body / done / closed / panicked);
  - the response `resp`;
  - the written `statusLine` and `head`;
  - `headDone`, for the blank line;
  - `cont`, for 100 Continue;
  - the ghost `reqFlags`, the flags set during this request;
  - `requests`.
- **Header data.**
  - A header is its name class.
  - Its value is the sequence of its comma-separated tokens after
    `trim`/`eq_ignore_ascii_case`: close, keep-alive, upgrade or other.
  - A flag records whether `to_str` succeeds.
- **Head lines.** Each head line records whether the caller or the encoder
  wrote it.
- **`EncodeHead(r)`** is the whole of `encode_head`, with four outcomes:
  - the rejected-1xx early return, where nothing is written;
  - the loop stops at the first of two places (`Stops`, `FirstStop`): a
    value with no name, where `name.expect` panics (line 84, phase
    panicked), or a Connection value `to_str` rejects (line 98, phase
    closed). The status line and the headers before it are written, and
    `ctype` is what their Connection value made it;
  - success: every line is written, `ctype` and `header_cache` are updated,
    and the body encoder is created from `EncoderOf(r.body, ctype')`.
- **Helpers.** Each part of `encode_head_inner` is an operator:
  - `StatusSkipsLen`/`StatusRejected` is the match at 61-71;
  - `CallerLines`/`CtypeAfter` is the drain loop at 83-118; the last
    recognised token wins, computed as the maximum position instead of with
    recursion. Only one Connection value is ever scanned: a second one has
    no name and panics first (`Unnamed`);
  - `TrailerLines` is lines 120-146.
- **Dispatcher actions.** `DecodeRequest`, `MarkRequest`, `EncodeBody`,
  `EncodeBodyEof`, `KeepAlive` and `CloseConnection` are the dispatcher.
  They are marked `spec_modelled` in PROJECT.json because the dispatcher is
  not in the repository. An error from `encode_head` or `encode_eof` closes
  the connection (spec.md §7).

### BodyDelivery and the refinement

`BodyDelivery` states what any encoder promises, whatever its framing:

- `produced` is what the body produced, and `delivered` is what the client
  can take out of the connection;
- `delivered` only grows, and it is always a prefix of `produced`;
- with a declared length (`bounded`, `limit`), no more than `limit` is
  delivered;
- `AbsFinalize` succeeds only when everything due was delivered and a
  declared length was reached. It fails only for a declared-length body
  that is short.

`H1TransferEncodingRefinement` maps the state of `H1TransferEncoding` onto
it:

- `sent` is `produced`;
- `delivered` is the wire decoded by the client (`Dechunk(wire).data` for
  Chunked, the wire itself otherwise);
- `eofRes` is `outcome`;
- `kind = "Length"` is `bounded`, and `declared` is `limit`.

`DeliversBody == Abs!AbsSpec` is checked as a PROPERTY of the te_framing
run. Every encoder step then maps to an `AbsProduce` step or to a stutter,
and `encode_eof` maps to `AbsFinalize`. The refinement is also proved
(section 5), under the hypothesis that the chunked framing decodes.

### WsDecodeStream

- **Network state.** This is the inner stream `S`:
  - `pending`: the peer's bytes that have not arrived yet;
  - `ready`: the bytes of the Ok items `S` would return now, in order;
  - `readyErrs`: for each error item `S` would return now, in order, how
    many bytes of `ready` come before it;
  - `eos`: `S` would end after them;
  - `errsSent`: the error items produced so far;
  - `cut`: how many bytes of the last frame the peer never sent.
- **Stream state.** `open` is `stream.is_some()`, and `buf` is `buf`.
- **Ghost state.** `yielded`, `lastPoll` and `done` record what
  `poll_next` returned.
- **Data.** A byte is a frame number and a position in the frame. The codec
  (`codec.rs`, not in the repository) is abstracted to what `decode` does on
  a well-formed stream: with `FrameLen` bytes at the front of `buf` it
  splits them off and returns the frame; otherwise it returns `None`.
- **Why the ready items are kept this way.** `poll_next` appends every Ok
  item to `buf` (`extend_from_slice`, 85), so where one Ok item ends and
  the next begins is never observable. Keeping the Ok bytes as one
  sequence, with the positions of the error items in it, loses nothing the
  code can tell apart, and it lets the proof reason with concatenation and
  `SubSeq` only.
- **Actions.** `Poll` is the whole of `poll_next` (80-102):
  - `ErrPoll` is the loop meeting an error item: the bytes before it are
    moved to `buf`, the offsets of the later errors are shifted
    (`AfterFirstErr`), and the function returns at once (83-86);
  - `DecodePoll` is the loop running to `Pending` (88) or to the end (87),
    then one `decode` (92-100).
- **Network actions.** `Arrive(n)`, `ArriveErr` and `ArriveEnd` make items
  ready.

### WsEncodeStream

- **State.**
  - `chan`: the channel's queue;
  - `sentNext`, `txOpen`: the senders;
  - `rxOpen`: `rx.is_some()`;
  - `buf`;
  - the ghost `out`: everything yielded.
- **Data.** A message is a number. `Codec::encode` rejects the messages in
  `Bad` and appends the frame of any other one, abstracted to its number.
- **Actions.** `Poll(k)` is `poll_next` (136-154) when the loop receives
  `k` messages before `poll_recv` returns `Pending`. `k` is any number up to
  the queue length, because tokio's cooperative budget can cut a receive
  short while messages are queued. Two outcomes:
  - `EncodeErr(k)`: `encode` fails on the first rejected message, at some
    position `e` (`FailsFirstAt(e)`), and the function returns at once
    (141). The message is gone, and the frames
    before it stay in `buf`;
  - `EncodeDrain(k)`: `encode` accepts all `k` messages
    (`AllAccepted(k)`), and the loop ends at `Pending`, or at `Ready(None)`,
    which sets `rx` to `None`. Then a non-empty `buf` is yielded, else the
    stream ends or is `Pending` (147-153).
- **Senders.** `Send` waits while the channel holds `Cap` messages, and
  `DropSenders` drops every sender.

## 3. Runs

| Run | Config | Result | What it shows |
|---|---|---|---|
| te_framing | `TE.cfg` | pass, 2,772 states | `TypeOK`, `LengthFramingExact`, `ChunkedFramingDecodes`, `CompletionSound` hold for every Kind. |
| te_empty_chunk | `TE_EmptyChunk.cfg` | violation of `ChunkedFramingDecodes` | An empty chunk in the middle of a stream ends the chunked body, and later chunks are lost. |
| connection | `Conn.cfg` | pass, about 567,000 states, about 1 min | The head and the body encoder agree, force-close and 100-continue follow spec.md, and a connection is reused only after a head that said it stays open. |
| connection_101 | `Conn_101.cfg` | violation of `NoFramingOn101` | A 101 response is given a framing header. |
| connection_upgrade | `Conn_Upgrade.cfg` | violation of `UpgradedStreamFramingAgrees` | An upgrading response with a Stream body announces chunked and writes raw bytes. |
| connection_connect | `Conn_Connect.cfg` | violation of `ConnectTunnelFramingAgrees` | A 2xx answer to CONNECT with a Stream body announces no framing and writes chunk framing into the tunnel. |
| connection_panic | `Conn_Panic.cfg` | violation of `HeadErrorsReturned` | Two values of one header name make `encode_head` panic instead of returning an error. |
| ws_decode | `WsDecode.cfg` | pass, 310 states | `NoBytesLost`, `EndMeansAllFrames` and `AllFramesDelivered` hold. |
| ws_encode | `WsEncode.cfg` | pass, 111 states | `DeliveredInOrder`, `EndMeansDrained` and `DrainsThenEnds` hold. |

te_framing also checks `DeliversBody`, the refinement of `BodyDelivery`.

The properties:

- **`LengthFramingExact`.** A Length body never writes beyond its declared
  length. What it writes is a prefix of what was produced. While bytes are
  still due, everything produced has been written.
- **`ChunkedFramingDecodes`.** A chunked decoder (`Dechunk`, a recursive
  function over the token sequence) run on the wire finds a well-formed
  body. It recovers exactly the produced bytes, and it sees the terminator
  exactly when the encoder is finished.
- **`CompletionSound`.** When `encode` reports eof or `encode_eof` returns
  Ok, the body is complete; when `encode_eof` fails, it is not.
- **`ClientDecodesBody`.** Once a body is finished, a client that frames it
  as the head announced recovers exactly the bytes the body yielded. This
  holds in the regime where the spec promises it: no caller framing header,
  no CONNECT 2xx, no upgrade.
- **`ForceCloseAnnounced`.** The head has the encoder's `connection: close`
  exactly when force-close was set for this request, and then it has no
  other Connection line.
- **`ReuseOnlyWhenAnnounced`** (action property). The step from a finished
  response to waiting for the next request is taken only when the head
  just sent told the client the connection stays open: in no Connection
  line of it, the encoder's `connection: close` included, is the last
  recognised token close or upgrade. It ties `reset`, the token scan, the
  force-close skip and line, and the keep-alive decision together.
- **`ConnectTunnelFramingAgrees`** (violation run). After a 2xx answer to
  CONNECT, which announces no framing, the bytes after the head are the
  bytes the body yielded.
- **`HeadErrorsReturned`** (violation run). `encode_head` never panics;
  spec.md §4.2 and §7 list an unresolved header name as an error returned
  to the caller.
- **`ContinueOnlyWhenExpected`.** 100 Continue is only written for a request
  that set EXPECT.
- **`DeliversBody`.** `H1TransferEncoding` implements `BodyDelivery`.
- **`NoBytesLost`.** `DecodeStream` neither loses, reorders nor duplicates a
  byte across error returns, split frames and the end. The returned frames,
  then `buf`, then the ready items, then the bytes not yet arrived are
  exactly the peer's bytes.
- **`EndMeansAllFrames`.** When `DecodeStream` has returned `Ready(None)`,
  it has returned exactly the frames whose bytes all arrived, in order.
  This is the safety half of the ordering at 92-100: `decode` runs on
  `buf` before the end of `S` is reported.
- **`AllFramesDelivered`** (liveness). `DecodeStream` eventually returns
  every whole frame, in order, and then ends.
- **`DeliveredInOrder`.** `EncodeStream` yields every accepted message
  once and in order, across codec errors, budget cuts and a full channel,
  stated position by position over the pipeline `out \o buf \o chan`:
  - the messages strictly increase along it, so none is duplicated or
    reordered;
  - nothing yielded or buffered is a rejected message;
  - every accepted message sent is in it;
  - nothing unsent is in it.

  This is the form TLAPS proves (section 5).
- **`EndMeansDrained`.** When `EncodeStream` returns `Ready(None)`
  (149-150), every sender is gone, the channel and `buf` are empty, and
  every accepted message has been yielded. The end is final and complete.
- **`DrainsThenEnds`** (liveness). After the senders are dropped,
  `EncodeStream` eventually yields everything it accepted and then returns
  `Ready(None)`.

Each property of a passing run has a mutant in PROJECT.json: a plausible bug
in the mapped code, which TLC then catches.

### Bounds

**te_framing:**

- 2 byte symbols;
- chunks of at most 2 bytes;
- at most 3 chunks;
- declared lengths 0..3.

This covers every case in which the chunk length and `remaining` relate
differently: a chunk shorter than, equal to or longer than what remains,
and an empty chunk with bytes due or not. It also covers both ways a body
can end: by an empty chunk, or by `encode_eof` after `MaxChunks`.

**connection:**

- 2 requests, which is enough for flags to leak across `reset`;
- HTTP/1.0 and HTTP/2.0, the second standing for every non-1.x version
  that falls back to 1.1;
- statuses 100, 101, 200 and 404;
- up to 2 headers from 8 kinds: Connection close; keep-alive,upgrade;
  upgrade; an invalid value; Date; Content-Length; Transfer-Encoding; other;
- bodies as in te_framing, with 2 chunks.

Two headers are enough for a repeated name, which panics, and for a
Connection value after other headers; "the last token wins" is exercised
within the two-token value. A header list is taken in the order
`HeaderMap::drain` yields it, the values of one name next to each other. HTTP/1.1 is left out because its path is the same as the fallback's
(encode.rs 159-172).

**ws_decode:**

- 2 frames of 2 bytes;
- items of at most 2 bytes;
- at most 1 error item;
- a peer that may close after 0 or 1 byte of the last frame.

So items split a frame and also span two frames, an error item comes
before, between or after bytes, and the end comes with a partial frame
buffered.

**ws_encode:**

- 5 messages, of which 2 and 3 are rejected by the codec;
- capacity 3.

So a drain meets a rejected message after accepted ones, two rejected
messages come in a row, and the channel fills.

### Fairness

The HTTP/1 runs check safety only, and their specifications carry no
fairness.

The WebSocket runs check liveness:

- **`WsDecodeStream`: `WF_vars(Poll) /\ WF_vars(Network)`.**
  - A consumer of a `Stream` polls again after every `Ready`. After a
    `Pending`, the inner stream's waker re-schedules it.
  - The peer's bytes and its close eventually arrive.
  - Error items are not required to happen.
- **`WsEncodeStream`: `WF_vars(PollAll)`.**
  - `PollAll` is a poll that receives the whole queue.
  - The consumer is woken by the receiver's waker, and tokio renews a
    task's budget on each poll, so a poll not cut short by the budget
    eventually comes.
  - The senders are under no obligation to send or to drop.

Deadlock is not checked (`CHECK_DEADLOCK FALSE`), because every
specification stops by design:

- the body producer has a bound;
- `requests` is capped at `MaxRequests`;
- a stream's consumer stops after `Ready(None)`.

## 4. Findings

1. **101 responses get framing headers** (encode.rs 62, run
   connection_101). `skip_len` is `false` for 101, so a Stream or Sized body
   on a 101 gets `transfer-encoding: chunked` or `content-length`. spec.md
   §4.2 step 1 says these are suppressed on 101.
2. **An empty chunk ends a chunked body early** (encode.rs 262/272, run
   te_empty_chunk). Every empty chunk is taken as the end of the body, and
   later chunks are dropped silently. spec.md §8's round-trip promise holds
   only for producers that never yield an empty chunk before their end.
3. **An upgrading response with a streamed body is misframed** (encode.rs
   128/196, run connection_upgrade). This needs three things:
   - the caller's `Connection: upgrade` makes `ctype` Upgrade;
   - the status is not 101;
   - the body is a Stream.

   `encode_head` then writes `transfer-encoding: chunked` (spec.md §4.2
   step 5). But `ResponseBody::encoder` picks PlainChunked for Upgrade
   (§4.3) and writes the bytes raw. The spec states both rules without
   reconciling them.
4. **A successful CONNECT with a streamed body writes chunk framing into
   the tunnel** (encode.rs 65/196, run connection_connect). `skip_len`
   suppresses the framing header for a 2xx answer to CONNECT (spec.md §4.2
   step 1), but `ResponseBody::encoder` still picks Chunked for a Stream
   body (§4.3). The client reads the tunnel raw and gets chunk sizes and
   the `0\r\n\r\n` terminator. The spec states both rules without
   reconciling them.
5. **A repeated header name panics** (encode.rs 84, run connection_panic).
   `HeaderMap::drain` yields `None` as the name of every value after the
   first of a name, and `name.expect("Handling optional header name is not
   implemented")` panics on it. Any response with two values of one name
   (two `set-cookie` headers, two Connection headers) brings the
   connection's task down after the status line and the earlier headers
   were written. spec.md §4.2 and §7 list an unresolved header name as an
   error returned to the caller.

The WebSocket streams also keep two behaviours that no statement in the
repository calls wrong. They are modelled and reachable, but no property
asserts them:

- **A partial frame is dropped.** `DecodeStream` ends without an error when
  the peer closes in the middle of a frame (stream.rs 95). The partial
  frame is dropped silently.
- **Accepted messages can be lost on an error.** After a codec error,
  `EncodeStream` keeps the frames encoded before it in `buf`. A consumer
  that stops at the first `Err` loses messages the channel had accepted
  (stream.rs 141).

## 5. Proofs

`H1TransferEncodingProofs` extends `H1TransferEncoding` and proves two
theorems for all constants that satisfy the module's ASSUMEs (`Sym`
non-empty, `MaxChunk` ≥ 1, the other bounds natural, `EmptyChunkMidStream`
Boolean).

**`TypeCorrect == Spec => []TypeOK`.** The argument:

- `InitTypeOK` shows that every initial state is well typed.
- `EncodeTypeOK` takes each arm of `encode`. Concatenation keeps the wire a
  token sequence (`ConcatProperties`), and `remaining - MinNat(...)` stays
  natural.
- `NextTypeOK` adds the producer and `encode_eof`.

**`LengthFraming == Spec => []LengthFramingExact`.** `LengthFramingExact` is
not inductive alone, because its arithmetic needs the types, so the
inductive invariant is `IInv == TypeOK /\ LengthFramingExact`.
`LengthStep` proves the Length step, one case per arm of encode.rs 304-325:

- **`remaining = 0`:** nothing is written. `sent` grows, and the wire stays
  a prefix of it (`PrefixOfConcat`).
- **Empty `msg` with bytes due:** nothing changes.
- **Otherwise:**
  - with `n = min(remaining, len)`, the wire grows by the first `n` bytes of
    `msg`;
  - because the wire was all of `sent` (bytes were due), the new wire is the
    prefix of `sent \o msg` of length `Len(sent) + n` (`PrefixAcrossConcat`);
  - `remaining' > 0` forces `n = Len(msg)`.

`NextIInv` shows that the other Kinds, `encode_eof` and stuttering leave the
conjunct alone.

`H1ConnectionProofs` extends `H1Connection`. It proves the following
theorem for all versions, statuses, header sets and request bounds.

**`ContinueExpected == Spec => []ContinueOnlyWhenExpected`.**

- **Why a strengthening is needed.** `cont` is set by reading the Context's
  flags (`is_expect_header`), but the property is about the request's
  marks. So `ContinueOnlyWhenExpected` is not inductive alone.
- **The strengthening.** `FlagsMirrorRequest` (`state = reqFlags`):
  - `reset` clears both;
  - every `set_*` adds the same flag to both;
  - `encode_head` leaves both alone on all three of its outcomes
    (`EncodeHeadKeepsFlags`).

The inductive invariant is `IInv == FlagsMirrorRequest /\
ContinueOnlyWhenExpected`, proved with one step per action of `Next`.

**`CompletionSoundness == Spec /\ []ChunkedFramingDecodes => []CompletionSound`**
(in `H1TransferEncodingProofs`).

- **Why a hypothesis.** `CompletionSound` speaks of `BodyComplete`, which
  for Chunked is `Dechunk(wire).done`. What the recursive `Dechunk`
  computes is beyond the provers (see below). So the theorem takes
  `[]ChunkedFramingDecodes` as a hypothesis: the decoded wire has
  `done = finished`. The te_framing run checks that hypothesis, and the
  te_empty_chunk run shows it is exactly what an empty chunk in the middle
  of a stream breaks.
- **The inductive invariant.** `CInv == TypeOK /\ CompletionFlags`:
  - a Length encoder that reported completion, or whose `encode_eof`
    returned Ok, has `remaining = 0`;
  - a Length encoder whose `encode_eof` failed has `remaining # 0`;
  - a Chunked encoder that reported completion has `finished`;
  - only a Length encoder's `encode_eof` fails.

  `EncodeFlags` takes each arm of `encode`, and `NextCInv` adds
  `encode_eof` (encode.rs 341-358), which reads `remaining` and `eof`.
- **The conclusion.** `CInv /\ ChunkedFramingDecodes => CompletionSound`,
  by cases on the Kind.

**`Refinement == Spec /\ []ChunkedFramingDecodes => DeliversBody`** (in
`H1TransferEncodingRefinementProofs`).

- **The hypothesis.** Under `ChunkedFramingDecodes`, the delivered body of
  a Chunked encoder is `sent`. That lemma is `DeliveredUnbounded`, with a
  primed form, `DeliveredUnboundedNext`, for the state after a step.
- **The invariant.** `RInv == IInv /\ CInv /\ PlainFraming /\ Undeclared`:
  - `PlainFraming`: an Eof or PlainChunked encoder writes exactly `sent`;
  - `Undeclared`: only a Length encoder has a declared length.
- **The step lemmas.**
  - `InitAbs`: an initial state maps to an `AbsInit` state.
  - `ProduceAbs`: every producer step maps to `AbsProduce(msg)`. The new
    delivered body extends the old one (`PrefixExtend`) and is a prefix of
    the new `sent`. For Length, that comes from `LengthFramingExact`.
  - `FinishAbs`: an `encode_eof` maps to `AbsFinalize`. Ok exactly when
    the Length encoder owes nothing (`delivered = Due`), and Err only for a
    short Length body.
  - `StepAbs`: the other steps, and the stutters, leave the mapped
    variables alone.
- **The temporal step.** `Spec => []RInv`, and the step lemmas combine
  with `PTL`.

`BodyDelivery` defines its own `IsPrefix` rather than taking it from
`SequencesExt`, so that the abstract specification reaches no RECURSIVE
operator.

**`OrderedDelivery == Spec => []DeliveredInOrder`** (in
`WsEncodeStreamProofs`).

- **Why a strengthening is needed.** `DeliveredInOrder` is about the
  concatenation `out \o buf \o chan`, but the actions cut and join the
  three parts.
- **The inductive invariant.** `EInv` states the property part by part:
  - `out`, `buf` and `chan` each increase (`Incr`);
  - each part lies wholly before the next (`Before`);
  - their elements (`Rng`) are sent messages;
  - the elements of `out` and `buf` are accepted ones;
  - every accepted sent message is in one of them.

  TLC checked `EInv` on the ws_encode instance, and on one with seven
  messages, four of them rejected, before it was proved.
- **The steps.**
  - `SendEInv`: `Send` appends `sentNext`, which is larger than every
    element of the three parts.
  - `ErrEInv`: `EncodeErr` cuts `chan` around the rejected `e`-th message
    (`SplitAround`). The part before `e` joins `buf`; it is accepted,
    because `e` is the first rejected message. The rejected message itself
    leaves the set that must be covered.
  - `DrainEInv`: `EncodeDrain` cuts `chan` at `k` (`SplitAt`). When a
    non-empty `buf` is yielded, `out` grows by `buf \o L`. When nothing is
    yielded, that concatenation is empty, so `k = 0`.
- **The lemmas.** The steps rest on lemmas about `Incr`, `Before` and `Rng`
  over concatenations and slices: `IncrConcat`, `BeforeConcat`,
  `SliceOrder`, `SplitAt`, `SplitAround` and `RngConcat`.
- **A model change made for the proof.** The first rejected message was
  once found by a `CHOOSE` of the least position. It is now the existential
  `\E e : FailsFirstAt(e)`, so that the proof does not need a least-element
  argument. Both forms pick the same `e`.

**`EndDrained == Spec => []EndMeansDrained`** (in `WsEncodeStreamProofs`).

- **Why a strengthening is needed.** `EndMeansDrained` speaks only of the
  state after `Ready(None)`. That it holds there depends on how `rx` was
  closed earlier.
- **The strengthening.** `Closed`:
  - once `rx` is `None`, the channel is empty and every sender is gone;
  - once `Ready(None)` was returned, `rx` is `None` and `buf` is empty.

  `DrainClosed` shows that `EncodeDrain` keeps it. `rx` is set to `None`
  only at `Ready(None)` of `poll_recv`, which needs no sender and an empty
  queue. The stream ends only with an empty `buf`. Every other action
  keeps it trivially.
- **The conclusion.** `EInv /\ Closed => EndMeansDrained`
  (`ClosedDrained`). The coverage part of `EInv` puts every accepted
  message in `out`, because `buf` and `chan` are empty.

**`BytesKept == Spec => []NoBytesLost`** (in `WsDecodeStreamProofs`).

- **The inductive invariant.** `DInv` adds to the property:
  - the types;
  - `cut <= NFrames * FrameLen`, so that `Input` has the length its
    definition says;
  - `Len(yielded) * FrameLen <= Len(Input)`;
  - the error offsets in `readyErrs` in order (`Sorted`).

  TLC checked `DInv` on the ws_decode instance and on one with three
  frames and items of three bytes, before it was proved.
- **The steps.**
  - `ArriveDInv`: `Arrive(n)` moves the first `n` pending bytes to the end
    of `ready` (`SplitJoin`, `AssocByte`).
  - `ArriveErrDInv`: `ArriveErr` appends the offset `Len(ready)`, which is
    no smaller than every earlier one.
  - `ErrPollDInv`: `ErrPoll` moves the bytes before the first error to
    `buf`, so `buf \o ready` is unchanged. The later offsets, shifted down,
    stay in range and in order. This is where `Sorted` is needed: without
    it a later offset could be below the first.
  - `DecodePollDInv`: `DecodePoll` first moves `ready` to `buf` when
    `stream` is Some (`DecodePollShape`). When a whole frame is at the
    front:
    - its bytes are split off (`DropFront`);
    - what is left is the input after one more frame (`SuffixOfSuffix`);
    - its first byte is byte `Len(yielded) * FrameLen + 1` of the input,
      so it belongs to frame `Len(yielded) + 1` (`FrameStart`);
    - that frame is sent, so `Len(yielded) + 1 <= NFrames` (`MulBound`).
- **A model change made for the proof.** `ready` used to be a sequence of
  items, with the bytes of the ready Ok items read through the recursive
  `FlattenSeq`, and the first error item was a `CHOOSE` minimum. Neither
  could be reasoned about here. The new form keeps exactly what
  `poll_next` can observe (see the WsDecodeStream section). The ws_decode
  run fell from 537 to 310 distinct states: states that differed only in
  where one Ok item ended and the next began are now one state.

**`EndAfterAllFrames == Spec => []EndMeansAllFrames`** (in
`WsDecodeStreamProofs`).

- **The strengthening.** `DEnd` says how the stream ends:
  - `S` ends only once every byte has arrived (`eos => pending = << >>`);
  - `stream` is `None` only after that end, with nothing ready in it;
  - `Ready(None)` was returned only with `stream` `None` and no whole frame
    in `buf`;
  - `cut` stays in the range `Init` gave it.

  `NextDEnd` uses `DInv` for nothing but the types. `DecodePoll` sets
  `stream` to `None` only at the end of `S`, when its ready bytes have just
  been moved to `buf` and no error is waiting. It returns `Ready(None)`
  only when `decode` found no frame.
- **The conclusion** (`EndFrames`). At the end, `buf` is the whole of
  `After(Len(yielded))`, which is shorter than a frame. `WholeFrames` is
  the arithmetic: given the cut, fewer than `FrameLen` bytes after
  `Len(yielded)` frames means `Len(yielded) = Complete`.

TLAPS checks every obligation of the five proof modules. Facts used in
several places are stated once as lemmas and cited by name. Examples are
`PrefixOfConcat`, `PrefixAcrossConcat` and `ChunkIsTokenSeq`, as well as
the sequence lemmas above.

**Only model-checked:**

- `ChunkedFramingDecodes` and `ClientDecodesBody` are about what the
  recursive `Dechunk` computes. That needs induction over the token
  sequence. The induction theorems of the library take an operator
  parameter, and the installed provers cannot instantiate one. The two
  theorems above therefore assume `ChunkedFramingDecodes` rather than prove
  it.
- `TypeOK`, `ForceCloseAnnounced` and `ReuseOnlyWhenAnnounced` of
  `H1Connection` are only model-checked. They are about head lines
  filtered by `SelectSeq`, which the provers treat as opaque: the library
  has no lemma about it.
- Recursive functions cannot be unfolded by the installed provers, even
  at a constant argument. So nothing that needs what a recursive
  definition computes is proved.
- Liveness (`AllFramesDelivered`, `DrainsThenEnds`) and ENABLED are out of
  the prover's reach.

## 6. Not modelled

- **Write buffer internals (`buf.rs`).** Not in the repository. Both modes
  append the same bytes, so one wire stands for both. The List mode's
  scratch buffer, which keeps a partial head after an error at encode.rs
  40, is a listed hazard.
- **Date cache.** Not in the repository, and read-only for Context. The date
  line has a constant value.
- **`h2/builder.rs` and `lib.rs`.** Composition glue with no state machine.
- **The WebSocket codec (`http-ws/src/codec.rs`).** Not in the repository.
  `decode` is abstracted to whole frames of a fixed length, and `encode` to
  a set of rejected messages.
- **`DecodeStream::encode_stream` and the `From` impls of the error type.**
  Constructors with no behaviour beyond the initial states of the two
  modules.

## 7. Further work

- `TypeOK` of `WsEncodeStream` and `WsDecodeStream` stated as theorems of
  their own. Both are parts of the proved inductive invariants now.
- Lemmas about `SelectSeq`, for `ForceCloseAnnounced` and
  `ReuseOnlyWhenAnnounced`.
- A model of the dispatcher that drives an upgraded connection into a
  WebSocket `DecodeStream`, composing the two halves of the repository.
