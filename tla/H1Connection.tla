----------------------------- MODULE H1Connection -----------------------------
(***************************************************************************)
(* One HTTP/1 connection served request after request: the Context         *)
(* (H1Context), the head encoder (encode.rs: encode_continue, encode_head, *)
(* encode_version_status_reason), the choice of body encoder               *)
(* (ResponseBody::encoder) and the body-framing state machine              *)
(* (H1TransferEncoding), composed by the request cycle of the dispatcher.  *)
(*                                                                         *)
(* The dispatcher and the response body are not among the sources; their  *)
(* part (the order of the calls in one request cycle, the size hint and   *)
(* the chunks of a body, the keep-alive decision) follows the             *)
(* specification of the repository.                                        *)
(*                                                                         *)
(* Data abstraction.  A header is a record: its name, its value as the    *)
(* sequence of its comma-separated tokens (each already trimmed and        *)
(* case-folded to one of TokenClasses; only Connection values are scanned) *)
(* and whether the value is visible ASCII (HeaderValue::to_str succeeds).  *)
(* A head line records whether the caller or the encoder wrote it.  The    *)
(* status line keeps the version token and the code; the reason phrase is *)
(* layout.  The date line carries the cached date, which is not modelled.  *)
(***************************************************************************)
EXTENDS Naturals, Sequences, H1Context

CONSTANTS
    Sym, MaxChunk, MaxChunks, MaxLen, EmptyChunkMidStream,
    Versions,       \* the http::Version values a response can carry
    Statuses,       \* the status codes a response can carry
    UserHeaders,    \* the headers a service can put in a response
    MaxHeaders,     \* the longest header list of a response
    MaxRequests     \* the number of requests served on the connection

ASSUME VersionsAssumption == Versions # {}
ASSUME StatusesAssumption == Statuses \subseteq 100 .. 999
ASSUME MaxHeadersAssumption == MaxHeaders \in Nat
ASSUME MaxRequestsAssumption == MaxRequests \in Nat

VARIABLES
    kind, finished, remaining, wire, reported, eofRes,
    declared, sent, calls, ended,
    phase,      \* where the request cycle is
    resp,       \* the response being written
    statusLine, \* the status line written for it, or NoStatusLine
    head,       \* the header lines written for it, in order
    headDone,   \* the blank line that ends the head has been written
    cont,       \* "HTTP/1.1 100 Continue" was written for this request
    reqFlags,   \* ghost: the flags set while processing this request
    requests    \* the number of requests decoded so far

TE == INSTANCE H1TransferEncoding

teVars == <<kind, finished, remaining, wire, reported, eofRes,
            declared, sent, calls, ended>>
cycleVars == <<phase, resp, statusLine, head, headDone, cont, reqFlags, requests>>
vars == <<contextVars, teVars, cycleVars>>

Phases == {"idle", "request", "body", "done", "closed", "panicked"}

TokenClasses == {"close", "keep-alive", "upgrade", "other"}
HeaderNames == {"content-length", "transfer-encoding", "connection", "date", "other"}
Header == [name : HeaderNames, toks : Seq(TokenClasses), valid : BOOLEAN]
Line == [src : {"caller", "core"}, name : HeaderNames, toks : Seq(TokenClasses \cup {"chunked", "date"}), num : Nat]

\* ResponseBody::None, ResponseBody::Bytes { bytes }, ResponseBody::Stream
Body == [k : {"None", "Stream"}, bytes : {<< >>}] \cup [k : {"Bytes"}, bytes : TE!Chunk]

\* A header list in the order HeaderMap::drain yields it: the values of one
\* name follow each other.
DrainOrder(hs) ==
    \A i, j \in DOMAIN hs :
        (i < j /\ hs[i].name = hs[j].name) => \A k \in i .. j : hs[k].name = hs[i].name

Response == [version : Versions, status : Statuses,
             headers : {hs \in UNION {[1 .. n -> UserHeaders] : n \in 0 .. MaxHeaders} :
                           DrainOrder(hs)},
             body : Body]

NoStatusLine == [version |-> "none", code |-> 0]
NoResponse == [version |-> "none", status |-> 0, headers |-> << >>,
               body |-> [k |-> "None", bytes |-> << >>]]

IsInformational(s) == s \in 100 .. 199
IsSuccess(s) == s \in 200 .. 299

-----------------------------------------------------------------------------
(* encode_version_status_reason: HTTP/1.0 keeps its token, HTTP/1.1 and    *)
(* every other version are written as HTTP/1.1; the 200 OK shortcut writes *)
(* the same line.                                                          *)
\* Mutant: the version is written as it is, without the HTTP/1.1 fallback.
StatusLineRawVersion(r) == [version |-> r.version, code |-> r.status]

StatusLineOf(r) ==
    [version |-> IF r.version = "HTTP/1.0" THEN "HTTP/1.0" ELSE "HTTP/1.1",
     code    |-> r.status]

\* The size hint of a body (ResponseBody::size): None, Stream or Sized(len).
SizeHint(b) ==
    CASE b.k = "None"  -> [hint |-> "None", len |-> 0]
      [] b.k = "Bytes" -> [hint |-> "Sized", len |-> Len(b.bytes)]
      [] b.k = "Stream" -> [hint |-> "Stream", len |-> 0]

CallerLine(h) == [src |-> "caller", name |-> h.name, toks |-> h.toks, num |-> 0]
CoreLine(n, t, x) == [src |-> "core", name |-> n, toks |-> t, num |-> x]
ConnectionCloseLine == CoreLine("connection", <<"close">>, 0)
DateLine == CoreLine("date", <<"date">>, 0)

CtypeOfToken(t) ==
    CASE t = "close" -> "Close" [] t = "keep-alive" -> "KeepAlive" [] t = "upgrade" -> "Upgrade"

\* The status match of encode_head_inner: 101 first, then a 2xx answer to
\* CONNECT (skip_len), then any other 1xx (rejected with an error).
\* Mutant: the CONNECT test reads the EXPECT bit.
StatusSkipsLenWrongFlag(s) == s # 101 /\ is_expect_header /\ IsSuccess(s)

StatusSkipsLen(s) == s # 101 /\ is_connect_method /\ IsSuccess(s)
StatusRejected(s) == s # 101 /\ ~StatusSkipsLen(s) /\ IsInformational(s)

\* The positions of the headers the drain loop fails on: a Connection value
\* that is not visible ASCII, when the loop does not skip Connection headers.
BadHeaders(hs) ==
    {i \in DOMAIN hs : hs[i].name = "connection" /\ ~is_force_close /\ ~hs[i].valid}

\* The positions at which HeaderMap::drain yields a value with no name: every
\* value of a name after its first.
Unnamed(hs) == {i \in DOMAIN hs : \E j \in 1 .. i - 1 : hs[j].name = hs[i].name}

\* The positions the loop stops at: name.expect panics on a value with no
\* name, before the match; to_str fails on a bad Connection value.
Stops(hs) == Unnamed(hs) \cup BadHeaders(hs)

FirstStop(hs) == CHOOSE i \in Stops(hs) : \A j \in Stops(hs) : i <= j

\* The number of headers the loop gets through before it stops.
Processed(hs) == IF Stops(hs) = {} THEN Len(hs) ELSE FirstStop(hs) - 1

\* The lines written for the first m headers: every header but Connection
\* headers under force-close, verbatim and in order.
\* Mutant: Connection headers are written even under force-close.
CallerLinesNoSkip(hs, m) == [i \in 1 .. m |-> CallerLine(hs[i])]

CallerLines(hs, m) ==
    LET kept == SelectSeq(SubSeq(hs, 1, m),
                          LAMBDA h : ~(h.name = "connection" /\ is_force_close))
    IN  [i \in DOMAIN kept |-> CallerLine(kept[i])]

\* ctype after the loop has scanned the first m headers: each recognised
\* token of a Connection value overwrites it, so the last one wins.  Of a
\* second Connection value the loop never gets to the scan (it panics).
\* Mutant: the first recognised Connection token wins.
CtypeAfterFirstWins(hs, m) ==
    LET P == {p \in UNION {{i} \X DOMAIN hs[i].toks : i \in 1 .. m} :
                /\ hs[p[1]].name = "connection"
                /\ ~is_force_close
                /\ hs[p[1]].toks[p[2]] # "other"}
        first == CHOOSE p \in P : \A q \in P :
                    p[1] < q[1] \/ (p[1] = q[1] /\ p[2] <= q[2])
    IN  IF P = {} THEN ctype ELSE CtypeOfToken(hs[first[1]].toks[first[2]])

CtypeAfter(hs, m) ==
    LET P == {p \in UNION {{i} \X DOMAIN hs[i].toks : i \in 1 .. m} :
                /\ hs[p[1]].name = "connection"
                /\ ~is_force_close
                /\ hs[p[1]].toks[p[2]] # "other"}
        last == CHOOSE p \in P : \A q \in P :
                    q[1] < p[1] \/ (q[1] = p[1] /\ q[2] <= p[2])
    IN  IF P = {} THEN ctype ELSE CtypeOfToken(hs[last[1]].toks[last[2]])

\* The lines encode_head_inner appends after the drain loop.
TrailerLines(r) ==
    LET hs == r.headers
        skipLen == \/ StatusSkipsLen(r.status)
                   \/ \E i \in DOMAIN hs : hs[i].name \in {"content-length", "transfer-encoding"}
        skipDate == \E i \in DOMAIN hs : hs[i].name = "date"
        size == SizeHint(r.body)
    IN  (IF is_force_close THEN <<ConnectionCloseLine>> ELSE << >>)
        \o (IF skipLen \/ size.hint = "None" THEN << >>
            ELSE IF size.hint = "Stream"
                 THEN <<CoreLine("transfer-encoding", <<"chunked">>, 0)>>
                 ELSE <<CoreLine("content-length", << >>, size.len)>>)
        \o (IF skipDate THEN << >> ELSE <<DateLine>>)

\* ResponseBody::encoder: the kind and the length of the body's encoder.
\* Mutant: the Stream arm tests for KeepAlive instead of Upgrade.
EncoderOfWrongVariant(b, ct) ==
    CASE b.k = "None"  -> [kind |-> "Eof", len |-> 0]
      [] b.k = "Bytes" -> [kind |-> "Length", len |-> Len(b.bytes)]
      [] b.k = "Stream" -> [kind |-> IF ct = "KeepAlive" THEN "PlainChunked" ELSE "Chunked",
                            len |-> 0]

EncoderOf(b, ct) ==
    CASE b.k = "None"  -> [kind |-> "Eof", len |-> 0]
      [] b.k = "Bytes" -> [kind |-> "Length", len |-> Len(b.bytes)]
      [] b.k = "Stream" -> [kind |-> IF ct = "Upgrade" THEN "PlainChunked" ELSE "Chunked",
                            len |-> 0]

-----------------------------------------------------------------------------
(* The request cycle.                                                      *)

\* A request has been decoded: Context::reset.
DecodeRequest ==
    /\ phase = "idle"
    /\ requests < MaxRequests
    /\ Reset
    /\ phase' = "request"
    /\ requests' = requests + 1
    /\ resp' = NoResponse
    /\ statusLine' = NoStatusLine
    /\ head' = << >>
    /\ headDone' = FALSE
    /\ cont' = FALSE
    /\ reqFlags' = {}
    /\ UNCHANGED teVars

\* The request processing marks the request: set_expect_header,
\* set_connect_method, set_force_close.
MarkRequest(f) ==
    /\ phase = "request"
    /\ SetFlag(f)
    /\ reqFlags' = reqFlags \cup {f}
    /\ UNCHANGED <<teVars, phase, resp, statusLine, head, headDone, cont, requests>>

\* Context::encode_continue, called for a request that expects it.
EncodeContinue ==
    /\ phase = "request"
    /\ is_expect_header
    /\ ~cont
    /\ cont' = TRUE
    /\ UNCHANGED <<contextVars, teVars, phase, resp, statusLine, head, headDone, reqFlags, requests>>

\* Context::encode_head for response r, then ResponseBody::encoder with the
\* ctype it leaves.  A rejected 1xx status writes nothing and returns an
\* error.  A bad Connection value returns an error, and a second value of one
\* header name panics, both with the status line and the earlier headers
\* written.  An error abandons the connection; a panic unwinds its task.
EncodeHead(r) ==
    /\ phase = "request"
    /\ resp' = r
    /\ \/ /\ StatusRejected(r.status)
          /\ phase' = "closed"
          /\ UNCHANGED <<contextVars, statusLine, head, headDone>>
       \/ /\ ~StatusRejected(r.status)
          /\ Stops(r.headers) # {}
          /\ statusLine' = StatusLineOf(r)
          /\ head' = CallerLines(r.headers, Processed(r.headers))
          /\ ctype' = CtypeAfter(r.headers, Processed(r.headers))
          /\ phase' = IF FirstStop(r.headers) \in Unnamed(r.headers)
                      THEN "panicked" ELSE "closed"
          /\ UNCHANGED <<state, header_cache, headDone>>
       \/ /\ ~StatusRejected(r.status)
          /\ Stops(r.headers) = {}
          /\ statusLine' = StatusLineOf(r)
          /\ head' = CallerLines(r.headers, Len(r.headers)) \o TrailerLines(r)
          /\ headDone' = TRUE
          /\ ctype' = CtypeAfter(r.headers, Len(r.headers))
          /\ header_cache' = TRUE
          /\ phase' = "body"
          /\ UNCHANGED state
          /\ LET enc == EncoderOf(r.body, ctype')
             IN  TE!NewEncoder(enc.kind, enc.len)
          /\ sent' = << >>
          /\ calls' = 0
          /\ ended' = FALSE
    /\ phase' # "body" => UNCHANGED teVars
    /\ UNCHANGED <<cont, reqFlags, requests>>

\* The chunks the body yields: a Bytes body its bytes once (an empty one
\* none), a Stream any chunks, a None body nothing.
BodyChunks(b) ==
    CASE b.k = "Bytes"  -> IF b.bytes = << >> THEN {} ELSE {b.bytes}
      [] b.k = "Stream" -> TE!Chunk
      [] OTHER          -> {}

\* The body yields msg and the dispatcher passes it to encode.
EncodeBody(msg) ==
    /\ phase = "body"
    /\ ~ended
    /\ calls < MaxChunks
    /\ TE!Encode(msg)
    /\ sent' = sent \o msg
    /\ calls' = calls + 1
    /\ ended' = (resp.body.k = "Bytes" \/ (msg = << >> /\ ~EmptyChunkMidStream))
    /\ UNCHANGED <<contextVars, cycleVars>>

\* The body is exhausted and the dispatcher calls encode_eof; an error
\* abandons the connection.
EncodeBodyEof ==
    /\ phase = "body"
    /\ ended \/ BodyChunks(resp.body) = {} \/ resp.body.k = "Stream"
    /\ TE!EncodeEof
    /\ ended' = TRUE
    /\ phase' = IF eofRes' = "ok" THEN "done" ELSE "closed"
    /\ UNCHANGED <<sent, calls, contextVars, resp, statusLine, head, headDone, cont, reqFlags, requests>>

\* After a response the connection waits for the next request when it is
\* keep-alive and not force-closed, and is closed (or handed over, when
\* upgraded) otherwise.
KeepAlive ==
    /\ phase = "done"
    /\ ctype = "KeepAlive"
    /\ ~is_force_close
    /\ phase' = "idle"
    /\ UNCHANGED <<contextVars, teVars, resp, statusLine, head, headDone, cont, reqFlags, requests>>

CloseConnection ==
    /\ phase = "done"
    /\ ctype # "KeepAlive" \/ is_force_close
    /\ phase' = "closed"
    /\ UNCHANGED <<contextVars, teVars, resp, statusLine, head, headDone, cont, reqFlags, requests>>

Init ==
    /\ ContextInit
    /\ kind = "Eof" /\ finished = FALSE /\ remaining = 0 /\ wire = << >>
    /\ reported = FALSE /\ eofRes = "pending" /\ declared = 0
    /\ sent = << >> /\ calls = 0 /\ ended = FALSE
    /\ phase = "idle"
    /\ resp = NoResponse
    /\ statusLine = NoStatusLine
    /\ head = << >>
    /\ headDone = FALSE
    /\ cont = FALSE
    /\ reqFlags = {}
    /\ requests = 0

Next ==
    \/ DecodeRequest
    \/ \E f \in Flags : MarkRequest(f)
    \/ EncodeContinue
    \/ \E r \in Response : EncodeHead(r)
    \/ \E msg \in BodyChunks(resp.body) : EncodeBody(msg)
    \/ EncodeBodyEof
    \/ KeepAlive
    \/ CloseConnection

Spec == Init /\ [][Next]_vars

-----------------------------------------------------------------------------
(* Properties.                                                             *)

TypeOK ==
    /\ ContextTypeOK
    /\ TE!TypeOK
    /\ phase \in Phases
    /\ resp \in Response \cup {NoResponse}
    /\ statusLine \in [version : {"HTTP/1.0", "HTTP/1.1"}, code : Statuses] \cup {NoStatusLine}
    /\ head \in Seq(Line)
    /\ headDone \in BOOLEAN
    /\ cont \in BOOLEAN
    /\ reqFlags \subseteq Flags
    /\ requests \in 0 .. MaxRequests

\* The positions of the content-length / transfer-encoding lines the encoder
\* wrote itself into the head.
CoreFramingLines ==
    {i \in DOMAIN head : head[i].src = "core"
                        /\ head[i].name \in {"content-length", "transfer-encoding"}}

\* The framing the head announces to the client.
Announced ==
    IF \E i \in CoreFramingLines : head[i].name = "transfer-encoding"
    THEN [framing |-> "chunked", len |-> 0]
    ELSE IF \E i \in CoreFramingLines : head[i].name = "content-length"
         THEN [framing |-> "length",
               len |-> head[CHOOSE i \in CoreFramingLines : TRUE].num]
         ELSE [framing |-> "close", len |-> 0]

\* A client that frames the finished body the way the head announced it
\* recovers exactly the bytes the body yielded.
FramingAgrees ==
    CASE Announced.framing = "chunked" ->
            TE!Dechunk(wire) = [ok |-> TRUE, data |-> sent, done |-> TRUE]
      [] Announced.framing = "length" ->
            wire = sent /\ Len(wire) = Announced.len
      [] OTHER -> wire = sent

\* The responses for which the specification promises that body framing and
\* head agree: no framing header from the caller, not a 2xx answer to a
\* CONNECT request, and not an upgraded connection.
SpecRegime ==
    /\ \A i \in DOMAIN resp.headers :
          resp.headers[i].name \notin {"content-length", "transfer-encoding"}
    /\ ~("CONNECT" \in reqFlags /\ IsSuccess(resp.status))
    /\ ctype # "Upgrade"

(* encode_head and ResponseBody::encoder together: once a body is          *)
(* finished (encode_eof returned Ok), a client that frames it the way the  *)
(* head announced recovers exactly the bytes the body yielded: a chunked   *)
(* decoder finds a complete chunked body, a content-length of n covers     *)
(* exactly the n bytes written, and without either the bytes are raw.      *)
ClientDecodesBody ==
    (headDone /\ eofRes = "ok" /\ SpecRegime) => FramingAgrees

(* Force-close (set_force_close, then encode_head): the head carries the   *)
(* encoder's "connection: close" exactly when force-close was set while    *)
(* processing this request, and then no Connection line of the caller.     *)
ForceCloseAnnounced ==
    headDone =>
        /\ ("FORCE_CLOSE" \in reqFlags) = (\E i \in DOMAIN head : head[i] = ConnectionCloseLine)
        /\ "FORCE_CLOSE" \in reqFlags =>
              \A i \in DOMAIN head : head[i].name = "connection" => head[i] = ConnectionCloseLine

\* The head leaves the connection open to a client that reads its Connection
\* lines the way encode_head scans them: in none is the last close /
\* keep-alive / upgrade token a close or an upgrade.
HeadKeepsAlive ==
    \A i \in DOMAIN head :
        head[i].name = "connection" =>
            \A k \in DOMAIN head[i].toks :
                (/\ head[i].toks[k] # "other"
                 /\ \A l \in k + 1 .. Len(head[i].toks) : head[i].toks[l] = "other")
                    => head[i].toks[k] = "keep-alive"

(* reset, the Connection scan and the force-close line of encode_head and  *)
(* the keep-alive decision after the body: the connection waits for       *)
(* another request only after a head that told the client it stays open.  *)
(* A server that reuses a connection its client was told is closed or      *)
(* upgraded reads the next request from a peer that is gone or speaks      *)
(* another protocol.                                                       *)
ReuseOnlyWhenAnnounced ==
    [][(phase = "done" /\ phase' = "idle") => HeadKeepsAlive]_vars

(* The CONNECT rule of encode_head (RFC 7231) with ResponseBody::encoder: *)
(* a 2xx answer to CONNECT opens a tunnel and announces no framing, so the *)
(* client takes the bytes after the head as they are; they must be the     *)
(* bytes the body yielded.                                                 *)
ConnectTunnelFramingAgrees ==
    (headDone /\ eofRes = "ok" /\ "CONNECT" \in reqFlags /\ IsSuccess(resp.status)
        /\ \A i \in DOMAIN resp.headers :
              resp.headers[i].name \notin {"content-length", "transfer-encoding"})
        => FramingAgrees

(* The error taxonomy of encode_head in the specification (§4.2, §7): an   *)
(* unresolved header name is surfaced to the caller as an error, like a    *)
(* rejected status or a bad Connection value, and the connection is        *)
(* abandoned; encoding a head never brings the connection's task down.    *)
HeadErrorsReturned ==
    phase # "panicked"

(* encode_continue is only reached for a request that sent                 *)
(* "Expect: 100-continue" (its debug_assert), across reset of the flags.  *)
ContinueOnlyWhenExpected ==
    cont => "EXPECT" \in reqFlags

(* Step 1 of encode_head in the specification: no content-length or        *)
(* transfer-encoding is written on a 101 Switching Protocols response.     *)
NoFramingOn101 ==
    (headDone /\ resp.status = 101) => CoreFramingLines = {}

(* Step 5 of encode_head and §4.3 of the specification together: a        *)
(* response whose Connection header upgrades the connection, with a        *)
(* streamed body and a status other than 101, is announced with            *)
(* "transfer-encoding: chunked"; its body, framed by the PlainChunked      *)
(* encoder, must then still be what a chunked decoder expects.             *)
UpgradedStreamFramingAgrees ==
    (headDone /\ eofRes = "ok" /\ ctype = "Upgrade" /\ resp.status # 101
        /\ resp.body.k = "Stream") => FramingAgrees

=============================================================================
