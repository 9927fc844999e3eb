------------------------- MODULE H1TransferEncoding -------------------------
(***************************************************************************)
(* The body-framing state machine of the HTTP/1 encoder                    *)
(* (actix-http-alt/src/h1/proto/encode.rs, struct TransferEncoding and its *)
(* methods encode and encode_eof), driven by a body producer.              *)
(*                                                                         *)
(* Data abstraction.  A body chunk is a sequence of byte symbols from Sym. *)
(* The bytes written to the write buffer are a sequence of wire tokens:    *)
(* a byte symbol, SizeLine(n) for the chunk-size line "{:X}\r\n" (the hex  *)
(* digits abstracted to the number they denote) and CRLF for "\r\n".       *)
(* The chunked terminator "0\r\n\r\n" is then <<SizeLine(0), CRLF>>, which *)
(* is byte-for-byte what a size line of an empty chunk followed by its     *)
(* CRLF would be, so a client decoder cannot tell the two apart.           *)
(*                                                                         *)
(* The WriteBuf's two modes (Flat and List) append the same bytes in the   *)
(* same order; the model keeps the concatenation only.                     *)
(***************************************************************************)
EXTENDS Naturals, Sequences

CONSTANTS
    Sym,                 \* the byte values a body chunk is made of
    MaxChunk,            \* the longest chunk the body producer yields
    MaxChunks,           \* the number of chunks the body producer yields
    MaxLen,              \* the largest declared length of a Length body
    EmptyChunkMidStream  \* may the producer yield an empty chunk and go on?

ASSUME SymAssumption == Sym # {}
ASSUME MaxChunkAssumption == MaxChunk \in Nat \ {0}
ASSUME MaxChunksAssumption == MaxChunks \in Nat
ASSUME MaxLenAssumption == MaxLen \in Nat
ASSUME EmptyChunkAssumption == EmptyChunkMidStream \in BOOLEAN

VARIABLES
    kind,       \* the Kind of the encoder: "Eof", "PlainChunked", "Chunked", "Length"
    finished,   \* the flag of Kind::EncodeChunked(eof)
    remaining,  \* the counter of Kind::Length(remaining)
    wire,       \* the tokens appended to the write buffer by this encoder
    reported,   \* the bool of the last Ok(bool) that encode returned
    eofRes,     \* the result of encode_eof: "pending", "ok" or "err"
    declared,   \* ghost: the length the encoder was created with
    sent,       \* ghost: the concatenation of every chunk given to encode
    calls,      \* ghost: the number of encode calls so far
    ended       \* ghost: the body producer has signalled its end

vars == <<kind, finished, remaining, wire, reported, eofRes,
          declared, sent, calls, ended>>

Kinds == {"Eof", "PlainChunked", "Chunked", "Length"}

\* Wire tokens: one byte of a chunk, a chunk-size line, a "\r\n".
Byte(b) == [k |-> "byte", v |-> b]
SizeLine(n) == [k |-> "size", v |-> n]
CRLF == [k |-> "crlf", v |-> 0]
Octet == {Byte(b) : b \in Sym}
Token == [k : {"byte"}, v : Sym] \cup [k : {"size"}, v : Nat] \cup {CRLF}

\* "0\r\n\r\n"
Terminator == <<SizeLine(0), CRLF>>

\* The chunks the body producer can yield.
Chunk == UNION {[1 .. n -> Octet] : n \in 0 .. MaxChunk}

MinNat(a, b) == IF a <= b THEN a ELSE b

-----------------------------------------------------------------------------
(* Constructors: TransferEncoding::eof, chunked, plain_chunked, length.    *)

NewEncoder(k, len) ==
    /\ kind' = k
    /\ finished' = FALSE
    /\ remaining' = IF k = "Length" THEN len ELSE 0
    /\ declared' = IF k = "Length" THEN len ELSE 0
    /\ wire' = << >>
    /\ reported' = FALSE
    /\ eofRes' = "pending"

-----------------------------------------------------------------------------
(* TransferEncoding::encode(msg), one action per arm of the match on kind. *)
(* Each sets wire', finished', remaining' and reported' (the Ok(bool)).    *)

\* Kind::Eof | Kind::PlainChunked: the chunk is written as it is.
EncodePlain(msg) ==
    /\ kind \in {"Eof", "PlainChunked"}
    /\ wire' = wire \o msg
    /\ reported' = (msg = << >>)
    /\ UNCHANGED <<finished, remaining>>

\* Mutant: the empty chunk writes the terminator but leaves eof unset.
EncodeChunkedNoEofFlag(msg) ==
    /\ kind = "Chunked"
    /\ \/ /\ finished
          /\ UNCHANGED <<wire, finished>>
       \/ /\ ~finished
          /\ msg = << >>
          /\ wire' = wire \o Terminator
          /\ UNCHANGED finished
       \/ /\ ~finished
          /\ msg # << >>
          /\ wire' = wire \o <<SizeLine(Len(msg))>> \o msg \o <<CRLF>>
          /\ UNCHANGED finished
    /\ reported' = finished'
    /\ UNCHANGED remaining

\* Kind::EncodeChunked(eof): once eof is set nothing more is written; an
\* empty chunk writes the terminator and sets eof; any other chunk is framed
\* by its size line and a CRLF.
EncodeChunked(msg) ==
    /\ kind = "Chunked"
    /\ \/ /\ finished
          /\ UNCHANGED <<wire, finished>>
       \/ /\ ~finished
          /\ msg = << >>
          /\ finished' = TRUE
          /\ wire' = wire \o Terminator
       \/ /\ ~finished
          /\ msg # << >>
          /\ wire' = wire \o <<SizeLine(Len(msg))>> \o msg \o <<CRLF>>
          /\ UNCHANGED finished
    /\ reported' = finished'
    /\ UNCHANGED remaining

\* Mutant: the whole chunk is written (no split_to) and counted.
EncodeLengthUnclamped(msg) ==
    /\ kind = "Length"
    /\ \/ /\ remaining = 0
          /\ reported' = TRUE
          /\ UNCHANGED <<wire, remaining>>
       \/ /\ remaining > 0
          /\ msg = << >>
          /\ reported' = (remaining = 0)
          /\ UNCHANGED <<wire, remaining>>
       \/ /\ remaining > 0
          /\ msg # << >>
          /\ wire' = wire \o msg
          /\ remaining' = remaining - Len(msg)
          /\ reported' = (remaining' = 0)
    /\ UNCHANGED finished

\* Mutant: the whole chunk is written, but only min(remaining, len) counted.
EncodeLengthWholeChunk(msg) ==
    /\ kind = "Length"
    /\ \/ /\ remaining = 0
          /\ reported' = TRUE
          /\ UNCHANGED <<wire, remaining>>
       \/ /\ remaining > 0
          /\ msg = << >>
          /\ reported' = (remaining = 0)
          /\ UNCHANGED <<wire, remaining>>
       \/ /\ remaining > 0
          /\ msg # << >>
          /\ wire' = wire \o msg
          /\ remaining' = remaining - MinNat(remaining, Len(msg))
          /\ reported' = (remaining' = 0)
    /\ UNCHANGED finished

\* Mutant: an empty chunk is reported as the end of the body.
EncodeLengthEmptyIsEof(msg) ==
    /\ kind = "Length"
    /\ \/ /\ remaining = 0
          /\ reported' = TRUE
          /\ UNCHANGED <<wire, remaining>>
       \/ /\ remaining > 0
          /\ msg = << >>
          /\ reported' = TRUE
          /\ UNCHANGED <<wire, remaining>>
       \/ /\ remaining > 0
          /\ msg # << >>
          /\ LET n == MinNat(remaining, Len(msg))
             IN  /\ wire' = wire \o SubSeq(msg, 1, n)
                 /\ remaining' = remaining - n
                 /\ reported' = (remaining' = 0)
    /\ UNCHANGED finished

\* Kind::Length(remaining): with nothing left to write the chunk is ignored;
\* an empty chunk writes nothing; otherwise at most `remaining` bytes of the
\* chunk are written and the rest is dropped.
EncodeLength(msg) ==
    /\ kind = "Length"
    /\ \/ /\ remaining = 0
          /\ reported' = TRUE
          /\ UNCHANGED <<wire, remaining>>
       \/ /\ remaining > 0
          /\ msg = << >>
          /\ reported' = (remaining = 0)
          /\ UNCHANGED <<wire, remaining>>
       \/ /\ remaining > 0
          /\ msg # << >>
          /\ LET n == MinNat(remaining, Len(msg))
             IN  /\ wire' = wire \o SubSeq(msg, 1, n)
                 /\ remaining' = remaining - n
                 /\ reported' = (remaining' = 0)
    /\ UNCHANGED finished

Encode(msg) ==
    /\ eofRes = "pending"
    /\ \/ EncodePlain(msg)
       \/ EncodeChunked(msg)
       \/ EncodeLength(msg)
    /\ UNCHANGED <<kind, eofRes, declared>>

(* TransferEncoding::encode_eof: Length fails unless all declared bytes    *)
(* were written; EncodeChunked writes the terminator unless already done.  *)
\* Mutant: the Length arm does not check remaining.
EncodeEofLengthAlwaysOk ==
    /\ eofRes = "pending"
    /\ \/ /\ kind \in {"Eof", "PlainChunked", "Length"}
          /\ eofRes' = "ok"
          /\ UNCHANGED <<wire, finished>>
       \/ /\ kind = "Chunked"
          /\ finished' = TRUE
          /\ wire' = IF finished THEN wire ELSE wire \o Terminator
          /\ eofRes' = "ok"
    /\ UNCHANGED <<kind, remaining, reported, declared>>

EncodeEof ==
    /\ eofRes = "pending"
    /\ \/ /\ kind \in {"Eof", "PlainChunked"}
          /\ eofRes' = "ok"
          /\ UNCHANGED <<wire, finished>>
       \/ /\ kind = "Length"
          /\ eofRes' = IF remaining # 0 THEN "err" ELSE "ok"
          /\ UNCHANGED <<wire, finished>>
       \/ /\ kind = "Chunked"
          /\ finished' = TRUE
          /\ wire' = IF finished THEN wire ELSE wire \o Terminator
          /\ eofRes' = "ok"
    /\ UNCHANGED <<kind, remaining, reported, declared>>

-----------------------------------------------------------------------------
(* The body producer of this standalone model: it yields up to MaxChunks   *)
(* chunks and then ends, and the caller then calls encode_eof.  An empty   *)
(* chunk is the end-of-body signal of the Eof encoder; unless               *)
(* EmptyChunkMidStream the producer yields nothing after one.              *)

Produce(msg) ==
    /\ ~ended
    /\ calls < MaxChunks
    /\ Encode(msg)
    /\ sent' = sent \o msg
    /\ calls' = calls + 1
    /\ ended' = (msg = << >> /\ ~EmptyChunkMidStream)

Finish ==
    /\ EncodeEof
    /\ ended' = TRUE
    /\ UNCHANGED <<sent, calls>>

Init ==
    /\ \E k \in Kinds, len \in 0 .. MaxLen :
          /\ kind = k
          /\ remaining = IF k = "Length" THEN len ELSE 0
          /\ declared = remaining
    /\ finished = FALSE
    /\ wire = << >>
    /\ reported = FALSE
    /\ eofRes = "pending"
    /\ sent = << >>
    /\ calls = 0
    /\ ended = FALSE

Next ==
    \/ \E msg \in Chunk : Produce(msg)
    \/ Finish

Spec == Init /\ [][Next]_vars

-----------------------------------------------------------------------------
(* Properties.                                                             *)

TypeOK ==
    /\ kind \in Kinds
    /\ finished \in BOOLEAN
    /\ remaining \in Nat
    /\ wire \in Seq(Token)
    /\ reported \in BOOLEAN
    /\ eofRes \in {"pending", "ok", "err"}
    /\ declared \in Nat
    /\ sent \in Seq(Octet)
    /\ calls \in 0 .. MaxChunks
    /\ ended \in BOOLEAN

(* What a client's chunked decoder makes of the tokens w: ok is FALSE when *)
(* w is not a well-formed chunked body (or has bytes after the last-chunk *)
(* terminator), data is the payload it recovers, done says it has seen the *)
(* terminator.  D[i] decodes the suffix of w that starts at position i.    *)
Dechunk(w) ==
    LET Fail == [ok |-> FALSE, data |-> << >>, done |-> FALSE]
        D[i \in 1 .. Len(w) + 1] ==
          IF i = Len(w) + 1 THEN [ok |-> TRUE, data |-> << >>, done |-> FALSE]
          ELSE IF w[i].k # "size" THEN Fail
          ELSE IF w[i].v = 0
               THEN IF i + 1 = Len(w) /\ w[i + 1] = CRLF
                    THEN [ok |-> TRUE, data |-> << >>, done |-> TRUE]
                    ELSE Fail
          ELSE LET n == w[i].v
               IN  IF /\ i + n + 1 <= Len(w)
                      /\ \A j \in i + 1 .. i + n : w[j].k = "byte"
                      /\ w[i + n + 1] = CRLF
                   THEN [ok   |-> D[i + n + 2].ok,
                         data |-> SubSeq(w, i + 1, i + n) \o D[i + n + 2].data,
                         done |-> D[i + n + 2].done]
                   ELSE Fail
    IN  D[1]

(* The body is completely framed: a Length body has all declared bytes, a  *)
(* chunked body ends in the terminator; an Eof body is delimited by the   *)
(* end of the connection and is complete whenever the producer says so.   *)
BodyComplete ==
    CASE kind = "Length"  -> remaining = 0
      [] kind = "Chunked" -> Dechunk(wire).done
      [] OTHER            -> TRUE

(* Length framing (encode, Kind::Length): the bytes written are exactly    *)
(* the first bytes the producer handed in, never more than the declared    *)
(* content-length, the declared length minus what was written is what      *)
(* remains, and while some remains nothing handed in was dropped.          *)
LengthFramingExact ==
    kind = "Length" =>
        /\ Len(wire) + remaining = declared
        /\ Len(wire) <= Len(sent)
        /\ wire = SubSeq(sent, 1, Len(wire))
        /\ remaining > 0 => wire = sent

(* Chunked framing (encode and encode_eof, Kind::EncodeChunked): a client  *)
(* decoding the bytes written so far with a chunked decoder finds a        *)
(* well-formed body, recovers exactly the concatenation of the chunks the  *)
(* producer handed in, and sees the terminator exactly when eof is set.    *)
ChunkedFramingDecodes ==
    kind = "Chunked" =>
        Dechunk(wire) = [ok |-> TRUE, data |-> sent, done |-> finished]

(* The eof reports (the Ok(true) of encode, the result of encode_eof) are  *)
(* sound: the caller is told the body is finished only when its framing is *)
(* complete, and encode_eof fails only when it is not.                     *)
CompletionSound ==
    /\ (reported \/ eofRes = "ok") => BodyComplete
    /\ eofRes = "err" => ~BodyComplete

=============================================================================
