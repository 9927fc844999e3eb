---------------------- MODULE H1TransferEncodingProofs ----------------------
(***************************************************************************)
(* Proofs about the body-framing state machine H1TransferEncoding, for     *)
(* every alphabet, chunk size, chunk count and declared length.            *)
(***************************************************************************)
EXTENDS H1TransferEncoding, SequenceTheorems, TLAPS

USE SymAssumption, MaxChunkAssumption, MaxChunksAssumption, MaxLenAssumption,
    EmptyChunkAssumption

-----------------------------------------------------------------------------
(* Lemmas about the data: chunks, tokens and prefixes of concatenations.   *)

LEMMA ChunkIsSeq == Chunk \subseteq Seq(Octet)
BY DEF Chunk

LEMMA OctetIsToken == Octet \subseteq Token
BY DEF Octet, Token, Byte

LEMMA ChunkIsTokenSeq == ASSUME NEW msg \in Chunk PROVE msg \in Seq(Token)
BY ChunkIsSeq, OctetIsToken, SeqMonotonic

\* Appending to a sequence leaves its prefixes as they were.
LEMMA PrefixOfConcat ==
    ASSUME NEW S, NEW s \in Seq(S), NEW t \in Seq(S), NEW k \in 0 .. Len(s)
    PROVE  SubSeq(s \o t, 1, k) = SubSeq(s, 1, k)
<1>1. CASE k = 0
  BY <1>1
<1>2. CASE k \in 1 .. Len(s)
  BY <1>2, SubSeqOfConcat1
<1>3. QED  BY <1>1, <1>2

\* The prefix of s \o t that reaches n elements into t is s \o (t's prefix).
LEMMA PrefixAcrossConcat ==
    ASSUME NEW S, NEW s \in Seq(S), NEW t \in Seq(S), NEW n \in 0 .. Len(t)
    PROVE  SubSeq(s \o t, 1, Len(s) + n) = s \o SubSeq(t, 1, n)
<1>1. /\ s \o t \in Seq(S)
      /\ Len(s \o t) = Len(s) + Len(t)
      /\ \A i \in 1 .. Len(s) + Len(t) :
            (s \o t)[i] = IF i <= Len(s) THEN s[i] ELSE t[i - Len(s)]
  BY ConcatProperties
<1>2. SubSeq(t, 1, n) \in Seq(S) /\ Len(SubSeq(t, 1, n)) = n
      /\ \A i \in 1 .. n : SubSeq(t, 1, n)[i] = t[i]
  BY SubSeqProperties
<1>3. SubSeq(s \o t, 1, Len(s) + n) \in Seq(S)
      /\ Len(SubSeq(s \o t, 1, Len(s) + n)) = Len(s) + n
      /\ \A i \in 1 .. Len(s) + n : SubSeq(s \o t, 1, Len(s) + n)[i] = (s \o t)[i]
  BY <1>1, SubSeqProperties
<1>4. s \o SubSeq(t, 1, n) \in Seq(S)
      /\ Len(s \o SubSeq(t, 1, n)) = Len(s) + n
      /\ \A i \in 1 .. Len(s) + n :
            (s \o SubSeq(t, 1, n))[i] = IF i <= Len(s) THEN s[i] ELSE SubSeq(t, 1, n)[i - Len(s)]
  BY <1>2, ConcatProperties
<1>5. \A i \in 1 .. Len(s) + n :
         SubSeq(s \o t, 1, Len(s) + n)[i] = (s \o SubSeq(t, 1, n))[i]
  BY <1>1, <1>2, <1>3, <1>4
<1>6. QED  BY <1>3, <1>4, <1>5, SeqEqual

-----------------------------------------------------------------------------
(* Type correctness.                                                       *)

LEMMA InitTypeOK == Init => TypeOK
<1> SUFFICES ASSUME Init PROVE TypeOK
  OBVIOUS
<1>1. PICK k \in Kinds, len \in 0 .. MaxLen :
        kind = k /\ remaining = (IF k = "Length" THEN len ELSE 0) /\ declared = remaining
  BY DEF Init
<1>2. << >> \in Seq(Token) /\ << >> \in Seq(Octet)
  BY EmptySeq
<1>3. remaining \in Nat /\ declared \in Nat
  BY <1>1
<1>4. calls \in 0 .. MaxChunks
  BY DEF Init
<1>5. QED  BY <1>1, <1>2, <1>3, <1>4 DEF Init, TypeOK

LEMMA EncodeTypeOK ==
    ASSUME TypeOK, NEW msg \in Chunk, Encode(msg)
    PROVE  /\ finished' \in BOOLEAN
           /\ remaining' \in Nat
           /\ wire' \in Seq(Token)
           /\ reported' \in BOOLEAN
<1>1. msg \in Seq(Token) /\ Len(msg) \in Nat
  BY ChunkIsTokenSeq
<1>2. CASE EncodePlain(msg)
  <2>1. wire \o msg \in Seq(Token)
    BY <1>1, ConcatProperties DEF TypeOK
  <2>2. QED  BY <1>2, <2>1 DEF EncodePlain, TypeOK
<1>3. CASE EncodeChunked(msg)
  <2>1. <<SizeLine(Len(msg))>> \in Seq(Token) /\ Terminator \in Seq(Token)
    BY <1>1 DEF SizeLine, Token, Terminator, CRLF
  <2>2. <<CRLF>> \in Seq(Token)
    BY DEF Token, CRLF
  <2>3. wire \o Terminator \in Seq(Token)
    BY <2>1, ConcatProperties DEF TypeOK
  <2>4. wire \o <<SizeLine(Len(msg))>> \o msg \o <<CRLF>> \in Seq(Token)
    BY <1>1, <2>1, <2>2, ConcatProperties DEF TypeOK
  <2>5. QED  BY <1>3, <2>3, <2>4 DEF EncodeChunked, TypeOK
<1>4. CASE EncodeLength(msg)
  <2>1. \A n \in 0 .. Len(msg) : SubSeq(msg, 1, n) \in Seq(Token)
    BY <1>1, SubSeqProperties
  <2>2. \A n \in 0 .. Len(msg) : wire \o SubSeq(msg, 1, n) \in Seq(Token)
    BY <2>1, ConcatProperties DEF TypeOK
  <2>3. CASE remaining = 0
    BY <1>4, <2>3 DEF EncodeLength, TypeOK
  <2>4. CASE remaining > 0 /\ msg = << >>
    BY <1>4, <2>4 DEF EncodeLength, TypeOK
  <2>5. CASE remaining > 0 /\ msg # << >>
    <3> DEFINE n == MinNat(remaining, Len(msg))
    <3>1. n \in 0 .. Len(msg) /\ remaining - n \in Nat
      BY <1>1 DEF MinNat, TypeOK
    <3>2. QED  BY <1>4, <2>5, <3>1, <2>2 DEF EncodeLength, TypeOK
  <2>6. QED  BY <2>3, <2>4, <2>5 DEF TypeOK
<1>5. QED  BY <1>2, <1>3, <1>4 DEF Encode

LEMMA NextTypeOK == TypeOK /\ [Next]_vars => TypeOK'
<1> SUFFICES ASSUME TypeOK, [Next]_vars PROVE TypeOK'
  OBVIOUS
<1>1. ASSUME NEW msg \in Chunk, Produce(msg) PROVE TypeOK'
  <2>1. msg \in Seq(Octet)
    BY ChunkIsSeq
  <2>2. sent \o msg \in Seq(Octet)
    BY <2>1, ConcatProperties DEF TypeOK
  <2>3. QED  BY <1>1, <2>2, EncodeTypeOK DEF Produce, Encode, TypeOK
<1>2. CASE Finish
  <2>1. <<SizeLine(0), CRLF>> \in Seq(Token)
    BY DEF SizeLine, CRLF, Token
  <2>2. wire \o Terminator \in Seq(Token)
    BY <2>1, ConcatProperties DEF TypeOK, Terminator
  <2>3. QED  BY <1>2, <2>2 DEF Finish, EncodeEof, TypeOK
<1>3. CASE UNCHANGED vars
  BY <1>3 DEF vars, TypeOK
<1>4. QED  BY <1>1, <1>2, <1>3 DEF Next

(* The encoder's state keeps its types: in particular the Length counter  *)
(* never goes below zero, whatever the producer hands in.                  *)
THEOREM TypeCorrect == Spec => []TypeOK
BY InitTypeOK, NextTypeOK, PTL DEF Spec

-----------------------------------------------------------------------------
(* Length framing.  LengthFramingExact is inductive once the types are     *)
(* known: while some bytes remain, everything handed in was written, so a  *)
(* new chunk extends both the written bytes and the payload from the same  *)
(* point, and the counter falls by exactly what was written.              *)

IInv == TypeOK /\ LengthFramingExact

LEMMA InitIInv == Init => IInv
<1> SUFFICES ASSUME Init PROVE IInv
  OBVIOUS
<1>1. TypeOK
  BY InitTypeOK
<1>2. wire = << >> /\ sent = << >> /\ declared = remaining
  BY DEF Init
<1>3. QED  BY <1>1, <1>2 DEF IInv, LengthFramingExact, TypeOK

LEMMA LengthStep ==
    ASSUME TypeOK, LengthFramingExact, kind = "Length",
           NEW msg \in Chunk, Produce(msg)
    PROVE  LengthFramingExact'
<1>1. msg \in Seq(Token) /\ sent \in Seq(Token) /\ wire \in Seq(Token)
  BY ChunkIsTokenSeq, OctetIsToken, SeqMonotonic DEF TypeOK
<1>2. /\ EncodeLength(msg)
      /\ sent' = sent \o msg
      /\ kind' = kind /\ declared' = declared
  BY DEF Produce, Encode, EncodePlain, EncodeChunked
<1>3. /\ Len(wire) + remaining = declared
      /\ Len(wire) <= Len(sent)
      /\ wire = SubSeq(sent, 1, Len(wire))
      /\ remaining > 0 => wire = sent
  BY DEF LengthFramingExact
<1>4. Len(sent \o msg) = Len(sent) + Len(msg)
  BY <1>1, ConcatProperties
<1>5. CASE remaining = 0
  <2>1. wire' = wire /\ remaining' = remaining
    BY <1>2, <1>5 DEF EncodeLength
  <2>2. SubSeq(sent \o msg, 1, Len(wire)) = SubSeq(sent, 1, Len(wire))
    BY <1>1, <1>3, PrefixOfConcat DEF TypeOK
  <2>3. QED  BY <1>2, <1>3, <1>4, <1>5, <2>1, <2>2 DEF LengthFramingExact
<1>6. CASE remaining > 0 /\ msg = << >>
  <2>1. wire' = wire /\ remaining' = remaining
    BY <1>2, <1>6 DEF EncodeLength
  <2>2. sent \o msg = sent
    BY <1>1, <1>6, ConcatEmptySeq
  <2>3. QED  BY <1>2, <1>3, <2>1, <2>2 DEF LengthFramingExact
<1>7. CASE remaining > 0 /\ msg # << >>
  <2> DEFINE n == MinNat(remaining, Len(msg))
  <2>a. remaining \in Nat /\ remaining # 0 /\ Len(msg) \in Nat /\ Len(sent) \in Nat
    BY <1>1, <1>7, LenProperties DEF TypeOK
  <2>1. n \in 0 .. Len(msg) /\ n <= remaining
    BY <2>a DEF MinNat
  <2>0. wire' = wire \o SubSeq(msg, 1, n) /\ remaining' = remaining - n
    <3>1. ~(remaining = 0) /\ ~(remaining > 0 /\ msg = << >>)
      BY <1>7, <2>a
    <3>2. QED  BY <1>2, <3>1 DEF EncodeLength
  <2>2. wire' = sent \o SubSeq(msg, 1, n) /\ remaining' = remaining - n
    BY <1>3, <1>7, <2>0
  <2>9. Len(wire) = Len(sent)
    BY <1>3, <1>7
  <2>3. SubSeq(sent \o msg, 1, Len(sent) + n) = sent \o SubSeq(msg, 1, n)
    BY <1>1, <2>1, PrefixAcrossConcat
  <2>4. Len(SubSeq(msg, 1, n)) = n
    BY <1>1, <2>1, SubSeqProperties
  <2>5. Len(wire') = Len(sent) + n
    BY <1>1, <2>1, <2>2, <2>4, SubSeqProperties, ConcatProperties
  <2>6. remaining' > 0 => SubSeq(msg, 1, n) = msg
    BY <1>1, <2>1, <2>2, <2>a, SubSeqFull DEF MinNat
  <2>7. Len(wire') + remaining' = declared'
    BY <1>2, <1>3, <2>a, <2>1, <2>2, <2>5, <2>9
  <2>10. Len(wire') <= Len(sent')
    BY <1>2, <1>4, <2>a, <2>1, <2>5
  <2>11. wire' = SubSeq(sent', 1, Len(wire'))
    BY <1>2, <2>2, <2>3, <2>5
  <2>12. remaining' > 0 => wire' = sent'
    BY <1>2, <2>2, <2>6
  <2>8. QED  BY <1>2, <2>7, <2>10, <2>11, <2>12 DEF LengthFramingExact
<1>8. QED  BY <1>2, <1>5, <1>6, <1>7 DEF EncodeLength, TypeOK

LEMMA NextIInv == IInv /\ [Next]_vars => IInv'
<1> SUFFICES ASSUME IInv, [Next]_vars PROVE IInv'
  OBVIOUS
<1>1. TypeOK'
  BY NextTypeOK DEF IInv
<1>0. kind' = kind
  <2>1. ASSUME NEW msg \in Chunk, Produce(msg) PROVE kind' = kind
    BY <2>1 DEF Produce, Encode
  <2>2. CASE Finish
    BY <2>2 DEF Finish, EncodeEof
  <2>3. CASE UNCHANGED vars
    BY <2>3 DEF vars
  <2>4. QED  BY <2>1, <2>2, <2>3 DEF Next
<1>2. CASE kind # "Length"
  <2>1. kind' = kind
    BY <1>0
  <2>2. QED  BY <1>1, <1>2, <2>1 DEF IInv, LengthFramingExact
<1>3. CASE kind = "Length"
  <2> SUFFICES LengthFramingExact'
    BY <1>1 DEF IInv
  <2>1. ASSUME NEW msg \in Chunk, Produce(msg) PROVE LengthFramingExact'
    BY <1>3, <2>1, LengthStep DEF IInv
  <2>2. CASE Finish
    <3>1. kind # "Chunked"
      BY <1>3
    <3>2. UNCHANGED <<wire, remaining, sent, declared>>
      BY <2>2, <3>1 DEF Finish, EncodeEof
    <3>3. QED  BY <1>0, <3>2 DEF IInv, LengthFramingExact
  <2>3. CASE UNCHANGED vars
    BY <2>3 DEF vars, IInv, LengthFramingExact
  <2>4. QED  BY <2>1, <2>2, <2>3 DEF Next
<1>4. QED  BY <1>2, <1>3

(* A Length body never carries more than its declared content-length, its  *)
(* bytes are the start of what the producer handed in, and encode_eof can  *)
(* only succeed once exactly the declared number of bytes was written.     *)
THEOREM LengthFraming == Spec => []LengthFramingExact
BY InitIInv, NextIInv, PTL DEF Spec, IInv

-----------------------------------------------------------------------------
(* Completion.  The eof reports agree with the framing state: a Length     *)
(* encoder reports eof (Ok(true), or encode_eof's Ok) only with nothing    *)
(* remaining and fails encode_eof only with bytes remaining; a chunked     *)
(* encoder reports eof only once its eof flag is set; encode_eof fails for *)
(* no other Kind.  The flags are set and cleared together by the arms of   *)
(* encode and encode_eof, so the conjunction is inductive with the types.  *)

CompletionFlags ==
    /\ kind = "Length" =>
          /\ (reported \/ eofRes = "ok") => remaining = 0
          /\ eofRes = "err" => remaining # 0
    /\ kind = "Chunked" => ((reported \/ eofRes = "ok") => finished)
    /\ kind # "Length" => eofRes # "err"

CInv == TypeOK /\ CompletionFlags

LEMMA InitCInv == Init => CInv
BY InitTypeOK DEF Init, CInv, CompletionFlags

\* One encode call keeps the flags in step: each arm sets reported from the
\* counter or the eof flag it leaves.
LEMMA EncodeFlags ==
    ASSUME TypeOK, CompletionFlags, NEW msg \in Chunk, Encode(msg)
    PROVE  CompletionFlags'
<1>1. kind' = kind /\ eofRes' = eofRes /\ eofRes = "pending"
  BY DEF Encode
<1>2. CASE kind = "Length"
  <2>1. EncodeLength(msg)
    BY <1>2 DEF Encode, EncodePlain, EncodeChunked
  <2>2. reported' => remaining' = 0
    BY <2>1 DEF EncodeLength
  <2>3. QED  BY <1>1, <1>2, <2>2 DEF CompletionFlags
<1>3. CASE kind = "Chunked"
  <2>1. EncodeChunked(msg)
    BY <1>3 DEF Encode, EncodePlain, EncodeLength
  <2>2. reported' = finished'
    BY <2>1 DEF EncodeChunked
  <2>3. QED  BY <1>1, <1>3, <2>2 DEF CompletionFlags
<1>4. CASE kind \in {"Eof", "PlainChunked"}
  BY <1>1, <1>4 DEF CompletionFlags
<1>5. QED  BY <1>2, <1>3, <1>4 DEF TypeOK, Kinds

LEMMA NextCInv == CInv /\ [Next]_vars => CInv'
<1> SUFFICES ASSUME CInv, [Next]_vars PROVE CInv'
  OBVIOUS
<1>1. TypeOK'
  BY NextTypeOK DEF CInv
<1>2. ASSUME NEW msg \in Chunk, Produce(msg) PROVE CompletionFlags'
  BY <1>2, EncodeFlags DEF Produce, CInv
<1>3. CASE Finish
  <2> SUFFICES CompletionFlags'
    BY <1>1 DEF CInv
  <2>1. eofRes = "pending" /\ kind' = kind /\ remaining' = remaining
        /\ reported' = reported
    BY <1>3 DEF Finish, EncodeEof
  <2>2. CASE kind = "Length"
    <3>1. eofRes' = IF remaining # 0 THEN "err" ELSE "ok"
      BY <1>3, <2>2 DEF Finish, EncodeEof
    <3>2. reported => remaining = 0
      BY <2>1, <2>2 DEF CInv, CompletionFlags
    <3>3. QED  BY <2>1, <2>2, <3>1, <3>2 DEF CompletionFlags
  <2>3. CASE kind = "Chunked"
    <3>1. eofRes' = "ok" /\ finished' = TRUE
      BY <1>3, <2>3 DEF Finish, EncodeEof
    <3>2. QED  BY <2>1, <2>3, <3>1 DEF CompletionFlags
  <2>4. CASE kind \in {"Eof", "PlainChunked"}
    <3>1. eofRes' = "ok"
      BY <1>3, <2>4 DEF Finish, EncodeEof
    <3>2. QED  BY <2>1, <2>4, <3>1 DEF CompletionFlags
  <2>5. QED  BY <2>2, <2>3, <2>4 DEF CInv, TypeOK, Kinds
<1>4. CASE UNCHANGED vars
  BY <1>1, <1>4 DEF vars, CInv, CompletionFlags
<1>5. QED  BY <1>1, <1>2, <1>3, <1>4 DEF Next, CInv

(* The eof reports of encode and encode_eof are sound (CompletionSound),   *)
(* in every behaviour in which the chunked wire decodes to what was        *)
(* produced (ChunkedFramingDecodes, model-checked: it is a fact about the  *)
(* recursive decoder Dechunk): the caller is told the body is finished     *)
(* only when its framing is complete, and encode_eof fails only when not.  *)
THEOREM CompletionSoundness == Spec /\ []ChunkedFramingDecodes => []CompletionSound
<1>1. CInv /\ ChunkedFramingDecodes => CompletionSound
  <2> SUFFICES ASSUME CInv, ChunkedFramingDecodes PROVE CompletionSound
    OBVIOUS
  <2>1. CASE kind = "Length"
    BY <2>1 DEF CInv, CompletionFlags, CompletionSound, BodyComplete
  <2>2. CASE kind = "Chunked"
    <3>1. Dechunk(wire).done = finished
      BY <2>2 DEF ChunkedFramingDecodes
    <3>2. QED  BY <2>2, <3>1 DEF CInv, CompletionFlags, CompletionSound, BodyComplete
  <2>3. CASE kind \in {"Eof", "PlainChunked"}
    BY <2>3 DEF CInv, CompletionFlags, CompletionSound, BodyComplete
  <2>4. QED  BY <2>1, <2>2, <2>3 DEF CInv, TypeOK, Kinds
<1>2. Spec => []CInv
  BY InitCInv, NextCInv, PTL DEF Spec
<1>3. QED  BY <1>1, <1>2, PTL

=============================================================================
