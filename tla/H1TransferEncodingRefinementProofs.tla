------------------ MODULE H1TransferEncodingRefinementProofs ------------------
(***************************************************************************)
(* TransferEncoding implements BodyDelivery, for every alphabet, chunk     *)
(* size, chunk count and declared length, in every behaviour in which the *)
(* chunked wire decodes to what was produced (ChunkedFramingDecodes, a     *)
(* fact about the recursive decoder Dechunk that TLC checks).              *)
(***************************************************************************)
EXTENDS H1TransferEncodingRefinement, H1TransferEncodingProofs

-----------------------------------------------------------------------------
(* The encoders without a declared length: Eof and PlainChunked write each *)
(* chunk as it is, so the wire is what was produced; no encoder but Length *)
(* has a declared length.                                                  *)

PlainFraming == kind \in {"Eof", "PlainChunked"} => wire = sent
Undeclared == kind # "Length" => declared = 0

RInv == IInv /\ CInv /\ PlainFraming /\ Undeclared

\* A sequence is a prefix of itself and of any of its extensions.
LEMMA PrefixRefl ==
    ASSUME NEW S, NEW s \in Seq(S)
    PROVE  Abs!IsPrefix(s, s)
BY SubSeqFull DEF Abs!IsPrefix

LEMMA PrefixExtend ==
    ASSUME NEW S, NEW s \in Seq(S), NEW t \in Seq(S)
    PROVE  Abs!IsPrefix(s, s \o t)
<1>1. Len(s \o t) = Len(s) + Len(t) /\ Len(t) \in Nat
  BY ConcatProperties
<1>2. SubSeq(s \o t, 1, Len(s)) = SubSeq(s, 1, Len(s))
  BY PrefixOfConcat
<1>3. QED  BY <1>1, <1>2, SubSeqFull DEF Abs!IsPrefix

\* Neither the Kind nor the declared length ever changes.
LEMMA KindFixed == [Next]_vars => kind' = kind /\ declared' = declared
<1> SUFFICES ASSUME [Next]_vars PROVE kind' = kind /\ declared' = declared
  OBVIOUS
<1>1. ASSUME NEW msg \in Chunk, Produce(msg) PROVE kind' = kind /\ declared' = declared
  BY <1>1 DEF Produce, Encode
<1>2. CASE Finish
  BY <1>2 DEF Finish, EncodeEof
<1>3. CASE UNCHANGED vars
  BY <1>3 DEF vars
<1>4. QED  BY <1>1, <1>2, <1>3 DEF Next

LEMMA InitRInv == Init => RInv
BY InitIInv, InitCInv DEF Init, RInv, PlainFraming, Undeclared

LEMMA NextRInv == RInv /\ [Next]_vars => RInv'
<1> SUFFICES ASSUME RInv, [Next]_vars PROVE RInv'
  OBVIOUS
<1>1. IInv' /\ CInv'
  BY NextIInv, NextCInv DEF RInv
<1>2. kind' = kind /\ declared' = declared
  BY KindFixed
<1>3. Undeclared'
  BY <1>2 DEF RInv, Undeclared
<1>4. PlainFraming'
  <2>1. CASE kind \in {"Eof", "PlainChunked"}
    <3>1. wire = sent
      BY <2>1 DEF RInv, PlainFraming
    <3>2. ASSUME NEW msg \in Chunk, Produce(msg) PROVE wire' = sent'
      <4>1. wire' = wire \o msg /\ sent' = sent \o msg
        BY <2>1, <3>2 DEF Produce, Encode, EncodePlain, EncodeChunked, EncodeLength
      <4>2. QED  BY <3>1, <4>1
    <3>3. CASE Finish
      BY <1>2, <2>1, <3>1, <3>3 DEF Finish, EncodeEof, PlainFraming
    <3>4. CASE UNCHANGED vars
      BY <3>1, <3>4 DEF vars, PlainFraming
    <3>5. QED  BY <2>1, <3>2, <3>3, <3>4 DEF Next, PlainFraming
  <2>2. CASE kind \notin {"Eof", "PlainChunked"}
    BY <1>2, <2>2 DEF PlainFraming
  <2>3. QED  BY <2>1, <2>2
<1>5. QED  BY <1>1, <1>3, <1>4 DEF RInv

\* Without a declared length the client receives the produced bytes as
\* they are: the chunked decoder recovers them, the other encoders write them.
LEMMA DeliveredUnbounded ==
    ASSUME RInv, ChunkedFramingDecodes, kind # "Length"
    PROVE  Delivered = sent
<1>1. CASE kind = "Chunked"
  BY <1>1 DEF ChunkedFramingDecodes, Delivered
<1>2. CASE kind \in {"Eof", "PlainChunked"}
  BY <1>2 DEF RInv, PlainFraming, Delivered
<1>3. QED  BY <1>1, <1>2 DEF RInv, IInv, TypeOK, Kinds

LEMMA DeliveredUnboundedNext ==
    ASSUME RInv', ChunkedFramingDecodes', kind' # "Length"
    PROVE  Delivered' = sent'
<1>1. CASE kind' = "Chunked"
  BY <1>1 DEF ChunkedFramingDecodes, Delivered
<1>2. CASE kind' \in {"Eof", "PlainChunked"}
  BY <1>2 DEF RInv, PlainFraming, Delivered
<1>3. QED  BY <1>1, <1>2 DEF RInv, IInv, TypeOK, Kinds

-----------------------------------------------------------------------------
(* The refinement, step by step.                                           *)

LEMMA InitAbs == Init /\ ChunkedFramingDecodes => Abs!AbsInit
<1> SUFFICES ASSUME Init, ChunkedFramingDecodes PROVE Abs!AbsInit
  OBVIOUS
<1>1. RInv
  BY InitRInv
<1>2. Delivered = << >>
  <2>1. CASE kind = "Length"
    BY <2>1 DEF Init, Delivered
  <2>2. CASE kind # "Length"
    BY <1>1, <2>2, DeliveredUnbounded DEF Init
  <2>3. QED  BY <2>1, <2>2
<1>3. QED  BY <1>1, <1>2 DEF Init, Abs!AbsInit, RInv, IInv, TypeOK, Undeclared

\* A chunk handed to encode is an AbsProduce step.
LEMMA ProduceAbs ==
    ASSUME RInv, RInv', ChunkedFramingDecodes, ChunkedFramingDecodes',
           NEW msg \in Chunk, Produce(msg)
    PROVE  Abs!AbsProduce(msg)
<1>1. eofRes = "pending" /\ eofRes' = eofRes /\ sent' = sent \o msg
  BY DEF Produce, Encode
<1>2. kind' = kind /\ declared' = declared
  BY KindFixed DEF Next
<1>3. msg \in Seq(Octet) /\ sent \in Seq(Octet) /\ sent' \in Seq(Octet)
  BY ChunkIsSeq DEF RInv, IInv, TypeOK
<1>4. CASE kind = "Length"
  <2>1. Delivered = wire /\ Delivered' = wire'
    BY <1>2, <1>4 DEF Delivered
  <2>2. EncodeLength(msg)
    BY <1>4 DEF Produce, Encode, EncodePlain, EncodeChunked
  <2>3. wire \in Seq(Token) /\ msg \in Seq(Token)
    BY ChunkIsTokenSeq DEF RInv, IInv, TypeOK
  <2>4. \E t \in Seq(Token) : wire' = wire \o t
    <3>1. CASE remaining = 0 \/ msg = << >>
      <4>1. wire' = wire
        BY <2>2, <3>1 DEF EncodeLength
      <4>2. wire \o << >> = wire /\ << >> \in Seq(Token)
        BY <2>3, ConcatEmptySeq, EmptySeq
      <4>3. QED  BY <4>1, <4>2
    <3>2. CASE remaining # 0 /\ msg # << >>
      <4> DEFINE n == MinNat(remaining, Len(msg))
      <4>1. remaining \in Nat /\ Len(msg) \in Nat
        BY <2>3 DEF RInv, IInv, TypeOK
      <4>2. ~(remaining = 0) /\ ~(remaining > 0 /\ msg = << >>) /\ remaining > 0
        BY <3>2, <4>1
      <4>3. wire' = wire \o SubSeq(msg, 1, n)
        BY <2>2, <4>2 DEF EncodeLength
      <4>4. n \in 0 .. Len(msg)
        BY <4>1 DEF MinNat
      <4>5. SubSeq(msg, 1, n) \in Seq(Token)
        BY <2>3, <4>4, SubSeqProperties
      <4>6. QED  BY <4>3, <4>5
    <3>3. QED  BY <3>1, <3>2
  <2>5. Abs!IsPrefix(wire, wire')
    BY <2>3, <2>4, PrefixExtend
  <2>6. Abs!IsPrefix(wire', sent') /\ Len(wire') <= declared'
    <3>1. /\ Len(wire') + remaining' = declared'
          /\ Len(wire') <= Len(sent')
          /\ wire' = SubSeq(sent', 1, Len(wire'))
      BY <1>2, <1>4 DEF RInv, IInv, LengthFramingExact
    <3>2. remaining' \in Nat /\ wire' \in Seq(Token)
      BY DEF RInv, IInv, TypeOK
    <3>3. QED  BY <3>1, <3>2 DEF Abs!IsPrefix
  <2>7. QED  BY <1>1, <1>2, <1>4, <2>1, <2>5, <2>6 DEF Abs!AbsProduce
<1>5. CASE kind # "Length"
  <2>1. Delivered = sent /\ Delivered' = sent'
    BY <1>2, <1>5, DeliveredUnbounded, DeliveredUnboundedNext
  <2>2. Abs!IsPrefix(sent, sent \o msg) /\ Abs!IsPrefix(sent', sent')
    BY <1>3, PrefixExtend, PrefixRefl
  <2>3. QED  BY <1>1, <1>2, <1>5, <2>1, <2>2 DEF Abs!AbsProduce
<1>6. QED  BY <1>4, <1>5

\* encode_eof is an AbsFinalize step.
LEMMA FinishAbs ==
    ASSUME RInv, RInv', ChunkedFramingDecodes, ChunkedFramingDecodes', Finish
    PROVE  Abs!AbsFinalize
<1>1. eofRes = "pending" /\ sent' = sent /\ kind' = kind /\ declared' = declared
      /\ remaining' = remaining
  BY DEF Finish, EncodeEof
<1>2. sent \in Seq(Octet) /\ Len(sent) \in Nat /\ remaining \in Nat
  BY DEF RInv, IInv, TypeOK
<1>3. CASE kind = "Length"
  <2>1. wire' = wire /\ eofRes' = IF remaining # 0 THEN "err" ELSE "ok"
    BY <1>3 DEF Finish, EncodeEof
  <2>2. Delivered' = Delivered /\ Delivered = wire
    BY <1>1, <1>3, <2>1 DEF Delivered
  <2>3. /\ Len(wire) + remaining = declared
        /\ Len(wire) <= Len(sent)
        /\ wire = SubSeq(sent, 1, Len(wire))
        /\ remaining > 0 => wire = sent
    BY <1>3 DEF RInv, IInv, LengthFramingExact
  <2>4. CASE remaining = 0
    <3>1. SubSeq(sent, 1, Len(sent)) = sent
      BY <1>2, SubSeqFull
    <3>2. wire = Abs!Due
      BY <1>3, <2>3, <2>4, <3>1 DEF Abs!Due
    <3>3. QED  BY <1>1, <1>3, <2>1, <2>2, <2>3, <2>4, <3>2 DEF Abs!AbsFinalize
  <2>5. CASE remaining # 0
    <3>1. Len(sent) < declared
      BY <1>2, <2>3, <2>5
    <3>2. QED  BY <1>1, <1>3, <2>1, <2>2, <2>5, <3>1 DEF Abs!AbsFinalize
  <2>6. QED  BY <2>4, <2>5
<1>4. CASE kind # "Length"
  <2>1. eofRes' = "ok"
    BY <1>4 DEF Finish, EncodeEof
  <2>2. Delivered = sent /\ Delivered' = sent'
    BY <1>1, <1>4, DeliveredUnbounded, DeliveredUnboundedNext
  <2>3. Abs!Due = sent
    BY <1>4 DEF Abs!Due
  <2>4. QED  BY <1>1, <1>4, <2>1, <2>2, <2>3 DEF Abs!AbsFinalize
<1>5. QED  BY <1>3, <1>4

LEMMA StepAbs ==
    ASSUME RInv, RInv', ChunkedFramingDecodes, ChunkedFramingDecodes', [Next]_vars
    PROVE  [Abs!AbsNext]_Abs!absVars
<1>1. ASSUME NEW msg \in Chunk, Produce(msg) PROVE Abs!AbsNext
  BY <1>1, ProduceAbs DEF Abs!AbsNext
<1>2. CASE Finish
  BY <1>2, FinishAbs DEF Abs!AbsNext
<1>3. CASE UNCHANGED vars
  BY <1>3 DEF vars, Abs!absVars, Delivered
<1>4. QED  BY <1>1, <1>2, <1>3 DEF Next

(* TransferEncoding implements BodyDelivery (DeliversBody) in every        *)
(* behaviour whose chunked wire decodes to what was produced: what the     *)
(* client receives only grows, is a prefix of the body, stays within a     *)
(* declared content-length, and encode_eof succeeds exactly when what was  *)
(* due was delivered.                                                      *)
THEOREM Refinement == Spec /\ []ChunkedFramingDecodes => DeliversBody
<1>1. Spec => []RInv
  BY InitRInv, NextRInv, PTL DEF Spec
<1>2. QED  BY <1>1, InitAbs, StepAbs, PTL DEF Spec, DeliversBody, Abs!AbsSpec

=============================================================================
