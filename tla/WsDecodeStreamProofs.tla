------------------------ MODULE WsDecodeStreamProofs ------------------------
(***************************************************************************)
(* Proofs about DecodeStream (WsDecodeStream), for every number of frames, *)
(* frame length, item size and number of error items.                      *)
(***************************************************************************)
EXTENDS WsDecodeStream, SequenceTheorems, TLAPS

USE NFramesAssumption, FrameLenAssumption, MaxItemAssumption, MaxErrsAssumption

\* The bytes the peer can send.
Byte == [f : 1 .. NFrames, p : 1 .. FrameLen]

\* What the pipeline of buf, the ready bytes and the pending bytes must be
\* once n frames have been returned: the peer's bytes after them.
After(n) == SubSeq(Input, n * FrameLen + 1, Len(Input))

\* The buffer decode is called on in DecodePoll.
PollBuf == IF open THEN buf \o ready ELSE buf

\* The error items are kept in the order S yields them.
Sorted(s) == \A i, j \in 1 .. Len(s) : i <= j => s[i] <= s[j]

(* The inductive invariant: NoBytesLost, with the types it needs, the      *)
(* count of returned frames bounded by the input, and the error items in  *)
(* order.                                                                  *)
DInv ==
    /\ TypeOK
    /\ cut <= NFrames * FrameLen
    /\ yielded = [i \in 1 .. Len(yielded) |-> i]
    /\ Len(yielded) * FrameLen <= Len(Input)
    /\ buf \o ready \o pending = After(Len(yielded))
    /\ Sorted(readyErrs)

(* How the stream ends: S ends only once every byte has arrived, stream   *)
(* is set to None only at that end with nothing left in it, and poll_next *)
(* has returned Ready(None) only with stream None and no whole frame in   *)
(* buf.  The cut is the one Init chose.                                   *)
DEnd ==
    /\ eos => pending = << >>
    /\ ~open => eos /\ ready = << >> /\ readyErrs = << >>
    /\ done => ~open /\ ~FrameReady(buf)
    /\ cut \in 0 .. (IF NFrames = 0 THEN 0 ELSE FrameLen - 1)

-----------------------------------------------------------------------------
(* Lemmas about sequences.                                                 *)

\* Cutting s at n and joining the two parts gives s back.
LEMMA SplitJoin ==
    ASSUME NEW S, NEW s \in Seq(S), NEW n \in 0 .. Len(s)
    PROVE  SubSeq(s, 1, n) \o SubSeq(s, n + 1, Len(s)) = s
<1>1. 1 \in 1 .. Len(s) + 1 /\ n \in 1 - 1 .. Len(s) /\ Len(s) \in n .. Len(s)
  OBVIOUS
<1>2. SubSeq(s, 1, n) \o SubSeq(s, n + 1, Len(s)) = SubSeq(s, 1, Len(s))
  BY <1>1, ConcatAdjacentSubSeq
<1>3. QED  BY <1>2, SubSeqFull

\* The elements of s after its first m.
LEMMA SuffixProps ==
    ASSUME NEW S, NEW s \in Seq(S), NEW m \in 0 .. Len(s)
    PROVE  /\ SubSeq(s, m + 1, Len(s)) \in Seq(S)
           /\ Len(SubSeq(s, m + 1, Len(s))) = Len(s) - m
           /\ \A i \in 1 .. Len(s) - m : SubSeq(s, m + 1, Len(s))[i] = s[m + i]
<1>1. \A i \in m + 1 .. Len(s) : s[i] \in S
  BY ElementOfSeq
<1>2. QED  BY <1>1, SubSeqProperties

\* Dropping the first d elements of a concatenation whose first part has
\* at least d elements.
LEMMA DropFront ==
    ASSUME NEW S, NEW s \in Seq(S), NEW t \in Seq(S), NEW d \in 0 .. Len(s)
    PROVE  SubSeq(s, d + 1, Len(s)) \o t = SubSeq(s \o t, d + 1, Len(s) + Len(t))
<1>0. Len(s) \in Nat /\ Len(t) \in Nat
  OBVIOUS
<1>1. /\ s \o t \in Seq(S) /\ Len(s \o t) = Len(s) + Len(t)
      /\ \A i \in 1 .. Len(s) + Len(t) :
            (s \o t)[i] = IF i <= Len(s) THEN s[i] ELSE t[i - Len(s)]
  BY ConcatProperties
<1>2. /\ SubSeq(s, d + 1, Len(s)) \in Seq(S) /\ Len(SubSeq(s, d + 1, Len(s))) = Len(s) - d
      /\ \A i \in 1 .. Len(s) - d : SubSeq(s, d + 1, Len(s))[i] = s[d + i]
  <2>1. \A i \in d + 1 .. Len(s) : s[i] \in S
    BY ElementOfSeq
  <2>2. d + 1 \in Int /\ Len(s) \in Int
    OBVIOUS
  <2>3. QED  BY <2>1, <2>2, SubSeqProperties
<1>3. /\ SubSeq(s \o t, d + 1, Len(s) + Len(t)) \in Seq(S)
      /\ Len(SubSeq(s \o t, d + 1, Len(s) + Len(t))) = Len(s) + Len(t) - d
      /\ \A i \in 1 .. Len(s) + Len(t) - d : SubSeq(s \o t, d + 1, Len(s) + Len(t))[i] = (s \o t)[d + i]
  <2>1. \A i \in d + 1 .. Len(s) + Len(t) : (s \o t)[i] \in S
    BY <1>1, ElementOfSeq
  <2>2. d + 1 \in Int /\ Len(s) + Len(t) \in Int
    OBVIOUS
  <2>3. QED  BY <2>1, <2>2, SubSeqProperties
<1>4. /\ SubSeq(s, d + 1, Len(s)) \o t \in Seq(S)
      /\ Len(SubSeq(s, d + 1, Len(s)) \o t) = Len(s) - d + Len(t)
      /\ \A i \in 1 .. Len(s) - d + Len(t) :
            (SubSeq(s, d + 1, Len(s)) \o t)[i] =
               IF i <= Len(s) - d THEN SubSeq(s, d + 1, Len(s))[i] ELSE t[i - (Len(s) - d)]
  <2>1. SubSeq(s, d + 1, Len(s)) \in Seq(S)
    BY <1>2
  <2>2. /\ SubSeq(s, d + 1, Len(s)) \o t \in Seq(S)
        /\ Len(SubSeq(s, d + 1, Len(s)) \o t) = Len(SubSeq(s, d + 1, Len(s))) + Len(t)
        /\ \A i \in 1 .. Len(SubSeq(s, d + 1, Len(s))) + Len(t) :
              (SubSeq(s, d + 1, Len(s)) \o t)[i] =
                 IF i <= Len(SubSeq(s, d + 1, Len(s))) THEN SubSeq(s, d + 1, Len(s))[i]
                 ELSE t[i - Len(SubSeq(s, d + 1, Len(s)))]
    BY <2>1, ConcatProperties, Zenon
  <2>3. QED  BY <1>2, <2>2
<1>5. \A i \in 1 .. Len(s) - d + Len(t) :
         (SubSeq(s, d + 1, Len(s)) \o t)[i] = SubSeq(s \o t, d + 1, Len(s) + Len(t))[i]
  <2> SUFFICES ASSUME NEW i \in 1 .. Len(s) - d + Len(t)
               PROVE (SubSeq(s, d + 1, Len(s)) \o t)[i] = SubSeq(s \o t, d + 1, Len(s) + Len(t))[i]
    OBVIOUS
  <2>1. CASE i <= Len(s) - d
    BY <1>1, <1>2, <1>3, <1>4, <2>1
  <2>2. CASE i > Len(s) - d
    <3>1. d + i - Len(s) = i - (Len(s) - d) /\ d + i \in 1 .. Len(s) + Len(t) /\ ~(d + i <= Len(s))
      BY <2>2
    <3>2. QED  BY <1>1, <1>3, <1>4, <2>2, <3>1
  <2>3. QED  BY <1>0, <2>1, <2>2
<1>6. Len(SubSeq(s, d + 1, Len(s)) \o t) = Len(SubSeq(s \o t, d + 1, Len(s) + Len(t)))
      /\ Len(s) - d + Len(t) = Len(SubSeq(s, d + 1, Len(s)) \o t)
  BY <1>0, <1>3, <1>4
<1>7. QED  BY <1>3, <1>4, <1>5, <1>6, SeqEqual

\* Dropping d more elements of a suffix of s.
LEMMA SuffixOfSuffix ==
    ASSUME NEW S, NEW s \in Seq(S), NEW a \in 0 .. Len(s), NEW d \in 0 .. Len(s) - a
    PROVE  SubSeq(SubSeq(s, a + 1, Len(s)), d + 1, Len(s) - a) = SubSeq(s, a + d + 1, Len(s))
<1> DEFINE u == SubSeq(s, a + 1, Len(s))
<1>1. /\ u \in Seq(S) /\ Len(u) = Len(s) - a
      /\ \A i \in 1 .. Len(s) - a : u[i] = s[a + i]
  BY SubSeqProperties
<1>2. /\ SubSeq(u, d + 1, Len(s) - a) \in Seq(S)
      /\ Len(SubSeq(u, d + 1, Len(s) - a)) = Len(s) - a - d
      /\ \A i \in 1 .. Len(s) - a - d : SubSeq(u, d + 1, Len(s) - a)[i] = u[d + i]
  BY <1>1, SubSeqProperties
<1>3. /\ SubSeq(s, a + d + 1, Len(s)) \in Seq(S)
      /\ Len(SubSeq(s, a + d + 1, Len(s))) = Len(s) - a - d
      /\ \A i \in 1 .. Len(s) - a - d : SubSeq(s, a + d + 1, Len(s))[i] = s[a + d + i]
  BY SubSeqProperties
<1>4. \A i \in 1 .. Len(s) - a - d : SubSeq(u, d + 1, Len(s) - a)[i] = SubSeq(s, a + d + 1, Len(s))[i]
  BY <1>1, <1>2, <1>3
<1>5. QED  BY <1>2, <1>3, <1>4, SeqEqual


\* Concatenation of the peer's bytes is associative.
LEMMA AssocByte ==
    ASSUME NEW x \in Seq(Byte), NEW y \in Seq(Byte), NEW z \in Seq(Byte)
    PROVE  (x \o y) \o z = x \o (y \o z)
BY ConcatAssociative, SMTT(30)

-----------------------------------------------------------------------------
(* The peer's bytes.                                                       *)

\* The k-th byte sent belongs to a frame the peer sends.
LEMMA ByteAtType ==
    ASSUME NEW k \in 1 .. NFrames * FrameLen
    PROVE  ByteAt(k) \in Byte
BY DEF ByteAt, Byte

LEMMA InputType ==
    ASSUME NEW c \in 0 .. FrameLen, c <= NFrames * FrameLen
    PROVE  LET in == [k \in 1 .. NFrames * FrameLen - c |-> ByteAt(k)]
           IN  in \in Seq(Byte) /\ Len(in) = NFrames * FrameLen - c
                /\ \A k \in 1 .. Len(in) : in[k] = ByteAt(k)
<1>1. NFrames * FrameLen - c \in Nat
  OBVIOUS
<1>2. \A k \in 1 .. NFrames * FrameLen - c : ByteAt(k) \in Byte
  BY ByteAtType
<1>3. QED  BY <1>1, <1>2

\* A whole number of frames that fits in the frames the peer sends.
LEMMA MulBound ==
    ASSUME NEW y \in Nat, (y + 1) * FrameLen <= NFrames * FrameLen
    PROVE  y + 1 <= NFrames
BY FrameLenAssumption, NFramesAssumption

\* The first byte after n whole frames starts frame n + 1.
LEMMA FrameStart ==
    ASSUME NEW n \in Nat
    PROVE  ByteAt(n * FrameLen + 1).f = n + 1
BY DEF ByteAt

LEMMA InitDInv == Init => DInv
<1> SUFFICES ASSUME Init PROVE DInv
  OBVIOUS
<1>1. cut \in 0 .. FrameLen /\ cut <= NFrames * FrameLen
  BY DEF Init
<1>2. Input \in Seq(Byte) /\ Len(Input) = NFrames * FrameLen - cut
  BY <1>1, InputType DEF Input
<1>3. SubSeq(Input, 0 * FrameLen + 1, Len(Input)) = Input
  <2>1. 0 * FrameLen + 1 = 1
    OBVIOUS
  <2>2. QED  BY <1>2, <2>1, SubSeqFull
<1>4. << >> \o << >> \o Input = Input
  BY <1>2, ConcatEmptySeq
<1>5. TypeOK
  <2>1. << >> \in Seq(Byte) /\ << >> \in Seq(0 .. 0) /\ << >> \in Seq(1 .. NFrames)
    BY EmptySeq
  <2>2. Len(<< >>) = 0
    OBVIOUS
  <2>3. pending \in Seq(Byte) /\ cut \in 0 .. FrameLen
    BY <1>1, <1>2 DEF Init
  <2>4. readyErrs \in Seq(0 .. Len(ready))
    BY <2>1, <2>2 DEF Init
  <2>5. ready \in Seq(Byte) /\ buf \in Seq(Byte) /\ yielded \in Seq(1 .. NFrames)
    BY <2>1 DEF Init
  <2>6. /\ eos \in BOOLEAN /\ errsSent \in 0 .. MaxErrs /\ open \in BOOLEAN
        /\ lastPoll \in {"none", "msg", "err", "pending", "end"} /\ done \in BOOLEAN
    <3>1. errsSent \in 0 .. MaxErrs
      BY DEF Init
    <3>2. QED  BY <3>1, Zenon DEF Init
  <2>7. QED  BY <2>3, <2>4, <2>5, <2>6 DEF TypeOK, Byte
<1>6. QED  BY <1>1, <1>2, <1>3, <1>4, <1>5 DEF Init, DInv, After, Sorted


\* What the invariant says of the peer's bytes.
LEMMA DInvInput ==
    ASSUME DInv
    PROVE  /\ Input \in Seq(Byte) /\ Len(Input) = NFrames * FrameLen - cut
           /\ \A k \in 1 .. Len(Input) : Input[k] = ByteAt(k)
<1>1. cut \in 0 .. FrameLen /\ cut <= NFrames * FrameLen
  BY DEF DInv, TypeOK
<1>2. QED  BY <1>1, InputType DEF Input

\* No step changes what the peer sends.
LEMMA InputUnchanged ==
    ASSUME cut' = cut
    PROVE  Input' = Input
BY DEF Input

\* The pipeline is made of the peer's bytes.
LEMMA DInvTypes ==
    ASSUME DInv
    PROVE  /\ buf \in Seq(Byte) /\ ready \in Seq(Byte) /\ pending \in Seq(Byte)
           /\ readyErrs \in Seq(0 .. Len(ready)) /\ yielded \in Seq(1 .. NFrames)
BY DEF DInv, TypeOK, Byte

LEMMA ArriveDInv ==
    ASSUME DInv, NEW n, Arrive(n)
    PROVE  DInv'
<1>1. /\ n \in 1 .. MaxItem /\ n <= Len(pending)
      /\ ready' = ready \o SubSeq(pending, 1, n)
      /\ pending' = SubSeq(pending, n + 1, Len(pending))
      /\ UNCHANGED <<readyErrs, eos, errsSent, cut, open, buf, yielded, lastPoll, done>>
  BY DEF Arrive
<1>2. /\ buf \in Seq(Byte) /\ ready \in Seq(Byte) /\ pending \in Seq(Byte)
      /\ readyErrs \in Seq(0 .. Len(ready))
  BY DInvTypes
<1>3. /\ SubSeq(pending, 1, n) \in Seq(Byte)
      /\ SubSeq(pending, n + 1, Len(pending)) \in Seq(Byte)
  <2>1. \A i \in 1 .. Len(pending) : pending[i] \in Byte
    BY <1>2, ElementOfSeq
  <2>2. QED  BY <1>1, <2>1, SubSeqProperties
<1>4. SubSeq(pending, 1, n) \o SubSeq(pending, n + 1, Len(pending)) = pending
  BY <1>1, <1>2, SplitJoin
<1>5. ready' \in Seq(Byte) /\ pending' \in Seq(Byte) /\ Len(ready') >= Len(ready)
  BY <1>1, <1>2, <1>3, ConcatProperties
<1>6. buf \o ready' \o pending' = buf \o ready \o pending
  <2>1. buf \o ready \in Seq(Byte)
    BY <1>2, ConcatProperties
  <2>2. buf \o (ready \o SubSeq(pending, 1, n)) = (buf \o ready) \o SubSeq(pending, 1, n)
    BY <1>2, <1>3, AssocByte
  <2>3. (buf \o ready) \o SubSeq(pending, 1, n) \o SubSeq(pending, n + 1, Len(pending))
        = (buf \o ready) \o (SubSeq(pending, 1, n) \o SubSeq(pending, n + 1, Len(pending)))
    BY <1>3, <2>1, AssocByte
  <2>4. QED  BY <1>1, <1>4, <2>2, <2>3
<1>7. readyErrs' \in Seq(0 .. Len(ready'))
  <2>1. 0 .. Len(ready) \subseteq 0 .. Len(ready')
    BY <1>5
  <2>2. QED  BY <1>1, <1>2, <2>1, SeqMonotonic
<1>8. TypeOK'
  BY <1>1, <1>5, <1>7 DEF DInv, TypeOK, Byte
<1>9. Input' = Input
  BY <1>1, InputUnchanged
<1>10. QED  BY <1>1, <1>6, <1>8, <1>9 DEF DInv, After, Sorted

LEMMA ArriveEndDInv ==
    ASSUME DInv, ArriveEnd
    PROVE  DInv'
<1>1. UNCHANGED <<pending, ready, readyErrs, errsSent, cut, open, buf, yielded, lastPoll, done>>
      /\ eos' = TRUE
  BY DEF ArriveEnd
<1>2. Input' = Input
  BY <1>1, InputUnchanged
<1>3. TypeOK'
  BY <1>1 DEF DInv, TypeOK
<1>4. QED  BY <1>1, <1>2, <1>3 DEF DInv, After, Sorted


LEMMA ArriveErrDInv ==
    ASSUME DInv, ArriveErr
    PROVE  DInv'
<1>1. /\ errsSent < MaxErrs
      /\ readyErrs' = Append(readyErrs, Len(ready))
      /\ errsSent' = errsSent + 1
      /\ UNCHANGED <<pending, ready, eos, cut, open, buf, yielded, lastPoll, done>>
  BY DEF ArriveErr
<1>2. readyErrs \in Seq(0 .. Len(ready)) /\ ready \in Seq(Byte)
  BY DInvTypes
<1>3. Len(ready) \in 0 .. Len(ready)
  BY <1>2
<1>4. /\ readyErrs' \in Seq(0 .. Len(ready))
      /\ Len(readyErrs') = Len(readyErrs) + 1
      /\ \A i \in 1 .. Len(readyErrs) : readyErrs'[i] = readyErrs[i]
      /\ readyErrs'[Len(readyErrs) + 1] = Len(ready)
  BY <1>1, <1>2, <1>3, AppendProperties
<1>5. Sorted(readyErrs')
  <2> SUFFICES ASSUME NEW i \in 1 .. Len(readyErrs'), NEW j \in 1 .. Len(readyErrs'), i <= j
               PROVE  readyErrs'[i] <= readyErrs'[j]
    BY DEF Sorted
  <2>1. readyErrs'[i] \in 0 .. Len(ready)
    BY <1>4, ElementOfSeq
  <2>2. CASE j = Len(readyErrs) + 1
    BY <1>4, <2>1, <2>2
  <2>3. CASE j <= Len(readyErrs)
    <3>1. Sorted(readyErrs)
      BY DEF DInv
    <3>2. i \in 1 .. Len(readyErrs) /\ j \in 1 .. Len(readyErrs)
      BY <1>2, <1>4, <2>3
    <3>3. readyErrs[i] <= readyErrs[j]
      BY <3>1, <3>2 DEF Sorted
    <3>4. QED  BY <1>4, <3>2, <3>3
  <2>4. QED  BY <1>2, <1>4, <2>2, <2>3
<1>6. TypeOK'
  <2>1. errsSent' \in 0 .. MaxErrs
    BY <1>1 DEF DInv, TypeOK
  <2>2. QED  BY <1>1, <1>4, <2>1 DEF DInv, TypeOK
<1>7. Input' = Input
  BY <1>1, InputUnchanged
<1>8. QED  BY <1>1, <1>5, <1>6, <1>7 DEF DInv, After


\* The error return of poll_next: what S yielded before the error is in buf,
\* and the offsets of the later errors are shifted to what is left.
LEMMA ErrPollDInv ==
    ASSUME DInv, ErrPoll, UNCHANGED <<pending, eos, errsSent, cut>>
    PROVE  DInv'
<1>1. /\ readyErrs # << >>
      /\ buf' = buf \o SubSeq(ready, 1, readyErrs[1])
      /\ ready' = SubSeq(ready, readyErrs[1] + 1, Len(ready))
      /\ readyErrs' = AfterFirstErr
      /\ lastPoll' = "err"
      /\ UNCHANGED <<open, yielded, done>>
  BY DEF ErrPoll
<1>2. /\ buf \in Seq(Byte) /\ ready \in Seq(Byte) /\ pending \in Seq(Byte)
      /\ readyErrs \in Seq(0 .. Len(ready))
  BY DInvTypes
<1>3. Sorted(readyErrs)
  BY DEF DInv
<1> DEFINE e == readyErrs[1]
           L == Len(ready)
           R == Len(readyErrs)
<1>4. R \in Nat \ {0} /\ e \in 0 .. L /\ \A j \in 1 .. R : readyErrs[j] \in e .. L
  <2>1. R \in Nat \ {0}
    BY <1>1, <1>2, EmptySeq
  <2>2. \A j \in 1 .. R : readyErrs[j] \in 0 .. L
    BY <1>2, ElementOfSeq
  <2>3. \A j \in 1 .. R : e <= readyErrs[j]
    BY <1>3, <2>1, <2>2 DEF Sorted
  <2>4. QED  BY <2>1, <2>2, <2>3
<1>5. /\ SubSeq(ready, 1, e) \in Seq(Byte)
      /\ SubSeq(ready, e + 1, L) \in Seq(Byte)
      /\ Len(SubSeq(ready, e + 1, L)) = L - e
  <2>1. \A i \in 1 .. L : ready[i] \in Byte
    BY <1>2, ElementOfSeq
  <2>2. QED  BY <1>4, <2>1, SubSeqProperties
<1>6. buf' \o ready' = buf \o ready
  <2>1. SubSeq(ready, 1, e) \o SubSeq(ready, e + 1, L) = ready
    BY <1>2, <1>4, SplitJoin
  <2>2. (buf \o SubSeq(ready, 1, e)) \o SubSeq(ready, e + 1, L)
        = buf \o (SubSeq(ready, 1, e) \o SubSeq(ready, e + 1, L))
    BY <1>2, <1>5, AssocByte
  <2>3. QED  BY <1>1, <2>1, <2>2
<1>7. /\ readyErrs' \in Seq(0 .. Len(ready'))
      /\ Sorted(readyErrs')
  <2>1. \A j \in 1 .. R - 1 : readyErrs[j + 1] - e \in 0 .. L - e
    BY <1>4
  <2>2. AfterFirstErr \in Seq(0 .. L - e)
    BY <1>4, <2>1 DEF AfterFirstErr
  <2>3. Sorted(AfterFirstErr)
    <3> SUFFICES ASSUME NEW i \in 1 .. R - 1, NEW j \in 1 .. R - 1, i <= j
                 PROVE  readyErrs[i + 1] - e <= readyErrs[j + 1] - e
      BY <1>4 DEF Sorted, AfterFirstErr
    <3>1. readyErrs[i + 1] <= readyErrs[j + 1]
      BY <1>3, <1>4 DEF Sorted
    <3>2. QED  BY <1>4, <3>1
  <2>4. QED  BY <1>1, <1>5, <2>2, <2>3
<1>8. TypeOK'
  <2>1. buf' \in Seq(Byte) /\ ready' \in Seq(Byte)
    BY <1>1, <1>2, <1>5, ConcatProperties
  <2>2. QED  BY <1>1, <1>7, <2>1 DEF DInv, TypeOK, Byte
<1>9. Input' = Input
  BY InputUnchanged
<1>10. QED  BY <1>1, <1>6, <1>7, <1>8, <1>9 DEF DInv, After


\* What every DecodePoll step does: stream's ready items are moved to buf
\* when stream is Some, so the pipeline is the same, seen from PollBuf.
LEMMA DecodePollShape ==
    ASSUME DInv, DecodePoll
    PROVE  /\ PollBuf \in Seq(Byte) /\ ready' \in Seq(Byte)
           /\ PollBuf \o ready' = buf \o ready
           /\ readyErrs \in Seq(0 .. Len(ready'))
           /\ open' \in BOOLEAN /\ UNCHANGED readyErrs
           /\ \/ /\ FrameReady(PollBuf)
                 /\ buf' = SubSeq(PollBuf, FrameLen + 1, Len(PollBuf))
                 /\ yielded' = Append(yielded, PollBuf[1].f)
                 /\ lastPoll' = "msg"
                 /\ UNCHANGED done
              \/ /\ ~FrameReady(PollBuf)
                 /\ buf' = PollBuf
                 /\ lastPoll' \in {"pending", "end"}
                 /\ done' \in BOOLEAN
                 /\ UNCHANGED yielded
<1>1. buf \in Seq(Byte) /\ ready \in Seq(Byte) /\ readyErrs \in Seq(0 .. Len(ready))
  BY DInvTypes
<1>2. open \in BOOLEAN /\ eos \in BOOLEAN
  BY DEF DInv, TypeOK
<1>3. CASE open
  <2>1. readyErrs = << >> /\ ready' = << >> /\ PollBuf = buf \o ready
    BY <1>3 DEF DecodePoll, PollBuf
  <2>2. PollBuf \in Seq(Byte) /\ PollBuf \o ready' = buf \o ready
    BY <1>1, <2>1, ConcatProperties, ConcatEmptySeq
  <2>3. ready' \in Seq(Byte) /\ readyErrs \in Seq(0 .. Len(ready'))
    BY <2>1, EmptySeq
  <2>4. QED  BY <1>2, <2>2, <2>3 DEF DecodePoll, PollBuf
<1>4. CASE ~open
  <2>1. ready' = ready /\ PollBuf = buf
    BY <1>4 DEF DecodePoll, PollBuf
  <2>2. QED  BY <1>1, <1>2, <2>1 DEF DecodePoll, PollBuf
<1>5. QED  BY <1>2, <1>3, <1>4


\* The decode step: a whole frame at the front of buf is returned and split
\* off, and it is the next frame of the peer's bytes.
LEMMA DecodePollDInv ==
    ASSUME DInv, DecodePoll, UNCHANGED <<pending, eos, errsSent, cut>>
    PROVE  DInv'
<1>1. /\ PollBuf \in Seq(Byte) /\ ready' \in Seq(Byte) /\ PollBuf \o ready' = buf \o ready
      /\ readyErrs \in Seq(0 .. Len(ready')) /\ open' \in BOOLEAN /\ UNCHANGED readyErrs
  BY DecodePollShape
<1>2. /\ Input \in Seq(Byte) /\ Len(Input) = NFrames * FrameLen - cut
      /\ \A k \in 1 .. Len(Input) : Input[k] = ByteAt(k)
  BY DInvInput
<1>3. /\ pending \in Seq(Byte) /\ yielded \in Seq(1 .. NFrames)
      /\ yielded = [i \in 1 .. Len(yielded) |-> i] /\ Len(yielded) * FrameLen <= Len(Input)
      /\ Sorted(readyErrs)
  BY DInvTypes DEF DInv
<1>4. PollBuf \o ready' \o pending = After(Len(yielded))
  BY <1>1 DEF DInv
<1>5. /\ After(Len(yielded)) \in Seq(Byte) /\ Len(After(Len(yielded))) = Len(Input) - Len(yielded) * FrameLen
      /\ \A i \in 1 .. Len(Input) - Len(yielded) * FrameLen : After(Len(yielded))[i] = Input[Len(yielded) * FrameLen + i]
  <2>1. ASSUME NEW m \in 0 .. Len(Input)
        PROVE  /\ SubSeq(Input, m + 1, Len(Input)) \in Seq(Byte)
               /\ Len(SubSeq(Input, m + 1, Len(Input))) = Len(Input) - m
               /\ \A i \in 1 .. Len(Input) - m : SubSeq(Input, m + 1, Len(Input))[i] = Input[m + i]
    BY <1>2, SuffixProps
  <2>2. Len(yielded) * FrameLen \in 0 .. Len(Input)
    BY <1>3
  <2>3. QED  BY <2>1, <2>2 DEF After
<1>6. Input' = Input
  BY InputUnchanged
<1>8. CASE ~FrameReady(PollBuf)
  <2>1. buf' = PollBuf /\ UNCHANGED yielded
    BY <1>8, DecodePollShape
  <2>2. TypeOK'
    BY <1>1, <1>8, DecodePollShape DEF DInv, TypeOK, Byte
  <2>3. QED  BY <1>1, <1>3, <1>4, <1>6, <2>1, <2>2 DEF DInv, After, Sorted
<1>9. CASE FrameReady(PollBuf)
  <2>1. /\ buf' = SubSeq(PollBuf, FrameLen + 1, Len(PollBuf))
        /\ yielded' = Append(yielded, PollBuf[1].f)
        /\ lastPoll' = "msg" /\ UNCHANGED done
    BY <1>9, DecodePollShape
  <2>2. ready' \o pending \in Seq(Byte) /\ Len(PollBuf) >= FrameLen
    BY <1>1, <1>3, <1>9, ConcatProperties DEF FrameReady
  <2>3. PollBuf \o (ready' \o pending) = After(Len(yielded))
    BY <1>1, <1>3, <1>4, AssocByte
  <2>4. buf' \o (ready' \o pending) = SubSeq(After(Len(yielded)), FrameLen + 1, Len(After(Len(yielded))))
    <3>1. Len(PollBuf \o (ready' \o pending)) = Len(PollBuf) + Len(ready' \o pending)
      BY <1>1, <2>2, ConcatProperties
    <3>2. SubSeq(PollBuf, FrameLen + 1, Len(PollBuf)) \o (ready' \o pending)
          = SubSeq(PollBuf \o (ready' \o pending), FrameLen + 1, Len(PollBuf) + Len(ready' \o pending))
      <4>1. ASSUME NEW s \in Seq(Byte), NEW t \in Seq(Byte), FrameLen \in 0 .. Len(s)
            PROVE  SubSeq(s, FrameLen + 1, Len(s)) \o t = SubSeq(s \o t, FrameLen + 1, Len(s) + Len(t))
        BY <4>1, DropFront, Zenon
      <4>2. FrameLen \in 0 .. Len(PollBuf)
        BY <1>1, <2>2
      <4>3. QED  BY <1>1, <2>2, <4>1, <4>2
    <3>3. QED  BY <2>1, <2>3, <3>1, <3>2
  <2>5. Len(After(Len(yielded))) >= FrameLen /\ PollBuf[1] = After(Len(yielded))[1]
    <3>1. Len(PollBuf \o (ready' \o pending)) = Len(PollBuf) + Len(ready' \o pending)
          /\ (PollBuf \o (ready' \o pending))[1] = PollBuf[1]
      BY <1>1, <2>2, ConcatProperties
    <3>2. Len(ready' \o pending) \in Nat /\ Len(PollBuf) \in Nat
      BY <1>1, <2>2, LenProperties
    <3>3. QED  BY <2>2, <2>3, <3>1, <3>2
  <2>6. SubSeq(After(Len(yielded)), FrameLen + 1, Len(After(Len(yielded)))) = After(Len(yielded) + 1)
    <3>1. Len(yielded) * FrameLen \in 0 .. Len(Input) /\ FrameLen \in 0 .. Len(Input) - Len(yielded) * FrameLen
      BY <1>3, <1>5, <2>5
    <3>2. SubSeq(SubSeq(Input, Len(yielded) * FrameLen + 1, Len(Input)), FrameLen + 1, Len(Input) - Len(yielded) * FrameLen)
          = SubSeq(Input, Len(yielded) * FrameLen + FrameLen + 1, Len(Input))
      BY <1>2, <3>1, SuffixOfSuffix
    <3>3. Len(yielded) * FrameLen + FrameLen = (Len(yielded) + 1) * FrameLen
      BY <1>3
    <3>4. QED  BY <1>5, <3>2, <3>3 DEF After
  <2>7. PollBuf[1].f = Len(yielded) + 1
    <3>1. After(Len(yielded))[1] = Input[Len(yielded) * FrameLen + 1] /\ Len(yielded) * FrameLen + 1 \in 1 .. Len(Input)
      BY <1>3, <1>5, <2>5
    <3>2. ByteAt(Len(yielded) * FrameLen + 1).f = Len(yielded) + 1
      BY <1>3, FrameStart
    <3>3. QED  BY <1>2, <2>5, <3>1, <3>2
  <2>8. (Len(yielded) + 1) * FrameLen <= Len(Input) /\ Len(yielded) + 1 <= NFrames
    <3>1. (Len(yielded) + 1) * FrameLen <= Len(Input)
      BY <1>3, <1>5, <2>5
    <3>2. (Len(yielded) + 1) * FrameLen <= NFrames * FrameLen
      BY <1>2, <3>1 DEF DInv, TypeOK
    <3>3. Len(yielded) \in Nat
      BY <1>3
    <3>4. QED  BY <3>1, <3>2, <3>3, MulBound
  <2>9. /\ yielded' \in Seq(1 .. NFrames) /\ Len(yielded') = Len(yielded) + 1
        /\ yielded' = [i \in 1 .. Len(yielded) + 1 |-> i]
    <3>1. Len(yielded) + 1 \in 1 .. NFrames
      BY <1>3, <2>8
    <3>2. /\ yielded' \in Seq(1 .. NFrames) /\ Len(yielded') = Len(yielded) + 1
          /\ \A i \in 1 .. Len(yielded) : yielded'[i] = yielded[i]
          /\ yielded'[Len(yielded) + 1] = Len(yielded) + 1
      BY <1>3, <2>1, <2>7, <3>1, AppendProperties
    <3>3. [i \in 1 .. Len(yielded) + 1 |-> i] \in Seq(1 .. NFrames)
      BY <3>1
    <3>4. Len([i \in 1 .. Len(yielded) + 1 |-> i]) = Len(yielded) + 1
      BY <3>1
    <3>5. \A i \in 1 .. Len(yielded) + 1 : yielded'[i] = [k \in 1 .. Len(yielded) + 1 |-> k][i]
      <4> SUFFICES ASSUME NEW i \in 1 .. Len(yielded) + 1 PROVE yielded'[i] = i
        OBVIOUS
      <4>1. CASE i <= Len(yielded)
        <5>1. yielded[i] = i
          BY <1>3, <4>1
        <5>2. QED  BY <3>2, <4>1, <5>1
      <4>2. CASE i = Len(yielded) + 1
        BY <3>2, <4>2
      <4>3. QED  BY <1>3, <4>1, <4>2
    <3>6. QED  BY <3>2, <3>3, <3>4, <3>5, SeqEqual
  <2>10. buf' \o ready' \o pending' = After(Len(yielded) + 1)
    <3>1. buf' \in Seq(Byte)
      <4>1. \A i \in 1 .. Len(PollBuf) : PollBuf[i] \in Byte
        BY <1>1, ElementOfSeq
      <4>2. QED  BY <2>1, <4>1, SubSeqProperties
    <3>2. buf' \o ready' \o pending = buf' \o (ready' \o pending)
      BY <1>1, <1>3, <3>1, AssocByte
    <3>3. QED  BY <2>4, <2>6, <3>2
  <2>11. TypeOK'
    <3>1. buf' \in Seq(Byte)
      <4>1. \A i \in 1 .. Len(PollBuf) : PollBuf[i] \in Byte
        BY <1>1, ElementOfSeq
      <4>2. QED  BY <2>1, <4>1, SubSeqProperties
    <3>2. QED  BY <1>1, <2>1, <2>9, <3>1 DEF DInv, TypeOK, Byte
  <2>12. QED  BY <1>1, <1>3, <1>6, <2>8, <2>9, <2>10, <2>11 DEF DInv, After, Sorted
<1>10. QED  BY <1>8, <1>9


LEMMA NextDInv == DInv /\ [Next]_vars => DInv'
<1> SUFFICES ASSUME DInv, [Next]_vars PROVE DInv'
  OBVIOUS
<1>1. CASE Poll
  <2>1. UNCHANGED <<pending, eos, errsSent, cut>> /\ (ErrPoll \/ DecodePoll)
    BY <1>1 DEF Poll
  <2>2. QED  BY <2>1, ErrPollDInv, DecodePollDInv
<1>2. CASE \E n \in 1 .. MaxItem : Arrive(n)
  BY <1>2, ArriveDInv
<1>3. CASE ArriveEnd
  BY <1>3, ArriveEndDInv
<1>4. CASE ArriveErr
  BY <1>4, ArriveErrDInv
<1>5. CASE UNCHANGED vars
  <2>1. Input' = Input
    BY <1>5, InputUnchanged DEF vars
  <2>2. QED  BY <1>5, <2>1 DEF vars, DInv, TypeOK, After, Sorted
<1>6. QED  BY <1>1, <1>2, <1>3, <1>4, <1>5 DEF Next, Network

\* The invariant gives NoBytesLost.
LEMMA DInvBytes == DInv => NoBytesLost
BY DEF DInv, After, NoBytesLost

(* poll_next neither loses, reorders nor duplicates a byte of the peer's   *)
(* (stream.rs 73-102): in every reachable state the frames returned are   *)
(* 1, 2, ... in order and buf, the ready items and the bytes still to     *)
(* arrive are exactly the peer's bytes after them, for every number and   *)
(* length of frames, item size and number of error items.                 *)
THEOREM BytesKept == Spec => []NoBytesLost
<1>1. Spec => []DInv
  BY InitDInv, NextDInv, PTL DEF Spec
<1>2. QED  BY <1>1, DInvBytes, PTL


-----------------------------------------------------------------------------
(* The end of the stream.                                                  *)

LEMMA InitDEnd == Init => DEnd
BY DEF Init, DEnd

LEMMA NextDEnd == DInv /\ DEnd /\ [Next]_vars => DEnd'
<1> SUFFICES ASSUME DInv, DEnd, [Next]_vars PROVE DEnd'
  OBVIOUS
<1>1. CASE \E n \in 1 .. MaxItem : Arrive(n)
  <2>1. pending # << >> /\ UNCHANGED <<eos, open, buf, done, cut, readyErrs>>
    BY <1>1 DEF Arrive
  <2>2. ~eos /\ open
    BY <2>1 DEF DEnd
  <2>3. QED  BY <1>1, <2>1, <2>2 DEF Arrive, DEnd
<1>2. CASE ArriveErr
  <2>1. ~eos /\ open
    BY <1>2 DEF ArriveErr, DEnd
  <2>2. QED  BY <1>2, <2>1 DEF ArriveErr, DEnd
<1>3. CASE ArriveEnd
  BY <1>3 DEF ArriveEnd, DEnd
<1>4. CASE Poll /\ ErrPoll
  BY <1>4 DEF Poll, ErrPoll, DEnd
<1>5. CASE Poll /\ DecodePoll
  <2>1. ~done /\ UNCHANGED <<pending, eos, cut>> /\ UNCHANGED readyErrs
    BY <1>5 DEF Poll, DecodePoll
  <2>2. ~open' => eos /\ ready' = << >> /\ readyErrs' = << >>
    <3>1. CASE open
      BY <1>5, <2>1, <3>1 DEF DecodePoll
    <3>2. CASE ~open
      BY <1>5, <2>1, <3>2 DEF DecodePoll, DEnd
    <3>3. QED  BY <3>1, <3>2
  <2>3. done' => ~open' /\ ~FrameReady(buf')
    BY <1>5, <2>1 DEF DecodePoll, FrameReady
  <2>4. QED  BY <2>1, <2>2, <2>3 DEF DEnd
<1>6. CASE UNCHANGED vars
  BY <1>6 DEF vars, DEnd, FrameReady
<1>7. QED  BY <1>1, <1>2, <1>3, <1>4, <1>5, <1>6 DEF Next, Network, Poll

\* Fewer than FrameLen bytes after the returned frames leave exactly the
\* frames whose bytes all arrived.
LEMMA WholeFrames ==
    ASSUME NEW y \in Nat, NEW c \in 0 .. (IF NFrames = 0 THEN 0 ELSE FrameLen - 1),
           y * FrameLen <= NFrames * FrameLen - c,
           NFrames * FrameLen - c - y * FrameLen < FrameLen
    PROVE  y = IF c = 0 THEN NFrames ELSE NFrames - 1
<1>1. CASE c = 0
  <2>1. y <= NFrames /\ NFrames < y + 1
    BY <1>1, FrameLenAssumption, NFramesAssumption
  <2>2. QED  BY <1>1, <2>1
<1>2. CASE c # 0
  <2>1. NFrames # 0 /\ c \in 1 .. FrameLen - 1
    BY <1>2
  <2>2. y < NFrames /\ NFrames < y + 2
    BY <2>1, FrameLenAssumption, NFramesAssumption
  <2>3. QED  BY <1>2, <2>2
<1>3. QED  BY <1>1, <1>2

\* DInv and DEnd give EndMeansAllFrames.
LEMMA EndFrames == DInv /\ DEnd => EndMeansAllFrames
<1> SUFFICES ASSUME DInv, DEnd, done PROVE yielded = [i \in 1 .. Complete |-> i]
  BY DEF EndMeansAllFrames
<1>1. pending = << >> /\ ready = << >> /\ Len(buf) < FrameLen
  BY DEF DEnd, FrameReady
<1>2. buf \in Seq(Byte) /\ yielded \in Seq(1 .. NFrames)
  BY DInvTypes
<1>3. buf = After(Len(yielded))
  <2>1. buf \o ready \o pending = buf
    BY <1>1, <1>2, ConcatEmptySeq
  <2>2. QED  BY <2>1 DEF DInv
<1>4. /\ Len(Input) = NFrames * FrameLen - cut
      /\ Len(yielded) * FrameLen <= Len(Input)
  BY DInvInput DEF DInv
<1>5. Len(After(Len(yielded))) = Len(Input) - Len(yielded) * FrameLen
  <2>1. Input \in Seq(Byte) /\ Len(yielded) * FrameLen \in 0 .. Len(Input)
    BY <1>2, <1>4, DInvInput
  <2>2. QED  BY <2>1, SuffixProps DEF After
<1>6. Len(yielded) = Complete
  <2>1. cut \in 0 .. (IF NFrames = 0 THEN 0 ELSE FrameLen - 1)
    BY DEF DEnd
  <2>2. NFrames * FrameLen - cut - Len(yielded) * FrameLen < FrameLen
    BY <1>1, <1>3, <1>4, <1>5
  <2>3. Len(yielded) \in Nat
    BY <1>2
  <2>4. QED  BY <1>4, <2>1, <2>2, <2>3, WholeFrames DEF Complete
<1>7. QED  BY <1>6 DEF DInv

(* poll_next returns Ready(None) only after every frame whose bytes all    *)
(* arrived (stream.rs 92-100: decode is tried on buf before the end of S   *)
(* is reported), for every number and length of frames, item size and     *)
(* number of error items.                                                  *)
THEOREM EndAfterAllFrames == Spec => []EndMeansAllFrames
<1>1. Spec => [](DInv /\ DEnd)
  BY InitDInv, NextDInv, InitDEnd, NextDEnd, PTL DEF Spec
<1>2. QED  BY <1>1, EndFrames, PTL

=============================================================================
