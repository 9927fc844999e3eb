------------------------ MODULE WsEncodeStreamProofs ------------------------
(***************************************************************************)
(* Proofs about EncodeStream (WsEncodeStream), for every number of         *)
(* messages, every set of messages the codec rejects and every channel     *)
(* capacity.                                                               *)
(***************************************************************************)
EXTENDS WsEncodeStream, SequenceTheorems, TLAPS

USE NMsgsAssumption, BadAssumption, CapAssumption

-----------------------------------------------------------------------------
(* Operators on sequences of messages.                                     *)

\* The elements of s increase strictly.
Incr(s) == \A i, j \in 1 .. Len(s) : i < j => s[i] < s[j]

\* Every element of s is smaller than every element of t.
Before(s, t) == \A i \in 1 .. Len(s), j \in 1 .. Len(t) : s[i] < t[j]

\* The elements of s.
Rng(s) == {s[i] : i \in 1 .. Len(s)}

(* The inductive invariant: each of out, buf and chan increases, each lies *)
(* entirely before the next, all three hold only sent messages, out and    *)
(* buf only accepted ones, and every accepted message sent is in one of    *)
(* them.                                                                   *)
EInv ==
    /\ TypeOK
    /\ Incr(out) /\ Incr(buf) /\ Incr(chan)
    /\ Before(out, buf) /\ Before(out, chan) /\ Before(buf, chan)
    /\ Rng(out) \cup Rng(buf) \cup Rng(chan) \subseteq 1 .. sentNext - 1
    /\ Rng(out) \cap Bad = {} /\ Rng(buf) \cap Bad = {}
    /\ (1 .. sentNext - 1) \ Bad \subseteq Rng(out) \cup Rng(buf) \cup Rng(chan)

-----------------------------------------------------------------------------
(* Lemmas about Incr, Before and Rng on concatenations and slices.         *)

LEMMA ConcatAt ==
    ASSUME NEW s \in Seq(Nat), NEW t \in Seq(Nat)
    PROVE  /\ s \o t \in Seq(Nat)
           /\ Len(s \o t) = Len(s) + Len(t)
           /\ \A i \in 1 .. Len(s) : (s \o t)[i] = s[i]
           /\ \A j \in 1 .. Len(t) : (s \o t)[Len(s) + j] = t[j]
BY ConcatProperties

LEMMA IncrConcat ==
    ASSUME NEW s \in Seq(Nat), NEW t \in Seq(Nat), Incr(s), Incr(t), Before(s, t)
    PROVE  Incr(s \o t)
<1> SUFFICES ASSUME NEW i \in 1 .. Len(s \o t), NEW j \in 1 .. Len(s \o t), i < j
             PROVE  (s \o t)[i] < (s \o t)[j]
  BY DEF Incr
<1>1. Len(s \o t) = Len(s) + Len(t) /\ i \in Nat /\ j \in Nat
  BY ConcatAt
<1>2. CASE j <= Len(s)
  <2>1. (s \o t)[i] = s[i] /\ (s \o t)[j] = s[j]
    BY <1>2, ConcatAt
  <2>2. QED  BY <1>2, <2>1 DEF Incr
<1>3. CASE i <= Len(s) /\ j > Len(s)
  <2>1. j - Len(s) \in 1 .. Len(t)
    BY <1>1, <1>3
  <2>2. (s \o t)[i] = s[i] /\ (s \o t)[j] = t[j - Len(s)]
    BY <1>3, <2>1, ConcatAt
  <2>3. QED  BY <1>3, <2>1, <2>2 DEF Before
<1>4. CASE i > Len(s)
  <2>1. i - Len(s) \in 1 .. Len(t) /\ j - Len(s) \in 1 .. Len(t)
    BY <1>1, <1>4
  <2>2. (s \o t)[i] = t[i - Len(s)] /\ (s \o t)[j] = t[j - Len(s)]
    BY <1>4, <2>1, ConcatAt
  <2>3. i - Len(s) < j - Len(s)
    BY <1>1
  <2>4. QED  BY <2>1, <2>2, <2>3 DEF Incr
<1>5. QED  BY <1>2, <1>3, <1>4

\* Every element of s \o t is one of s or one of t.
LEMMA ConcatElem ==
    ASSUME NEW s \in Seq(Nat), NEW t \in Seq(Nat), NEW i \in 1 .. Len(s \o t)
    PROVE  \/ i \in 1 .. Len(s) /\ (s \o t)[i] = s[i]
           \/ i - Len(s) \in 1 .. Len(t) /\ (s \o t)[i] = t[i - Len(s)]
<1>1. Len(s \o t) = Len(s) + Len(t)
  BY ConcatAt
<1>2. CASE i <= Len(s)
  BY <1>1, <1>2, ConcatAt
<1>3. CASE i > Len(s)
  <2>1. i - Len(s) \in 1 .. Len(t)
    BY <1>1, <1>3
  <2>2. (s \o t)[Len(s) + (i - Len(s))] = t[i - Len(s)]
    BY <2>1, ConcatAt
  <2>3. QED  BY <2>1, <2>2
<1>4. QED  BY <1>2, <1>3

LEMMA BeforeConcat ==
    ASSUME NEW s \in Seq(Nat), NEW t \in Seq(Nat), NEW u \in Seq(Nat)
    PROVE  /\ Before(s, u) /\ Before(t, u) => Before(s \o t, u)
           /\ Before(s, t) /\ Before(s, u) => Before(s, t \o u)
<1>1. Before(s, u) /\ Before(t, u) => Before(s \o t, u)
  <2> SUFFICES ASSUME Before(s, u), Before(t, u),
                      NEW i \in 1 .. Len(s \o t), NEW j \in 1 .. Len(u)
               PROVE  (s \o t)[i] < u[j]
    BY DEF Before
  <2>1. QED  BY ConcatElem DEF Before
<1>2. Before(s, t) /\ Before(s, u) => Before(s, t \o u)
  <2> SUFFICES ASSUME Before(s, t), Before(s, u),
                      NEW i \in 1 .. Len(s), NEW j \in 1 .. Len(t \o u)
               PROVE  s[i] < (t \o u)[j]
    BY DEF Before
  <2>1. QED  BY ConcatElem DEF Before
<1>3. QED  BY <1>1, <1>2

\* A slice s[m .. n] of s, for 1 <= m and n <= Len(s).
LEMMA SliceProperties ==
    ASSUME NEW s \in Seq(Nat), NEW m \in 1 .. Len(s) + 1, NEW n \in m - 1 .. Len(s)
    PROVE  /\ SubSeq(s, m, n) \in Seq(Nat)
           /\ Len(SubSeq(s, m, n)) = n - m + 1
           /\ \A i \in 1 .. n - m + 1 :
                 SubSeq(s, m, n)[i] = s[m + i - 1] /\ m + i - 1 \in 1 .. Len(s)
BY SubSeqProperties

LEMMA SliceOrder ==
    ASSUME NEW s \in Seq(Nat), NEW m \in 1 .. Len(s) + 1, NEW n \in m - 1 .. Len(s),
           NEW t \in Seq(Nat)
    PROVE  /\ Incr(s) => Incr(SubSeq(s, m, n))
           /\ Before(s, t) => Before(SubSeq(s, m, n), t)
           /\ Before(t, s) => Before(t, SubSeq(s, m, n))
           /\ Rng(SubSeq(s, m, n)) \subseteq Rng(s)
<1> DEFINE u == SubSeq(s, m, n)
<1>1. /\ Len(u) = n - m + 1
      /\ \A i \in 1 .. n - m + 1 : u[i] = s[m + i - 1] /\ m + i - 1 \in 1 .. Len(s)
  BY SliceProperties DEF u
<1>2. Incr(s) => Incr(u)
  <2> SUFFICES ASSUME Incr(s), NEW i \in 1 .. Len(u), NEW j \in 1 .. Len(u), i < j
               PROVE  u[i] < u[j]
    BY DEF Incr
  <2>1. m + i - 1 < m + j - 1
    BY <1>1
  <2>2. QED  BY <1>1, <2>1 DEF Incr
<1>3. Before(s, t) => Before(u, t)
  BY <1>1 DEF Before
<1>4. Before(t, s) => Before(t, u)
  BY <1>1 DEF Before
<1>5. Rng(u) \subseteq Rng(s)
  BY <1>1 DEF Rng
<1>6. QED  BY <1>2, <1>3, <1>4, <1>5

\* Cutting an increasing s at p, or around its e-th element.
LEMMA SplitAt ==
    ASSUME NEW s \in Seq(Nat), NEW p \in 0 .. Len(s)
    PROVE  /\ Rng(s) = Rng(SubSeq(s, 1, p)) \cup Rng(SubSeq(s, p + 1, Len(s)))
           /\ Incr(s) => Before(SubSeq(s, 1, p), SubSeq(s, p + 1, Len(s)))
<1> DEFINE u == SubSeq(s, 1, p)
           v == SubSeq(s, p + 1, Len(s))
<1>1. /\ Len(u) = p
      /\ \A i \in 1 .. p : u[i] = s[i]
  BY SliceProperties DEF u
<1>2. /\ Len(v) = Len(s) - p
      /\ \A i \in 1 .. Len(s) - p : v[i] = s[p + i] /\ p + i \in 1 .. Len(s)
  BY SliceProperties DEF v
<1>3. ASSUME NEW i \in 1 .. Len(s) PROVE s[i] \in Rng(u) \cup Rng(v)
  <2>1. CASE i <= p
    BY <1>1, <2>1 DEF Rng
  <2>2. CASE i > p
    <3>1. i - p \in 1 .. Len(s) - p /\ p + (i - p) = i
      BY <2>2
    <3>2. v[i - p] = s[i]
      BY <1>2, <3>1
    <3>3. QED  BY <1>2, <3>1, <3>2 DEF Rng
  <2>3. QED  BY <2>1, <2>2
<1>4. Rng(u) \subseteq Rng(s) /\ Rng(v) \subseteq Rng(s)
  BY SliceOrder
<1>5. Incr(s) => Before(u, v)
  <2> SUFFICES ASSUME Incr(s), NEW i \in 1 .. Len(u), NEW j \in 1 .. Len(v)
               PROVE  u[i] < v[j]
    BY DEF Before
  <2>1. i < p + j /\ i \in 1 .. Len(s)
    BY <1>1, <1>2
  <2>2. QED  BY <1>1, <1>2, <2>1 DEF Incr
<1>6. QED  BY <1>3, <1>4, <1>5 DEF Rng

LEMMA SplitAround ==
    ASSUME NEW s \in Seq(Nat), NEW e \in 1 .. Len(s)
    PROVE  /\ Rng(s) = Rng(SubSeq(s, 1, e - 1)) \cup {s[e]} \cup Rng(SubSeq(s, e + 1, Len(s)))
           /\ Incr(s) => Before(SubSeq(s, 1, e - 1), SubSeq(s, e + 1, Len(s)))
<1> DEFINE u == SubSeq(s, 1, e - 1)
           v == SubSeq(s, e + 1, Len(s))
<1>1. /\ Len(u) = e - 1
      /\ \A i \in 1 .. e - 1 : u[i] = s[i]
  BY SliceProperties DEF u
<1>2. /\ Len(v) = Len(s) - e
      /\ \A i \in 1 .. Len(s) - e : v[i] = s[e + i] /\ e + i \in 1 .. Len(s)
  BY SliceProperties DEF v
<1>3. ASSUME NEW i \in 1 .. Len(s) PROVE s[i] \in Rng(u) \cup {s[e]} \cup Rng(v)
  <2>1. CASE i < e
    <3>1. i \in 1 .. e - 1 /\ u[i] = s[i]
      BY <1>1, <2>1
    <3>2. QED  BY <1>1, <3>1 DEF Rng
  <2>2. CASE i > e
    <3>1. i - e \in 1 .. Len(s) - e /\ e + (i - e) = i
      BY <2>2
    <3>2. v[i - e] = s[i]
      BY <1>2, <3>1
    <3>3. QED  BY <1>2, <3>1, <3>2 DEF Rng
  <2>3. QED  BY <2>1, <2>2
<1>4. Rng(u) \subseteq Rng(s) /\ Rng(v) \subseteq Rng(s) /\ s[e] \in Rng(s)
  BY SliceOrder DEF Rng
<1>5. Incr(s) => Before(u, v)
  <2> SUFFICES ASSUME Incr(s), NEW i \in 1 .. Len(u), NEW j \in 1 .. Len(v)
               PROVE  u[i] < v[j]
    BY DEF Before
  <2>1. i < e + j /\ i \in 1 .. Len(s)
    BY <1>1, <1>2
  <2>2. QED  BY <1>1, <1>2, <2>1 DEF Incr
<1>6. QED  BY <1>3, <1>4, <1>5 DEF Rng

LEMMA RngConcat ==
    ASSUME NEW s \in Seq(Nat), NEW t \in Seq(Nat)
    PROVE  Rng(s \o t) = Rng(s) \cup Rng(t)
<1>1. Len(s \o t) = Len(s) + Len(t)
  BY ConcatAt
<1>2. ASSUME NEW i \in 1 .. Len(s \o t) PROVE (s \o t)[i] \in Rng(s) \cup Rng(t)
  BY ConcatElem DEF Rng
<1>3. ASSUME NEW i \in 1 .. Len(s) PROVE s[i] \in Rng(s \o t)
  BY <1>1, ConcatAt DEF Rng
<1>4. ASSUME NEW j \in 1 .. Len(t) PROVE t[j] \in Rng(s \o t)
  <2>1. Len(s) + j \in 1 .. Len(s \o t) /\ (s \o t)[Len(s) + j] = t[j]
    BY <1>1, ConcatAt
  <2>2. QED  BY <2>1 DEF Rng
<1>5. QED  BY <1>2, <1>3, <1>4 DEF Rng

-----------------------------------------------------------------------------
(* EInv is inductive.                                                      *)

LEMMA MsgSeqs == Seq(1 .. NMsgs) \subseteq Seq(Nat)
BY SeqMonotonic

LEMMA EmptyOrder ==
    ASSUME NEW s
    PROVE  Incr(<< >>) /\ Before(s, << >>) /\ Before(<< >>, s) /\ Rng(<< >>) = {}
BY DEF Incr, Before, Rng

LEMMA InitEInv == Init => EInv
BY EmptyOrder DEF Init, EInv, TypeOK

\* Sender::send appends the next message, larger than every one before it.
LEMMA SendEInv == EInv /\ Send => EInv'
<1> SUFFICES ASSUME EInv, Send PROVE EInv'
  OBVIOUS
<1>1. chan \in Seq(Nat) /\ buf \in Seq(Nat) /\ out \in Seq(Nat) /\ sentNext \in 1 .. NMsgs
  BY MsgSeqs DEF EInv, TypeOK, Send
<1>2. /\ Len(chan') = Len(chan) + 1
      /\ \A i \in 1 .. Len(chan) : chan'[i] = chan[i]
      /\ chan'[Len(chan) + 1] = sentNext
      /\ chan' \in Seq(1 .. NMsgs)
  BY AppendProperties DEF Send, EInv, TypeOK
<1>3. Rng(chan') = Rng(chan) \cup {sentNext}
  BY <1>2 DEF Rng
<1>4. TypeOK'
  BY <1>2 DEF Send, EInv, TypeOK
<1>5. Incr(chan')
  <2> SUFFICES ASSUME NEW i \in 1 .. Len(chan'), NEW j \in 1 .. Len(chan'), i < j
               PROVE  chan'[i] < chan'[j]
    BY DEF Incr
  <2>1. CASE j <= Len(chan)
    <3>1. i \in 1 .. Len(chan) /\ j \in 1 .. Len(chan)
      BY <1>1, <1>2, <2>1
    <3>2. chan'[i] = chan[i] /\ chan'[j] = chan[j]
      BY <1>2, <3>1
    <3>3. Incr(chan)
      BY DEF EInv
    <3>4. QED  BY <3>1, <3>2, <3>3 DEF Incr
  <2>2. CASE j = Len(chan) + 1
    <3>1. i \in 1 .. Len(chan)
      BY <1>1, <1>2, <2>2
    <3>2. chan'[i] = chan[i] /\ chan[i] \in Rng(chan) /\ chan'[j] = sentNext
      BY <1>2, <2>2, <3>1 DEF Rng
    <3>3. Rng(chan) \subseteq 1 .. sentNext - 1
      BY DEF EInv
    <3>4. QED  BY <1>1, <3>2, <3>3
  <2>3. j <= Len(chan) \/ j = Len(chan) + 1
    BY <1>1, <1>2
  <2>4. QED  BY <2>1, <2>2, <2>3
<1>6. Before(out, chan') /\ Before(buf, chan')
  <2> SUFFICES ASSUME NEW j \in 1 .. Len(chan')
               PROVE  /\ \A i \in 1 .. Len(out) : out[i] < chan'[j]
                      /\ \A i \in 1 .. Len(buf) : buf[i] < chan'[j]
    BY DEF Before
  <2>1. CASE j <= Len(chan)
    <3>1. j \in 1 .. Len(chan) /\ chan'[j] = chan[j]
      BY <1>1, <1>2, <2>1
    <3>2. Before(out, chan) /\ Before(buf, chan)
      BY DEF EInv
    <3>3. QED  BY <3>1, <3>2 DEF Before
  <2>2. CASE j = Len(chan) + 1
    <3>1. chan'[j] = sentNext
      BY <1>2, <2>2
    <3>2. Rng(out) \subseteq 1 .. sentNext - 1 /\ Rng(buf) \subseteq 1 .. sentNext - 1
      BY DEF EInv
    <3>3. (\A i \in 1 .. Len(out) : out[i] \in Rng(out))
          /\ \A i \in 1 .. Len(buf) : buf[i] \in Rng(buf)
      BY DEF Rng
    <3>4. QED  BY <1>1, <3>1, <3>2, <3>3
  <2>3. j <= Len(chan) \/ j = Len(chan) + 1
    BY <1>1, <1>2
  <2>4. QED  BY <2>1, <2>2, <2>3
<1>7. QED
  BY <1>1, <1>3, <1>4, <1>5, <1>6 DEF Send, EInv

\* Dropping the senders touches none of the sequences.
LEMMA DropEInv == EInv /\ DropSenders => EInv'
BY DEF DropSenders, EInv, TypeOK, Incr, Before, Rng

\* An encode error moves the messages accepted before the e-th into buf and
\* drops the e-th, which Codec::encode rejected.
LEMMA ErrEInv ==
    ASSUME EInv, NEW k \in 0 .. Len(chan), EncodeErr(k), UNCHANGED <<sentNext, txOpen>>
    PROVE  EInv'
<1>1. PICK e \in 1 .. k : /\ FailsFirstAt(e)
                          /\ buf' = buf \o SubSeq(chan, 1, e - 1)
                          /\ chan' = SubSeq(chan, e + 1, Len(chan))
                          /\ lastPoll' = "err"
                          /\ UNCHANGED <<rxOpen, out>>
  BY DEF EncodeErr
<1> DEFINE L == SubSeq(chan, 1, e - 1)
           R == SubSeq(chan, e + 1, Len(chan))
<1>2. chan \in Seq(Nat) /\ buf \in Seq(Nat) /\ out \in Seq(Nat) /\ e \in 1 .. Len(chan)
  BY MsgSeqs DEF EInv, TypeOK
<1>3. /\ L \in Seq(1 .. NMsgs) /\ R \in Seq(1 .. NMsgs)
      /\ Len(L) = e - 1 /\ Len(R) = Len(chan) - e
      /\ \A i \in 1 .. e - 1 : L[i] = chan[i]
  BY <1>2, SubSeqProperties DEF EInv, TypeOK
<1>4. L \in Seq(Nat) /\ R \in Seq(Nat)
  BY <1>3, MsgSeqs
<1>5. /\ Rng(chan) = Rng(L) \cup {chan[e]} \cup Rng(R)
      /\ Before(L, R)
  BY <1>2, SplitAround DEF EInv
<1>6. /\ Incr(L) /\ Incr(R)
      /\ Before(out, L) /\ Before(out, R) /\ Before(buf, L) /\ Before(buf, R)
  <2>1. 1 \in 1 .. Len(chan) + 1 /\ e - 1 \in 1 - 1 .. Len(chan)
        /\ e + 1 \in 1 .. Len(chan) + 1 /\ Len(chan) \in (e + 1) - 1 .. Len(chan)
    BY <1>2
  <2>2. Incr(chan) /\ Before(out, chan) /\ Before(buf, chan)
    BY DEF EInv
  <2>3. Incr(L) /\ Before(out, L)
    BY <1>2, <2>1, <2>2, SliceOrder
  <2>4. Before(buf, L)
    BY <1>2, <2>1, <2>2, SliceOrder
  <2>5. Incr(R) /\ Before(out, R)
    BY <1>2, <2>1, <2>2, SliceOrder
  <2>6. Before(buf, R)
    BY <1>2, <2>1, <2>2, SliceOrder
  <2>7. QED  BY <2>3, <2>4, <2>5, <2>6
<1>7. Rng(L) \cap Bad = {} /\ chan[e] \in Bad
  BY <1>1, <1>3 DEF FailsFirstAt, Rng
<1>8. TypeOK'
  <2>1. buf' \in Seq(1 .. NMsgs)
    BY <1>1, <1>3, ConcatProperties DEF EInv, TypeOK
  <2>2. Len(chan') <= Cap
    BY <1>1, <1>2, <1>3 DEF EInv, TypeOK
  <2>3. QED  BY <1>1, <1>3, <2>1, <2>2 DEF EInv, TypeOK
<1>9. Incr(buf') /\ Before(out, buf') /\ Before(buf', chan')
  <2>1. Incr(buf) /\ Before(out, buf)
    BY DEF EInv
  <2>2. Incr(buf \o L)
    BY <1>2, <1>4, <1>6, <2>1, IncrConcat
  <2>3. Before(out, buf \o L)
    BY <1>2, <1>4, <1>6, <2>1, BeforeConcat
  <2>4. Before(buf \o L, R)
    BY <1>2, <1>4, <1>5, <1>6, BeforeConcat
  <2>5. QED  BY <1>1, <2>2, <2>3, <2>4
<1>10. Rng(buf') = Rng(buf) \cup Rng(L)
  BY <1>1, <1>2, <1>4, RngConcat
<1>11. QED
  BY <1>1, <1>5, <1>6, <1>7, <1>8, <1>9, <1>10 DEF EInv

\* A drain of k accepted messages: their frames join buf, and a non-empty
\* buf is yielded into out.
LEMMA DrainEInv ==
    ASSUME EInv, NEW k \in 0 .. Len(chan), EncodeDrain(k), UNCHANGED <<sentNext, txOpen>>
    PROVE  EInv'
<1> DEFINE L == SubSeq(chan, 1, k)
           R == SubSeq(chan, k + 1, Len(chan))
           b == buf \o L
<1>1. /\ AllAccepted(k)
      /\ chan' = R
      /\ rxOpen' \in BOOLEAN
      /\ \/ out' = out \o b /\ buf' = << >> /\ lastPoll' = "bytes"
         \/ b = << >> /\ lastPoll' \in {"pending", "end"} /\ UNCHANGED <<buf, out>>
  BY DEF EncodeDrain
<1>2. chan \in Seq(Nat) /\ buf \in Seq(Nat) /\ out \in Seq(Nat)
  BY MsgSeqs DEF EInv, TypeOK
<1>3. /\ L \in Seq(1 .. NMsgs) /\ R \in Seq(1 .. NMsgs)
      /\ Len(L) = k /\ Len(R) = Len(chan) - k
      /\ \A i \in 1 .. k : L[i] = chan[i]
  BY <1>2, SubSeqProperties DEF EInv, TypeOK
<1>4. L \in Seq(Nat) /\ R \in Seq(Nat) /\ b \in Seq(Nat) /\ b \in Seq(1 .. NMsgs)
  BY <1>2, <1>3, MsgSeqs, ConcatProperties DEF EInv, TypeOK
<1>5. /\ Rng(chan) = Rng(L) \cup Rng(R)
      /\ Before(L, R)
  BY <1>2, SplitAt DEF EInv
<1>6. /\ Incr(L) /\ Incr(R)
      /\ Before(out, L) /\ Before(out, R) /\ Before(buf, L) /\ Before(buf, R)
  <2>1. 1 \in 1 .. Len(chan) + 1 /\ k \in 1 - 1 .. Len(chan)
        /\ k + 1 \in 1 .. Len(chan) + 1 /\ Len(chan) \in (k + 1) - 1 .. Len(chan)
    BY <1>2
  <2>2. Incr(chan) /\ Before(out, chan) /\ Before(buf, chan)
    BY DEF EInv
  <2>3. Incr(L) /\ Before(out, L)
    BY <1>2, <2>1, <2>2, SliceOrder
  <2>4. Before(buf, L)
    BY <1>2, <2>1, <2>2, SliceOrder
  <2>5. Incr(R) /\ Before(out, R)
    BY <1>2, <2>1, <2>2, SliceOrder
  <2>6. Before(buf, R)
    BY <1>2, <2>1, <2>2, SliceOrder
  <2>7. QED  BY <2>3, <2>4, <2>5, <2>6
<1>7. Rng(L) \cap Bad = {}
  BY <1>1, <1>3 DEF AllAccepted, Rng
<1>8. /\ Incr(b) /\ Before(out, b) /\ Before(b, R)
      /\ Rng(b) = Rng(buf) \cup Rng(L)
  <2>1. Incr(buf) /\ Before(out, buf)
    BY DEF EInv
  <2>2. Incr(b)
    BY <1>2, <1>4, <1>6, <2>1, IncrConcat
  <2>3. Before(out, b)
    BY <1>2, <1>4, <1>6, <2>1, BeforeConcat
  <2>4. Before(b, R)
    BY <1>2, <1>4, <1>5, <1>6, BeforeConcat
  <2>5. Rng(b) = Rng(buf) \cup Rng(L)
    BY <1>2, <1>4, RngConcat
  <2>6. QED  BY <2>2, <2>3, <2>4, <2>5
<1>9. Len(chan') <= Cap
  BY <1>1, <1>2, <1>3 DEF EInv, TypeOK
<1>10. CASE out' = out \o b /\ buf' = << >> /\ lastPoll' = "bytes"
  <2>1. out' \in Seq(1 .. NMsgs)
    BY <1>4, <1>10, ConcatProperties DEF EInv, TypeOK
  <2>2. TypeOK'
    BY <1>1, <1>3, <1>9, <1>10, <2>1 DEF EInv, TypeOK
  <2>3. Incr(out') /\ Before(out', chan')
    BY <1>1, <1>2, <1>4, <1>6, <1>8, <1>10, IncrConcat, BeforeConcat DEF EInv
  <2>4. Rng(out') = Rng(out) \cup Rng(b)
    BY <1>2, <1>4, <1>10, RngConcat
  <2>5. Incr(buf') /\ Before(out', buf') /\ Before(buf', chan') /\ Rng(buf') = {}
    BY <1>10, EmptyOrder
  <2>6. /\ Rng(out) \cup Rng(buf) \cup Rng(chan) \subseteq 1 .. sentNext - 1
        /\ Rng(out) \cap Bad = {} /\ Rng(buf) \cap Bad = {}
        /\ (1 .. sentNext - 1) \ Bad \subseteq Rng(out) \cup Rng(buf) \cup Rng(chan)
    BY DEF EInv
  <2>7. /\ Rng(out') \cup Rng(buf') \cup Rng(chan') \subseteq 1 .. sentNext' - 1
        /\ Rng(out') \cap Bad = {} /\ Rng(buf') \cap Bad = {}
        /\ (1 .. sentNext' - 1) \ Bad \subseteq Rng(out') \cup Rng(buf') \cup Rng(chan')
    BY <1>1, <1>5, <1>7, <1>8, <2>4, <2>5, <2>6
  <2>8. Incr(buf) /\ Incr(chan')
    BY <1>1, <1>6 DEF EInv
  <2>9. QED  BY <2>2, <2>3, <2>5, <2>7, <2>8 DEF EInv
<1>11. CASE b = << >> /\ lastPoll' \in {"pending", "end"} /\ UNCHANGED <<buf, out>>
  <2>1. Len(L) = 0
    <3>1. Len(b) = Len(buf) + Len(L) /\ Len(b) = 0
      BY <1>2, <1>4, <1>11, ConcatProperties
    <3>2. QED  BY <1>2, <1>4, <3>1
  <2>2. Rng(L) = {}
    BY <2>1 DEF Rng
  <2>3. TypeOK'
    BY <1>1, <1>3, <1>9, <1>11 DEF EInv, TypeOK
  <2>4. QED  BY <1>1, <1>5, <1>6, <1>11, <2>2, <2>3 DEF EInv
<1>12. QED  BY <1>1, <1>10, <1>11

LEMMA NextEInv == EInv /\ [Next]_vars => EInv'
<1> SUFFICES ASSUME EInv, [Next]_vars PROVE EInv'
  OBVIOUS
<1>1. CASE Send
  BY <1>1, SendEInv
<1>2. CASE DropSenders
  BY <1>2, DropEInv
<1>3. CASE \E k \in 0 .. Cap : Poll(k)
  <2>1. PICK k \in 0 .. Cap : Poll(k)
    BY <1>3
  <2>2. k \in 0 .. Len(chan) /\ UNCHANGED <<sentNext, txOpen>>
    BY <2>1 DEF Poll, EInv, TypeOK
  <2>3. QED  BY <2>1, <2>2, ErrEInv, DrainEInv DEF Poll
<1>4. CASE UNCHANGED vars
  BY <1>4 DEF vars, EInv, TypeOK, Incr, Before, Rng
<1>5. QED  BY <1>1, <1>2, <1>3, <1>4 DEF Next

LEMMA EInvDelivered == EInv => DeliveredInOrder
<1> SUFFICES ASSUME EInv PROVE DeliveredInOrder
  OBVIOUS
<1>1. chan \in Seq(Nat) /\ buf \in Seq(Nat) /\ out \in Seq(Nat)
  BY MsgSeqs DEF EInv, TypeOK
<1>2. out \o buf \in Seq(Nat)
  BY <1>1, ConcatProperties
<1>3. Incr(out \o buf) /\ Before(out \o buf, chan)
  BY <1>1, IncrConcat, BeforeConcat DEF EInv
<1>4. Incr(Pipeline)
  BY <1>1, <1>2, <1>3, IncrConcat DEF Pipeline, EInv
<1>5. Rng(out \o buf) = Rng(out) \cup Rng(buf)
  BY <1>1, RngConcat
<1>6. Rng(Pipeline) = Rng(out) \cup Rng(buf) \cup Rng(chan)
  BY <1>1, <1>2, <1>5, RngConcat DEF Pipeline
<1>7. \A i \in 1 .. Len(out \o buf) : (out \o buf)[i] \in Rng(out \o buf)
  BY DEF Rng
<1>8. QED  BY <1>4, <1>5, <1>6, <1>7 DEF DeliveredInOrder, Incr, Rng, EInv

(* Every message the senders queue that Codec::encode accepts is yielded,  *)
(* or waits in buf or in the channel, exactly once and in the order it was *)
(* sent, and nothing else is there: an encode error in the middle of a     *)
(* drain (stream.rs 141) keeps the frames encoded before it and loses     *)
(* only the rejected message, for every number of messages, every set of  *)
(* rejected ones and every channel capacity.                               *)
THEOREM OrderedDelivery == Spec => []DeliveredInOrder
<1>1. Spec => []EInv
  BY InitEInv, NextEInv, PTL DEF Spec
<1>2. QED  BY <1>1, EInvDelivered, PTL

-----------------------------------------------------------------------------
(* The end of the stream.  EndMeansDrained needs, beside EInv, that rx is  *)
(* set to None only once the channel is empty and every Sender is gone,    *)
(* and that Ready(None) is returned only with rx None and buf empty.       *)

Closed ==
    /\ ~rxOpen => chan = << >> /\ ~txOpen
    /\ lastPoll = "end" => ~rxOpen /\ buf = << >>

LEMMA InitClosed == Init => Closed
BY DEF Init, Closed

\* A drain sets rx to None exactly when it takes the whole queue of a
\* channel whose Senders are gone, and returns Ready(None) only with
\* nothing to yield.
LEMMA DrainClosed ==
    ASSUME EInv, Closed, NEW k \in 0 .. Len(chan), ~rxOpen => k = 0,
           EncodeDrain(k), UNCHANGED <<sentNext, txOpen>>
    PROVE  Closed'
<1>1. chan \in Seq(Nat) /\ buf \in Seq(Nat)
  BY MsgSeqs DEF EInv, TypeOK
<1>2. /\ chan' = SubSeq(chan, k + 1, Len(chan))
      /\ rxOpen' = ~(k = Len(chan) /\ ~txOpen)
      /\ \/ buf' = << >> /\ lastPoll' = "bytes"
         \/ /\ buf \o SubSeq(chan, 1, k) = << >>
            /\ lastPoll' = IF rxOpen' THEN "pending" ELSE "end"
            /\ buf' = buf
  BY DEF EncodeDrain
<1>3. ~rxOpen' => chan' = << >> /\ ~txOpen'
  <2> SUFFICES ASSUME ~rxOpen' PROVE chan' = << >> /\ ~txOpen'
    OBVIOUS
  <2>1. k = Len(chan) /\ ~txOpen
    BY <1>2
  <2>2. Len(chan') = 0
    BY <1>1, <1>2, <2>1, SubSeqProperties
  <2>3. QED  BY <1>1, <1>2, <2>1, <2>2, SubSeqProperties, EmptySeq
<1>4. lastPoll' = "end" => ~rxOpen' /\ buf' = << >>
  <2> SUFFICES ASSUME lastPoll' = "end" PROVE ~rxOpen' /\ buf' = << >>
    OBVIOUS
  <2>1. /\ buf \o SubSeq(chan, 1, k) = << >> /\ ~rxOpen' /\ buf' = buf
    BY <1>2
  <2>2. SubSeq(chan, 1, k) \in Seq(Nat)
    BY <1>1, SubSeqProperties
  <2>3. buf = << >>
    BY <1>1, <2>1, <2>2, ConcatProperties, EmptySeq
  <2>4. QED  BY <2>1, <2>3
<1>5. QED  BY <1>3, <1>4 DEF Closed

LEMMA NextClosed == EInv /\ Closed /\ [Next]_vars => Closed'
<1> SUFFICES ASSUME EInv, Closed, [Next]_vars PROVE Closed'
  OBVIOUS
<1>1. CASE Send
  <2>1. rxOpen /\ lastPoll # "end"
    BY <1>1 DEF Send, Closed
  <2>2. QED  BY <1>1, <2>1 DEF Send, Closed
<1>2. CASE DropSenders
  BY <1>2 DEF DropSenders, Closed
<1>3. CASE \E k \in 0 .. Cap : Poll(k)
  <2>1. PICK k \in 0 .. Cap : Poll(k)
    BY <1>3
  <2>2. /\ k \in 0 .. Len(chan) /\ (~rxOpen => k = 0)
        /\ UNCHANGED <<sentNext, txOpen>>
    BY <2>1 DEF Poll, EInv, TypeOK
  <2>3. CASE EncodeErr(k)
    <3>1. k # 0 /\ rxOpen' = rxOpen /\ lastPoll' = "err"
      BY <2>3 DEF EncodeErr
    <3>2. QED  BY <2>2, <3>1 DEF Closed
  <2>4. CASE EncodeDrain(k)
    BY <2>2, <2>4, DrainClosed
  <2>5. QED  BY <2>1, <2>3, <2>4 DEF Poll
<1>4. CASE UNCHANGED vars
  BY <1>4 DEF vars, Closed
<1>5. QED  BY <1>1, <1>2, <1>3, <1>4 DEF Next

LEMMA ClosedDrained == EInv /\ Closed => EndMeansDrained
<1> SUFFICES ASSUME EInv, Closed, lastPoll = "end"
             PROVE  /\ ~txOpen /\ chan = << >> /\ buf = << >>
                    /\ {out[i] : i \in 1 .. Len(out)} = (1 .. sentNext - 1) \ Bad
  BY DEF EndMeansDrained
<1>1. ~txOpen /\ chan = << >> /\ buf = << >>
  BY DEF Closed
<1>2. Rng(chan) = {} /\ Rng(buf) = {}
  BY <1>1, EmptyOrder
<1>3. Rng(out) = (1 .. sentNext - 1) \ Bad
  BY <1>2 DEF EInv
<1>4. QED  BY <1>1, <1>3 DEF Rng

(* When poll_next returns Ready(None) (stream.rs 149-150), the Senders are *)
(* gone, the channel and buf are empty and every accepted message has been *)
(* yielded: the end is never reported with a frame still buffered or a     *)
(* message still queued, for every number of messages, set of rejected     *)
(* messages and capacity.                                                  *)
THEOREM EndDrained == Spec => []EndMeansDrained
<1>1. Spec => [](EInv /\ Closed)
  BY InitEInv, NextEInv, InitClosed, NextClosed, PTL DEF Spec
<1>2. QED  BY <1>1, ClosedDrained, PTL

=============================================================================
