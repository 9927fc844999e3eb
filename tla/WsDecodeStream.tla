---------------------------- MODULE WsDecodeStream ----------------------------
(***************************************************************************)
(* DecodeStream of http-ws (src/http-ws/src/stream.rs): a Stream of        *)
(* WebSocket messages decoded from an inner stream S of byte chunks.       *)
(*                                                                         *)
(* The inner stream is the network side: the peer's bytes arrive as ready  *)
(* items of up to MaxItem bytes; an item may instead be an error           *)
(* (Ready(Some(Err(e)))), at most MaxErrs of them; once every byte has    *)
(* arrived the end (Ready(None)) becomes ready.  What is not ready makes    *)
(* poll_next of S return Pending.                                          *)
(*                                                                         *)
(* Data abstraction.  The peer sends NFrames frames of FrameLen bytes      *)
(* each, a byte being [f |-> frame, p |-> position]; the last Cut bytes    *)
(* may be missing (the peer closed in the middle of a frame).  The codec   *)
(* (codec.rs, not among the sources) is abstracted to what decode does    *)
(* with a well-formed byte stream: Some(frame) and the frame's bytes split *)
(* off the front of buf when a whole frame is there, None otherwise.       *)
(* poll_next appends every Ok item to buf (extend_from_slice), so where    *)
(* one Ok item ends and the next begins is not observable: the ready items *)
(* are kept as the bytes of the Ok ones, in order, and for each error item *)
(* the number of those bytes that come before it.                          *)
(***************************************************************************)
EXTENDS Naturals, Sequences

CONSTANTS
    NFrames,    \* the frames the peer sends
    FrameLen,   \* the bytes of one frame
    MaxItem,    \* the most bytes in one item of the inner stream
    MaxErrs     \* the most error items of the inner stream

ASSUME NFramesAssumption == NFrames \in Nat
ASSUME FrameLenAssumption == FrameLen \in Nat \ {0}
ASSUME MaxItemAssumption == MaxItem \in Nat \ {0}
ASSUME MaxErrsAssumption == MaxErrs \in Nat

VARIABLES
    pending,    \* network: the peer's bytes that have not arrived yet
    ready,      \* network: the bytes of the Ok items S would yield now
    readyErrs,  \* network: for each error item S would yield, in order,
                \* how many bytes of ready come before it
    eos,        \* network: S would yield Ready(None) after ready
    errsSent,   \* network: the error items produced so far
    cut,        \* network: the bytes of the last frame the peer never sent
    open,       \* DecodeStream.stream is Some
    buf,        \* DecodeStream.buf
    yielded,    \* the frames poll_next has returned, in order
    lastPoll,   \* what the last poll_next returned
    done        \* poll_next has returned Ready(None)

vars == <<pending, ready, readyErrs, eos, errsSent, cut, open, buf, yielded, lastPoll, done>>

\* The k-th byte the peer sends: frame (k - 1) \div FrameLen + 1, at
\* position (k - 1) % FrameLen + 1 in it.
ByteAt(k) == [f |-> ((k - 1) \div FrameLen) + 1, p |-> ((k - 1) % FrameLen) + 1]

\* The bytes the peer sends before it closes.
Input == [k \in 1 .. NFrames * FrameLen - cut |-> ByteAt(k)]

\* The frames whose bytes all arrive.
Complete == IF cut = 0 THEN NFrames ELSE NFrames - 1

\* Codec::decode on buffer b: a whole frame at the front of b.
FrameReady(b) == Len(b) >= FrameLen

-----------------------------------------------------------------------------
(* The inner stream S: bytes, errors and the end become ready.             *)

Arrive(n) ==
    /\ n \in 1 .. MaxItem
    /\ n <= Len(pending)
    /\ ready' = ready \o SubSeq(pending, 1, n)
    /\ pending' = SubSeq(pending, n + 1, Len(pending))
    /\ UNCHANGED <<readyErrs, eos, errsSent, cut, open, buf, yielded, lastPoll, done>>

ArriveErr ==
    /\ ~eos
    /\ errsSent < MaxErrs
    /\ readyErrs' = Append(readyErrs, Len(ready))
    /\ errsSent' = errsSent + 1
    /\ UNCHANGED <<pending, ready, eos, cut, open, buf, yielded, lastPoll, done>>

ArriveEnd ==
    /\ pending = << >>
    /\ ~eos
    /\ eos' = TRUE
    /\ UNCHANGED <<pending, ready, readyErrs, errsSent, cut, open, buf, yielded, lastPoll, done>>

Network == (\E n \in 1 .. MaxItem : Arrive(n)) \/ ArriveEnd

-----------------------------------------------------------------------------
(* DecodeStream::poll_next.  While stream is Some, the loop extends buf    *)
(* with every ready item, returns at the first error item (the items      *)
(* before it already in buf), sets stream to None at Ready(None) and       *)
(* breaks at Pending; then decode is called once: a frame is returned,    *)
(* else Ready(None) if stream is None, else Pending.                       *)

\* The ready items after the first error item.
AfterFirstErr ==
    [j \in 1 .. Len(readyErrs) - 1 |-> readyErrs[j + 1] - readyErrs[1]]

\* Mutant: the error return forgets the items read before the error.
ErrPollDropsRead ==
    /\ open
    /\ readyErrs # << >>
    /\ ready' = SubSeq(ready, readyErrs[1] + 1, Len(ready))
    /\ readyErrs' = AfterFirstErr
    /\ lastPoll' = "err"
    /\ UNCHANGED <<buf, open, yielded, done>>

ErrPoll ==
    /\ open
    /\ readyErrs # << >>
    /\ buf' = buf \o SubSeq(ready, 1, readyErrs[1])
    /\ ready' = SubSeq(ready, readyErrs[1] + 1, Len(ready))
    /\ readyErrs' = AfterFirstErr
    /\ lastPoll' = "err"
    /\ UNCHANGED <<open, yielded, done>>

\* Mutant: the end is reported before decode is called on what is left.
DecodePollEndFirst ==
    LET b == IF open THEN buf \o ready ELSE buf
        o == open /\ ~eos
    IN  /\ ~open \/ readyErrs = << >>
        /\ ready' = IF open THEN << >> ELSE ready
        /\ open' = o
        /\ \/ /\ ~o
              /\ buf' = b /\ lastPoll' = "end" /\ done' = TRUE
              /\ UNCHANGED yielded
           \/ /\ o /\ FrameReady(b)
              /\ buf' = SubSeq(b, FrameLen + 1, Len(b))
              /\ yielded' = Append(yielded, b[1].f)
              /\ lastPoll' = "msg"
              /\ UNCHANGED done
           \/ /\ o /\ ~FrameReady(b)
              /\ buf' = b /\ lastPoll' = "pending"
              /\ UNCHANGED <<yielded, done>>
        /\ UNCHANGED readyErrs

DecodePoll ==
    LET b == IF open THEN buf \o ready ELSE buf
        o == open /\ ~eos
    IN  /\ ~open \/ readyErrs = << >>
        /\ ready' = IF open THEN << >> ELSE ready
        /\ open' = o
        /\ \/ /\ FrameReady(b)
              /\ buf' = SubSeq(b, FrameLen + 1, Len(b))
              /\ yielded' = Append(yielded, b[1].f)
              /\ lastPoll' = "msg"
              /\ UNCHANGED done
           \/ /\ ~FrameReady(b)
              /\ buf' = b
              /\ lastPoll' = IF o THEN "pending" ELSE "end"
              /\ done' = ~o
              /\ UNCHANGED yielded
        /\ UNCHANGED readyErrs

\* One call of poll_next by the consumer, which stops after Ready(None).
Poll ==
    /\ ~done
    /\ ErrPoll \/ DecodePoll
    /\ UNCHANGED <<pending, eos, errsSent, cut>>

Init ==
    /\ cut \in 0 .. (IF NFrames = 0 THEN 0 ELSE FrameLen - 1)
    /\ pending = Input
    /\ ready = << >>
    /\ readyErrs = << >>
    /\ eos = FALSE
    /\ errsSent = 0
    /\ open = TRUE
    /\ buf = << >>
    /\ yielded = << >>
    /\ lastPoll = "none"
    /\ done = FALSE

Next == Poll \/ Network \/ ArriveErr

(* The consumer polls again whenever it is woken: after every Ready it     *)
(* loops, and after Pending the inner stream's waker re-schedules it.      *)
(* The peer's bytes and its close eventually arrive.  Error items need not.*)
Fairness == WF_vars(Poll) /\ WF_vars(Network)

Spec == Init /\ [][Next]_vars /\ Fairness

-----------------------------------------------------------------------------
(* Properties.                                                             *)

TypeOK ==
    /\ cut \in 0 .. FrameLen
    /\ pending \in Seq([f : 1 .. NFrames, p : 1 .. FrameLen])
    /\ ready \in Seq([f : 1 .. NFrames, p : 1 .. FrameLen])
    /\ readyErrs \in Seq(0 .. Len(ready))
    /\ buf \in Seq([f : 1 .. NFrames, p : 1 .. FrameLen])
    /\ eos \in BOOLEAN
    /\ errsSent \in 0 .. MaxErrs
    /\ open \in BOOLEAN
    /\ yielded \in Seq(1 .. NFrames)
    /\ lastPoll \in {"none", "msg", "err", "pending", "end"}
    /\ done \in BOOLEAN

(* poll_next neither loses, reorders nor duplicates a byte, across error   *)
(* returns and the end of S: it has returned frames 1, 2, ... in order,    *)
(* and buf, then the ready items, then what has not arrived are exactly    *)
(* the peer's bytes after those frames.                                    *)
NoBytesLost ==
    /\ yielded = [i \in 1 .. Len(yielded) |-> i]
    /\ buf \o ready \o pending = SubSeq(Input, Len(yielded) * FrameLen + 1, Len(Input))

(* Ready(None) comes only after every whole frame: when poll_next has     *)
(* returned it (stream.rs 95-96), the frames returned are exactly those   *)
(* whose bytes all arrived, because decode is tried on buf before the end  *)
(* of S is reported (92-100).                                              *)
EndMeansAllFrames ==
    done => yielded = [i \in 1 .. Complete |-> i]

(* When the peer's bytes and its close arrive, poll_next eventually        *)
(* returns every whole frame, in order, and then ends (stream.rs 92-100:  *)
(* decode is tried before the end is reported).                            *)
AllFramesDelivered ==
    <>(done /\ yielded = [i \in 1 .. Complete |-> i])

=============================================================================
