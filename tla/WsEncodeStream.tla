---------------------------- MODULE WsEncodeStream ----------------------------
(***************************************************************************)
(* EncodeStream of http-ws (src/http-ws/src/stream.rs): the Sender half of *)
(* a bounded tokio mpsc channel takes WebSocket messages, and poll_next    *)
(* drains the Receiver, encodes each message into buf and yields buf as    *)
(* one Bytes.                                                              *)
(*                                                                         *)
(* Messages are 1 .. NMsgs, sent in that order; Codec::encode (codec.rs,   *)
(* not among the sources) fails on the messages in Bad and appends the     *)
(* frame of the message otherwise, abstracted to the message's number.     *)
(* Receiver::poll_recv returns a queued message, Ready(None) once the      *)
(* channel is empty and every Sender is dropped, and Pending otherwise;    *)
(* it may also return Pending while messages are queued, when the task's  *)
(* cooperative budget is spent, so one poll_next drains any prefix of the  *)
(* queue.                                                                  *)
(***************************************************************************)
EXTENDS Naturals, Sequences, SequencesExt

CONSTANTS
    NMsgs,      \* the messages the senders send
    Bad,        \* the messages Codec::encode rejects
    Cap         \* the channel capacity (with_capacity(cap, ..))

ASSUME NMsgsAssumption == NMsgs \in Nat
ASSUME BadAssumption == Bad \subseteq 1 .. NMsgs
ASSUME CapAssumption == Cap \in Nat \ {0}

VARIABLES
    chan,       \* the messages queued in the channel
    sentNext,   \* the next message a Sender sends
    txOpen,     \* some Sender is still alive
    rxOpen,     \* EncodeStream.rx is Some
    buf,        \* EncodeStream.buf: the encoded frames not yet yielded
    out,        \* the frames yielded so far, in order
    lastPoll    \* what the last poll_next returned

vars == <<chan, sentNext, txOpen, rxOpen, buf, out, lastPoll>>

\* The messages Codec::encode accepts, in the order of s.
Good(s) == SelectSeq(s, LAMBDA m : m \notin Bad)

\* The messages sent so far.
Sent == [i \in 1 .. sentNext - 1 |-> i]

\* Codec::encode fails first on the e-th queued message: it accepts every
\* message before it.
FailsFirstAt(e) == chan[e] \in Bad /\ \A j \in 1 .. e - 1 : chan[j] \notin Bad

\* Codec::encode accepts each of the first k queued messages.
AllAccepted(k) == \A i \in 1 .. k : chan[i] \notin Bad

-----------------------------------------------------------------------------
(* The senders: Sender::send waits while the channel is full; dropping    *)
(* the last Sender closes the channel.                                     *)

Send ==
    /\ txOpen
    /\ sentNext <= NMsgs
    /\ Len(chan) < Cap
    /\ chan' = Append(chan, sentNext)
    /\ sentNext' = sentNext + 1
    /\ UNCHANGED <<txOpen, rxOpen, buf, out, lastPoll>>

DropSenders ==
    /\ txOpen
    /\ txOpen' = FALSE
    /\ UNCHANGED <<chan, sentNext, rxOpen, buf, out, lastPoll>>

-----------------------------------------------------------------------------
(* EncodeStream::poll_next, receiving the first k queued messages.  An     *)
(* encode error returns at once, with the message taken off the channel   *)
(* and the frames encoded before it left in buf.  Otherwise the loop ends *)
(* at Pending, or sets rx to None at Ready(None); then a non-empty buf is  *)
(* yielded, else Ready(None) when rx is None, else Pending.                *)

\* Mutant: the frames encoded before the rejected message are discarded.
EncodeErrDropsEncoded(k) ==
    \E e \in 1 .. k :
        /\ FailsFirstAt(e)
        /\ chan' = SubSeq(chan, e + 1, Len(chan))
        /\ lastPoll' = "err"
        /\ UNCHANGED <<buf, rxOpen, out>>

EncodeErr(k) ==
    \E e \in 1 .. k :
        /\ FailsFirstAt(e)
        /\ buf' = buf \o SubSeq(chan, 1, e - 1)
        /\ chan' = SubSeq(chan, e + 1, Len(chan))
        /\ lastPoll' = "err"
        /\ UNCHANGED <<rxOpen, out>>

\* Mutant: the end is reported as soon as rx is None, before buf is checked.
EncodeDrainEndFirst(k) ==
    LET b == buf \o SubSeq(chan, 1, k)
        r == ~(k = Len(chan) /\ ~txOpen)
    IN  /\ AllAccepted(k)
        /\ chan' = SubSeq(chan, k + 1, Len(chan))
        /\ rxOpen' = r
        /\ \/ /\ ~r
              /\ lastPoll' = "end"
              /\ UNCHANGED <<buf, out>>
           \/ /\ r /\ b # << >>
              /\ out' = out \o b /\ buf' = << >> /\ lastPoll' = "bytes"
           \/ /\ r /\ b = << >>
              /\ lastPoll' = "pending"
              /\ UNCHANGED <<buf, out>>

EncodeDrain(k) ==
    LET b == buf \o SubSeq(chan, 1, k)
        r == ~(k = Len(chan) /\ ~txOpen)
    IN  /\ AllAccepted(k)
        /\ chan' = SubSeq(chan, k + 1, Len(chan))
        /\ rxOpen' = r
        /\ \/ /\ b # << >>
              /\ out' = out \o b
              /\ buf' = << >>
              /\ lastPoll' = "bytes"
           \/ /\ b = << >>
              /\ lastPoll' = IF r THEN "pending" ELSE "end"
              /\ UNCHANGED <<buf, out>>

\* One call of poll_next; the consumer stops after Ready(None).
Poll(k) ==
    /\ lastPoll # "end"
    /\ IF rxOpen THEN k \in 0 .. Len(chan) ELSE k = 0
    /\ EncodeErr(k) \/ EncodeDrain(k)
    /\ UNCHANGED <<sentNext, txOpen>>

\* A poll_next whose receives are not cut short by the budget.
PollAll == Poll(IF rxOpen THEN Len(chan) ELSE 0)

Init ==
    /\ chan = << >>
    /\ sentNext = 1
    /\ txOpen = TRUE
    /\ rxOpen = TRUE
    /\ buf = << >>
    /\ out = << >>
    /\ lastPoll = "none"

Next ==
    \/ Send
    \/ DropSenders
    \/ \E k \in 0 .. Cap : Poll(k)

(* The consumer polls whenever woken (the Receiver's waker, or the budget  *)
(* that yields and re-schedules the task), and a task's budget is renewed *)
(* on every poll of it, so a poll that drains the whole queue eventually   *)
(* happens.  The senders are under no obligation to send or to drop.      *)
Fairness == WF_vars(PollAll)

Spec == Init /\ [][Next]_vars /\ Fairness

-----------------------------------------------------------------------------
(* Properties.                                                             *)

TypeOK ==
    /\ chan \in Seq(1 .. NMsgs)
    /\ Len(chan) <= Cap
    /\ sentNext \in 1 .. NMsgs + 1
    /\ txOpen \in BOOLEAN
    /\ rxOpen \in BOOLEAN
    /\ buf \in Seq(1 .. NMsgs)
    /\ out \in Seq(1 .. NMsgs)
    /\ lastPoll \in {"none", "bytes", "err", "pending", "end"}

\* The frames yielded, then the frames in buf, then the queued messages.
Pipeline == out \o buf \o chan

(* Every message Codec::encode accepts reaches the output exactly once,   *)
(* in the order it was sent: along the pipeline of yielded frames,        *)
(* buffered frames and queued messages no message is reordered or        *)
(* duplicated, none of the yielded or buffered ones is one Codec::encode  *)
(* rejected, nothing is there that was not sent, and every                *)
(* accepted message that was sent is there, across encode errors that    *)
(* drop a message in the middle of a drain (stream.rs 141) and budget     *)
(* cuts.                                                                   *)
DeliveredInOrder ==
    /\ \A i, j \in 1 .. Len(Pipeline) : i < j => Pipeline[i] < Pipeline[j]
    /\ \A i \in 1 .. Len(out \o buf) : (out \o buf)[i] \notin Bad
    /\ (1 .. sentNext - 1) \ Bad \subseteq {Pipeline[i] : i \in 1 .. Len(Pipeline)}
    /\ {Pipeline[i] : i \in 1 .. Len(Pipeline)} \subseteq 1 .. sentNext - 1

(* Ready(None) is final and complete: when poll_next returns it (stream.rs *)
(* 149-150), every Sender is gone, the channel and buf are empty, and      *)
(* every message Codec::encode accepts has been yielded.                   *)
EndMeansDrained ==
    lastPoll = "end" =>
        /\ ~txOpen /\ chan = << >> /\ buf = << >>
        /\ {out[i] : i \in 1 .. Len(out)} = (1 .. sentNext - 1) \ Bad

(* After the last Sender is dropped, poll_next eventually yields every     *)
(* accepted message and then returns Ready(None): the end is reported     *)
(* only once buf is empty (stream.rs 147-150).                             *)
DrainsThenEnds ==
    ~txOpen ~> (lastPoll = "end" /\ out = Good(Sent))

=============================================================================
