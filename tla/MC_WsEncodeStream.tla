------------------------- MODULE MC_WsEncodeStream -------------------------
(***************************************************************************)
(* Model-checking instance of WsEncodeStream (WsEncode.cfg): five         *)
(* messages, the second and third rejected by the codec, a channel of     *)
(* capacity 3, so that a rejected message follows accepted ones in one    *)
(* drain, two rejected messages come in a row, the channel can be full,   *)
(* and the senders can drop with messages still queued.                   *)
(***************************************************************************)
EXTENDS WsEncodeStream

=============================================================================
