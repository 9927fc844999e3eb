------------------------- MODULE MC_WsDecodeStream -------------------------
(***************************************************************************)
(* Model-checking instance of WsDecodeStream: two frames of two bytes, so *)
(* that items can split a frame, join two frames' bytes, and the peer can *)
(* close in the middle of the second frame; one error item.               *)
(***************************************************************************)
EXTENDS WsDecodeStream

=============================================================================
