--------------------- MODULE H1TransferEncodingRefinement ---------------------
(***************************************************************************)
(* TransferEncoding implements BodyDelivery: what a client takes out of    *)
(* the bytes written (the chunk payloads under chunked framing, the bytes *)
(* themselves otherwise) is the delivered body, the chunks given to encode *)
(* are the produced body, a Length encoder has the declared length as its *)
(* limit, and the result of encode_eof is the outcome.                     *)
(***************************************************************************)
EXTENDS H1TransferEncoding

\* What the client's decoder makes of the bytes written so far.
Delivered == IF kind = "Chunked" THEN Dechunk(wire).data ELSE wire

Abs == INSTANCE BodyDelivery
         WITH Data <- Chunk,
              produced <- sent,
              delivered <- Delivered,
              outcome <- IF eofRes = "pending" THEN "open" ELSE eofRes,
              bounded <- kind = "Length",
              limit <- declared

(* TransferEncoding::encode and encode_eof, driven by any producer that    *)
(* ends with an empty chunk or encode_eof: the client's received bytes     *)
(* grow as a prefix of the produced body, never past a declared length,   *)
(* and a successful encode_eof means the whole body was delivered.         *)
DeliversBody == Abs!AbsSpec

=============================================================================
