----------------------- MODULE MC_H1TransferEncoding -----------------------
(***************************************************************************)
(* Model-checking instance of H1TransferEncoding: two byte values, chunks  *)
(* of up to 2 bytes, 3 encode calls and declared lengths up to 3, so that  *)
(* a Length body can be under-delivered, delivered exactly over several    *)
(* chunks, and over-delivered (a chunk straddling the declared end).       *)
(***************************************************************************)
EXTENDS H1TransferEncodingRefinement

CONSTANTS b1, b2

MCSym == {b1, b2}

=============================================================================
