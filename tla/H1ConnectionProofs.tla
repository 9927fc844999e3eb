------------------------- MODULE H1ConnectionProofs -------------------------
(***************************************************************************)
(* Proofs about the request cycle of H1Connection, for every set of        *)
(* versions, statuses, headers and every bound on requests.                *)
(***************************************************************************)
EXTENDS H1Connection, TLAPS

-----------------------------------------------------------------------------
(* Continue.  ContinueOnlyWhenExpected is not inductive by itself: cont    *)
(* is set by reading the flags of the Context (is_expect_header), and the *)
(* property speaks of the marks of the request.  The two agree because    *)
(* reset clears both and every set_* call adds the same flag to both, and *)
(* nothing else (encode_head in particular) touches them.                  *)

FlagsMirrorRequest == state = reqFlags

IInv == FlagsMirrorRequest /\ ContinueOnlyWhenExpected

LEMMA InitIInv == Init => IInv
BY DEF Init, ContextInit, IInv, FlagsMirrorRequest, ContinueOnlyWhenExpected

\* encode_head leaves the flags, the marks and cont as they were, on each of
\* its three outcomes.
LEMMA EncodeHeadKeepsFlags ==
    ASSUME NEW r, EncodeHead(r)
    PROVE  state' = state /\ reqFlags' = reqFlags /\ cont' = cont
<1>1. state' = state
  BY DEF EncodeHead, contextVars
<1>2. QED  BY <1>1 DEF EncodeHead

LEMMA NextIInv == IInv /\ [Next]_vars => IInv'
<1> SUFFICES ASSUME IInv, [Next]_vars PROVE IInv'
  OBVIOUS
<1>1. CASE DecodeRequest
  BY <1>1 DEF DecodeRequest, Reset, IInv, FlagsMirrorRequest, ContinueOnlyWhenExpected
<1>2. CASE \E f \in Flags : MarkRequest(f)
  <2>1. PICK f \in Flags : MarkRequest(f)
    BY <1>2
  <2>2. state' = state \cup {f} /\ reqFlags' = reqFlags \cup {f} /\ cont' = cont
    BY <2>1 DEF MarkRequest, SetFlag
  <2>3. QED  BY <2>2 DEF IInv, FlagsMirrorRequest, ContinueOnlyWhenExpected
<1>3. CASE EncodeContinue
  <2>1. "EXPECT" \in state /\ state' = state /\ reqFlags' = reqFlags
    BY <1>3 DEF EncodeContinue, is_expect_header, contextVars
  <2>2. QED  BY <2>1 DEF IInv, FlagsMirrorRequest, ContinueOnlyWhenExpected
<1>4. CASE \E r \in Response : EncodeHead(r)
  BY <1>4, EncodeHeadKeepsFlags DEF IInv, FlagsMirrorRequest, ContinueOnlyWhenExpected
<1>5. CASE \E msg \in BodyChunks(resp.body) : EncodeBody(msg)
  BY <1>5 DEF EncodeBody, contextVars, cycleVars, IInv, FlagsMirrorRequest,
              ContinueOnlyWhenExpected
<1>6. CASE EncodeBodyEof
  BY <1>6 DEF EncodeBodyEof, contextVars, IInv, FlagsMirrorRequest,
              ContinueOnlyWhenExpected
<1>7. CASE KeepAlive
  BY <1>7 DEF KeepAlive, contextVars, IInv, FlagsMirrorRequest, ContinueOnlyWhenExpected
<1>8. CASE CloseConnection
  BY <1>8 DEF CloseConnection, contextVars, IInv, FlagsMirrorRequest,
              ContinueOnlyWhenExpected
<1>9. CASE UNCHANGED vars
  BY <1>9 DEF vars, contextVars, cycleVars, IInv, FlagsMirrorRequest,
              ContinueOnlyWhenExpected
<1>10. QED  BY <1>1, <1>2, <1>3, <1>4, <1>5, <1>6, <1>7, <1>8, <1>9 DEF Next

(* encode_continue (its debug_assert on the EXPECT flag) is only ever      *)
(* reached for a request marked with "Expect: 100-continue", on every      *)
(* request of a keep-alive connection, whatever the response headers.     *)
THEOREM ContinueExpected == Spec => []ContinueOnlyWhenExpected
<1>1. IInv => ContinueOnlyWhenExpected
  BY DEF IInv
<1>2. QED  BY InitIInv, NextIInv, <1>1, PTL DEF Spec

=============================================================================
