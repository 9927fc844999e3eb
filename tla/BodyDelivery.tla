---------------------------- MODULE BodyDelivery ----------------------------
(***************************************************************************)
(* What a body encoder promises the client, whatever its framing           *)
(* (spec.md §4.4 and §8): the bytes the client can take out of the         *)
(* connection are always a prefix of the bytes the body produced, they     *)
(* only ever grow, a body with a declared length never yields more than   *)
(* that length, and when encode_eof succeeds the client has received the   *)
(* whole body (up to the declared length); encode_eof fails only for a    *)
(* declared-length body that is short.                                    *)
(***************************************************************************)
EXTENDS Naturals, Sequences

CONSTANT Data           \* the chunks a body can produce

VARIABLES
    produced,   \* what the body has produced so far
    delivered,  \* what the client has received so far
    outcome,    \* "open", then "ok" or "err" once the body is finalized
    bounded,    \* the body has a declared length
    limit       \* that length

absVars == <<produced, delivered, outcome, bounded, limit>>

\* s is a prefix of t.
IsPrefix(s, t) == Len(s) <= Len(t) /\ s = SubSeq(t, 1, Len(s))

\* The bytes the client must have when the body is finalized successfully.
Due == IF bounded /\ limit < Len(produced) THEN SubSeq(produced, 1, limit)
       ELSE produced

AbsInit ==
    /\ produced = << >>
    /\ delivered = << >>
    /\ outcome = "open"
    /\ bounded \in BOOLEAN
    /\ limit \in Nat
    /\ ~bounded => limit = 0

\* The body produces m; the client receives some more of what was produced.
AbsProduce(m) ==
    /\ outcome = "open"
    /\ produced' = produced \o m
    /\ IsPrefix(delivered, delivered')
    /\ IsPrefix(delivered', produced')
    /\ bounded => Len(delivered') <= limit
    /\ UNCHANGED <<outcome, bounded, limit>>

\* The body is finalized: successfully exactly when everything due was
\* delivered and a declared length was reached, with an error otherwise.
AbsFinalize ==
    /\ outcome = "open"
    /\ \/ /\ outcome' = "ok"
          /\ delivered = Due
          /\ bounded => Len(produced) >= limit
       \/ /\ outcome' = "err"
          /\ bounded
          /\ Len(produced) < limit
    /\ UNCHANGED <<produced, delivered, bounded, limit>>

AbsNext ==
    \/ \E m \in Data : AbsProduce(m)
    \/ AbsFinalize

AbsSpec == AbsInit /\ [][AbsNext]_absVars

=============================================================================
