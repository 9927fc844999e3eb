------------------------- MODULE MC_H1Connection -------------------------
(***************************************************************************)
(* Model-checking instance of H1Connection.  Two requests per connection  *)
(* (enough for flags and ctype of one request to reach the next), every    *)
(* status class the head encoder distinguishes (100 rejected, 101, 2xx,    *)
(* 4xx), three versions (1.0, 1.1 and one the encoder does not know), and  *)
(* header lists of up to two headers drawn from every kind the drain loop  *)
(* treats apart, among them a Connection value with two tokens and one     *)
(* that is not visible ASCII; two values of one name reach the panic of   *)
(* the drain loop.                                                         *)
(***************************************************************************)
EXTENDS H1Connection

CONSTANTS b1

MCSym == {b1}

ConnHeader(t, ok) == [name |-> "connection", toks |-> t, valid |-> ok]
PlainHeader(n) == [name |-> n, toks |-> <<"other">>, valid |-> TRUE]

MCUserHeaders ==
    { ConnHeader(<<"close">>, TRUE),
      ConnHeader(<<"keep-alive", "upgrade">>, TRUE),
      ConnHeader(<<"upgrade">>, TRUE),
      ConnHeader(<<"keep-alive">>, FALSE),
      PlainHeader("date"),
      PlainHeader("content-length"),
      PlainHeader("transfer-encoding"),
      PlainHeader("other") }

=============================================================================
