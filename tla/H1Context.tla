------------------------------ MODULE H1Context ------------------------------
(***************************************************************************)
(* The per-connection Context of the HTTP/1 dispatcher                     *)
(* (actix-http-alt/src/h1/proto/context.rs): the ConnectionType of the     *)
(* connection, the per-request ContextState flags, and the header map kept *)
(* for reuse by the next request.  The shared date cache is read-only for  *)
(* the Context and is not state of it.                                     *)
(*                                                                         *)
(* ContextState is a u8 bit set with three masks; the model keeps it as    *)
(* the set of masks that are set, so insert is \cup and contains is \in.   *)
(***************************************************************************)

VARIABLES
    ctype,          \* ConnectionType: "Init", "Close", "KeepAlive", "Upgrade"
    state,          \* ContextState: a subset of Flags
    header_cache    \* Option<HeaderMap>: TRUE when Some

ConnectionTypes == {"Init", "Close", "KeepAlive", "Upgrade"}

\* ContextState::EXPECT, ContextState::CONNECT, ContextState::FORCE_CLOSE
Flags == {"EXPECT", "CONNECT", "FORCE_CLOSE"}

contextVars == <<ctype, state, header_cache>>

\* Context::new
ContextInit ==
    /\ ctype = "Init"
    /\ state = {}
    /\ header_cache = FALSE

is_expect_header == "EXPECT" \in state
is_connect_method == "CONNECT" \in state
is_force_close == "FORCE_CLOSE" \in state

\* Mutant: reset sets keep-alive but keeps the flags of the last request.
ResetKeepsFlags ==
    /\ ctype' = "KeepAlive"
    /\ UNCHANGED <<state, header_cache>>

\* Context::reset: the connection defaults to keep-alive and every
\* per-request flag is cleared; the cached header map is kept.
Reset ==
    /\ ctype' = "KeepAlive"
    /\ state' = {}
    /\ UNCHANGED header_cache

\* Context::set_expect_header, set_connect_method, set_force_close.
SetFlag(f) ==
    /\ state' = state \cup {f}
    /\ UNCHANGED <<ctype, header_cache>>

SetExpectHeader == SetFlag("EXPECT")
SetConnectMethod == SetFlag("CONNECT")
SetForceClose == SetFlag("FORCE_CLOSE")

ContextTypeOK ==
    /\ ctype \in ConnectionTypes
    /\ state \subseteq Flags
    /\ header_cache \in BOOLEAN

=============================================================================
