----------------------------- MODULE MCDispatch -----------------------------
(***************************************************************************)
(* Dispatch with two limiters in a row (by session and by API key),        *)
(* RequireAPIKeyID and RecoveryMiddleware, a stream handler registered     *)
(* with Handle, one session over QUIC with two requests and one over TCP   *)
(* without an API key.                                                     *)
(***************************************************************************)
EXTENDS Dispatch

CONSTANTS limit, require, handle, event, r1, r2, r3, s1, s2

MCCalls == {limit, require, handle, event}
MCSessions == {s1, s2}
MCRequests == {r1, r2, r3}
MCSessionOf == [r \in MCRequests |-> IF r = r3 THEN s2 ELSE s1]
MCOpcodeOf == [r \in MCRequests |-> IF r = r3 THEN 2 ELSE 1]
MCKeyOf == [s \in MCSessions |-> IF s = s1 THEN "a" ELSE ""]
MCAddrOf == [s \in MCSessions |-> s]
MCTcp == {s2}
MCLimit == [l \in {"second", "minute"} |-> 1]

L(kind, by, l) == [kind |-> kind, allowed |-> {"a"}, by |-> by, limiter |-> l]
Call(op, ls, o, fn) == [op |-> op, layers |-> ls, opcode |-> o, fn |-> fn]

MCCallOf == [c \in MCCalls |->
    CASE c = limit -> Call("Use", <<L("limit", "session", "second"), L("limit", "key", "minute")>>, 1, "handler")
      [] c = require -> Call("Use", <<L("require", "session", "second"), L("recover", "session", "second")>>, 1, "handler")
      [] c = handle -> Call("Handle", <<>>, 1, "handler")
      [] c = event -> Call("Handle", <<>>, 2, "stream")]
=============================================================================
