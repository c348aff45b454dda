------------------------------- MODULE MCTcp -------------------------------
(***************************************************************************)
(* TcpSession with two Do calls and one Close.                             *)
(***************************************************************************)
EXTENDS TcpSession

CONSTANTS d1, d2, x1

MCTwoDos == {d1, d2}
MCOneDo == {d1}
MCOneClose == {x1}
MCStreaming == {"ok", "stream"}
MCPanicking == {"ok", "panic", "stream"}
=============================================================================
