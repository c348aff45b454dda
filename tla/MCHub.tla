------------------------------- MODULE MCHub -------------------------------
(***************************************************************************)
(* Hub on two topics and two sessions, one over QUIC and one over TCP,     *)
(* with two handlers that may share both, and one publisher.               *)
(***************************************************************************)
EXTENDS Hub

CONSTANTS t1, t2, a, b, h1, h2, p1

TwoTopics == {t1, t2}
TwoSessions == {a, b}
OverTcp == {b}
TwoSubs == {h1, h2}
OnePublisher == {p1}
=============================================================================
