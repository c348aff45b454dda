------------------------------- MODULE MCQuic -------------------------------
(***************************************************************************)
(* QuicSession with two Do calls, one Close and credit for one request     *)
(* after the handshake, under each kind of API key: none, the right        *)
(* secret, a wrong one, an unknown ID, one longer than the server takes,   *)
(* and IDs whose length wraps to 0 and to that of another key.             *)
(***************************************************************************)
EXTENDS QuicSession

CONSTANTS d1, d2, x1

MCDos == {d1, d2}
MCClosers == {x1}
MCSessionIDs == {1, 2}

MCKeyStore == [i \in {"a", "long", "wrap0", "wrap1"} |->
                CASE i = "a" -> "s1" [] i = "long" -> "s2" [] OTHER -> "s3"]

APIKey(i, n, p, s) == [id |-> i, len |-> n, prefix |-> p, secret |-> s]

MCClientKeys == {
    APIKey("", 0, "", "s1"), APIKey("a", 1, "a", "s1"), APIKey("a", 1, "a", "s2"),
    APIKey("unknown", 7, "unknown", "s1"), APIKey("long", 257, "long", "s2"),
    APIKey("wrap0", 65536, "", "s3"), APIKey("wrap1", 65537, "a", "s1")}
=============================================================================
