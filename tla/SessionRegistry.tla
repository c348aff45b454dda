-------------------------- MODULE SessionRegistry --------------------------
(***************************************************************************)
(* What the session store promises to the rest of the server, and all that *)
(* the media tokens rely on: a session opens under an ID nobody had        *)
(* before, may end at any later time, several at once, and never comes     *)
(* back.  SessionServer implements this specification; MediaTokens is      *)
(* built on it.                                                            *)
(***************************************************************************)
CONSTANT IDs

VARIABLES
    opened,   \* the IDs of sessions that were ever in the store
    live      \* those of sessions in it

Init == opened = {} /\ live = {}

Open(i) ==
    /\ i \notin opened
    /\ opened' = opened \cup {i} /\ live' = live \cup {i}

End(S) ==
    /\ S # {} /\ S \subseteq live
    /\ live' = live \ S
    /\ UNCHANGED opened

Next == (\E i \in IDs : Open(i)) \/ (\E S \in SUBSET IDs : End(S))

Spec == Init /\ [][Next]_<<opened, live>>
=============================================================================
