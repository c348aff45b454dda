------------------------------- MODULE MCTlv -------------------------------
(***************************************************************************)
(* Tlv with bytes of eight values, numbers of two digits and a bit, four   *)
(* levels and payloads of at most ten bytes: every stream of at most two   *)
(* values and every cut of it, and every foreign stream of at most five    *)
(* bytes, some of them map entries with the same key.  The values reach    *)
(* both sides of each limit.                                               *)
(***************************************************************************)
EXTENDS Tlv

Str(s) == <<"string", s>>
Arr(s) == <<"array", s>>
Mp(s) == <<"map", s>>
Null == <<"null", <<>>>>

MCValues == {
    Null, Str(<<>>), Str(<<1, 7>>), <<"uint16", <<57>>>>, <<"bool", <<1>>>>, <<"bool", <<0>>>>,
    Arr(<<>>), Arr(<<Str(<<2>>), Null>>), Arr(<<Arr(<<Arr(<<Arr(<<>>)>>)>>)>>),
    Arr(<<Arr(<<Arr(<<Arr(<<Arr(<<>>)>>)>>)>>)>>),
    Mp(<<>>), Mp(<<<<<<1>>, Str(<<3>>)>>, <<<<>>, Null>>>>),
    Mp(<<<<<<>>, Mp(<<<<<<>>, Null>>>>)>>>>),
    Mp(<<<<<<>>, Mp(<<<<<<>>, Arr(<<Null>>)>>>>)>>>>),
    Str([i \in 1..10 |-> 0]), Str([i \in 1..11 |-> 0]), Arr(<<Str([i \in 1..9 |-> 5])>>)}

MCChunks == {<<x>> : x \in 0..7} \cup {<<1, 0, 6, 0>>, <<1, 0, 3, 1, 5>>}
=============================================================================
