------------------------------- MODULE TlvMap -------------------------------
(***************************************************************************)
(* tlv.Map, an ordered map kept as a sequence of <<key, value>> entries    *)
(* and searched from the front.  A Map is only ever built with Set, by a   *)
(* program as by the decoder.                                              *)
(***************************************************************************)
EXTENDS Integers, Sequences

Keys(m) == {m[i][1] : i \in DOMAIN m}

MutSet(m, key, v) == Append(m, <<key, v>>)

\* A key that is there keeps its place.
Set(m, key, v) ==
    IF key \in Keys(m)
    THEN [i \in DOMAIN m |-> IF m[i][1] = key THEN <<key, v>> ELSE m[i]]
    ELSE Append(m, <<key, v>>)

\* The value under a key of the map (Get also says whether there is one); no map
\* has a key twice.
Get(m, key) == m[CHOOSE i \in DOMAIN m : m[i][1] = key][2]
=============================================================================
