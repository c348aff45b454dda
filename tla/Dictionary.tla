----------------------------- MODULE Dictionary -----------------------------
(***************************************************************************)
(* What a Map means to those who use it: a function from keys to values.   *)
(***************************************************************************)
CONSTANTS MapKeys, MapValues

VARIABLE dict

Init == dict = [k \in {} |-> {}]

Put(key, v) == dict' = [k \in DOMAIN dict \cup {key} |-> IF k = key THEN v ELSE dict[k]]

Next == \E key \in MapKeys, v \in MapValues : Put(key, v)

Spec == Init /\ [][Next]_dict
=============================================================================
