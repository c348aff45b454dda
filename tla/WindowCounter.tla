--------------------------- MODULE WindowCounter ---------------------------
(***************************************************************************)
(* A rate limiter as the rest of the server may think of it: for each key  *)
(* a count, which Allow raises while it is below the limit and which falls *)
(* as time passes.  SlidingWindowLimiter implements it with the admissions *)
(* its window holds, and every limiter in Dispatch is one.                 *)
(***************************************************************************)
EXTENDS Naturals

CONSTANTS Keys, Limit

VARIABLE count

Init == count = [k \in Keys |-> 0]

Allow(k) ==
    /\ count[k] < Limit
    /\ count' = [count EXCEPT ![k] = @ + 1]

\* Time passes for all keys at once.
AgeOut ==
    /\ count' \in [Keys -> Nat]
    /\ \A k \in Keys : count'[k] <= count[k]

Next == AgeOut \/ \E k \in Keys : Allow(k)

Spec == Init /\ [][Next]_count
=============================================================================
