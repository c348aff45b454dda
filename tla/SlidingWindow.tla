--------------------------- MODULE SlidingWindow ---------------------------
(***************************************************************************)
(* What a rate limiter promises: one that remembers every admission and    *)
(* counts, when asked, those less than a window old.  There is nothing to  *)
(* prune and no cleaner.  SlidingWindowLimiter implements it.              *)
(***************************************************************************)
EXTENDS Integers, Sequences, FiniteSets

CONSTANTS Keys, Limit, Window

VARIABLES
    now,
    hist,     \* when each request of the key was admitted
    denial    \* when the key was last denied, and after how many admissions

Recent(k) == {i \in DOMAIN hist[k] : hist[k][i] > now - Window}

Init ==
    /\ now = 0
    /\ hist = [k \in Keys |-> <<>>]
    /\ denial = [k \in Keys |-> [at |-> 0, n |-> -1]]

Tick == now' = now + 1 /\ UNCHANGED <<hist, denial>>

Admit(k) ==
    /\ Cardinality(Recent(k)) < Limit
    /\ hist' = [hist EXCEPT ![k] = Append(@, now)]
    /\ UNCHANGED <<now, denial>>

Deny(k) ==
    /\ Cardinality(Recent(k)) >= Limit
    /\ denial' = [denial EXCEPT ![k] = [at |-> now, n |-> Len(hist[k])]]
    /\ UNCHANGED <<now, hist>>

Next == Tick \/ \E k \in Keys : Admit(k) \/ Deny(k)

Spec == Init /\ [][Next]_<<now, hist, denial>>
=============================================================================
