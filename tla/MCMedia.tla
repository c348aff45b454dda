------------------------------ MODULE MCMedia ------------------------------
(***************************************************************************)
(* MediaTokens with two sessions and two requests.                         *)
(***************************************************************************)
EXTENDS MediaTokens, TLC

CONSTANTS k1, k2, s1, s2, v1, v2

MCTokens == {k1, k2}
MCSessions == {s1, s2}
MCRequests == {v1, v2}
Symmetry == Permutations(MCTokens) \cup Permutations(MCSessions) \cup Permutations(MCRequests)
=============================================================================
