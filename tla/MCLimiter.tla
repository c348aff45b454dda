----------------------------- MODULE MCLimiter -----------------------------
(***************************************************************************)
(* SlidingWindowLimiter on one key (keys share nothing but the mutex) and  *)
(* two goroutines that call Stop.                                          *)
(***************************************************************************)
EXTENDS SlidingWindowLimiter

CONSTANTS k1, p1, p2

MCKeys == {k1}
MCStoppers == {p1, p2}
=============================================================================
