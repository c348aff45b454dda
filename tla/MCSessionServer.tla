-------------------------- MODULE MCSessionServer --------------------------
(***************************************************************************)
(* SessionServer on two connections and two streams.  The application sets *)
(* the lifetime and leaves the idle timeout to its default, so both        *)
(* branches of fillDefaults are taken.                                     *)
(***************************************************************************)
EXTENDS SessionServer, TLC

CONSTANTS c1, c2, s1, s2

MCConns == {c1, c2}
MCStreams == {s1, s2}
MCOneStream == {s1}
Symmetry == Permutations(MCConns) \cup Permutations(MCStreams)
=============================================================================
