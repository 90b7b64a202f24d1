---------------------------- MODULE MCNodeControl ----------------------------
(* Small instances of NodeControl. *)
EXTENDS NodeControl, TLC

CONSTANTS enabled, s1, s2

\* The slots of connections are interchangeable.
SocketSymmetry == Permutations({s1, s2})
=============================================================================
