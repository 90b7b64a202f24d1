---------------------------- MODULE MCNodeStatus ----------------------------
(* Small instances of NodeStatus. *)
EXTENDS NodeStatus

CONSTANTS s1

\* A node that plays, and one that does not.
PlayOrRest == {[oper |-> "playing", spot |-> s1], [oper |-> "ready", spot |-> None]}

\* Nodes at play.
Play == {[oper |-> "playing", spot |-> s1]}
=============================================================================
