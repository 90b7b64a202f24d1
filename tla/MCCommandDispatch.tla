-------------------------- MODULE MCCommandDispatch --------------------------
(* Instances of CommandDispatch for TLC. *)
EXTENDS CommandDispatch, TLC

\* Sockets are interchangeable slots.
SocketSymmetry == Permutations(Sockets)

\* Answers that tell every reading of a play and of a stop apart.
AllAnswers == AckTypes
TwoAnswers == {"PLAYBACK_STARTED", "PLAYBACK_ERROR"}
OneAnswer == {"PLAYBACK_STARTED"}

\* A bound for the larger instances: every row stays enabled.  What absent and
\* disabled rows do to a command is explored on one node.
AllEnabled == \A n \in Nodes : row[n] = "enabled"
=============================================================================
