------------------------- MODULE MCAutoplayScheduler -------------------------
(* Instances of AutoplayScheduler for TLC. *)
EXTENDS AutoplayScheduler

CONSTANTS a, b

\* A sequence with a repetition, one spot alone, and nothing to play.
MixedLineups == {<<a, b, a>>, <<b>>, <<>>}
=============================================================================
