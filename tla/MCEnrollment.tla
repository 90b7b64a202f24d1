---------------------------- MODULE MCEnrollment ----------------------------
(* Small instances of Enrollment. *)
EXTENDS Enrollment, TLC

CONSTANTS w1, w2

\* Threads that serve the same requests are interchangeable.
WorkerSymmetry == Permutations({w1, w2})
=============================================================================
