---------------------------- MODULE MCLoginLimiter ----------------------------
(* Small instances of LoginLimiter. *)
EXTENDS LoginLimiter, TLC

CONSTANTS w1, w2, ip1, ip2, user1, user2

\* Threads are interchangeable, and so are addresses, and user names.
LoginSymmetry ==
    Permutations({w1, w2}) \cup Permutations({ip1, ip2}) \cup Permutations({user1, user2})
=============================================================================
