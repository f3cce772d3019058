---------------------------- MODULE MCRateLimiter ----------------------------
(* Instances of RateLimiter for TLC.  Threads are interchangeable. *)
EXTENDS RateLimiter, TLC

ThreadSymmetry == Permutations(Threads)
=============================================================================
