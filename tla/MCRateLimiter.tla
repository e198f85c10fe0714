---------------------------- MODULE MCRateLimiter ----------------------------
(* Small instances of RateLimiter for TLC. *)
EXTENDS RateLimiter, TLC

CONSTANTS s1, q1, q2, k1, k2

Interchangeable == Permutations(Servers) \cup Permutations(Requests) \cup Permutations(Keys)
=============================================================================
