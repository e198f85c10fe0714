------------------------------ MODULE MCSessions ------------------------------
(* Small instances of Sessions for TLC. *)
EXTENDS Sessions, TLC

CONSTANTS c1, q1, q2, k1, k2

Interchangeable == Permutations(Clients) \cup Permutations(Requests) \cup Permutations(Keys)
=============================================================================
