----------------------------- MODULE MCAuditReads -----------------------------
(* Small instances of AuditReads for TLC. *)
EXTENDS AuditReads, TLC

CONSTANTS e1, e2, e3, a1, a2, r1, r2

Interchangeable == Permutations(Slots) \cup Permutations(Actors) \cup Permutations(Entities)
=============================================================================
