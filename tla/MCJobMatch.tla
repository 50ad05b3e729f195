----------------------------- MODULE MCJobMatch -----------------------------
(* JobMatch on a small instance. *)
EXTENDS JobMatch, TLC

CONSTANTS s1, s2, a1, r1, r2, k1

Symmetric == Permutations(Requests)
=============================================================================
