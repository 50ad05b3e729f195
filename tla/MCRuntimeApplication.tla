------------------------ MODULE MCRuntimeApplication ------------------------
(* RuntimeApplication on small instances. *)
EXTENDS RuntimeApplication, TLC

CONSTANTS t1, t2, job, q1, q2

Symmetric == Permutations({q1, q2})
=============================================================================
