--------------------------- MODULE MCEventHistory ---------------------------
(* EventHistory on a small instance. *)
EXTENDS EventHistory

CONSTANTS t1, t2, c1
=============================================================================
