------------------------------ MODULE MCProfile ------------------------------
(* Two documents with a fact each, and two requests.                       *)
EXTENDS Profile
CONSTANTS d1, d2, self, other, q1, q2, m1, m2
MCContent == [d \in Docs |-> IF d = d1 THEN {self} ELSE {other}]
=============================================================================
