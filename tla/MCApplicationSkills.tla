------------------------- MODULE MCApplicationSkills -------------------------
(* ApplicationSkills on a small instance. *)
EXTENDS ApplicationSkills, TLC

CONSTANTS e1, e2, p1, p2, theme1, theme2, one, two, three

Symmetry == Permutations(Executions)
=============================================================================
