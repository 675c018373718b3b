------------------------ MODULE MCProjectRegistration ------------------------
(* Instances of ProjectRegistration for TLC. *)
EXTENDS ProjectRegistration, TLC
CONSTANTS e1, e2, v1, sketch, plan, rough, full, why
Symmetry == Permutations({e1, e2})
===============================================================================
