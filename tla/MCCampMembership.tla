--------------------------- MODULE MCCampMembership ---------------------------
(* Instances of CampMembership for TLC. *)
EXTENDS CampMembership, TLC
CONSTANTS ann, bea, cal, i1, i2, r1, r2
Symmetry == Permutations({bea, cal}) \cup Permutations({i1, i2}) \cup Permutations({r1, r2})
===============================================================================
