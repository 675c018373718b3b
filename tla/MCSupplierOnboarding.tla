------------------------- MODULE MCSupplierOnboarding -------------------------
(* Instances of SupplierOnboarding for TLC. *)
EXTENDS SupplierOnboarding, TLC
CONSTANTS t1, t2, c1, c2, d1, d2
Symmetry == Permutations({t1, t2}) \cup Permutations({c1, c2}) \cup Permutations({d1, d2})
===============================================================================
