------------------------------- MODULE MCBurnerBio -------------------------------
(* Instances of BurnerBio for TLC. *)
EXTENDS BurnerBio, TLC
CONSTANTS ann, t1, t2, nuts, bees, k1, k2

Symmetry == Permutations({t1, t2}) \cup Permutations({nuts, bees}) \cup Permutations({k1, k2})
===================================================================================
