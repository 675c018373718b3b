---------------------------- MODULE MCRegistration ----------------------------
(* Instances of Registration for TLC. *)
EXTENDS Registration, TLC

CONSTANTS r1, r2, v1, v2, old, why, lnt

Symmetry == Permutations({r1, r2}) \cup Permutations({v1, v2})
===============================================================================
