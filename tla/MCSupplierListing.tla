---------------------------- MODULE MCSupplierListing ----------------------------
(* Instances of SupplierListing for TLC. *)
EXTENDS SupplierListing, TLC
CONSTANTS a1, a2, n1, n2, s1, s2, p1, p2, c1, k1

Symmetry == Permutations({a1, a2}) \cup Permutations({n1, n2})
              \cup Permutations({s1, s2}) \cup Permutations({p1, p2})
==================================================================================
