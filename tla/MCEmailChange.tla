----------------------------- MODULE MCEmailChange -----------------------------
(* Instances of EmailChange for TLC: each user starts at an address of their *)
(* own.                                                                      *)
EXTENDS EmailChange, TLC
CONSTANTS u1, u2, e1, e2, e3, t1, t2
MCFirst == IF Users = {u1} THEN u1 :> e1 ELSE u1 :> e1 @@ u2 :> e2
Symmetry == Permutations({t1, t2})
===============================================================================
