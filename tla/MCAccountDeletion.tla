--------------------------- MODULE MCAccountDeletion ---------------------------
(* Instances of AccountDeletion for TLC. *)
EXTENDS AccountDeletion
CONSTANTS ann, bea, cal, camp, t1, t2, s1, s2
===============================================================================
