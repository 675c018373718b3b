------------------------------ MODULE MCCampRoles ------------------------------
(* Instances of CampRoles for TLC: a lead and a member, one officer role. *)
EXTENDS CampRoles, TLC
CONSTANTS ann, bob, captain, baseline, baron, c1, c2, p1, p2
\* The baseline may let everybody assign roles; the others may come to elevate.
Choices == [r \in Roles |->
  CASE r = captain -> {{}}
    [] r = baseline -> {{"assign_roles"}}
    [] OTHER -> {{"manage_members"}}]
Symmetry == Permutations({p1, p2}) \cup Permutations({c1, c2})
===============================================================================
