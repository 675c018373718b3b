------------------------------ MODULE MCOrgAccess ------------------------------
(* Instances of OrgAccess and of the permission rules for TLC. *)
EXTENDS OrgAccess, TLC
CONSTANTS ann, p1, p2, clerk, safety, supply, screen, papers
Symmetry == Permutations({p1, p2})

\* Every actor whose roles grant one of two capabilities, one of them carved out.
Actors ==
  [rank : ORG_RANKS,
   roles : SUBSET [department : Departments \cup {Null}, permissions : {{"read"}, {"delete"}}],
   domains : DomainOwnership]

ASSUME PermissionRules ==
  \A actor \in Actors :
    /\ SummaryIsExact(actor)
    /\ \A c \in {"read", "delete", "update"}, d \in Domains \cup {Null} : RefusalIsTrue(actor, c, d)
    /\ \A d \in Departments : DepartmentConfines(actor, d)
===============================================================================
