----------------------------- MODULE OrgPermissions -----------------------------
(***************************************************************************)
(* What an actor of the org console may do, and where.                     *)
(*                                                                         *)
(*   packages/core/src/org-permissions.ts, org-domains.ts                  *)
(*   apps/org/lib/session.ts   requireOrgSession                           *)
(*                                                                         *)
(* The rank opens the door, reaches, and (for a System manager) suffices;  *)
(* everything else comes from the actor's roles, each confined to its      *)
(* department unless it is org-wide.  A department owns domains: the       *)
(* screens of the console.  The guards, the summary on the accounts screen *)
(* and the reason a refusal gives resolve the same rows by different       *)
(* paths, and have to agree.                                               *)
(***************************************************************************)
CONSTANTS
  Departments,
  Domains,  \* ORG_DOMAINS
  Null      \* no department, no domain, no rank

ASSUME PermissionsAssumption == Null \notin Departments \cup Domains

ORG_CAPABILITIES == {"create", "read", "update", "delete", "personal_information"}
ORG_RANKS == {"engineer", "org_staff", "god"}

\* The console gate: a structural role of a camp is no rank.
OrgRankFromRole(role) == IF role \in ORG_RANKS THEN role ELSE Null

OrgRoleGrant == [department : Departments \cup {Null}, permissions : SUBSET ORG_CAPABILITIES]
\* One owner each at most: the primary key of org_department_domains.
DomainOwnership == [Domains -> Departments \cup {Null}]
OrgActor == [rank : ORG_RANKS, roles : SUBSET OrgRoleGrant, domains : DomainOwnership]

IsSystemManager(actor) == actor.rank = "god"

ENGINEER_RANK_CARVE_OUTS == {"personal_information", "delete"}
IsRankCarveOut(actor, c) == actor.rank = "engineer" /\ c \in ENGINEER_RANK_CARVE_OUTS
ReachesEveryDepartment(actor, c) == actor.rank = "engineer" /\ c \notin ENGINEER_RANK_CARVE_OUTS

\* The roles that grant c.
Granting(actor, c) == {r \in actor.roles : c \in r.permissions}

\* Anywhere at all.
OrgCan(actor, c) ==
  \/ IsSystemManager(actor)
  \/ ~IsRankCarveOut(actor, c) /\ Granting(actor, c) # {}

\* On a thing of the department, or of none.
OrgCanIn(actor, c, department) ==
  \/ IsSystemManager(actor)
  \/ /\ ~IsRankCarveOut(actor, c)
     /\ \E r \in Granting(actor, c) :
          \/ r.department = Null
          \/ ReachesEveryDepartment(actor, c)
          \/ department # Null /\ r.department = department

DepartmentForDomain(actor, domain) == IF domain = Null THEN Null ELSE actor.domains[domain]

\* The question every guard asks (requireOrgSession).
OrgCanInDomain(actor, c, domain) == OrgCanIn(actor, c, DepartmentForDomain(actor, domain))

---------------------------------------------------------------------------
(* What the console says of an actor.                                      *)

IsDepartmentScopedGrant(actor, c) ==
  /\ ~IsSystemManager(actor)
  /\ OrgCan(actor, c)
  /\ ~ReachesEveryDepartment(actor, c)
  /\ \A r \in Granting(actor, c) : r.department # Null

DepartmentsGranting(actor, c) == {r.department : r \in Granting(actor, c)} \ {Null}

DomainsOwnedBy(actor, department) == {d \in Domains : actor.domains[d] = department}

\* The line of a capability held: where it reaches, unless that is everywhere.
SummaryLine(actor, c) ==
  LET departments == IF IsDepartmentScopedGrant(actor, c) THEN DepartmentsGranting(actor, c) ELSE {} IN
  [capability  |-> c,
   everywhere  |-> ~IsDepartmentScopedGrant(actor, c),
   departments |-> departments,
   domains     |-> UNION {DomainsOwnedBy(actor, d) : d \in departments}]

SummarizeOrgActor(actor) ==
  {SummaryLine(actor, c) : c \in {k \in ORG_CAPABILITIES : OrgCan(actor, k)}}

\* Three answers, by the data.
ScopeReason(actor, domain) ==
  IF domain = Null THEN "unnamed"
    ELSE IF DepartmentForDomain(actor, domain) = Null THEN "unowned" ELSE "elsewhere"

\* What a refused actor is told: of its rank first.
OrgCapabilityRefusal(actor, c, domain) ==
  IF IsRankCarveOut(actor, c) THEN "rank"
    ELSE IF actor.roles = {} THEN "no roles"
    ELSE IF IsDepartmentScopedGrant(actor, c) THEN ScopeReason(actor, domain) ELSE "not granted"

---------------------------------------------------------------------------
(* Properties, for every actor.                                            *)

\* "The console cannot describe an access it would not grant" (summarizeOrgActor):
\* a capability is listed iff it is held; listed as everywhere, every guard admits
\* it; listed as confined, the guards admit it in exactly the domains named.
SummaryIsExact(actor) ==
  /\ \A c \in ORG_CAPABILITIES :
       OrgCan(actor, c) <=> \E line \in SummarizeOrgActor(actor) : line.capability = c
  /\ \A line \in SummarizeOrgActor(actor) :
       IF line.everywhere
         THEN \A d \in Domains \cup {Null} : OrgCanInDomain(actor, line.capability, d)
         ELSE /\ line.departments # {}
              /\ \A d \in Domains \cup {Null} :
                   OrgCanInDomain(actor, line.capability, d) <=> d \in line.domains

\* The reason a refusal gives "has to be true" (scopeReason, orgCapabilityRefusal):
\* whoever is told that a role reaches elsewhere holds one, and no department of
\* theirs owns the screen; whoever is told of their rank gains nothing by a role.
RefusalIsTrue(actor, c, domain) ==
  LET why == OrgCapabilityRefusal(actor, c, domain) IN
  ~OrgCanInDomain(actor, c, domain) =>
    /\ why \in {"unowned", "elsewhere", "unnamed"} <=> OrgCan(actor, c)
    /\ why = "unowned" => \A d \in Departments : domain \notin DomainsOwnedBy(actor, d)
    /\ why = "elsewhere" => /\ actor.domains[domain] \in Departments
                            /\ actor.domains[domain] \notin DepartmentsGranting(actor, c)
    /\ why = "rank" => \A r \in OrgRoleGrant : ~OrgCan([actor EXCEPT !.roles = @ \cup {r}], c)

\* "A Suppliers lead must NOT read a theme camp's members": staff whose roles are all
\* of one department act on the domains it owns and nowhere else, not even where
\* nobody owns the screen or a guard forgot to name it (orgCanInDomain).
DepartmentConfines(actor, department) ==
  actor.rank = "org_staff" /\ (\A r \in actor.roles : r.department = department) =>
    \A c \in ORG_CAPABILITIES, d \in Domains \cup {Null} :
      OrgCanInDomain(actor, c, d) => d \in DomainsOwnedBy(actor, department)
===============================================================================
