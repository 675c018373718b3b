------------------------------- MODULE CampRoles -------------------------------
(***************************************************************************)
(* The roles of one camp: what each may do, who holds it, and the officer  *)
(* roles, whose holder consents to AfrikaBurn seeing their contact.        *)
(*                                                                         *)
(*   apps/web/lib/roles-store.ts                                           *)
(*   apps/web/app/(app)/camps/[slug]/actions.ts, settings/roles/actions.ts *)
(*                                                                         *)
(* Every server action reads the caller's permissions and the camp's roles *)
(* first and writes in later statements, so a request is a process with a  *)
(* read step (whose guard is the action's checks) and a commit.  Names,    *)
(* colours and the privileges that open no door to other privileges are    *)
(* left out, and so is what is assigned to a lead, who may do everything   *)
(* without it; the seeded roles exist from the start.                      *)
(***************************************************************************)
EXTENDS Naturals, FiniteSets

CONSTANTS
  CampLeads,       \* the lead and the admins: every permission, always
  CampMembers,     \* the other memberships of the camp
  Captain,         \* the captain role
  Baseline,        \* the role every member holds without an assignment
  DefaultRoles,
  OfficerRoles,
  CustomRoles,     \* ids for the roles that the camp adds
  PermissionSets,  \* for each role, the permissions a manager may choose
  Requests,        \* server actions in flight
  Cap,             \* PROJECT_ROLE_CAP
  MaxEdition       \* bound on the editions

PermissionKeys == {"assign_roles", "manage_roles", "manage_members"}

SeededRoles == {Captain, Baseline} \cup DefaultRoles \cup OfficerRoles
Roles == SeededRoles \cup CustomRoles

ASSUME RolesAssumption ==
  /\ CampLeads \cap CampMembers = {}
  /\ SeededRoles \cap CustomRoles = {}
  /\ Captain \notin OfficerRoles /\ Baseline \notin OfficerRoles
  /\ IsFiniteSet(Roles) /\ IsFiniteSet(Requests)
  /\ PermissionSets \in [Roles -> SUBSET SUBSET PermissionKeys]
  /\ Cap \in Nat /\ Cardinality(SeededRoles) < Cap
  /\ MaxEdition \in Nat \ {0}

VARIABLES
  members,      \* memberships that still exist
  roles,        \* project_roles of the camp
  created,      \* ids of custom roles already given out
  permissions,  \* the permissions of each role
  assignment,   \* member_role_assignments: the row of each member and role
  edition,      \* the active edition
  request       \* what each request has read and will write

vars == <<members, roles, created, permissions, assignment, edition, request>>

Row == [consent : {"none", "pending", "accepted"}, orgVisible : BOOLEAN, edition : 0..MaxEdition]
NoRow == [consent |-> "none", orgVisible |-> FALSE, edition |-> 0]
RoleRow == [consent |-> "accepted", orgVisible |-> FALSE, edition |-> 0]
PendingRow == [consent |-> "pending", orgVisible |-> FALSE, edition |-> 0]
ConsentedRow(e) == [consent |-> "accepted", orgVisible |-> TRUE, edition |-> e]

IdleRequest == [op |-> "idle"]

Init ==
  /\ members = CampMembers
  /\ roles = SeededRoles
  /\ created = {}
  /\ permissions = [r \in Roles |-> IF r = Captain THEN PermissionKeys ELSE {}]
  /\ assignment = [m \in CampMembers |-> [r \in Roles |-> NoRow]]
  /\ edition = 1
  /\ request = [p \in Requests |-> IdleRequest]

Free(p) == request[p].op = "idle"
Begin(p, r) == request' = [request EXCEPT ![p] = r]
End(p) == request' = [request EXCEPT ![p] = IdleRequest]

Holds(m, r) == assignment[m][r] # NoRow

\* The roles that count for a member: the baseline and the accepted ones, an
\* officer role whatever edition its consent was given for.
HeldRoles(m) == {Baseline} \cup {r \in roles : assignment[m][r].consent = "accepted"}

HasProjectPermission(m, key) ==
  \/ m \in CampLeads
  \/ m \in members /\ \E r \in HeldRoles(m) :
        \/ key \in permissions[r]
        \/ key = "assign_roles" /\ "manage_roles" \in permissions[r]

RoleGrantsElevatedPrivileges(r) ==
  r = Captain \/ permissions[r] \cap {"manage_roles", "manage_members"} # {}

ManagesRoles(a) == HasProjectPermission(a, "manage_roles")

\* requirePermission.  A request also records, for the properties, whether its
\* caller managed roles when it looked.
MayAct(p, a, key) ==
  /\ Free(p)
  /\ HasProjectPermission(a, key)

OnlyRequest == UNCHANGED <<members, roles, created, permissions, assignment, edition>>

---------------------------------------------------------------------------
(* createRole, and createRoleWithSetupAction, which goes on to set the     *)
(* permissions of the new role without a further check.                    *)

MutRoleCapReached == Cardinality(roles) > Cap
RoleCapReached == Cardinality(roles) >= Cap

CreateRead(p, a, setup) ==
  /\ MayAct(p, a, "manage_roles")
  /\ ~RoleCapReached
  /\ Begin(p, [op |-> "create", setup |-> setup, manager |-> ManagesRoles(a)])
  /\ OnlyRequest

CreateCommit(p) ==
  /\ request[p].op = "create"
  /\ \E r \in CustomRoles \ created :
       /\ roles' = roles \cup {r}
       /\ created' = created \cup {r}
       /\ IF request[p].setup = {} THEN End(p)
            ELSE Begin(p, [op |-> "permissions", role |-> r, permissions |-> request[p].setup,
                           manager |-> request[p].manager])
  /\ UNCHANGED <<members, permissions, assignment, edition>>

---------------------------------------------------------------------------
(* setRolePermissions and removeRole.                                      *)

MutPermissionsRead(p, a, r, chosen) ==
  /\ MayAct(p, a, "assign_roles")
  /\ r \in roles
  /\ Begin(p, [op |-> "permissions", role |-> r, permissions |-> chosen,
               manager |-> ManagesRoles(a)])
  /\ OnlyRequest

PermissionsRead(p, a, r, chosen) ==
  /\ MayAct(p, a, "manage_roles")
  /\ r \in roles
  /\ Begin(p, [op |-> "permissions", role |-> r, permissions |-> chosen,
               manager |-> ManagesRoles(a)])
  /\ OnlyRequest

\* enforceKindPermissions: the captain's are locked to all.
EnforceKindPermissions(r, chosen) == IF r = Captain THEN PermissionKeys ELSE chosen

\* An UPDATE by id: a role removed meanwhile is no row.
PermissionsCommit(p) ==
  LET r == request[p].role IN
  /\ request[p].op = "permissions"
  /\ permissions' = IF r \in roles
       THEN [permissions EXCEPT ![r] = EnforceKindPermissions(r, request[p].permissions)]
       ELSE permissions
  /\ End(p)
  /\ UNCHANGED <<members, roles, created, assignment, edition>>

RemoveRead(p, a, r) ==
  /\ MayAct(p, a, "manage_roles")
  /\ r \in roles \cap CustomRoles
  /\ Begin(p, [op |-> "remove", role |-> r])
  /\ OnlyRequest

\* The assignments cascade.
RemoveCommit(p) ==
  LET r == request[p].role IN
  /\ request[p].op = "remove"
  /\ roles' = roles \ {r}
  /\ permissions' = [permissions EXCEPT ![r] = {}]
  /\ assignment' = [m \in CampMembers |-> [assignment[m] EXCEPT ![r] = NoRow]]
  /\ End(p)
  /\ UNCHANGED <<members, created, edition>>

---------------------------------------------------------------------------
(* setMemberRoles: in one transaction, delete the assignable roles the     *)
(* member holds and insert the wanted ones.                                *)

\* Neither the baseline, which is derived, nor officers, who consent.
Assignable == roles \ ({Baseline} \cup OfficerRoles)

\* Only a role manager may hand out roles that manage roles or members.
MayHandOut(sanctioned, wanted) ==
  sanctioned \/ ~ \E r \in wanted : RoleGrantsElevatedPrivileges(r)

AssignRead(p, a, m, wanted) ==
  LET sanctioned == ManagesRoles(a) IN
  /\ MayAct(p, a, "assign_roles")
  /\ m \in members
  /\ MayHandOut(sanctioned, wanted)
  /\ Begin(p, [op |-> "assign", member |-> m, wanted |-> wanted,
               assignable |-> Assignable, deleted |-> {}, unsanctioned |->
                 {r \in wanted : ~sanctioned /\ RoleGrantsElevatedPrivileges(r)}])
  /\ OnlyRequest

\* The rows the DELETE sees; what was assignable has no further use.
AssignDelete(p) ==
  LET held == {r \in request[p].assignable : Holds(request[p].member, r)} IN
  /\ request[p].op = "assign"
  /\ Begin(p, [request[p] EXCEPT !.op = "insert", !.assignable = {}, !.deleted = held])
  /\ OnlyRequest

\* Rows of m that were deleted are no longer there for q to delete.
Forgets(q, m, gone) ==
  IF request[q].op = "insert" /\ request[q].member = m
    THEN [request[q] EXCEPT !.deleted = @ \ gone] ELSE request[q]

\* The foreign keys refuse a member or a role that is gone; a row that a rival
\* inserted meanwhile stays.
AssignInsert(p) ==
  LET q == request[p] IN
  /\ q.op = "insert"
  /\ q.member \in members /\ q.wanted \subseteq roles
  /\ assignment' = [assignment EXCEPT ![q.member] = [r \in Roles |->
       IF r \in q.wanted THEN RoleRow ELSE IF r \in q.deleted THEN NoRow ELSE @[r]]]
  /\ request' = [s \in Requests |->
       IF s = p THEN IdleRequest ELSE Forgets(s, q.member, q.deleted)]
  /\ UNCHANGED <<members, roles, created, permissions, edition>>

---------------------------------------------------------------------------
(* assignOfficer, unassignOfficer and respondToOfficer.                    *)

\* assignOfficerAction never says that its caller manages roles.
MayNameOfficer(r) == ~RoleGrantsElevatedPrivileges(r)

OfficerRead(p, a, m, r) ==
  /\ MayAct(p, a, "assign_roles")
  /\ m \in members
  /\ \/ /\ MayNameOfficer(r)
        /\ Begin(p, [op |-> "name", member |-> m, role |-> r,
                     elevated |-> RoleGrantsElevatedPrivileges(r)])
     \/ Begin(p, [op |-> "unassign", member |-> m, role |-> r])
  /\ OnlyRequest

SetRow(m, r, row) == assignment' = [assignment EXCEPT ![m] = [@ EXCEPT ![r] = row]]

\* Naming again asks again.
NameCommit(p) ==
  /\ request[p].op = "name"
  /\ request[p].member \in members
  /\ SetRow(request[p].member, request[p].role, PendingRow)
  /\ End(p)
  /\ UNCHANGED <<members, roles, created, permissions, edition>>

UnassignCommit(p) ==
  /\ request[p].op = "unassign"
  /\ SetRow(request[p].member, request[p].role, NoRow)
  /\ End(p)
  /\ UNCHANGED <<members, roles, created, permissions, edition>>

\* The role must be an officer role of this camp.
MayRespond(r) == r \in OfficerRoles

RespondRead(p, m, r, accept) ==
  /\ Free(p)
  /\ m \in members
  /\ MayRespond(r)
  /\ Begin(p, [op |-> "respond", member |-> m, role |-> r, accept |-> accept, edition |-> edition])
  /\ OnlyRequest

MutConsentedFor(p) == edition
\* The edition the member consented for, which the action read.
ConsentedFor(p) == request[p].edition

\* Accepting updates a row of either consent, and no row is a refusal; declining
\* deletes it.
RespondCommit(p) ==
  LET q == request[p] IN
  /\ q.op = "respond"
  /\ \/ q.accept /\ Holds(q.member, q.role) /\ SetRow(q.member, q.role, ConsentedRow(ConsentedFor(p)))
     \/ ~q.accept /\ SetRow(q.member, q.role, NoRow)
  /\ End(p)
  /\ UNCHANGED <<members, roles, created, permissions, edition>>

---------------------------------------------------------------------------
\* A membership ends (CampMembership) and its assignments cascade.
Leave(m) ==
  /\ m \in members
  /\ members' = members \ {m}
  /\ assignment' = [assignment EXCEPT ![m] = [r \in Roles |-> NoRow]]
  /\ UNCHANGED <<roles, created, permissions, edition, request>>

\* AfrikaBurn opens the next edition.
NewEdition ==
  /\ edition < MaxEdition
  /\ edition' = edition + 1
  /\ UNCHANGED <<members, roles, created, permissions, assignment, request>>

\* A request is refused by a constraint, answers with an error, or dies.
Abandon(p) ==
  /\ ~Free(p)
  /\ End(p)
  /\ OnlyRequest

Next ==
  \/ \E p \in Requests :
       \/ \E a \in CampLeads \cup CampMembers :
            \/ \E setup \in {{}} \cup UNION {PermissionSets[r] : r \in CustomRoles} : CreateRead(p, a, setup)
            \/ \E r \in Roles : \E chosen \in PermissionSets[r] : PermissionsRead(p, a, r, chosen)
            \/ \E r \in CustomRoles : RemoveRead(p, a, r)
            \/ \E m \in CampMembers, wanted \in SUBSET Assignable : AssignRead(p, a, m, wanted)
            \/ \E m \in CampMembers, r \in OfficerRoles : OfficerRead(p, a, m, r)
       \/ \E m \in CampMembers, r \in roles, accept \in BOOLEAN : RespondRead(p, m, r, accept)
       \/ CreateCommit(p)
       \/ PermissionsCommit(p)
       \/ RemoveCommit(p)
       \/ AssignDelete(p)
       \/ AssignInsert(p)
       \/ NameCommit(p)
       \/ UnassignCommit(p)
       \/ RespondCommit(p)
       \/ Abandon(p)
  \/ \E m \in CampMembers : Leave(m)
  \/ NewEdition

Spec == Init /\ [][Next]_vars

---------------------------------------------------------------------------
(* Properties.                                                             *)

Request ==
  [op : {"idle"}]
  \cup [op : {"create"}, setup : SUBSET PermissionKeys, manager : BOOLEAN]
  \cup [op : {"permissions"}, role : Roles, permissions : SUBSET PermissionKeys,
        manager : BOOLEAN]
  \cup [op : {"remove"}, role : CustomRoles]
  \cup [op : {"assign", "insert"}, member : CampMembers, wanted : SUBSET (Roles \ OfficerRoles),
        assignable : SUBSET (Roles \ OfficerRoles), deleted : SUBSET (Roles \ OfficerRoles),
        unsanctioned : SUBSET Roles]
  \cup [op : {"name"}, member : CampMembers, role : OfficerRoles, elevated : BOOLEAN]
  \cup [op : {"unassign"}, member : CampMembers, role : OfficerRoles]
  \cup [op : {"respond"}, member : CampMembers, role : OfficerRoles, accept : BOOLEAN,
        edition : 1..MaxEdition]

\* Every variable keeps its type, and an assignment belongs to a member and a
\* role that exist (the foreign keys of member_role_assignments).
TypeOK ==
  /\ members \subseteq CampMembers
  /\ roles \subseteq Roles /\ SeededRoles \subseteq roles
  /\ created \subseteq CustomRoles /\ roles \subseteq SeededRoles \cup created
  /\ permissions \in [Roles -> SUBSET PermissionKeys]
  /\ assignment \in [CampMembers -> [Roles -> Row]]
  /\ \A m \in CampMembers, r \in Roles : Holds(m, r) => m \in members /\ r \in roles
  /\ edition \in 1..MaxEdition
  /\ request \in [Requests -> Request]

\* What the org console shows of an officer: an accepted, visible assignment whose
\* consent was given for the active edition (getRegistrationOfficers).
Discloses(m, r) ==
  /\ r \in OfficerRoles
  /\ assignment[m][r].consent = "accepted"
  /\ assignment[m][r].orgVisible
  /\ assignment[m][r].edition = edition

\* AfrikaBurn starts to see a member's contact only when that member, and nobody
\* on their behalf, accepted that role in that edition (respondToOfficer).
DisclosedByOneself ==
  [][\A m \in CampMembers, r \in Roles :
       Discloses(m, r)' /\ ~Discloses(m, r) =>
         \E p \in Requests :
           /\ request[p].op = "respond" /\ request[p].accept /\ request'[p].op = "idle"
           /\ request[p].member = m /\ request[p].role = r
           /\ request[p].edition = edition']_vars

\* m may manage roles or members.
Manages(m) == \E key \in {"manage_roles", "manage_members"} : HasProjectPermission(m, key)

Ends(p) == request[p].op # "idle" /\ request'[p].op = "idle"

\* A manager of roles set r's permissions, when they created it or later.
RaisedByManager(p, r) ==
  request[p].op = "permissions" /\ request[p].role = r /\ request[p].manager

\* m gets a role that elevates from someone who managed roles, or who looked
\* before it did.
HandedOut(p, m) ==
  /\ request[p].op = "insert" /\ request[p].member = m
  /\ \E r \in request[p].wanted \ request[p].unsanctioned : RoleGrantsElevatedPrivileges(r)

\* m accepts an officer role that elevates, having been named to it.
Accepted(p, m) ==
  /\ request[p].op = "respond" /\ request[p].accept /\ request[p].member = m
  /\ Holds(m, request[p].role) /\ RoleGrantsElevatedPrivileges(request[p].role)

\* The escalation clause: those who may only assign roles never make a manager.
\* A role comes to elevate its holders by a manager of roles alone; whoever comes
\* to manage roles or members held a role at the moment a manager raised it, was
\* handed one that elevates, or accepted one; and a role that elevates is handed
\* out or named for by others only on a reading from before it was raised
\* (setRolePermissions, createRoleWithSetupAction, setMemberRoles, assignOfficer).
ElevationIsSanctioned ==
  [][/\ \A r \in Roles : RoleGrantsElevatedPrivileges(r)' /\ ~RoleGrantsElevatedPrivileges(r) =>
          \E p \in Requests : Ends(p) /\ RaisedByManager(p, r)
     /\ \A m \in CampMembers : Manages(m)' /\ ~Manages(m) =>
          \E p \in Requests : Ends(p) /\
            \/ HandedOut(p, m)
            \/ Accepted(p, m)
            \/ \E r \in HeldRoles(m) : RaisedByManager(p, r)
     /\ \A m \in CampMembers, r \in OfficerRoles : assignment'[m][r] = PendingRow =>
          \/ assignment[m][r] = PendingRow
          \/ \E p \in Requests : Ends(p) /\ request[p].op = "name" /\ ~request[p].elevated
    ]_vars

Creating == {p \in Requests : request[p].op = "create"}

\* Roles and creations in flight together stay below the cap plus the requests, so
\* that a camp passes the cap by at most one role for each other request that
\* counted before a rival's commit (createRole).
CapOverrunIsBounded ==
  Cardinality(roles) + Cardinality(Creating) < Cap + Cardinality(Requests)
===============================================================================
