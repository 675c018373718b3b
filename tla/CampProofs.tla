------------------------------- MODULE CampProofs -------------------------------
(***************************************************************************)
(* Theorems about the members of a camp.  First CampRoles, for every camp, *)
(* set of roles and of requests, any cap and any number of editions; then  *)
(* CampMembership, its roster and invites, for any finite set of burners   *)
(* and any number of requests.                                             *)
(***************************************************************************)
EXTENDS CampRoles, CampMembership, FiniteSetTheorems, WellFoundedInduction, TLAPS

\* The rows of the tables, without the requests.
RowsOK ==
  /\ members \subseteq CampMembers
  /\ roles \subseteq Roles /\ SeededRoles \subseteq roles
  /\ created \subseteq CustomRoles /\ roles \subseteq SeededRoles \cup created
  /\ permissions \in [Roles -> SUBSET PermissionKeys]
  /\ assignment \in [CampMembers -> [Roles -> Row]]
  /\ \A m \in CampMembers, r \in Roles : Holds(m, r) => m \in members /\ r \in roles
  /\ edition \in 1..MaxEdition

\* No consent is for an edition that has not begun.
ConsentIsPast ==
  \A m \in CampMembers, r \in Roles : assignment[m][r].edition <= edition

\* What the checks at the reading promised of a request.
Checked(q) ==
  /\ q.op \in {"assign", "insert"} => q.unsanctioned = {}
  /\ q.op = "name" => ~q.elevated
  /\ q.op \in {"create", "permissions"} => q.manager
  /\ q.op = "respond" => q.edition <= edition

RequestsWereChecked == \A p \in Requests : Checked(request[p])

Inv == TypeOK /\ ConsentIsPast /\ RequestsWereChecked

---------------------------------------------------------------------------
(* Rows and requests.                                                      *)

LEMMA TypeSplits == TypeOK <=> RowsOK /\ request \in [Requests -> Request]
  BY DEF TypeOK, RowsOK

\* The rows that are written, and how they differ.
LEMMA RowFacts ==
  /\ NoRow \in Row /\ RoleRow \in Row /\ PendingRow \in Row
  /\ \A e \in 1..MaxEdition : ConsentedRow(e) \in Row
  /\ NoRow.consent = "none" /\ ~NoRow.orgVisible /\ NoRow.edition = 0
  /\ RoleRow.consent = "accepted" /\ ~RoleRow.orgVisible /\ RoleRow.edition = 0
  /\ PendingRow.consent = "pending" /\ ~PendingRow.orgVisible /\ PendingRow.edition = 0
  /\ \A e : ConsentedRow(e).edition = e /\ ConsentedRow(e).consent = "accepted"
  BY RolesAssumption DEF Row, NoRow, RoleRow, PendingRow, ConsentedRow

\* What a request of each kind has read.
LEMMA RequestFields ==
  ASSUME NEW q \in Request
  PROVE  /\ q.op = "create" => q.setup \in SUBSET PermissionKeys /\ q.manager \in BOOLEAN
         /\ q.op = "permissions" =>
              q.role \in Roles /\ q.permissions \in SUBSET PermissionKeys /\ q.manager \in BOOLEAN
         /\ q.op = "remove" => q.role \in CustomRoles
         /\ q.op \in {"assign", "insert"} =>
              /\ q.member \in CampMembers /\ q.wanted \in SUBSET (Roles \ OfficerRoles)
              /\ q.assignable \in SUBSET (Roles \ OfficerRoles)
              /\ q.deleted \in SUBSET (Roles \ OfficerRoles)
              /\ q = [op |-> q.op, member |-> q.member, wanted |-> q.wanted,
                      assignable |-> q.assignable, deleted |-> q.deleted,
                      unsanctioned |-> q.unsanctioned]
              /\ q.unsanctioned \in SUBSET Roles
         /\ q.op \in {"name", "unassign", "respond"} => q.member \in CampMembers /\ q.role \in OfficerRoles
         /\ q.op = "respond" => q.edition \in 1..MaxEdition /\ q.accept \in BOOLEAN
  BY DEF Request

\* The DELETE of an assignment goes on with the rows it saw.
LEMMA Deleting ==
  ASSUME NEW q \in Request, q.op = "assign", NEW held
  PROVE  [q EXCEPT !.op = "insert", !.assignable = {}, !.deleted = held] =
           [op |-> "insert", member |-> q.member, wanted |-> q.wanted,
            assignable |-> {}, deleted |-> held, unsanctioned |-> q.unsanctioned]
  <1>1. q = [op |-> q.op, member |-> q.member, wanted |-> q.wanted, assignable |-> q.assignable,
             deleted |-> q.deleted, unsanctioned |-> q.unsanctioned]
    BY RequestFields
  <1> DEFINE t == [q EXCEPT !.op = "insert"]
  <1>2. t = [op |-> "insert", member |-> q.member, wanted |-> q.wanted,
             assignable |-> q.assignable, deleted |-> q.deleted, unsanctioned |-> q.unsanctioned]
    BY <1>1
  <1> DEFINE u == [t EXCEPT !.assignable = {}]
  <1>3. u = [op |-> "insert", member |-> q.member, wanted |-> q.wanted,
             assignable |-> {}, deleted |-> q.deleted, unsanctioned |-> q.unsanctioned]
    <2> HIDE DEF t
    <2> QED BY <1>2
  <1>4. [u EXCEPT !.deleted = held] =
          [op |-> "insert", member |-> q.member, wanted |-> q.wanted,
           assignable |-> {}, deleted |-> held, unsanctioned |-> q.unsanctioned]
    <2> HIDE DEF u
    <2> QED BY <1>3
  <1> QED BY <1>4

\* A role that is there, or may be, is a role.
LEMMA RoleFacts ==
  /\ OfficerRoles \subseteq SeededRoles /\ SeededRoles \subseteq Roles /\ CustomRoles \subseteq Roles
  /\ \A r \in CustomRoles : r \notin SeededRoles
  BY RolesAssumption DEF SeededRoles, Roles

\* The invariant holds at the start.
LEMMA InitInv == Init => Inv
  <1> SUFFICES ASSUME Init PROVE Inv
    OBVIOUS
  <1>1. RowsOK
    BY RowFacts, RoleFacts, RolesAssumption DEF Init, RowsOK, Holds, PermissionKeys
  <1>2. request \in [Requests -> Request]
    BY DEF Init, Request, IdleRequest
  <1>3. ConsentIsPast
    BY RowFacts DEF Init, ConsentIsPast
  <1>4. RequestsWereChecked
    BY DEF Init, RequestsWereChecked, Checked, IdleRequest
  <1> QED BY <1>1, <1>2, <1>3, <1>4, TypeSplits DEF Inv

\* A request that only reads, or gives up.
LEMMA ReadKeeps ==
  ASSUME Inv, NEW p \in Requests, NEW q \in Request, Begin(p, q), OnlyRequest, Checked(q)
  PROVE  Inv'
  <1>1. TypeOK'
    BY DEF Inv, TypeOK, Begin, OnlyRequest, Holds
  <1>2. ConsentIsPast'
    BY DEF Inv, ConsentIsPast, OnlyRequest
  <1>3. RequestsWereChecked'
    BY DEF Inv, TypeOK, RequestsWereChecked, Checked, Begin, OnlyRequest
  <1> QED BY <1>1, <1>2, <1>3 DEF Inv

\* A request that writes, and either ends or goes on to set permissions.
LEMMA CommitKeeps ==
  ASSUME Inv, RowsOK', edition' = edition, NEW p \in Requests, NEW q \in Request,
         q.op \in {"idle", "permissions"}, Checked(q), Begin(p, q),
         \A m \in CampMembers, r \in Roles : assignment'[m][r].edition <= edition
  PROVE  Inv'
  <1>1. request' \in [Requests -> Request]
    BY DEF Inv, TypeOK, Begin
  <1>2. TypeOK'
    BY <1>1, TypeSplits DEF TypeOK, RowsOK
  <1>3. ConsentIsPast'
    BY DEF ConsentIsPast
  <1>4. RequestsWereChecked'
    BY DEF Inv, TypeOK, RequestsWereChecked, Checked, Begin
  <1> QED BY <1>2, <1>3, <1>4 DEF Inv

LEMMA IdleIsRequest ==
  IdleRequest \in Request /\ IdleRequest.op = "idle" /\ Checked(IdleRequest)
  BY DEF Request, IdleRequest, Checked

\* requirePermission lets only a manager of roles through, which is how it is
\* recorded.
LEMMA ManagerIsRecorded ==
  ASSUME NEW p, NEW a, MayAct(p, a, "manage_roles")
  PROVE  ManagesRoles(a) /\ ManagesRoles(a) \in BOOLEAN
  BY DEF MayAct, ManagesRoles, HasProjectPermission

---------------------------------------------------------------------------
(* The actions.                                                            *)

\* Every check at a reading makes the request it starts a checked one.
LEMMA CreateReadKeeps ==
  ASSUME Inv, NEW p \in Requests, NEW a, NEW setup \in SUBSET PermissionKeys,
         CreateRead(p, a, setup)
  PROVE  Inv'
  <1> DEFINE manager == ManagesRoles(a)
             q == [op |-> "create", setup |-> setup, manager |-> manager]
  <1>1. manager /\ manager \in BOOLEAN
    BY ManagerIsRecorded DEF CreateRead
  <1>2. Begin(p, q) /\ OnlyRequest
    BY DEF CreateRead
  <1> HIDE DEF manager
  <1>3. q \in Request /\ Checked(q)
    BY <1>1 DEF Request, Checked
  <1> QED BY <1>2, <1>3, ReadKeeps

LEMMA PermissionsReadKeeps ==
  ASSUME Inv, NEW p \in Requests, NEW a, NEW r \in Roles, NEW chosen \in SUBSET PermissionKeys,
         PermissionsRead(p, a, r, chosen)
  PROVE  Inv'
  <1> DEFINE manager == ManagesRoles(a)
             q == [op |-> "permissions", role |-> r, permissions |-> chosen, manager |-> manager]
  <1>1. manager /\ manager \in BOOLEAN
    BY ManagerIsRecorded DEF PermissionsRead
  <1>2. Begin(p, q) /\ OnlyRequest
    BY DEF PermissionsRead
  <1> HIDE DEF manager
  <1>3. q \in Request /\ Checked(q)
    BY <1>1 DEF Request, Checked
  <1> QED BY <1>2, <1>3, ReadKeeps

LEMMA RemoveReadKeeps ==
  ASSUME Inv, NEW p \in Requests, NEW a, NEW r \in CustomRoles, RemoveRead(p, a, r)
  PROVE  Inv'
  <1> DEFINE q == [op |-> "remove", role |-> r]
  <1>1. q \in Request /\ Checked(q)
    BY DEF Request, Checked
  <1> QED BY <1>1, ReadKeeps DEF RemoveRead

LEMMA AssignReadKeeps ==
  ASSUME Inv, NEW p \in Requests, NEW a, NEW m \in CampMembers, NEW wanted \in SUBSET Assignable,
         AssignRead(p, a, m, wanted)
  PROVE  Inv'
  <1> DEFINE sanctioned == ManagesRoles(a)
             un == {x \in wanted : ~sanctioned /\ RoleGrantsElevatedPrivileges(x)}
             q == [op |-> "assign", member |-> m, wanted |-> wanted,
                   assignable |-> Assignable, deleted |-> {}, unsanctioned |-> un]
  <1>1. un = {}
    BY DEF AssignRead, MayHandOut
  <1>2. Assignable \subseteq Roles \ OfficerRoles
    BY DEF Assignable, Inv, TypeOK
  <1> HIDE DEF un
  <1>3. q \in Request /\ Checked(q)
    BY <1>1, <1>2 DEF Request, Checked
  <1>4. Begin(p, q) /\ OnlyRequest
    BY DEF AssignRead, un
  <1> QED BY <1>3, <1>4, ReadKeeps

LEMMA OfficerReadKeeps ==
  ASSUME Inv, NEW p \in Requests, NEW a, NEW m \in CampMembers, NEW r \in OfficerRoles,
         OfficerRead(p, a, m, r)
  PROVE  Inv'
  <1> DEFINE q == [op |-> "name", member |-> m, role |-> r,
                   elevated |-> RoleGrantsElevatedPrivileges(r)]
             t == [op |-> "unassign", member |-> m, role |-> r]
  <1>1. t \in Request /\ Checked(t)
    BY DEF Request, Checked
  <1>2. MayNameOfficer(r) => q \in Request /\ Checked(q)
    BY DEF Request, Checked, MayNameOfficer, RoleGrantsElevatedPrivileges
  <1>3. OnlyRequest /\ (Begin(p, t) \/ (MayNameOfficer(r) /\ Begin(p, q)))
    BY DEF OfficerRead
  <1> QED BY <1>1, <1>2, <1>3, ReadKeeps

LEMMA RespondReadKeeps ==
  ASSUME Inv, NEW p \in Requests, NEW m \in CampMembers, NEW r, NEW accept \in BOOLEAN,
         RespondRead(p, m, r, accept)
  PROVE  Inv'
  <1> DEFINE q == [op |-> "respond", member |-> m, role |-> r, accept |-> accept,
                   edition |-> edition]
  <1>1. q \in Request /\ Checked(q)
    BY DEF Request, Checked, RespondRead, MayRespond, Inv, TypeOK
  <1> QED BY <1>1, ReadKeeps DEF RespondRead

LEMMA AbandonKeeps ==
  ASSUME Inv, NEW p \in Requests, Abandon(p)
  PROVE  Inv'
  <1>1. Checked(IdleRequest)
    BY DEF Checked, IdleRequest
  <1>2. Begin(p, IdleRequest) /\ OnlyRequest
    BY DEF Abandon, End, Begin
  <1> QED BY <1>1, <1>2, IdleIsRequest, ReadKeeps

LEMMA CreateCommitKeeps ==
  ASSUME Inv, NEW p \in Requests, CreateCommit(p)
  PROVE  Inv'
  <1>1. PICK r \in CustomRoles \ created :
          /\ roles' = roles \cup {r} /\ created' = created \cup {r}
          /\ IF request[p].setup = {} THEN End(p)
               ELSE Begin(p, [op |-> "permissions", role |-> r, permissions |-> request[p].setup,
                              manager |-> request[p].manager])
    BY DEF CreateCommit
  <1> DEFINE q == [op |-> "permissions", role |-> r, permissions |-> request[p].setup,
                   manager |-> request[p].manager]
  <1>2. RowsOK' /\ edition' = edition
    BY <1>1, RoleFacts DEF Inv, TypeOK, RowsOK, CreateCommit, Holds
  <1>3. q \in Request /\ q.op = "permissions" /\ Checked(q)
    <2>1. request[p] \in Request /\ request[p].op = "create" /\ request[p].manager
      BY DEF Inv, TypeOK, RequestsWereChecked, Checked, CreateCommit
    <2> QED BY <1>1, <2>1, RequestFields, RoleFacts DEF Request, Checked
  <1>4. \A m \in CampMembers, x \in Roles : assignment'[m][x].edition <= edition
    BY DEF Inv, ConsentIsPast, CreateCommit
  <1>5. Begin(p, q) \/ Begin(p, IdleRequest)
    BY <1>1 DEF End, Begin
  <1> HIDE DEF q
  <1> QED BY <1>2, <1>3, <1>4, <1>5, IdleIsRequest, CommitKeeps

LEMMA PermissionsCommitKeeps ==
  ASSUME Inv, NEW p \in Requests, PermissionsCommit(p)
  PROVE  Inv'
  <1>1. request[p].role \in Roles /\ request[p].permissions \in SUBSET PermissionKeys
    BY RequestFields DEF Inv, TypeOK, PermissionsCommit
  <1>2. EnforceKindPermissions(request[p].role, request[p].permissions) \in SUBSET PermissionKeys
    BY <1>1 DEF EnforceKindPermissions
  <1>3. RowsOK' /\ edition' = edition /\ assignment' = assignment
    BY <1>1, <1>2 DEF Inv, TypeOK, RowsOK, PermissionsCommit, Holds
  <1>4. \A m \in CampMembers, r \in Roles : assignment'[m][r].edition <= edition
    BY <1>3 DEF Inv, ConsentIsPast
  <1>5. Begin(p, IdleRequest)
    BY DEF PermissionsCommit, End, Begin
  <1> QED BY <1>3, <1>4, <1>5, IdleIsRequest, CommitKeeps

LEMMA RemoveCommitKeeps ==
  ASSUME Inv, NEW p \in Requests, RemoveCommit(p)
  PROVE  Inv'
  <1> DEFINE r == request[p].role
  <1>1. r \in CustomRoles /\ r \in Roles /\ r \notin SeededRoles
    BY RequestFields, RoleFacts DEF Inv, TypeOK, RemoveCommit
  <1>2. /\ roles' = roles \ {r} /\ permissions' = [permissions EXCEPT ![r] = {}]
        /\ assignment' = [m \in CampMembers |-> [assignment[m] EXCEPT ![r] = NoRow]]
        /\ End(p) /\ UNCHANGED <<members, created, edition>>
    BY DEF RemoveCommit
  <1> HIDE DEF r
  <1>3. /\ assignment' \in [CampMembers -> [Roles -> Row]]
        /\ \A m \in CampMembers, x \in Roles :
             assignment'[m][x] = IF x = r THEN NoRow ELSE assignment[m][x]
    BY <1>1, <1>2, RowFacts DEF Inv, TypeOK
  <1>4. RowsOK'
    BY <1>1, <1>2, <1>3 DEF Inv, TypeOK, RowsOK, Holds
  <1>5. \A m \in CampMembers, x \in Roles : assignment'[m][x].edition <= edition
    BY <1>3, RowFacts DEF Inv, ConsentIsPast, TypeOK
  <1>6. Begin(p, IdleRequest) /\ edition' = edition
    BY <1>2 DEF End, Begin
  <1> QED BY <1>4, <1>5, <1>6, IdleIsRequest, CommitKeeps

LEMMA AssignDeleteKeeps ==
  ASSUME Inv, NEW p \in Requests, AssignDelete(p)
  PROVE  Inv'
  <1> DEFINE held == {r \in request[p].assignable : Holds(request[p].member, r)}
             q == [request[p] EXCEPT !.op = "insert", !.assignable = {}, !.deleted = held]
  <1>1. request[p] \in Request /\ request[p].op = "assign"
    BY DEF Inv, TypeOK, AssignDelete
  <1>2. held \in SUBSET (Roles \ OfficerRoles)
    BY <1>1, RequestFields
  <1> HIDE DEF held
  <1>3. q = [op |-> "insert", member |-> request[p].member, wanted |-> request[p].wanted,
             assignable |-> {}, deleted |-> held,
             unsanctioned |-> request[p].unsanctioned]
    BY <1>1, Deleting
  <1>7. request[p].unsanctioned = {}
    BY <1>1 DEF Inv, RequestsWereChecked, Checked
  <1>4. q \in Request
    BY <1>1, <1>2, <1>3, RequestFields DEF Request
  <1>5. Checked(q)
    BY <1>3, <1>7 DEF Checked
  <1>6. Begin(p, q) /\ OnlyRequest
    BY DEF AssignDelete, held
  <1> QED BY <1>4, <1>5, <1>6, ReadKeeps

\* What an insertion makes of the rows.
LEMMA InsertFacts ==
  ASSUME Inv, NEW p \in Requests, AssignInsert(p)
  PROVE  LET q == request[p] IN
         /\ q \in Request /\ q.op = "insert" /\ q.member \in CampMembers
         /\ assignment' \in [CampMembers -> [Roles -> Row]]
         /\ \A m \in CampMembers, r \in Roles :
              assignment'[m][r] = IF m # q.member THEN assignment[m][r]
                                  ELSE IF r \in q.wanted THEN RoleRow
                                  ELSE IF r \in q.deleted THEN NoRow ELSE assignment[m][r]
  <1>1. request[p] \in Request /\ request[p].op = "insert" /\ request[p].member \in CampMembers
    BY RequestFields DEF Inv, TypeOK, AssignInsert
  <1>2. assignment' = [assignment EXCEPT ![request[p].member] = [r \in Roles |->
          IF r \in request[p].wanted THEN RoleRow
          ELSE IF r \in request[p].deleted THEN NoRow ELSE @[r]]]
    BY DEF AssignInsert
  <1> QED BY <1>1, <1>2, RowFacts DEF Inv, TypeOK

LEMMA AssignInsertKeeps ==
  ASSUME Inv, NEW p \in Requests, AssignInsert(p)
  PROVE  Inv'
  <1> DEFINE q == request[p]
             Gone(s) == [request[s] EXCEPT !.deleted = @ \ q.deleted]
  <1>1. /\ q.member \in members /\ q.wanted \subseteq roles
        /\ request' = [s \in Requests |-> IF s = p THEN IdleRequest
                                          ELSE Forgets(s, q.member, q.deleted)]
        /\ UNCHANGED <<members, roles, created, permissions, edition>>
    BY DEF AssignInsert
  <1>2. /\ assignment' \in [CampMembers -> [Roles -> Row]]
        /\ \A m \in CampMembers, r \in Roles :
             assignment'[m][r] = IF m # q.member THEN assignment[m][r]
                                 ELSE IF r \in q.wanted THEN RoleRow
                                 ELSE IF r \in q.deleted THEN NoRow ELSE assignment[m][r]
    BY InsertFacts
  <1>3. RowsOK'
    BY <1>1, <1>2 DEF Inv, TypeOK, RowsOK, Holds
  <1>4. ConsentIsPast'
    <2>1. 0 <= edition
      BY RolesAssumption DEF Inv, TypeOK
    <2> QED BY <1>1, <1>2, <2>1, RowFacts DEF Inv, ConsentIsPast
  <1>5. ASSUME NEW s \in Requests
        PROVE  request'[s] \in Request /\ Checked(request'[s])
    <2>1. CASE s = p
      BY <1>1, <2>1, IdleIsRequest DEF Checked
    <2>2. CASE s # p /\ request'[s] = request[s]
      BY <2>2 DEF Inv, TypeOK, RequestsWereChecked
    <2>3. CASE s # p /\ request'[s] # request[s]
      <3>1. request'[s] = Gone(s) /\ request[s].op = "insert"
        BY <1>1, <2>3 DEF Forgets
      <3>2. Gone(s) = [op |-> "insert", member |-> request[s].member,
                       wanted |-> request[s].wanted, assignable |-> request[s].assignable,
                       deleted |-> request[s].deleted \ q.deleted,
                       unsanctioned |-> request[s].unsanctioned]
        <4>1. request[s] \in Request
          BY DEF Inv, TypeOK
        <4>2. request[s] = [op |-> request[s].op, member |-> request[s].member,
                            wanted |-> request[s].wanted, assignable |-> request[s].assignable,
                            deleted |-> request[s].deleted,
                            unsanctioned |-> request[s].unsanctioned]
          BY <3>1, <4>1, RequestFields
        <4> HIDE DEF q
        <4> QED BY <3>1, <4>2
      <3>4. request[s].unsanctioned = {}
        BY <3>1 DEF Inv, RequestsWereChecked, Checked
      <3>3. request'[s] \in Request
        BY <3>1, <3>2, RequestFields DEF Inv, TypeOK, Request
      <3> QED BY <3>1, <3>2, <3>3, <3>4 DEF Checked
    <2> QED BY <2>1, <2>2, <2>3
  <1>6. request' \in [Requests -> Request]
    BY <1>1, <1>5
  <1>7. RequestsWereChecked'
    BY <1>1, <1>5 DEF RequestsWereChecked, Checked
  <1>8. TypeOK'
    BY <1>3, <1>6 DEF TypeOK, RowsOK
  <1> QED BY <1>4, <1>7, <1>8 DEF Inv

\* One row, written for a member and a role that exist, or emptied.
LEMMA SetRowKeeps ==
  ASSUME Inv, NEW p \in Requests, NEW m \in CampMembers, NEW r \in Roles, NEW row \in Row,
         SetRow(m, r, row), row.edition <= edition, End(p),
         row # NoRow => m \in members /\ r \in roles,
         UNCHANGED <<members, roles, created, permissions, edition>>
  PROVE  Inv'
  <1>1. /\ assignment' \in [CampMembers -> [Roles -> Row]]
        /\ \A n \in CampMembers, x \in Roles :
             assignment'[n][x] = IF n = m /\ x = r THEN row ELSE assignment[n][x]
    BY DEF Inv, TypeOK, SetRow
  <1>2. RowsOK'
    BY <1>1 DEF Inv, TypeOK, RowsOK, Holds
  <1>3. \A n \in CampMembers, x \in Roles : assignment'[n][x].edition <= edition
    BY <1>1 DEF Inv, ConsentIsPast
  <1>4. Begin(p, IdleRequest)
    BY DEF End, Begin
  <1> QED BY <1>2, <1>3, <1>4, IdleIsRequest, CommitKeeps

LEMMA OfficerKeeps ==
  ASSUME Inv, NEW p \in Requests, NameCommit(p) \/ UnassignCommit(p) \/ RespondCommit(p)
  PROVE  Inv'
  <1> DEFINE q == request[p]
  <1>1. /\ q \in Request /\ q.op \in {"name", "unassign", "respond"}
        /\ q.member \in CampMembers /\ q.role \in OfficerRoles /\ q.role \in Roles /\ q.role \in roles
    BY RequestFields, RoleFacts DEF Inv, TypeOK, NameCommit, UnassignCommit, RespondCommit
  <1>2. End(p) /\ UNCHANGED <<members, roles, created, permissions, edition>>
    BY DEF NameCommit, UnassignCommit, RespondCommit
  <1>3. 0 <= edition /\ edition \in 1..MaxEdition
    BY RolesAssumption DEF Inv, TypeOK
  <1>4. CASE NameCommit(p)
    BY <1>1, <1>2, <1>3, <1>4, RowFacts, SetRowKeeps DEF NameCommit
  <1>5. CASE UnassignCommit(p)
    BY <1>1, <1>2, <1>3, <1>5, RowFacts, SetRowKeeps DEF UnassignCommit
  <1>6. CASE RespondCommit(p)
    <2>1. q.edition \in 1..MaxEdition /\ q.edition <= edition
      BY <1>1, <1>6, RequestFields DEF RespondCommit, Inv, RequestsWereChecked, Checked
    <2>2. CASE Holds(q.member, q.role) /\ SetRow(q.member, q.role, ConsentedRow(q.edition))
      <3>1. q.member \in members
        BY <1>1, <2>2 DEF Inv, TypeOK
      <3> QED BY <1>1, <1>2, <2>1, <2>2, <3>1, RowFacts, SetRowKeeps
    <2>3. CASE SetRow(q.member, q.role, NoRow)
      BY <1>1, <1>2, <1>3, <2>3, RowFacts, SetRowKeeps
    <2> QED BY <1>6, <2>2, <2>3 DEF RespondCommit, ConsentedFor
  <1> QED BY <1>4, <1>5, <1>6

LEMMA LeaveKeeps ==
  ASSUME Inv, NEW m \in CampMembers, Leave(m)
  PROVE  Inv'
  <1>1. /\ assignment' \in [CampMembers -> [Roles -> Row]]
        /\ \A n \in CampMembers, r \in Roles :
             assignment'[n][r] = IF n = m THEN NoRow ELSE assignment[n][r]
    BY RowFacts DEF Inv, TypeOK, Leave
  <1>2. RowsOK'
    BY <1>1 DEF Inv, TypeOK, RowsOK, Holds, Leave
  <1>3. ConsentIsPast'
    BY <1>1, RowFacts DEF Inv, ConsentIsPast, TypeOK, Leave
  <1> QED BY <1>2, <1>3 DEF Inv, TypeOK, RowsOK, RequestsWereChecked, Checked, Leave

LEMMA NewEditionKeeps ==
  ASSUME Inv, NewEdition
  PROVE  Inv'
  <1>1. edition' = edition + 1 /\ edition' \in 1..MaxEdition /\ edition \in 1..MaxEdition
    BY RolesAssumption DEF Inv, TypeOK, NewEdition
  <1>2. TypeOK'
    BY <1>1 DEF Inv, TypeOK, NewEdition, Holds
  <1>3. ConsentIsPast'
    BY <1>1 DEF Inv, ConsentIsPast, TypeOK, Row, NewEdition
  <1>4. RequestsWereChecked'
    <2> SUFFICES ASSUME NEW p \in Requests, request[p].op = "respond"
                 PROVE  request[p].edition <= edition'
      BY DEF Inv, RequestsWereChecked, Checked, NewEdition
    <2>1. request[p].edition <= edition /\ request[p].edition \in 1..MaxEdition
      BY RequestFields DEF Inv, TypeOK, RequestsWereChecked, Checked
    <2> QED BY <1>1, <2>1
  <1> QED BY <1>2, <1>3, <1>4 DEF Inv

\* The permissions a manager may choose are permissions.
LEMMA ChoosableFacts ==
  /\ \A r \in Roles : PermissionSets[r] \subseteq SUBSET PermissionKeys
  /\ {{}} \cup UNION {PermissionSets[r] : r \in CustomRoles} \subseteq SUBSET PermissionKeys
  <1>1. \A r \in Roles : PermissionSets[r] \subseteq SUBSET PermissionKeys
    BY RolesAssumption
  <1>2. ASSUME NEW x \in UNION {PermissionSets[r] : r \in CustomRoles}
        PROVE  x \in SUBSET PermissionKeys
    BY <1>1, RoleFacts
  <1> QED BY <1>1, <1>2

LEMMA NextKeeps == Inv /\ [Next]_vars => Inv'
  <1> SUFFICES ASSUME Inv, [Next]_vars PROVE Inv'
    OBVIOUS
  <1>1. ASSUME NEW p \in Requests, NEW a \in CampLeads \cup CampMembers,
               NEW setup \in {{}} \cup UNION {PermissionSets[r] : r \in CustomRoles},
               CreateRead(p, a, setup)
        PROVE  Inv'
    <2>1. setup \in SUBSET PermissionKeys
      BY ChoosableFacts
    <2> QED BY <1>1, <2>1, CreateReadKeeps
  <1>2. ASSUME NEW p \in Requests, NEW a \in CampLeads \cup CampMembers, NEW r \in Roles,
               NEW chosen \in PermissionSets[r], PermissionsRead(p, a, r, chosen)
        PROVE  Inv'
    <2>1. chosen \in SUBSET PermissionKeys
      BY ChoosableFacts
    <2> QED BY <1>2, <2>1, PermissionsReadKeeps
  <1>3. ASSUME NEW p \in Requests, NEW a \in CampLeads \cup CampMembers, NEW r \in CustomRoles,
               RemoveRead(p, a, r)
        PROVE  Inv'
    BY <1>3, RemoveReadKeeps
  <1>4. ASSUME NEW p \in Requests, NEW a \in CampLeads \cup CampMembers, NEW m \in CampMembers,
               NEW wanted \in SUBSET Assignable, AssignRead(p, a, m, wanted)
        PROVE  Inv'
    BY <1>4, AssignReadKeeps
  <1>5. ASSUME NEW p \in Requests, NEW a \in CampLeads \cup CampMembers, NEW m \in CampMembers,
               NEW r \in OfficerRoles, OfficerRead(p, a, m, r)
        PROVE  Inv'
    BY <1>5, OfficerReadKeeps
  <1>6. ASSUME NEW p \in Requests, NEW m \in CampMembers, NEW r \in roles, NEW accept \in BOOLEAN,
               RespondRead(p, m, r, accept)
        PROVE  Inv'
    BY <1>6, RespondReadKeeps
  <1>7. ASSUME NEW p \in Requests,
               \/ CreateCommit(p) \/ PermissionsCommit(p) \/ RemoveCommit(p)
               \/ AssignDelete(p) \/ AssignInsert(p)
               \/ NameCommit(p) \/ UnassignCommit(p) \/ RespondCommit(p) \/ Abandon(p)
        PROVE  Inv'
    BY <1>7, CreateCommitKeeps, PermissionsCommitKeeps, RemoveCommitKeeps, AssignDeleteKeeps,
       AssignInsertKeeps, OfficerKeeps, AbandonKeeps
  <1>8. ASSUME NEW m \in CampMembers, Leave(m) PROVE Inv'
    BY <1>8, LeaveKeeps
  <1>9. ASSUME NewEdition PROVE Inv'
    BY <1>9, NewEditionKeeps
  <1>10. ASSUME UNCHANGED vars PROVE Inv'
    BY <1>10 DEF Inv, TypeOK, ConsentIsPast, RequestsWereChecked, Checked, Holds, vars
  <1> QED BY <1>1, <1>2, <1>3, <1>4, <1>5, <1>6, <1>7, <1>8, <1>9, <1>10 DEF Next

---------------------------------------------------------------------------
(* Theorems.                                                               *)

\* The strengthened invariant holds in every reachable state: no consent is
\* for an edition to come, and a request carries only what its check allowed.
THEOREM RolesInvariance == Spec => []Inv
  <1>1. Init => Inv
    BY InitInv
  <1>2. Inv /\ [Next]_vars => Inv'
    BY NextKeeps
  <1> QED BY <1>1, <1>2, PTL DEF Spec

\* Every variable keeps its type, and every assignment belongs to a membership
\* and a role that exist (the foreign keys of member_role_assignments).
THEOREM RolesTypeCorrect == Spec => []TypeOK
  <1>1. Inv => TypeOK
    BY DEF Inv
  <1> QED BY <1>1, RolesInvariance, PTL
---------------------------------------------------------------------------
(* What a step makes of a row, and who is shown or elevated by it.         *)

\* A step that writes no role's permissions and adds no row to what m holds
\* raises nobody.
LEMMA NobodyRises ==
  ASSUME NEW m \in CampMembers, members' \subseteq members,
         HeldRoles(m)' \subseteq HeldRoles(m),
         \A r \in HeldRoles(m)' : permissions'[r] \subseteq permissions[r]
  PROVE  Manages(m)' => Manages(m)
  BY DEF Manages, HasProjectPermission

\* The steps that change no row but by emptying it.
Emptying ==
  \/ \E p \in Requests : CreateCommit(p) \/ RemoveCommit(p) \/ UnassignCommit(p)
  \/ \E m \in CampMembers : Leave(m)
  \/ OnlyRequest

LEMMA EmptyingRows ==
  ASSUME Inv, Emptying, NEW m \in CampMembers, NEW r \in Roles
  PROVE  /\ assignment'[m][r] \in {assignment[m][r], NoRow}
         /\ edition' = edition /\ members' \subseteq members
         /\ r \in roles' => r \in roles \/ assignment[m][r] = NoRow
         /\ permissions'[r] \subseteq permissions[r]
  <1>1. ASSUME NEW p \in Requests, CreateCommit(p)
        PROVE  /\ assignment' = assignment /\ permissions' = permissions
               /\ edition' = edition /\ members' \subseteq members
               /\ r \in roles' => r \in roles \/ assignment[m][r] = NoRow
    BY <1>1 DEF CreateCommit, Inv, TypeOK, Holds
  <1>2. ASSUME NEW p \in Requests, RemoveCommit(p)
        PROVE  /\ assignment'[m][r] \in {assignment[m][r], NoRow}
               /\ edition' = edition /\ members' \subseteq members
               /\ r \in roles' => r \in roles
               /\ permissions'[r] \subseteq permissions[r]
    <2>1. request[p].role \in Roles
      BY <1>2, RequestFields, RoleFacts DEF Inv, TypeOK, RemoveCommit
    <2> QED BY <1>2, <2>1 DEF RemoveCommit, Inv, TypeOK
  <1>3. ASSUME NEW p \in Requests, UnassignCommit(p)
        PROVE  /\ assignment'[m][r] \in {assignment[m][r], NoRow}
               /\ edition' = edition /\ members' = members /\ roles' = roles
               /\ permissions' = permissions
    <2>1. request[p].role \in Roles /\ request[p].member \in CampMembers
      BY <1>3, RequestFields, RoleFacts DEF Inv, TypeOK, UnassignCommit
    <2> QED BY <1>3, <2>1 DEF UnassignCommit, SetRow, Inv, TypeOK
  <1>4. ASSUME NEW n \in CampMembers, Leave(n)
        PROVE  /\ assignment'[m][r] \in {assignment[m][r], NoRow}
               /\ edition' = edition /\ members' \subseteq members /\ roles' = roles
               /\ permissions' = permissions
    BY <1>4 DEF Leave, Inv, TypeOK
  <1> QED BY <1>1, <1>2, <1>3, <1>4 DEF Emptying, OnlyRequest

\* Nor does it give a role a permission.
LEMMA EmptyingPermissions ==
  ASSUME Inv, Emptying, NEW r \in Roles
  PROVE  permissions'[r] \subseteq permissions[r]
  <1>1. ASSUME NEW p \in Requests, RemoveCommit(p)
        PROVE  permissions'[r] \subseteq permissions[r]
    BY <1>1 DEF RemoveCommit, Inv, TypeOK
  <1> QED BY <1>1 DEF Emptying, OnlyRequest, CreateCommit, UnassignCommit, Leave

\* An emptying step names, shows and raises nobody.
LEMMA EmptyingIsQuiet ==
  ASSUME Inv, Inv', Emptying, NEW m \in CampMembers
  PROVE  /\ Manages(m)' => Manages(m)
         /\ \A r \in Roles : Discloses(m, r)' => Discloses(m, r)
         /\ \A r \in Roles : assignment'[m][r] = PendingRow => assignment[m][r] = PendingRow
  <1>1. \A r \in Roles : /\ assignment'[m][r] \in {assignment[m][r], NoRow}
                         /\ edition' = edition /\ members' \subseteq members
                         /\ r \in roles' => r \in roles \/ assignment[m][r] = NoRow
                         /\ permissions'[r] \subseteq permissions[r]
    BY EmptyingRows
  <1>2. Baseline \in Roles /\ roles' \subseteq Roles /\ Baseline \in roles
    BY RoleFacts DEF TypeOK, SeededRoles, Inv
  <1>3. HeldRoles(m)' \subseteq HeldRoles(m) /\ HeldRoles(m)' \subseteq Roles
    BY <1>1, <1>2, RowFacts DEF HeldRoles
  <1>4. Manages(m)' => Manages(m)
    BY <1>1, <1>2, <1>3, NobodyRises
  <1>5. \A r \in Roles : Discloses(m, r)' => Discloses(m, r)
    BY <1>1, RowFacts DEF Discloses
  <1>6. NoRow # PendingRow
    BY RowFacts
  <1> QED BY <1>1, <1>4, <1>5, <1>6

LEMMA StepKinds ==
  ASSUME [Next]_vars
  PROVE  \/ Emptying
         \/ \E p \in Requests : PermissionsCommit(p) \/ AssignInsert(p) \/ NameCommit(p)
                                \/ RespondCommit(p)
         \/ NewEdition
  <1>1. ASSUME NEW p \in Requests, NEW a, NEW m, NEW r, NEW setup, NEW wanted, NEW accept,
               \/ CreateRead(p, a, setup) \/ PermissionsRead(p, a, r, setup)
               \/ RemoveRead(p, a, r) \/ AssignRead(p, a, m, wanted)
               \/ OfficerRead(p, a, m, r) \/ RespondRead(p, m, r, accept)
               \/ AssignDelete(p) \/ Abandon(p)
        PROVE  OnlyRequest
    BY <1>1 DEF CreateRead, PermissionsRead, RemoveRead, AssignRead, OfficerRead, RespondRead,
                AssignDelete, Abandon
  <1>2. UNCHANGED vars => OnlyRequest
    BY DEF vars, OnlyRequest
  <1> QED BY <1>1, <1>2 DEF Next, Emptying

\* Of the rows that insertions and officers' answers write.
LEMMA WrittenRows ==
  ASSUME Inv, NEW p \in Requests, NameCommit(p) \/ RespondCommit(p)
  PROVE  LET q == request[p] IN
         /\ q.member \in CampMembers /\ q.role \in OfficerRoles /\ q.role \in Roles
         /\ NameCommit(p) => ~q.elevated
         /\ edition' = edition /\ roles' = roles /\ permissions' = permissions
         /\ members' = members /\ request'[p].op = "idle" /\ q.op # "idle"
         /\ \A m \in CampMembers, r \in Roles :
              (m # q.member \/ r # q.role) => assignment'[m][r] = assignment[m][r]
         /\ NameCommit(p) => assignment'[q.member][q.role] = PendingRow
         /\ RespondCommit(p) =>
              \/ /\ q.accept /\ Holds(q.member, q.role)
                 /\ assignment'[q.member][q.role] = ConsentedRow(q.edition)
              \/ assignment'[q.member][q.role] = NoRow
  <1> DEFINE q == request[p]
  <1>1. /\ q \in Request /\ q.op \in {"name", "respond"}
        /\ q.member \in CampMembers /\ q.role \in OfficerRoles /\ q.role \in Roles
    BY RequestFields, RoleFacts DEF Inv, TypeOK, NameCommit, RespondCommit
  <1>2. /\ edition' = edition /\ roles' = roles /\ permissions' = permissions
        /\ members' = members /\ request'[p].op = "idle" /\ q.op # "idle"
    BY IdleIsRequest DEF Inv, TypeOK, NameCommit, RespondCommit, End
  <1>3. NameCommit(p) => ~q.elevated
    BY DEF NameCommit, Inv, RequestsWereChecked, Checked
  <1>4. ASSUME NEW row, SetRow(q.member, q.role, row)
        PROVE  /\ assignment'[q.member][q.role] = row
               /\ \A m \in CampMembers, r \in Roles :
                    (m # q.member \/ r # q.role) => assignment'[m][r] = assignment[m][r]
    BY <1>1, <1>4 DEF SetRow, Inv, TypeOK
  <1>5. CASE NameCommit(p)
    <2>1. SetRow(q.member, q.role, PendingRow) /\ q.op = "name"
      BY <1>5 DEF NameCommit
    <2>2. ~RespondCommit(p)
      BY <2>1 DEF RespondCommit
    <2> QED BY <1>1, <1>2, <1>3, <1>4, <2>1, <2>2
  <1>6. CASE RespondCommit(p)
    <2>1. /\ q.op = "respond"
          /\ \/ /\ q.accept /\ Holds(q.member, q.role)
                /\ SetRow(q.member, q.role, ConsentedRow(q.edition))
             \/ SetRow(q.member, q.role, NoRow)
      BY <1>6 DEF RespondCommit, ConsentedFor
    <2>2. ~NameCommit(p)
      BY <2>1 DEF NameCommit
    <2> QED BY <1>1, <1>2, <1>4, <2>1, <2>2
  <1> QED BY <1>5, <1>6

\* AfrikaBurn comes to see a member's contact only when that member accepted
\* that role in that edition (respondToOfficer).
THEOREM DisclosureIsOnesOwn == Spec => DisclosedByOneself
  <1> DEFINE Step == \A m \in CampMembers, r \in Roles :
        Discloses(m, r)' /\ ~Discloses(m, r) =>
         \E p \in Requests :
           /\ request[p].op = "respond" /\ request[p].accept /\ request'[p].op = "idle"
           /\ request[p].member = m /\ request[p].role = r
           /\ request[p].edition = edition'
  <1>1. Inv /\ Inv' /\ [Next]_vars => Step
    <2> SUFFICES ASSUME Inv, Inv', [Next]_vars, NEW m \in CampMembers, NEW r \in Roles,
                        Discloses(m, r)', ~Discloses(m, r)
                 PROVE  \E p \in Requests :
                          /\ request[p].op = "respond" /\ request[p].accept
                          /\ request'[p].op = "idle"
                          /\ request[p].member = m /\ request[p].role = r
                          /\ request[p].edition = edition'
      OBVIOUS
    <2>1. CASE Emptying
      BY <2>1, EmptyingIsQuiet
    <2>2. ASSUME NEW p \in Requests, PermissionsCommit(p) PROVE FALSE
      BY <2>2 DEF PermissionsCommit, Discloses
    <2>3. ASSUME NEW p \in Requests, AssignInsert(p) PROVE FALSE
      <3>1. assignment'[m][r] \in {assignment[m][r], RoleRow, NoRow}
        BY <2>3, InsertFacts
      <3>2. edition' = edition
        BY <2>3 DEF AssignInsert
      <3> QED BY <3>1, <3>2, RowFacts DEF Discloses
    <2>4. ASSUME NEW p \in Requests, NameCommit(p) PROVE FALSE
      <3>1. assignment'[m][r] \in {assignment[m][r], PendingRow} /\ edition' = edition
        BY <2>4, WrittenRows
      <3> QED BY <3>1, RowFacts DEF Discloses
    <2>5. ASSUME NEW p \in Requests, RespondCommit(p)
          PROVE  /\ request[p].op = "respond" /\ request[p].accept /\ request'[p].op = "idle"
                 /\ request[p].member = m /\ request[p].role = r
                 /\ request[p].edition = edition'
      <3>1. request[p].member = m /\ request[p].role = r
        BY <2>5, WrittenRows DEF Discloses
      <3>2. assignment'[m][r] # NoRow
        BY RowFacts DEF Discloses
      <3>3. /\ request[p].accept /\ request'[p].op = "idle"
            /\ assignment'[m][r] = ConsentedRow(request[p].edition)
        BY <2>5, <3>1, <3>2, WrittenRows
      <3>4. request[p].edition = edition'
        BY <3>3, RowFacts DEF Discloses
      <3> QED BY <2>5, <3>1, <3>3, <3>4 DEF RespondCommit
    <2>6. ASSUME NewEdition PROVE FALSE
      <3>1. assignment[m][r].edition <= edition /\ edition \in Nat /\ edition' = edition + 1
        BY <2>6 DEF NewEdition, Inv, ConsentIsPast, TypeOK
      <3>2. assignment[m][r] \in Row /\ assignment' = assignment
        BY <2>6 DEF NewEdition, Inv, TypeOK
      <3>3. assignment[m][r].edition \in 0..MaxEdition
        BY <3>2 DEF Row
      <3> QED BY <3>1, <3>2, <3>3 DEF Discloses
    <2> QED BY <2>1, <2>2, <2>3, <2>4, <2>5, <2>6, StepKinds
  <1>2. Inv /\ Inv' /\ [Next]_vars => [Step]_vars
    BY <1>1
  <1> QED BY <1>2, RolesInvariance, PTL DEF Spec, DisclosedByOneself

\* Whoever comes to manage does it by a role they now hold that elevates, and
\* that they held before unless it elevated less.
LEMMA RisesByARole ==
  ASSUME Inv, NEW m \in CampMembers, members' = members, Manages(m)', ~Manages(m)
  PROVE  \E r \in HeldRoles(m)' :
           /\ RoleGrantsElevatedPrivileges(r)'
           /\ r \in HeldRoles(m) => permissions'[r] # permissions[r]
  <1>1. m \notin CampLeads
    BY RolesAssumption
  <1>2. PICK r \in HeldRoles(m)', key \in {"manage_roles", "manage_members"} :
          m \in members' /\ key \in permissions'[r]
    BY <1>1 DEF Manages, HasProjectPermission
  <1>3. RoleGrantsElevatedPrivileges(r)'
    BY <1>2 DEF RoleGrantsElevatedPrivileges
  <1>4. r \in HeldRoles(m) => permissions'[r] # permissions[r]
    BY <1>2 DEF Manages, HasProjectPermission
  <1> QED BY <1>3, <1>4

\* A role that a step adds to what a member holds is one whose row it wrote.
LEMMA NewlyHeld ==
  ASSUME NEW m \in CampMembers, roles' = roles, NEW r \in HeldRoles(m)', r \notin HeldRoles(m)
  PROVE  /\ assignment'[m][r].consent = "accepted"
         /\ assignment'[m][r] # assignment[m][r]
  BY DEF HeldRoles

\* Setting permissions raises the role they are set for and its holders alone,
\* and only a manager of roles gets as far.
LEMMA SettingPermissions ==
  ASSUME Inv, NEW p \in Requests, PermissionsCommit(p)
  PROVE  /\ Ends(p) /\ assignment' = assignment
         /\ \A r \in Roles : permissions'[r] # permissions[r] => RaisedByManager(p, r)
         /\ \A m \in CampMembers : Manages(m)' /\ ~Manages(m) =>
              \E r \in HeldRoles(m) : RaisedByManager(p, r)
  <1>1. /\ request[p].op = "permissions" /\ request[p].manager
        /\ Ends(p) /\ assignment' = assignment /\ members' = members /\ roles' = roles
    BY IdleIsRequest DEF PermissionsCommit, Ends, End, Inv, TypeOK, RequestsWereChecked, Checked
  <1>2. ASSUME NEW r, r # request[p].role
        PROVE  permissions'[r] = permissions[r]
    BY <1>2 DEF PermissionsCommit, Inv, TypeOK
  <1>3. ASSUME NEW r, permissions'[r] # permissions[r]
        PROVE  RaisedByManager(p, r)
    BY <1>1, <1>2, <1>3 DEF RaisedByManager
  <1>4. ASSUME NEW m \in CampMembers, Manages(m)', ~Manages(m)
        PROVE  \E r \in HeldRoles(m) : RaisedByManager(p, r)
    <2>1. HeldRoles(m)' = HeldRoles(m)
      BY <1>1 DEF HeldRoles
    <2> QED BY <1>1, <1>3, <1>4, <2>1, RisesByARole
  <1> QED BY <1>1, <1>3, <1>4

\* A manager of roles alone makes a role elevate, and whoever comes to manage
\* held one then, was handed one, or accepted one they had been named to
\* (setRolePermissions, createRoleWithSetupAction, setMemberRoles,
\* assignOfficer).
THEOREM ElevationSanctioned == Spec => ElevationIsSanctioned
  <1> DEFINE Lifted(r) == \E p \in Requests : Ends(p) /\ RaisedByManager(p, r)
             Raised(m) == \E p \in Requests : Ends(p) /\
            \/ HandedOut(p, m)
            \/ Accepted(p, m)
            \/ \E r \in HeldRoles(m) : RaisedByManager(p, r)
             Named(m, r) == \/ assignment[m][r] = PendingRow
          \/ \E p \in Requests : Ends(p) /\ request[p].op = "name" /\ ~request[p].elevated
             Sanctioned ==
               /\ \A r \in Roles :
                    RoleGrantsElevatedPrivileges(r)' /\ ~RoleGrantsElevatedPrivileges(r) =>
                      \E p \in Requests : Ends(p) /\ RaisedByManager(p, r)
               /\ \A m \in CampMembers : Manages(m)' /\ ~Manages(m) =>
                    \E p \in Requests : Ends(p) /\
                      \/ HandedOut(p, m)
                      \/ Accepted(p, m)
                      \/ \E r \in HeldRoles(m) : RaisedByManager(p, r)
               /\ \A m \in CampMembers, r \in OfficerRoles : assignment'[m][r] = PendingRow =>
                    \/ assignment[m][r] = PendingRow
                    \/ \E p \in Requests :
                         Ends(p) /\ request[p].op = "name" /\ ~request[p].elevated
             Quiet == \A r \in Roles : permissions'[r] \subseteq permissions[r]
  <1>1. ASSUME Quiet, NEW r \in Roles, RoleGrantsElevatedPrivileges(r)'
        PROVE  RoleGrantsElevatedPrivileges(r)
    BY <1>1 DEF RoleGrantsElevatedPrivileges
  <1>2. Inv /\ Inv' /\ [Next]_vars => \A r \in Roles :
          RoleGrantsElevatedPrivileges(r)' /\ ~RoleGrantsElevatedPrivileges(r) => Lifted(r)
    <2> SUFFICES ASSUME Inv, [Next]_vars, NEW r \in Roles,
                        RoleGrantsElevatedPrivileges(r)', ~RoleGrantsElevatedPrivileges(r)
                 PROVE  Lifted(r)
      OBVIOUS
    <2>1. ASSUME Emptying PROVE Quiet
      BY <2>1, EmptyingPermissions
    <2>2. ASSUME NEW p \in Requests, PermissionsCommit(p)
          PROVE  Lifted(r)
      <3>1. permissions'[r] # permissions[r]
        BY DEF RoleGrantsElevatedPrivileges
      <3> QED BY <2>2, <3>1, SettingPermissions
    <2>3. ASSUME NEW p \in Requests, AssignInsert(p) \/ NameCommit(p) \/ RespondCommit(p)
          PROVE  Quiet
      BY <2>3 DEF AssignInsert, NameCommit, RespondCommit
    <2>4. NewEdition => Quiet
      BY DEF NewEdition
    <2> HIDE DEF Quiet, Lifted
    <2> QED BY <1>1, <2>1, <2>2, <2>3, <2>4, StepKinds
  <1>3. Inv /\ Inv' /\ [Next]_vars =>
          \A m \in CampMembers : /\ Manages(m)' /\ ~Manages(m) => Raised(m)
                                 /\ \A r \in OfficerRoles :
                                      assignment'[m][r] = PendingRow => Named(m, r)
    <2> SUFFICES ASSUME Inv, Inv', [Next]_vars, NEW m \in CampMembers
                 PROVE  /\ Manages(m)' /\ ~Manages(m) => Raised(m)
                        /\ \A r \in OfficerRoles : assignment'[m][r] = PendingRow => Named(m, r)
      OBVIOUS
    <2>7. OfficerRoles \subseteq Roles
      BY RoleFacts
    <2>1. CASE Emptying
      BY <2>1, <2>7, EmptyingIsQuiet
    <2>2. ASSUME NEW p \in Requests, PermissionsCommit(p)
          PROVE  (Manages(m)' /\ ~Manages(m) => Raised(m)) /\ assignment' = assignment
      BY <2>2, SettingPermissions
    <2>3. ASSUME NEW p \in Requests, AssignInsert(p)
          PROVE  /\ Manages(m)' /\ ~Manages(m) => Raised(m)
                 /\ \A r \in Roles : assignment'[m][r] = PendingRow => assignment[m][r] = PendingRow
      <3>1. /\ request[p].op = "insert" /\ request[p].unsanctioned = {}
            /\ members' = members /\ roles' = roles /\ permissions' = permissions
            /\ request'[p] = IdleRequest
        BY <2>3 DEF AssignInsert, Inv, RequestsWereChecked, Checked
      <3>2. Ends(p)
        BY <3>1, IdleIsRequest DEF Ends
      <3>3. CASE m # request[p].member
        <4>1. \A r \in Roles : assignment'[m][r] = assignment[m][r]
          BY <2>3, <3>3, InsertFacts
        <4>2. HeldRoles(m)' \subseteq HeldRoles(m)
          BY <3>1, <4>1 DEF HeldRoles, Inv, TypeOK
        <4> QED BY <3>1, <4>1, <4>2, NobodyRises
      <3>4. CASE m = request[p].member
        <4>1. ASSUME Manages(m)', ~Manages(m)
              PROVE  Raised(m)
          <5>1. PICK r \in HeldRoles(m)' :
                  RoleGrantsElevatedPrivileges(r)' /\ r \notin HeldRoles(m)
            BY <3>1, <4>1, RisesByARole
          <5>2. r \in Roles /\ RoleGrantsElevatedPrivileges(r)
            BY <3>1, <5>1, RoleFacts DEF RoleGrantsElevatedPrivileges, HeldRoles, SeededRoles, Inv, TypeOK
          <5>3. r \in request[p].wanted
            BY <2>3, <3>1, <3>4, <5>1, <5>2, NewlyHeld, InsertFacts, RowFacts
          <5>4. HandedOut(p, m)
            BY <3>1, <3>4, <5>2, <5>3 DEF HandedOut
          <5> QED BY <3>2, <5>4
        <4>2. \A r \in Roles : assignment'[m][r] \in {assignment[m][r], RoleRow, NoRow}
          BY <2>3, InsertFacts
        <4>3. RoleRow # PendingRow /\ NoRow # PendingRow
          BY RowFacts
        <4> QED BY <4>1, <4>2, <4>3
      <3> QED BY <3>3, <3>4
    <2>4. ASSUME NEW p \in Requests, NameCommit(p)
          PROVE  /\ Manages(m)' => Manages(m)
                 /\ Ends(p) /\ request[p].op = "name" /\ ~request[p].elevated
      <3>1. \A r \in Roles : assignment'[m][r] \in {assignment[m][r], PendingRow}
        BY <2>4, WrittenRows
      <3>2. HeldRoles(m)' \subseteq HeldRoles(m)
        BY <2>4, <3>1, WrittenRows, RowFacts DEF HeldRoles, Inv, TypeOK
      <3>3. Manages(m)' => Manages(m)
        BY <2>4, <3>2, WrittenRows, NobodyRises
      <3> QED BY <2>4, <3>3, WrittenRows DEF Ends, NameCommit
    <2>5. ASSUME NEW p \in Requests, RespondCommit(p)
          PROVE  /\ Manages(m)' /\ ~Manages(m) => Raised(m)
                 /\ \A r \in Roles : assignment'[m][r] = PendingRow => assignment[m][r] = PendingRow
      <3> DEFINE q == request[p]
      <3>1. CASE m = q.member /\ q.accept /\ Holds(m, q.role)
                 /\ assignment'[m][q.role] = ConsentedRow(q.edition)
        <4>1. ASSUME Manages(m)', ~Manages(m)
              PROVE  Raised(m)
          <5>1. PICK r \in HeldRoles(m)' :
                  RoleGrantsElevatedPrivileges(r)' /\ r \notin HeldRoles(m)
            BY <2>5, <4>1, RisesByARole, WrittenRows
          <5>2. r \in Roles /\ RoleGrantsElevatedPrivileges(r)
            BY <2>5, <5>1, RoleFacts, WrittenRows
               DEF RoleGrantsElevatedPrivileges, HeldRoles, SeededRoles, Inv, TypeOK
          <5>3. r = q.role
            BY <2>5, <5>1, <5>2, NewlyHeld, WrittenRows
          <5>4. Accepted(p, m) /\ Ends(p)
            BY <2>5, <3>1, <5>2, <5>3, WrittenRows DEF Accepted, Ends, RespondCommit
          <5> QED BY <5>4
        <4>2. ConsentedRow(q.edition) # PendingRow
          BY RowFacts
        <4> QED BY <2>5, <3>1, <4>1, <4>2, WrittenRows
      <3>2. CASE \A r \in Roles : assignment'[m][r] \in {assignment[m][r], NoRow}
        <4>1. HeldRoles(m)' \subseteq HeldRoles(m)
          BY <2>5, <3>2, WrittenRows, RowFacts DEF HeldRoles, Inv, TypeOK
        <4>2. Manages(m)' => Manages(m)
          BY <2>5, <4>1, WrittenRows, NobodyRises
        <4>3. NoRow # PendingRow
          BY RowFacts
        <4> QED BY <3>2, <4>2, <4>3
      <3>3. CASE m # q.member
        BY <2>5, <3>3, <3>2, WrittenRows
      <3>4. CASE m = q.member
        BY <2>5, <3>1, <3>2, <3>4, WrittenRows
      <3> QED BY <3>3, <3>4
    <2>6. ASSUME NewEdition
          PROVE  /\ Manages(m)' => Manages(m)
                 /\ assignment' = assignment
      BY <2>6 DEF NewEdition, Manages, HasProjectPermission, HeldRoles
    <2> QED
      <3>1. CASE \E p \in Requests : PermissionsCommit(p) \/ AssignInsert(p)
        BY <3>1, <2>2, <2>3, <2>7
      <3>2. CASE \E p \in Requests : NameCommit(p) \/ RespondCommit(p)
        BY <3>2, <2>4, <2>5, <2>7
      <3>3. CASE NewEdition
        BY <3>3, <2>6
      <3> QED BY <2>1, <3>1, <3>2, <3>3, StepKinds
  <1>4. Inv /\ Inv' /\ [Next]_vars => [Sanctioned]_vars
    BY <1>2, <1>3
  <1> QED BY <1>4, RolesInvariance, PTL DEF Spec, ElevationIsSanctioned

---------------------------------------------------------------------------
(* The cap on the roles of a camp.                                         *)

LEMMA BeginElse ==
  ASSUME Inv, NEW p \in Requests, NEW q, Begin(p, q), q.op # "create"
  PROVE  Creating' \subseteq Creating
  BY DEF Begin, Creating, Inv, TypeOK

\* No step but the reading of a creation starts one, and none but its commit
\* adds a role.
LEMMA OtherSteps ==
  ASSUME Inv, [Next]_vars,
         \A p \in Requests : ~CreateCommit(p),
         \A p \in Requests, a \in CampLeads \cup CampMembers : \A setup : ~CreateRead(p, a, setup)
  PROVE  roles' \subseteq roles /\ Creating' \subseteq Creating
  <1>1. ASSUME NEW p \in Requests, NEW a, NEW m, NEW r, NEW setup, NEW wanted, NEW accept,
               \/ PermissionsRead(p, a, r, setup) \/ RemoveRead(p, a, r)
               \/ AssignRead(p, a, m, wanted) \/ OfficerRead(p, a, m, r)
               \/ RespondRead(p, m, r, accept)
        PROVE  roles' = roles /\ Creating' \subseteq Creating
    <2>1. roles' = roles /\ \E q : Begin(p, q) /\ q.op # "create"
      BY <1>1 DEF PermissionsRead, RemoveRead, AssignRead, OfficerRead, RespondRead, OnlyRequest
    <2> QED BY <2>1, BeginElse
  <1>2. ASSUME NEW p \in Requests,
               \/ PermissionsCommit(p) \/ RemoveCommit(p) \/ NameCommit(p) \/ UnassignCommit(p)
               \/ RespondCommit(p) \/ Abandon(p)
        PROVE  roles' \subseteq roles /\ Creating' \subseteq Creating
    <2>1. roles' \subseteq roles /\ Begin(p, IdleRequest)
      BY <1>2 DEF PermissionsCommit, RemoveCommit, NameCommit, UnassignCommit, RespondCommit,
                  Abandon, OnlyRequest, End, Begin
    <2> QED BY <2>1, IdleIsRequest, BeginElse
  <1>3. ASSUME NEW p \in Requests, AssignDelete(p)
        PROVE  roles' = roles /\ Creating' \subseteq Creating
    <2> DEFINE held == {r \in request[p].assignable : Holds(request[p].member, r)}
               q == [request[p] EXCEPT !.op = "insert", !.assignable = {}, !.deleted = held]
    <2>1. request[p] \in Request /\ request[p].op = "assign"
      BY <1>3 DEF Inv, TypeOK, AssignDelete
    <2>2. Begin(p, q) /\ roles' = roles
      BY <1>3 DEF AssignDelete, OnlyRequest
    <2> HIDE DEF held
    <2>3. q.op # "create"
      <3>1. q = [op |-> "insert", member |-> request[p].member, wanted |-> request[p].wanted,
                 assignable |-> {}, deleted |-> held,
                 unsanctioned |-> request[p].unsanctioned]
        BY <2>1, Deleting
      <3> HIDE DEF q
      <3> QED BY <3>1
    <2> QED BY <2>2, <2>3, BeginElse
  <1>4. ASSUME NEW p \in Requests, AssignInsert(p)
        PROVE  roles' = roles /\ Creating' \subseteq Creating
    <2> SUFFICES ASSUME NEW s \in Requests, request'[s].op = "create"
                 PROVE  request[s].op = "create"
      BY <1>4 DEF AssignInsert, Creating
    <2>1. request[s] \in Request
      BY DEF Inv, TypeOK
    <2>2. request'[s] = IF s = p THEN IdleRequest
                        ELSE Forgets(s, request[p].member, request[p].deleted)
      BY <1>4 DEF AssignInsert
    <2>3. CASE request[s].op = "insert"
      <3> DEFINE gone == request[s].deleted \ request[p].deleted
                 t == [request[s] EXCEPT !.deleted = gone]
      <3>1. request[s] = [op |-> request[s].op, member |-> request[s].member,
                          wanted |-> request[s].wanted, assignable |-> request[s].assignable,
                          deleted |-> request[s].deleted,
                          unsanctioned |-> request[s].unsanctioned]
        BY <2>1, <2>3, RequestFields
      <3>2. t.op = "insert"
        <4> HIDE DEF gone
        <4> QED BY <2>3, <3>1
      <3>3. request'[s] \in {IdleRequest, t, request[s]}
        BY <2>2 DEF Forgets
      <3> QED BY <2>3, <3>2, <3>3, IdleIsRequest
    <2>4. CASE request[s].op # "insert"
      BY <2>2, <2>4, IdleIsRequest DEF Forgets
    <2> QED BY <2>3, <2>4
  <1>5. ASSUME NEW m, Leave(m) \/ NewEdition \/ UNCHANGED vars
        PROVE  roles' = roles /\ request' = request
    BY <1>5 DEF Leave, NewEdition, vars
  <1>6. request' = request => Creating' \subseteq Creating
    BY DEF Creating
  <1> QED BY <1>1, <1>2, <1>3, <1>4, <1>5, <1>6 DEF Next

LEMMA CountFacts ==
  ASSUME Inv
  PROVE  /\ IsFiniteSet(roles) /\ IsFiniteSet(Creating) /\ IsFiniteSet(Requests)
         /\ Cardinality(roles) \in Nat /\ Cardinality(Creating) \in Nat
         /\ Cardinality(Requests) \in Nat
  <1>1. IsFiniteSet(roles) /\ IsFiniteSet(Creating) /\ IsFiniteSet(Requests)
    BY RolesAssumption, FS_Subset DEF Inv, TypeOK, Creating
  <1> QED BY <1>1, FS_CardinalityType

LEMMA CapStep == Inv /\ Inv' /\ CapOverrunIsBounded /\ [Next]_vars => CapOverrunIsBounded'
  <1> SUFFICES ASSUME Inv, Inv', CapOverrunIsBounded, [Next]_vars
               PROVE  Cardinality(roles') + Cardinality(Creating') < Cap + Cardinality(Requests)
    BY DEF CapOverrunIsBounded
  <1>1. /\ IsFiniteSet(roles) /\ IsFiniteSet(Creating) /\ IsFiniteSet(Requests)
        /\ Cardinality(roles) \in Nat /\ Cardinality(Creating) \in Nat
        /\ Cardinality(Requests) \in Nat /\ Cap \in Nat
    BY CountFacts, RolesAssumption
  <1>2. /\ IsFiniteSet(roles') /\ IsFiniteSet(Creating')
        /\ Cardinality(roles') \in Nat /\ Cardinality(Creating') \in Nat
    <2>1. IsFiniteSet(roles') /\ IsFiniteSet(Creating')
      BY RolesAssumption, FS_Subset DEF Inv, TypeOK, Creating
    <2> QED BY <2>1, FS_CardinalityType
  <1>3. CASE roles' \subseteq roles /\ Creating' \subseteq Creating
    <2>1. Cardinality(roles') <= Cardinality(roles) /\ Cardinality(Creating') <= Cardinality(Creating)
      BY <1>1, <1>3, FS_Subset
    <2> QED BY <1>1, <1>2, <2>1 DEF CapOverrunIsBounded
  <1>4. ASSUME NEW p \in Requests, NEW a \in CampLeads \cup CampMembers, NEW setup, CreateRead(p, a, setup)
        PROVE  Cardinality(roles') + Cardinality(Creating') < Cap + Cardinality(Requests)
    <2>1. roles' = roles /\ ~(Cardinality(roles) >= Cap)
      BY <1>4 DEF CreateRead, RoleCapReached, OnlyRequest
    <2>2. Creating' \subseteq Requests
      BY DEF Creating
    <2>3. Cardinality(Creating') <= Cardinality(Requests)
      BY <1>1, <2>2, FS_Subset
    <2> QED BY <1>1, <1>2, <2>1, <2>3
  <1>5. ASSUME NEW p \in Requests, CreateCommit(p)
        PROVE  Cardinality(roles') + Cardinality(Creating') < Cap + Cardinality(Requests)
    <2>1. PICK r \in CustomRoles : roles' = roles \cup {r}
      BY <1>5 DEF CreateCommit
    <2>2. Cardinality(roles') <= Cardinality(roles) + 1
      <3>1. Cardinality(roles \cup {r}) =
              IF r \in roles THEN Cardinality(roles) ELSE Cardinality(roles) + 1
        BY <1>1, FS_AddElement
      <3> QED BY <1>1, <2>1, <3>1
    <2>3. p \in Creating
      BY <1>5 DEF CreateCommit, Creating
    <2>4. Creating' \subseteq Creating \ {p}
      <3>1. PICK q : Begin(p, q) /\ q.op # "create"
        BY <1>5, IdleIsRequest DEF CreateCommit, End, Begin
      <3> QED BY <3>1 DEF Begin, Creating, Inv, TypeOK
    <2>5. Cardinality(Creating \ {p}) = Cardinality(Creating) - 1 /\ IsFiniteSet(Creating \ {p})
      BY <1>1, <2>3, FS_RemoveElement
    <2>6. Cardinality(Creating') <= Cardinality(Creating \ {p})
      BY <2>4, <2>5, FS_Subset
    <2> QED BY <1>1, <1>2, <2>2, <2>5, <2>6 DEF CapOverrunIsBounded
  <1> QED BY <1>3, <1>4, <1>5, OtherSteps

\* A camp passes the cap on its roles by at most one role for each rival request
\* that counted before a commit (createRole).
THEOREM CapIsNearlyKept == Spec => []CapOverrunIsBounded
  <1>1. Init => CapOverrunIsBounded
    <2> SUFFICES ASSUME Init PROVE CapOverrunIsBounded
      OBVIOUS
    <2>1. roles = SeededRoles /\ Creating = {}
      BY DEF Init, Creating, IdleRequest
    <2>2. IsFiniteSet(SeededRoles) /\ IsFiniteSet(Requests)
      BY RolesAssumption, RoleFacts, FS_Subset
    <2>3. Cardinality(SeededRoles) \in Nat /\ Cardinality(Requests) \in Nat
      BY <2>2, FS_CardinalityType
    <2> QED BY <2>1, <2>3, RolesAssumption, FS_EmptySet DEF CapOverrunIsBounded
  <1>2. Inv /\ Inv' /\ CapOverrunIsBounded /\ [Next]_vars => CapOverrunIsBounded'
    BY CapStep
  <1> QED BY <1>1, <1>2, RolesInvariance, PTL DEF Spec

---------------------------------------------------------------------------
(* The roster of the camp: what its requests know of the rows.             *)

RosterRole == MembershipRole \cup {"none"}
RosterInvite == [kind : InviteKind, minted : BOOLEAN, expired : BOOLEAN,
                 used : BOOLEAN, usedBy : Burners \cup {Nobody}]
RosterRequest == [op : {"idle", "mint", "revoke", "redeem", "claim", "count", "leave"},
                  who : Burners, role : RosterRole,
                  invite : Invites \cup {"none"}, kind : InviteKind,
                  saw : SUBSET Burners, seq : Nat, attempts : 0..MaxAttempts]

\* A redemption holds an invite that was minted, of its kind; the sequence it will
\* write is a real one; and a lead who is about to leave saw nobody else.
Informed(q, rows) ==
  /\ q.op \in {"redeem", "claim"} =>
       /\ q.invite \in Invites
       /\ rows[q.invite].minted /\ rows[q.invite].kind = q.kind
  /\ q.op = "revoke" => q.invite \in Invites
  /\ q.op = "claim" => q.seq # 0
  /\ q.op = "leave" /\ q.role = "lead" => q.saw \subseteq {q.who}

RosterInv ==
  /\ RosterTypeOK
  /\ RefCodesIdentify
  /\ \A r \in RosterRequests : Informed(req[r], invite)

\* The type of the rows, with their two kinds of role and of invite.
RosterRows ==
  /\ role \in [Burners -> RosterRole]
  /\ refCode \in [Burners -> Nat]
  /\ invite \in [Invites -> RosterInvite]

LEMMA RosterTypes ==
  /\ RosterTypeOK <=> RosterRows /\ req \in [RosterRequests -> RosterRequest]
  /\ RosterTypeOK' <=> RosterRows' /\ req' \in [RosterRequests -> RosterRequest]
  BY DEF RosterRows, RosterTypeOK, RosterRole, RosterInvite, RosterRequest

\* Natural numbers that finitely many have, have a greatest.
LEMMA MaximumExists ==
  ASSUME NEW S, IsFiniteSet(S), S # {}, NEW f \in [S -> Nat]
  PROVE  \E s \in S : \A t \in S : f[s] >= f[t]
  <1> DEFINE Above(s) == {t \in S : f[t] > f[s]}
             T == {Above(s) : s \in S}
             R == StrictSubsetOrdering(S)
  <1>1. IsWellFoundedOn(R, SUBSET S)
    BY FS_FiniteSubsetsOfFinite, FS_StrictSubsetOrderingWellFounded
  <1>2. T \subseteq SUBSET S /\ T # {}
    <2>1. PICK s \in S : TRUE
      OBVIOUS
    <2>2. Above(s) \in T
      OBVIOUS
    <2>3. \A s1 \in S : Above(s1) \in SUBSET S
      OBVIOUS
    <2> QED BY <2>2, <2>3
  <1>3. \E A \in T : \A B \in T : ~(<<B, A>> \in R)
    <2> HIDE DEF T, R
    <2> QED BY <1>1, <1>2, WFMin
  <1>4. PICK s \in S : \A t \in S : ~(<<Above(t), Above(s)>> \in R)
    BY <1>3
  <1>5. SUFFICES ASSUME NEW t \in S, f[t] > f[s] PROVE FALSE
    OBVIOUS
  <1>6. Above(t) \subseteq Above(s) /\ t \in Above(s) /\ t \notin Above(t)
    BY <1>5
  <1>7. <<Above(t), Above(s)>> \in R
    <2>1. <<Above(t), Above(s)>> \in (SUBSET S) \X (SUBSET S) /\ Above(t) # Above(s)
      BY <1>6
    <2> QED BY <1>6, <2>1 DEF StrictSubsetOrdering
  <1> QED BY <1>4, <1>7

\* The next sequence is a natural number, past every one of the roster.
LEMMA NextSequenceFacts ==
  ASSUME RosterInv
  PROVE  /\ NextSequence \in Nat \ {0}
         /\ \A b \in Burners : refCode[b] < NextSequence
  <1> DEFINE codes == {refCode[b] : b \in Burners}
  <1>1. /\ IsFiniteSet(Burners) /\ Founder \in Burners /\ refCode \in [Burners -> Nat]
    BY RosterTypes, MembershipAssumption DEF RosterInv, RosterRows
  <1>2. PICK s \in Burners : \A t \in Burners : refCode[s] >= refCode[t]
    BY <1>1, MaximumExists
  <1>3. \E x \in codes : \A y \in codes : x >= y
    BY <1>2
  <1>4. Max(codes) \in codes /\ \A y \in codes : Max(codes) >= y
    BY <1>3 DEF Max
  <1>5. NextSequence = Max(codes) + 1
    BY DEF NextSequence
  <1>6. Max(codes) \in Nat
    BY <1>1, <1>4
  <1>7. \A b \in Burners : refCode[b] \in codes /\ refCode[b] \in Nat
    BY <1>1
  <1> HIDE DEF codes
  <1> QED BY <1>4, <1>5, <1>6, <1>7

LEMMA RosterFacts ==
  /\ RosterInv => /\ RosterRows /\ req \in [RosterRequests -> RosterRequest]
                  /\ Founder \in Burners /\ Nobody \notin Burners /\ MaxAttempts \in Nat \ {0}
  /\ Idle.op = "idle"
  /\ Founder \in Burners /\ MaxAttempts \in Nat => Idle \in RosterRequest
  <1>1. Idle.op = "idle"
    BY DEF Idle
  <1>2. Founder \in Burners /\ MaxAttempts \in Nat => Idle \in RosterRequest
    BY DEF Idle, RosterRequest, RosterRole, InviteKind
  <1> QED
    BY <1>1, <1>2, RosterTypes, MembershipAssumption DEF RosterInv, RosterRows

\* What a request holds stays so while minted invites stay minted, of their kind.
LEMMA StaysInformed ==
  ASSUME RosterInv, NEW r \in RosterRequests, NEW rows,
         \A i \in Invites : invite[i].minted => rows[i].minted /\ rows[i].kind = invite[i].kind
  PROVE  Informed(req[r], rows)
  BY DEF RosterInv, Informed

\* A step that only changes what one request holds.
LEMMA RosterReads ==
  ASSUME RosterInv, NEW r \in RosterRequests, NEW q \in RosterRequest, Informed(q, invite),
         req' = [req EXCEPT ![r] = q], UNCHANGED <<role, refCode, invite>>
  PROVE  RosterInv'
  <1>1. RosterTypeOK'
    BY RosterFacts, RosterTypes DEF RosterRows
  <1>2. RefCodesIdentify'
    BY DEF RosterInv, RefCodesIdentify, Members
  <1>3. ASSUME NEW s \in RosterRequests
        PROVE  Informed(req'[s], invite')
    BY RosterFacts DEF RosterInv
  <1> QED BY <1>1, <1>2, <1>3, RosterFacts DEF RosterInv

\* A step that ends a request and writes invites, none of them losing what it was.
LEMMA InvitesChange ==
  ASSUME RosterInv, NEW r \in RosterRequests, Finishes(r), invite' \in [Invites -> RosterInvite],
         \A i \in Invites : invite[i].minted => invite'[i].minted /\ invite'[i].kind = invite[i].kind
  PROVE  /\ req' \in [RosterRequests -> RosterRequest]
         /\ \A s \in RosterRequests : Informed(req'[s], invite')
  <1>1. Informed(Idle, invite')
    BY RosterFacts DEF Informed
  <1>2. \A s \in RosterRequests : Informed(req[s], invite')
    BY StaysInformed
  <1> QED BY <1>1, <1>2, RosterFacts DEF Finishes

LEMMA RosterStarts == RosterInit => RosterInv
  <1> SUFFICES ASSUME RosterInit PROVE RosterInv
    OBVIOUS
  <1> USE DEF RosterInit
  <1>0. Founder \in Burners /\ MaxAttempts \in Nat
    BY MembershipAssumption
  <1>1. RosterTypeOK
    <2>1. Unminted \in RosterInvite
      BY DEF Unminted, RosterInvite, InviteKind
    <2> QED BY <1>0, <2>1, RosterFacts, RosterTypes DEF RosterRows, RosterRole, MembershipRole
  <1>2. RefCodesIdentify
    BY <1>0 DEF RefCodesIdentify, Members
  <1>3. \A r \in RosterRequests : Informed(req[r], invite)
    BY RosterFacts DEF Informed
  <1> QED BY <1>1, <1>2, <1>3 DEF RosterInv

\* The roster once a redemption has committed.
LEMMA RedeemedRoster ==
  ASSUME RosterInv, NEW r \in RosterRequests, RedeemCommit(r)
  PROVE  /\ RosterRows'
         /\ \A b \in Burners : role'[b] = RoleAfterRedeem(r, b)
         /\ \A i \in Invites : /\ invite'[i].kind = invite[i].kind
                               /\ invite'[i].minted = invite[i].minted
                               /\ i # req[r].invite => invite'[i] = invite[i]
         /\ invite'[req[r].invite].used /\ invite'[req[r].invite].usedBy = req[r].who
         /\ req[r].who \in Burners /\ req[r].invite \in Invites /\ req[r].seq \in Nat \ {0}
         /\ invite[req[r].invite].kind = req[r].kind
  <1>1. /\ req[r].who \in Burners /\ req[r].invite \in Invites /\ req[r].seq \in Nat \ {0}
        /\ invite[req[r].invite].kind = req[r].kind
    BY RosterFacts DEF RosterRequest, RosterInv, Informed, RedeemCommit
  <1>2. \A b \in Burners : RoleAfterRedeem(r, b) \in RosterRole /\ role'[b] = RoleAfterRedeem(r, b)
    BY RosterFacts DEF RosterRows, RosterRole, MembershipRole, RoleAfterRedeem,
       InsertedRole, RedeemCommit
  <1>3. role' \in [Burners -> RosterRole]
    BY <1>2 DEF RedeemCommit
  <1>4. refCode' \in [Burners -> Nat]
    BY <1>1, RosterFacts DEF RosterRows, RedeemCommit
  <1>5. invite' = [invite EXCEPT ![req[r].invite] =
                     [invite[req[r].invite] EXCEPT !.used = TRUE, !.usedBy = req[r].who]]
    BY <1>1, RosterFacts DEF RosterRows, RosterInvite, RedeemCommit
  <1>6. invite' \in [Invites -> RosterInvite]
    BY <1>1, <1>5, RosterFacts DEF RosterRows, RosterInvite
  <1>7. \A i \in Invites : /\ invite'[i].kind = invite[i].kind
                           /\ invite'[i].minted = invite[i].minted
                           /\ i # req[r].invite => invite'[i] = invite[i]
    BY <1>1, <1>5, RosterFacts DEF RosterRows, RosterInvite
  <1>8. invite'[req[r].invite].used /\ invite'[req[r].invite].usedBy = req[r].who
    BY <1>1, <1>5, RosterFacts DEF RosterRows, RosterInvite
  <1> QED BY <1>1, <1>2, <1>3, <1>4, <1>6, <1>7, <1>8 DEF RosterRows

\* Redeeming gives the redeemer the sequence that no other member has.
LEMMA RedeemKeepsCodes ==
  ASSUME RosterInv, NEW r \in RosterRequests, RedeemCommit(r)
  PROVE  RefCodesIdentify'
  <1> DEFINE w == req[r].who
  <1>0. RosterRows /\ RefCodesIdentify /\ w \in Burners /\ req[r].seq \in Nat \ {0}
    BY RosterFacts, RedeemedRoster DEF RosterInv
  <1>1. CASE Inserts(r)
    <2>1. /\ refCode' = [refCode EXCEPT ![w] = req[r].seq]
          /\ \A b \in Burners : role[b] # "none" => refCode[b] # req[r].seq
      BY <1>1 DEF RedeemCommit, SequenceTaken, Members
    <2>2. \A b \in Burners \ {w} : role'[b] # "none" <=> role[b] # "none"
      BY <1>1, RedeemedRoster DEF RoleAfterRedeem, Promotes, Demotes
    <2>3. role'[w] # "none"
      BY <1>0, <1>1, RedeemedRoster DEF RoleAfterRedeem, InsertedRole
    <2> HIDE DEF w
    <2> QED BY <1>0, <2>1, <2>2, <2>3 DEF RefCodesIdentify, Members, RosterRows
  <1>2. CASE ~Inserts(r)
    <2>1. refCode' = refCode
      BY <1>2 DEF RedeemCommit
    <2>2. \A b \in Burners : role'[b] # "none" <=> role[b] # "none"
      BY <1>2, RedeemedRoster DEF RoleAfterRedeem, Promotes, Demotes
    <2> QED BY <1>0, <2>1, <2>2 DEF RefCodesIdentify, Members
  <1> QED BY <1>1, <1>2

\* Every step keeps the invariant.
LEMMA RosterStep ==
  ASSUME RosterInv, [RosterNext]_rosterVars
  PROVE  RosterInv'
  <1>0. /\ RosterRows /\ req \in [RosterRequests -> RosterRequest] /\ Founder \in Burners
        /\ MaxAttempts \in Nat \ {0} /\ Idle \in RosterRequest /\ Idle.op = "idle"
        /\ RefCodesIdentify
    BY RosterFacts DEF RosterInv
  <1>1. ASSUME NEW r \in RosterRequests, NEW b \in Burners, NEW kind \in InviteKind,
               MintRead(r, b, kind)
        PROVE  RosterInv'
    <2> DEFINE q == [Idle EXCEPT !.op = "mint", !.who = b, !.kind = kind]
    <2>1. q \in RosterRequest /\ q.op = "mint"
      BY <1>0 DEF RosterRequest
    <2>2. Informed(q, invite) /\ req' = [req EXCEPT ![r] = q]
      BY <1>1, <2>1 DEF Informed, MintRead, Begins
    <2> HIDE DEF q
    <2> QED BY <1>1, <2>1, <2>2, RosterReads DEF MintRead
  <1>2. ASSUME NEW r \in RosterRequests, NEW i \in Invites, Mint(r, i)
        PROVE  RosterInv'
    <2>1. /\ invite' = [invite EXCEPT ![i] = [invite[i] EXCEPT !.minted = TRUE, !.kind = req[r].kind]]
          /\ req[r].kind \in InviteKind /\ invite[i] \in RosterInvite /\ ~invite[i].minted
      BY <1>0, <1>2 DEF Mint, RosterRequest, RosterRows
    <2>2. invite' \in [Invites -> RosterInvite]
      BY <1>0, <2>1 DEF RosterRows, RosterInvite
    <2>3. \A j \in Invites : invite[j].minted => invite'[j].minted /\ invite'[j].kind = invite[j].kind
      BY <1>0, <2>1 DEF RosterRows
    <2>4. /\ req' \in [RosterRequests -> RosterRequest]
          /\ \A s \in RosterRequests : Informed(req'[s], invite')
      BY <1>2, <2>2, <2>3, InvitesChange DEF Mint
    <2> QED BY <1>0, <1>2, <2>2, <2>4, RosterFacts, RosterTypes
            DEF Mint, RosterRows, RosterInv, RefCodesIdentify, Members
  <1>3. ASSUME NEW r \in RosterRequests, NEW b \in Burners, NEW i \in Invites, RevokeRead(r, b, i)
        PROVE  RosterInv'
    <2> DEFINE q == [Idle EXCEPT !.op = "revoke", !.who = b, !.invite = i]
    <2>1. q \in RosterRequest /\ q.op = "revoke" /\ q.invite = i
      BY <1>0 DEF RosterRequest
    <2>2. Informed(q, invite) /\ req' = [req EXCEPT ![r] = q]
      BY <1>3, <2>1 DEF Informed, RevokeRead, Begins
    <2> HIDE DEF q
    <2> QED BY <1>3, <2>1, <2>2, RosterReads DEF RevokeRead
  <1>4. ASSUME NEW r \in RosterRequests, Revoke(r)
        PROVE  RosterInv'
    <2> DEFINE i == req[r].invite
    <2>1. i \in Invites /\ invite[i] \in RosterInvite
      BY <1>0, <1>4 DEF Revoke, RosterInv, Informed, RosterRows
    <2>2. invite' = [invite EXCEPT ![i] = [invite[i] EXCEPT !.used = TRUE, !.usedBy = Nobody]]
      BY <1>0, <1>4, <2>1 DEF Revoke, RosterRows
    <2> HIDE DEF i
    <2>3. invite' \in [Invites -> RosterInvite]
      BY <1>0, <2>1, <2>2 DEF RosterRows, RosterInvite
    <2>4. \A j \in Invites : invite[j].minted => invite'[j].minted /\ invite'[j].kind = invite[j].kind
      BY <1>0, <2>1, <2>2 DEF RosterRows, RosterInvite
    <2>5. /\ req' \in [RosterRequests -> RosterRequest]
          /\ \A s \in RosterRequests : Informed(req'[s], invite')
      BY <1>4, <2>3, <2>4, InvitesChange DEF Revoke
    <2> QED BY <1>0, <1>4, <2>3, <2>5, RosterFacts, RosterTypes
            DEF Revoke, RosterRows, RosterInv, RefCodesIdentify, Members
  <1>5. ASSUME NEW r \in RosterRequests, NEW b \in Burners, NEW i \in Invites, RedeemRead(r, b, i)
        PROVE  RosterInv'
    <2> DEFINE q == [Idle EXCEPT !.op = "redeem", !.who = b, !.invite = i, !.role = role[b],
                                        !.kind = invite[i].kind]
    <2>1. role[b] \in RosterRole /\ invite[i].kind \in InviteKind
      BY <1>0 DEF RosterRows, RosterInvite
    <2>2. q \in RosterRequest /\ q.op = "redeem" /\ q.invite = i /\ q.kind = invite[i].kind
      BY <1>0, <2>1 DEF RosterRequest
    <2>3. Informed(q, invite) /\ req' = [req EXCEPT ![r] = q]
      BY <1>5, <2>2 DEF Informed, RedeemRead, Begins, CanRedeemInviteAs
    <2> HIDE DEF q
    <2> QED BY <1>5, <2>2, <2>3, RosterReads DEF RedeemRead
  <1>6. ASSUME NEW r \in RosterRequests, RedeemOpen(r)
        PROVE  RosterInv'
    <2> DEFINE q == [req[r] EXCEPT !.op = "claim", !.saw = Leads,
                                   !.seq = NextSequence, !.attempts = 1]
    <2>1. Leads \in SUBSET Burners /\ NextSequence \in Nat \ {0} /\ 1 \in 0..MaxAttempts
      BY <1>0, NextSequenceFacts DEF Leads
    <2>2. /\ q \in RosterRequest /\ q.op = "claim" /\ q.seq = NextSequence
          /\ q.invite = req[r].invite /\ q.kind = req[r].kind
      BY <1>0, <2>1 DEF RosterRequest
    <2>3. Informed(q, invite)
      BY <1>6, <2>1, <2>2 DEF RosterInv, Informed, RedeemOpen
    <2>4. req' = [req EXCEPT ![r] = q]
      BY <1>0, <1>6 DEF RedeemOpen
    <2> HIDE DEF q
    <2> QED BY <1>6, <2>2, <2>3, <2>4, RosterReads DEF RedeemOpen
  <1>7. ASSUME NEW r \in RosterRequests, RetryRefCode(r)
        PROVE  RosterInv'
    <2> DEFINE q == [req[r] EXCEPT !.seq = NextSequence, !.attempts = @ + 1]
    <2>1. NextSequence \in Nat \ {0} /\ req[r].attempts + 1 \in 0..MaxAttempts
      BY <1>0, <1>7, NextSequenceFacts DEF RetryRefCode, MoreAttempts, RosterRequest
    <2>2. /\ q \in RosterRequest /\ q.op = "claim" /\ q.seq = NextSequence
          /\ q.invite = req[r].invite /\ q.kind = req[r].kind
      BY <1>0, <1>7, <2>1 DEF RosterRequest, RetryRefCode
    <2>3. Informed(q, invite)
      BY <1>7, <2>1, <2>2 DEF RosterInv, Informed, RetryRefCode
    <2>4. req' = [req EXCEPT ![r] = q]
      BY <1>0, <1>7 DEF RetryRefCode
    <2> HIDE DEF q
    <2> QED BY <1>7, <2>2, <2>3, <2>4, RosterReads DEF RetryRefCode
  <1>8. ASSUME NEW r \in RosterRequests, RedeemCommit(r)
        PROVE  RosterInv'
    <2>1. RosterRows' /\ Finishes(r)
      BY <1>8, RedeemedRoster DEF RedeemCommit
    <2>2. \A i \in Invites : invite[i].minted => invite'[i].minted /\ invite'[i].kind = invite[i].kind
      BY <1>8, RedeemedRoster
    <2>3. /\ req' \in [RosterRequests -> RosterRequest]
          /\ \A s \in RosterRequests : Informed(req'[s], invite')
      BY <2>1, <2>2, InvitesChange DEF RosterRows
    <2> QED BY <1>8, <2>1, <2>3, RedeemKeepsCodes, RosterFacts, RosterTypes DEF RosterInv
  <1>9. ASSUME NEW r \in RosterRequests, NEW b \in Burners, LeaveRead(r, b)
        PROVE  RosterInv'
    <2> DEFINE q == [Idle EXCEPT !.op = IF role[b] = "lead" THEN "count" ELSE "leave",
                                        !.who = b, !.role = role[b], !.saw = Members]
    <2>1. role[b] \in RosterRole /\ Members \in SUBSET Burners
      BY <1>0 DEF RosterRows, Members
    <2>2. /\ q \in RosterRequest /\ q.role = role[b]
          /\ q.op = IF role[b] = "lead" THEN "count" ELSE "leave"
      BY <1>0, <2>1 DEF RosterRequest
    <2>3. Informed(q, invite) /\ req' = [req EXCEPT ![r] = q]
      BY <1>9, <2>2 DEF Informed, LeaveRead, Begins
    <2> HIDE DEF q
    <2> QED BY <1>9, <2>2, <2>3, RosterReads DEF LeaveRead
  <1>10. ASSUME NEW r \in RosterRequests, LeaveCount(r)
         PROVE  RosterInv'
    <2> DEFINE q == [req[r] EXCEPT !.op = "leave", !.saw = Members]
    <2>1. Members \in SUBSET Burners
      BY DEF Members
    <2>2. q \in RosterRequest /\ q.op = "leave" /\ q.saw = Members /\ q.who = req[r].who
      BY <1>0, <2>1 DEF RosterRequest
    <2>3. Informed(q, invite)
      BY <1>10, <2>2 DEF Informed, LeaveCount, NoOthers
    <2>4. req' = [req EXCEPT ![r] = q]
      BY <1>0, <1>10 DEF LeaveCount
    <2> HIDE DEF q
    <2> QED BY <1>10, <2>2, <2>3, <2>4, RosterReads DEF LeaveCount
  <1>11. ASSUME NEW r \in RosterRequests, LeaveDelete(r)
         PROVE  RosterInv'
    <2>1. /\ req' \in [RosterRequests -> RosterRequest]
          /\ \A s \in RosterRequests : Informed(req'[s], invite')
      BY <1>0, <1>11, InvitesChange DEF LeaveDelete, RosterRows
    <2>2. RosterRows'
      BY <1>0, <1>11 DEF LeaveDelete, RosterRows, RosterRole
    <2>3. RefCodesIdentify'
      BY <1>0, <1>11 DEF LeaveDelete, RosterRows, RefCodesIdentify, Members
    <2> QED BY <2>1, <2>2, <2>3, RosterFacts, RosterTypes DEF RosterInv
  <1>12. ASSUME NEW r \in RosterRequests, RequestDies(r)
         PROVE  RosterInv'
    BY <1>0, <1>12, RosterReads DEF RequestDies, Finishes, Informed
  <1>13. ASSUME NEW i \in Invites, Expire(i)
         PROVE  RosterInv'
    <2>1. invite' = [invite EXCEPT ![i] = [invite[i] EXCEPT !.expired = TRUE]]
      BY <1>13 DEF Expire
    <2>2. invite' \in [Invites -> RosterInvite]
      BY <1>0, <2>1 DEF RosterRows, RosterInvite
    <2>3. \A j \in Invites : invite[j].minted => invite'[j].minted /\ invite'[j].kind = invite[j].kind
      BY <1>0, <2>1 DEF RosterRows, RosterInvite
    <2>4. \A s \in RosterRequests : Informed(req[s], invite')
      BY <2>3, StaysInformed
    <2> QED BY <1>0, <1>13, <2>2, <2>4, RosterFacts, RosterTypes
            DEF Expire, RosterRows, RosterInv, RefCodesIdentify, Members
  <1>14. CASE UNCHANGED rosterVars
    BY <1>0, <1>14, RosterFacts, RosterTypes
       DEF rosterVars, RosterInv, RosterRows, RefCodesIdentify, Members
  <1> QED
    BY <1>1, <1>2, <1>3, <1>4, <1>5, <1>6, <1>7, <1>8, <1>9, <1>10, <1>11, <1>12, <1>13, <1>14
       DEF RosterNext

\* However redemptions, revocations, code attempts and departures overlap, the roster
\* stays typed and a request in flight still knows what its reading told it.
THEOREM RosterInvariance == RosterSpec => []RosterInv
  <1>1. RosterInit => RosterInv
    BY RosterStarts
  <1> QED BY <1>1, RosterStep, PTL DEF RosterSpec

\* Every table and every request of the roster keeps its type.
THEOREM RosterTypeCorrect == RosterSpec => []RosterTypeOK
  <1>1. RosterInv => RosterTypeOK
    BY DEF RosterInv
  <1> QED BY <1>1, RosterInvariance, PTL

\* A payment reference names one member of the camp, and every member has one:
\* two joins that read the same sequence cannot both commit it.
THEOREM RefCodesAreUnique == RosterSpec => []RefCodesIdentify
  <1>1. RosterInv => RefCodesIdentify
    BY DEF RosterInv
  <1> QED BY <1>1, RosterInvariance, PTL

---------------------------------------------------------------------------
(* What the steps of the roster may do.                                    *)

\* The steps that write the memberships or the invites.
LEMMA RosterWriters ==
  ASSUME [RosterNext]_rosterVars
  PROVE  \/ role' = role /\ invite' = invite
         \/ \E r \in RosterRequests :
              \/ \E i \in Invites : Mint(r, i)
              \/ Revoke(r) \/ RedeemCommit(r) \/ LeaveDelete(r)
         \/ \E i \in Invites : Expire(i)
  <1>1. ASSUME NEW r \in RosterRequests, NEW b, NEW i, NEW kind,
               \/ MintRead(r, b, kind) \/ RevokeRead(r, b, i)
               \/ RedeemRead(r, b, i) \/ LeaveRead(r, b)
        PROVE  role' = role /\ invite' = invite
    BY <1>1 DEF MintRead, RevokeRead, RedeemRead, LeaveRead
  <1>2. ASSUME NEW r \in RosterRequests,
               \/ RedeemOpen(r) \/ RetryRefCode(r)
               \/ LeaveCount(r) \/ RequestDies(r)
        PROVE  role' = role /\ invite' = invite
    BY <1>2 DEF RedeemOpen, RetryRefCode, LeaveCount, RequestDies
  <1>3. CASE UNCHANGED rosterVars
    BY <1>3 DEF rosterVars
  <1> QED BY <1>1, <1>2, <1>3 DEF RosterNext

\* A role changes only as a redemption commits or a burner leaves.
LEMMA RosterRoles ==
  ASSUME [RosterNext]_rosterVars, role' # role
  PROVE  \E r \in RosterRequests : RedeemCommit(r) \/ LeaveDelete(r)
  BY RosterWriters DEF Mint, Revoke, Expire

\* A request that claims an invite and spends it commits.
LEMMA RedeemsCommit ==
  ASSUME RosterInv, [RosterNext]_rosterVars, NEW r \in RosterRequests, Redeems(r)
  PROVE  RedeemCommit(r)
  <1>0. req \in [RosterRequests -> RosterRequest] /\ req[r].op = "claim" /\ req'[r] # req[r]
        /\ invite' # invite
    BY RosterFacts DEF Redeems
  <1>1. PICK s \in RosterRequests : \/ RedeemCommit(s)
                                    \/ Revoke(s) \/ \E i \in Invites : Mint(s, i)
    BY <1>0, RosterWriters DEF Expire, LeaveDelete
  <1>2. Finishes(s)
    BY <1>1 DEF RedeemCommit, Revoke, Mint
  <1>3. s = r
    BY <1>0, <1>2 DEF Finishes
  <1> QED BY <1>0, <1>1, <1>3 DEF Revoke, Mint

\* What a redemption does to the role of its redeemer and of everybody else.
LEMMA RedeemedRoles ==
  ASSUME RosterInv, NEW r \in RosterRequests, RedeemCommit(r)
  PROVE  /\ req[r].role = role[req[r].who] /\ req[r].kind = "lead_transfer" =>
              role'[req[r].who] = "lead"
         /\ req[r].role = role[req[r].who] => role'[req[r].who] # "none"
         /\ \A b \in Burners \ {req[r].who} :
              role'[b] = IF Demotes(r, b) THEN "admin" ELSE role[b]
         /\ req[r].kind = "member" => \A b \in Burners : role[b] # "none" => role'[b] = role[b]
         /\ role'[req[r].who] # role[req[r].who] =>
              \/ role'[req[r].who] = "lead" /\ req[r].kind = "lead_transfer"
              \/ role'[req[r].who] = "member" /\ req[r].kind = "member"
              \/ role'[req[r].who] = "admin"
  <1>1. req[r].who \in Burners /\ req[r].kind \in {"member", "lead_transfer"}
    BY RosterFacts DEF RosterRequest, RosterInv, InviteKind
  <1> QED
    BY <1>1, RedeemedRoster
       DEF RoleAfterRedeem, Inserts, Promotes, Demotes, InsertedRole

\* Every arrival and every new lead spends an unspent invite of its kind, which is
\* theirs for good: the claim and the revocation write only where used_at is null.
THEOREM InvitesAreSpentOnce == RosterSpec => InviteSpentOnce
  <1> DEFINE SpentOnce ==
    /\ \A i \in Invites : invite[i].used => /\ invite'[i].used
                                            /\ invite'[i].usedBy = invite[i].usedBy
    /\ \A b \in Burners : role'[b] # role[b] /\ role'[b] \in {"lead", "member"} =>
         \E i \in Invites : /\ ~invite[i].used /\ invite'[i].usedBy = b
                            /\ role'[b] = "lead" <=> invite[i].kind = "lead_transfer"
  <1>1. RosterInv /\ [RosterNext]_rosterVars => [SpentOnce]_rosterVars
    <2> SUFFICES ASSUME RosterInv, [RosterNext]_rosterVars PROVE SpentOnce
      OBVIOUS
    <2>0. RosterRows
      BY RosterFacts
    <2>1. ASSUME NEW i \in Invites, invite[i].used
          PROVE  invite'[i].used /\ invite'[i].usedBy = invite[i].usedBy
      <3>1. ASSUME NEW r \in RosterRequests, RedeemCommit(r)
            PROVE  invite'[i] = invite[i]
        BY <2>1, <3>1, RedeemedRoster DEF RedeemCommit, Claims
      <3>2. ASSUME NEW r \in RosterRequests, Revoke(r)
            PROVE  invite'[i] = invite[i]
        BY <2>0, <2>1, <3>2 DEF Revoke, RevokeStillOpen, RosterRows
      <3>3. ASSUME NEW r \in RosterRequests, NEW j \in Invites, Mint(r, j)
            PROVE  invite'[i].used = invite[i].used /\ invite'[i].usedBy = invite[i].usedBy
        BY <2>0, <3>3 DEF Mint, RosterRows, RosterInvite
      <3>4. ASSUME NEW j \in Invites, Expire(j)
            PROVE  invite'[i].used = invite[i].used /\ invite'[i].usedBy = invite[i].usedBy
        BY <2>0, <3>4 DEF Expire, RosterRows, RosterInvite
      <3>5. CASE invite' = invite
        BY <2>1, <3>5
      <3> QED
        BY <2>1, <3>1, <3>2, <3>3, <3>4, <3>5, RosterWriters DEF LeaveDelete
    <2>2. ASSUME NEW b \in Burners, role'[b] # role[b], role'[b] \in {"lead", "member"}
          PROVE  \E i \in Invites : /\ ~invite[i].used /\ invite'[i].usedBy = b
                                    /\ role'[b] = "lead" <=> invite[i].kind = "lead_transfer"
      <3>1. PICK r \in RosterRequests : RedeemCommit(r) \/ LeaveDelete(r)
        BY <2>2, RosterRoles
      <3>2. RedeemCommit(r)
        BY <2>0, <2>2, <3>1 DEF LeaveDelete, RosterRows
      <3>3. b = req[r].who
        BY <2>2, <3>2, RedeemedRoles
      <3>4. req[r].kind = invite[req[r].invite].kind /\ req[r].invite \in Invites
            /\ invite'[req[r].invite].usedBy = b /\ ~invite[req[r].invite].used
        BY <3>2, <3>3, RedeemedRoster DEF RedeemCommit, Claims
      <3>5. role'[b] = "lead" <=> req[r].kind = "lead_transfer"
        BY <2>2, <3>2, <3>3, RedeemedRoles
      <3> QED BY <3>4, <3>5
    <2> QED BY <2>1, <2>2
  <1> QED BY <1>1, RosterInvariance, PTL DEF RosterSpec, InviteSpentOnce

\* An invite whose used_at is flipped yields the membership it granted, if the
\* redeemer's membership is the one read before the transaction.
THEOREM ClaimsYieldRoles == RosterSpec => ClaimYieldsRole
  <1> DEFINE Yields ==
    \A r \in RosterRequests : Redeems(r) =>
       LET b == req[r].who IN
         req[r].role = role[b] =>
           /\ role'[b] # "none"
           /\ req[r].kind = "lead_transfer" => role'[b] = "lead"
  <1>1. RosterInv /\ [RosterNext]_rosterVars => [Yields]_rosterVars
    BY RedeemsCommit, RedeemedRoles
  <1> QED BY <1>1, RosterInvariance, PTL DEF RosterSpec, ClaimYieldsRole

\* A transfer whose demotion saw every lead leaves the redeemer alone in it.
THEOREM TransfersLeaveOneLead == RosterSpec => TransferLeavesOneLead
  <1> DEFINE OneLead ==
    \A r \in RosterRequests :
       Redeems(r) /\ req[r].kind = "lead_transfer" /\ req[r].saw = Leads
         /\ req[r].role = role[req[r].who] =>
           \A b \in Burners : role'[b] = "lead" <=> b = req[r].who
  <1>1. RosterInv /\ [RosterNext]_rosterVars => [OneLead]_rosterVars
    <2> SUFFICES ASSUME RosterInv, [RosterNext]_rosterVars, NEW r \in RosterRequests,
                        Redeems(r), req[r].kind = "lead_transfer",
                        req[r].saw = Leads, req[r].role = role[req[r].who],
                        NEW b \in Burners
                 PROVE  role'[b] = "lead" <=> b = req[r].who
      OBVIOUS
    <2>1. RedeemCommit(r)
      BY RedeemsCommit
    <2>2. role[b] = "lead" => Demotes(r, b)
      BY DEF Demotes, Leads
    <2> QED BY <2>1, <2>2, RedeemedRoles
  <1> QED BY <1>1, RosterInvariance, PTL DEF RosterSpec, TransferLeavesOneLead

\* Only a leave or a redemption that acts on a membership read too early strands a
\* camp that has members without a lead.
THEOREM LeadsAreKept == RosterSpec => LeadOrStale
  <1> DEFINE Kept ==
    Leads # {} /\ Members' # {} /\ Leads' = {} =>
       \E r \in RosterRequests :
         /\ req[r].op \in {"leave", "claim"} /\ req'[r] = Idle
         /\ \/ req[r].role # role[req[r].who]
            \/ req[r].op = "leave" /\ req[r].saw # Members
  <1>1. RosterInv /\ [RosterNext]_rosterVars => [Kept]_rosterVars
    <2> SUFFICES ASSUME RosterInv, [RosterNext]_rosterVars, Leads # {},
                        Members' # {}, Leads' = {}
                 PROVE  \E r \in RosterRequests :
                          /\ req[r].op \in {"leave", "claim"} /\ req'[r] = Idle
                          /\ \/ req[r].role # role[req[r].who]
                             \/ req[r].op = "leave" /\ req[r].saw # Members
      OBVIOUS
    <2>0. /\ RosterRows /\ req \in [RosterRequests -> RosterRequest]
          /\ \A b \in Burners : role'[b] # "lead"
          /\ \E b \in Burners : role[b] = "lead"
          /\ \E b \in Burners : role'[b] # "none"
      BY RosterFacts DEF Leads, Members
    <2>1. PICK r \in RosterRequests : RedeemCommit(r) \/ LeaveDelete(r)
      BY <2>0, RosterRoles
    <2>2. req'[r] = Idle /\ req[r].op \in {"leave", "claim"} /\ req[r].who \in Burners
      BY <2>0, <2>1 DEF RedeemCommit, LeaveDelete, Finishes, RosterRequest
    <2>3. CASE RedeemCommit(r)
      <3>1. req[r].kind \in {"member", "lead_transfer"}
        BY <2>0 DEF RosterRequest, InviteKind
      <3>2. req[r].kind = "lead_transfer"
        BY <2>0, <2>3, <3>1, RedeemedRoles
      <3> QED BY <2>0, <2>2, <2>3, <3>2, RedeemedRoles
    <2>4. CASE LeaveDelete(r) /\ req[r].role = role[req[r].who] /\ req[r].saw = Members
      <3>1. \A b \in Burners : role'[b] = IF b = req[r].who THEN "none" ELSE role[b]
        BY <2>0, <2>2, <2>4 DEF LeaveDelete, RosterRows
      <3>2. req[r].role = "lead" /\ req[r].op = "leave"
        BY <2>0, <2>4, <3>1 DEF LeaveDelete
      <3>3. Members \subseteq {req[r].who}
        BY <2>4, <3>2 DEF RosterInv, Informed
      <3>4. \A b \in Burners : role[b] # "none" => b = req[r].who
        BY <3>3 DEF Members
      <3> QED BY <2>0, <3>1, <3>4
    <2> QED BY <2>1, <2>2, <2>3, <2>4 DEF LeaveDelete
  <1> QED BY <1>1, RosterInvariance, PTL DEF RosterSpec, LeadOrStale
================================================================================
