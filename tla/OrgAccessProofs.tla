---------------------------- MODULE OrgAccessProofs ----------------------------
(***************************************************************************)
(* Access to the console.  First its permission rules, which agree with    *)
(* one another for every actor: any roles, any departments and any         *)
(* ownership of the domains.  Then the memberships, for any accounts and   *)
(* any number of console actions and sign-ins in flight.                   *)
(***************************************************************************)
EXTENDS OrgAccess, TLAPS

---------------------------------------------------------------------------
(* Reach.                                                                  *)

\* What may be done somewhere may be done anywhere that a guard admits.
LEMMA SomewhereIsAnywhere ==
  ASSUME NEW actor, NEW c, NEW department, OrgCanIn(actor, c, department)
  PROVE  OrgCan(actor, c)
  BY DEF OrgCanIn, OrgCan, Granting

\* A grant that is not confined to departments reaches every one, and none.
LEMMA UnconfinedReachesAll ==
  ASSUME NEW actor, NEW c, NEW department,
         OrgCan(actor, c), ~IsDepartmentScopedGrant(actor, c)
  PROVE  OrgCanIn(actor, c, department)
  BY DEF OrgCan, OrgCanIn, IsDepartmentScopedGrant, IsRankCarveOut, ReachesEveryDepartment, Granting

\* A confined one reaches exactly the departments that grant it.
LEMMA ConfinedReachesItsOwn ==
  ASSUME NEW actor, NEW c, NEW department, IsDepartmentScopedGrant(actor, c)
  PROVE  OrgCanIn(actor, c, department) <=> department \in DepartmentsGranting(actor, c)
  <1>1. OrgCanIn(actor, c, department) =>
          \E r \in Granting(actor, c) : department # Null /\ r.department = department
    BY DEF IsDepartmentScopedGrant, OrgCanIn
  <1>2. ~IsRankCarveOut(actor, c)
    BY DEF IsDepartmentScopedGrant, OrgCan
  <1>3. department \in DepartmentsGranting(actor, c) =>
          \E r \in Granting(actor, c) : department # Null /\ r.department = department
    BY DEF DepartmentsGranting
  <1>4. department # Null /\ (\E r \in Granting(actor, c) : r.department = department) =>
          department \in DepartmentsGranting(actor, c)
    BY DEF DepartmentsGranting
  <1> QED
    BY <1>1, <1>2, <1>3, <1>4 DEF OrgCanIn

\* A confined grant has a department, and no null one.
LEMMA ConfinedHasDepartments ==
  ASSUME NEW actor, NEW c, IsDepartmentScopedGrant(actor, c)
  PROVE  DepartmentsGranting(actor, c) # {} /\ Null \notin DepartmentsGranting(actor, c)
  <1>1. PICK r \in Granting(actor, c) : TRUE
    BY DEF IsDepartmentScopedGrant, OrgCan
  <1>2. r.department \in DepartmentsGranting(actor, c)
    BY <1>1 DEF DepartmentsGranting, IsDepartmentScopedGrant
  <1> QED
    BY <1>2 DEF DepartmentsGranting

\* The domains of a confined grant are those whose owner grants it.
LEMMA DomainsOfLine ==
  ASSUME NEW actor, NEW c, IsDepartmentScopedGrant(actor, c), NEW domain
  PROVE  domain \in SummaryLine(actor, c).domains <=>
           domain \in Domains /\ actor.domains[domain] \in DepartmentsGranting(actor, c)
  BY DEF SummaryLine, DomainsOwnedBy

---------------------------------------------------------------------------
(* The theorems.                                                           *)

\* The summary on the accounts screen is exact (summarizeOrgActor).
THEOREM SummariesAreExact == \A actor \in OrgActor : SummaryIsExact(actor)
<1> SUFFICES ASSUME NEW actor \in OrgActor PROVE SummaryIsExact(actor)
  OBVIOUS
<1>1. ASSUME NEW c \in ORG_CAPABILITIES
      PROVE  OrgCan(actor, c) <=> \E line \in SummarizeOrgActor(actor) : line.capability = c
  <2>1. \A k : SummaryLine(actor, k).capability = k
    BY DEF SummaryLine
  <2> QED
    BY <2>1 DEF SummarizeOrgActor
<1>2. ASSUME NEW line \in SummarizeOrgActor(actor)
      PROVE  IF line.everywhere
               THEN \A d \in Domains \cup {Null} : OrgCanInDomain(actor, line.capability, d)
               ELSE /\ line.departments # {}
                    /\ \A d \in Domains \cup {Null} :
                         OrgCanInDomain(actor, line.capability, d) <=> d \in line.domains
  <2>1. PICK c \in ORG_CAPABILITIES : OrgCan(actor, c) /\ line = SummaryLine(actor, c)
    BY DEF SummarizeOrgActor
  <2>2. line.capability = c /\ (line.everywhere <=> ~IsDepartmentScopedGrant(actor, c))
    BY <2>1 DEF SummaryLine
  <2>3. CASE ~IsDepartmentScopedGrant(actor, c)
    BY <2>1, <2>2, <2>3, UnconfinedReachesAll DEF OrgCanInDomain
  <2>4. CASE IsDepartmentScopedGrant(actor, c)
    <3>1. line.departments # {}
      BY <2>1, <2>4, ConfinedHasDepartments DEF SummaryLine
    <3>2. ASSUME NEW d \in Domains \cup {Null}
          PROVE  OrgCanInDomain(actor, c, d) <=> d \in line.domains
      <4>1. d \in line.domains <=> d \in Domains /\ actor.domains[d] \in DepartmentsGranting(actor, c)
        BY <2>1, <2>4, DomainsOfLine
      <4>2. OrgCanInDomain(actor, c, d) <=> DepartmentForDomain(actor, d) \in DepartmentsGranting(actor, c)
        BY <2>4, ConfinedReachesItsOwn DEF OrgCanInDomain
      <4>3. Null \notin DepartmentsGranting(actor, c)
        BY <2>4, ConfinedHasDepartments
      <4> QED
        BY <4>1, <4>2, <4>3, PermissionsAssumption DEF DepartmentForDomain
    <3> QED
      BY <2>2, <2>4, <3>1, <3>2
  <2> QED
    BY <2>3, <2>4
<1> QED
  BY <1>1, <1>2 DEF SummaryIsExact

\* Whoever is refused is told a true reason (orgCapabilityRefusal, scopeReason).
THEOREM RefusalsAreTrue ==
  \A actor \in OrgActor, c \in ORG_CAPABILITIES, domain \in Domains \cup {Null} :
    RefusalIsTrue(actor, c, domain)
<1> SUFFICES ASSUME NEW actor \in OrgActor, NEW c \in ORG_CAPABILITIES,
                    NEW domain \in Domains \cup {Null}, ~OrgCanInDomain(actor, c, domain)
             PROVE  RefusalIsTrue(actor, c, domain)
  BY DEF RefusalIsTrue
<1> DEFINE why == OrgCapabilityRefusal(actor, c, domain)
<1>1. OrgCan(actor, c) => IsDepartmentScopedGrant(actor, c)
  BY UnconfinedReachesAll DEF OrgCanInDomain
<1>2. IsDepartmentScopedGrant(actor, c) =>
        /\ OrgCan(actor, c)
        /\ actor.roles # {} /\ ~IsRankCarveOut(actor, c)
        /\ why = ScopeReason(actor, domain)
  BY DEF IsDepartmentScopedGrant, OrgCan, Granting, OrgCapabilityRefusal
<1>3. ~IsDepartmentScopedGrant(actor, c) => why \in {"rank", "no roles", "not granted"}
  BY DEF OrgCapabilityRefusal
<1>4. ScopeReason(actor, domain) \in {"unowned", "elsewhere", "unnamed"}
  BY DEF ScopeReason
<1>5. why \in {"unowned", "elsewhere", "unnamed"} <=> OrgCan(actor, c)
  BY <1>1, <1>2, <1>3, <1>4
<1>6. ASSUME why = "unowned"
      PROVE  \A d \in Departments : domain \notin DomainsOwnedBy(actor, d)
  <2>1. domain # Null /\ actor.domains[domain] = Null
    BY <1>2, <1>3, <1>6 DEF ScopeReason, DepartmentForDomain
  <2> QED
    BY <2>1, PermissionsAssumption DEF DomainsOwnedBy
<1>7. ASSUME why = "elsewhere"
      PROVE  /\ actor.domains[domain] \in Departments
             /\ actor.domains[domain] \notin DepartmentsGranting(actor, c)
  <2>1. /\ IsDepartmentScopedGrant(actor, c)
        /\ domain # Null /\ actor.domains[domain] # Null
    BY <1>2, <1>3, <1>7 DEF ScopeReason, DepartmentForDomain
  <2>2. actor.domains[domain] \in Departments
    BY <2>1 DEF OrgActor, DomainOwnership
  <2>3. ~OrgCanIn(actor, c, actor.domains[domain])
    BY <2>1 DEF OrgCanInDomain, DepartmentForDomain
  <2> QED
    BY <2>1, <2>2, <2>3, ConfinedReachesItsOwn
<1>8. ASSUME why = "rank", NEW r \in OrgRoleGrant
      PROVE  ~OrgCan([actor EXCEPT !.roles = @ \cup {r}], c)
  <2>1. IsRankCarveOut(actor, c)
    BY <1>2, <1>8, <1>4 DEF OrgCapabilityRefusal
  <2>2. [actor EXCEPT !.roles = @ \cup {r}].rank = "engineer"
    BY <2>1 DEF IsRankCarveOut, OrgActor
  <2> QED
    BY <2>1, <2>2 DEF OrgCan, IsSystemManager, IsRankCarveOut
<1> QED
  BY <1>5, <1>6, <1>7, <1>8 DEF RefusalIsTrue

\* A department's staff act where their department owns the screen, and nowhere
\* else (orgCanInDomain).
THEOREM DepartmentsConfine ==
  \A actor \in OrgActor, department \in Departments : DepartmentConfines(actor, department)
<1> SUFFICES ASSUME NEW actor \in OrgActor, NEW department \in Departments,
                    actor.rank = "org_staff", \A r \in actor.roles : r.department = department,
                    NEW c \in ORG_CAPABILITIES, NEW d \in Domains \cup {Null},
                    OrgCanInDomain(actor, c, d)
             PROVE  d \in DomainsOwnedBy(actor, department)
  BY DEF DepartmentConfines
<1>1. DepartmentForDomain(actor, d) # Null /\ DepartmentForDomain(actor, d) = department
  BY PermissionsAssumption
     DEF OrgCanInDomain, OrgCanIn, Granting, IsSystemManager, ReachesEveryDepartment
<1> QED
  BY <1>1, PermissionsAssumption DEF DepartmentForDomain, DomainsOwnedBy
---------------------------------------------------------------------------
(* Access to the console: what its processes have read and may still do.   *)

MaybeMembership == Membership \cup {NoMembership}

Process ==
  [op : {"idle"}]
  \cup [op : {"elevate", "demote"}, account : Accounts, rank : GrantableRank, seen : MaybeMembership]
  \cup [op : {"assign"}, account : Accounts, chosen : SUBSET OrgRoles, seen : MaybeMembership]
  \cup [op : {"web", "org"}, account : Accounts, seen : MaybeMembership]

AccessType ==
  /\ membership \in [Accounts -> MaybeMembership]
  /\ inserted \in 0..MaxRows
  /\ erased \subseteq Accounts
  /\ process \in [Processes -> Process]

\* Ids are given out in order, and one account has each.
IdsIdentify ==
  /\ \A a \in Accounts : membership[a].id <= inserted
  /\ \A a, b \in Accounts : HasRow(a) /\ membership[a].id = membership[b].id => a = b

\* What a panel action read passed its guard: no System manager, and for the roles
\* of an account a row to give them to.
PassedGuard(r) ==
  /\ r.op \in {"elevate", "demote"} => r.seen.role # "god"
  /\ r.op = "assign" => r.seen.id # 0

GuardsPassed == \A p \in Processes : PassedGuard(process[p])

AccessInv ==
  /\ AccessType
  /\ IdsIdentify
  /\ GuardsPassed

\* What each kind of process holds.
LEMMA ProcessFields ==
  ASSUME NEW r \in Process
  PROVE  /\ r.op \in {"idle", "elevate", "demote", "assign", "web", "org"}
         /\ r.op # "idle" => r.account \in Accounts /\ r.seen \in MaybeMembership
         /\ r.op \in {"elevate", "demote"} => r.rank \in GrantableRank
         /\ r.op = "assign" =>
              /\ r = [op |-> "assign", account |-> r.account, chosen |-> r.chosen, seen |-> r.seen]
              /\ r.chosen \subseteq OrgRoles
  BY DEF Process

\* A row has an id from 1 on, a role and console roles; none has the id 0.
LEMMA RowFacts ==
  /\ NoMembership.id = 0 /\ NoMembership.role = "none" /\ NoMembership.roles = {}
  /\ NoMembership \notin Membership
  /\ \A m \in Membership : m.id \in 1..MaxRows /\ m.role \in MembershipRole /\ m.roles \subseteq OrgRoles
  /\ "god" \notin GrantableRank /\ GrantableRank \subseteq MembershipRole
  /\ GrantableRank \subseteq OrgRoles /\ "none" \notin MembershipRole
  BY DEF NoMembership, Membership, MembershipRole, GrantableRank, OrgRoles

\* A process without a request.
LEMMA IdleIsProcess == IdleProcess \in Process /\ IdleProcess.op = "idle"
  BY DEF IdleProcess, Process

\* A process that forgets deleted assignments still does what it was doing.
LEMMA ForgettingKeeps ==
  ASSUME AccessType, NEW q \in Processes, NEW a \in Accounts, NEW gone
  PROVE  /\ Forgets(q, a, gone) \in Process
         /\ Forgets(q, a, gone).op = process[q].op
         /\ process[q].op # "assign" => Forgets(q, a, gone) = process[q]
         /\ process[q].op = "assign" => Forgets(q, a, gone).seen.id = process[q].seen.id
  <1>1. process[q] \in Process
    BY DEF AccessType
  <1>2. CASE process[q].op = "assign"
    <2> DEFINE r == process[q]
    <2>1. /\ r = [op |-> "assign", account |-> r.account, chosen |-> r.chosen, seen |-> r.seen]
          /\ r.account \in Accounts /\ r.chosen \subseteq OrgRoles /\ r.seen \in MaybeMembership
      BY <1>1, <1>2, ProcessFields
    <2> DEFINE s == [r.seen EXCEPT !.roles = @ \ gone]
    <2>2. s \in MaybeMembership
      BY <2>1 DEF MaybeMembership, Membership, NoMembership
    <2>3. [r EXCEPT !.seen.roles = @ \ gone]
            = [op |-> "assign", account |-> r.account, chosen |-> r.chosen, seen |-> s]
      BY <2>1
    <2> HIDE DEF s
    <2>4. [r EXCEPT !.seen.roles = @ \ gone] \in Process
      BY <2>1, <2>2, <2>3 DEF Process
    <2>5. s.id = r.seen.id
      BY <2>1 DEF s, MaybeMembership, Membership, NoMembership
    <2> QED BY <1>1, <1>2, <2>3, <2>4, <2>5 DEF Forgets
  <1>3. CASE process[q].op # "assign"
    BY <1>1, <1>3 DEF Forgets
  <1> QED BY <1>2, <1>3

\* An upsert gives one account a row of the role asked for: its own, or a new one
\* with the next id.
LEMMA UpsertFacts ==
  ASSUME AccessType, IdsIdentify, NEW a \in Accounts, NEW role \in MembershipRole,
         NEW seeded \in SUBSET OrgRoles, Upsert(a, role, seeded)
  PROVE  /\ membership' \in [Accounts -> MaybeMembership] /\ inserted' \in 0..MaxRows
         /\ IdsIdentify'
         /\ \A b \in Accounts \ {a} : membership'[b] = membership[b]
         /\ membership'[a] # NoMembership /\ membership'[a].role = role
         /\ membership'[a].roles = membership[a].roles \cup seeded
         /\ HasRow(a) => membership'[a].id = membership[a].id
  <1> DEFINE row == [id |-> IF HasRow(a) THEN membership[a].id ELSE inserted', role |-> role,
                     roles |-> membership[a].roles \cup seeded]
  <1>1. /\ inserted' = IF HasRow(a) THEN inserted ELSE inserted + 1
        /\ inserted' <= MaxRows
        /\ membership' = [membership EXCEPT ![a] = row]
    BY DEF Upsert
  <1>2. /\ membership[a] \in MaybeMembership /\ inserted \in Nat /\ MaxRows \in Nat
        /\ HasRow(a) => membership[a] \in Membership
    BY OrgAssumption DEF AccessType, HasRow, MaybeMembership
  <1>3. membership[a].roles \subseteq OrgRoles
    BY <1>2, RowFacts DEF MaybeMembership
  <1>4. inserted' \in 0..MaxRows
    BY <1>1, <1>2
  <1>5. row.id \in 1..MaxRows
    BY <1>1, <1>2, RowFacts
  <1>6. row \in Membership
    BY <1>3, <1>5 DEF Membership
  <1>7. membership' \in [Accounts -> MaybeMembership] /\ membership'[a] = row
    BY <1>1, <1>6 DEF AccessType, MaybeMembership
  <1>8. \A b \in Accounts \ {a} : membership'[b] = membership[b]
    BY <1>1 DEF AccessType
  <1>9. row # NoMembership
    BY <1>6, RowFacts
  <1>10. IdsIdentify'
    <2>0. \A b \in Accounts : membership[b].id \in Nat
      BY RowFacts DEF AccessType, MaybeMembership
    <2>1. \A b \in Accounts : membership'[b].id <= inserted'
      BY <1>1, <1>2, <1>7, <1>8, <2>0 DEF IdsIdentify
    <2>2. ASSUME NEW b \in Accounts, NEW c \in Accounts, HasRow(b)',
                 membership'[b].id = membership'[c].id
          PROVE  b = c
      <3>1. CASE b # a /\ c # a
        BY <1>8, <2>2, <3>1 DEF IdsIdentify, HasRow
      <3>2. CASE HasRow(a)
        BY <1>1, <1>7, <1>8, <2>2, <3>2 DEF IdsIdentify, HasRow
      <3>3. CASE ~HasRow(a) /\ (b = a \/ c = a)
        BY <1>1, <1>2, <1>7, <1>8, <2>0, <2>2, <3>3 DEF IdsIdentify, HasRow
      <3> QED BY <3>1, <3>2, <3>3
    <2> QED BY <2>1, <2>2 DEF IdsIdentify
  <1> QED BY <1>4, <1>7, <1>8, <1>9, <1>10 DEF HasRow

\* Changing nothing but the role and the assignments of a row that exists keeps
\* the table in order, as does deleting the row.
LEMMA RowKeeps ==
  ASSUME AccessType, IdsIdentify, NEW a \in Accounts, NEW row \in MaybeMembership,
         row = NoMembership \/ (HasRow(a) /\ row.id = membership[a].id),
         membership' = [membership EXCEPT ![a] = row], inserted' = inserted
  PROVE  membership' \in [Accounts -> MaybeMembership] /\ IdsIdentify'
  <1>1. membership' \in [Accounts -> MaybeMembership]
    BY DEF AccessType
  <1>2. \A b \in Accounts : membership'[b] = IF b = a THEN row ELSE membership[b]
    BY DEF AccessType
  <1>3. \A b \in Accounts : membership[b].id \in Nat /\ (HasRow(b) <=> membership[b].id # 0)
    BY RowFacts DEF AccessType, MaybeMembership, HasRow
  <1>4. inserted \in Nat
    BY DEF AccessType
  <1> QED BY <1>1, <1>2, <1>3, <1>4, RowFacts DEF IdsIdentify, HasRow

\* The invariant holds before anybody has access.
LEMMA AccessStarts == Init => AccessInv
  <1> SUFFICES ASSUME Init PROVE AccessInv
    OBVIOUS
  <1>1. AccessType
    BY IdleIsProcess, OrgAssumption DEF Init, AccessType, MaybeMembership
  <1>2. IdsIdentify
    BY RowFacts DEF Init, IdsIdentify, HasRow
  <1>3. GuardsPassed
    BY IdleIsProcess DEF Init, GuardsPassed, PassedGuard
  <1> QED BY <1>1, <1>2, <1>3 DEF AccessInv

\* A read only takes up a process.
LEMMA AccessReads ==
  ASSUME AccessInv, NEW p \in Processes, NEW r \in Process, Begin(p, r),
         PassedGuard(r),
         UNCHANGED <<membership, inserted, erased>>
  PROVE  AccessInv'
  BY DEF AccessInv, AccessType, IdsIdentify, GuardsPassed, HasRow, Begin

\* A process that ends leaves the others as they were.
LEMMA AccessEnds ==
  ASSUME AccessInv, NEW p \in Processes, End(p)
  PROVE  process' \in [Processes -> Process] /\ GuardsPassed'
  BY IdleIsProcess DEF AccessInv, AccessType, GuardsPassed, PassedGuard, End

\* Deleted assignments change what some process has seen, not what it may do.
LEMMA ForgettingEnds ==
  ASSUME AccessInv, NEW a \in Accounts, NEW gone, process' = [q \in Processes |-> process'[q]],
         \A q \in Processes : process'[q] = IdleProcess \/ process'[q] = Forgets(q, a, gone)
  PROVE  process' \in [Processes -> Process] /\ GuardsPassed'
  <1>1. ASSUME NEW q \in Processes
        PROVE  /\ process'[q] \in Process
               /\ PassedGuard(process'[q])
    BY ForgettingKeeps, IdleIsProcess DEF AccessInv, GuardsPassed, PassedGuard
  <1> QED BY <1>1 DEF GuardsPassed

\* Every step keeps the invariant.
LEMMA AccessStep ==
  ASSUME AccessInv, [Next]_vars
  PROVE  AccessInv'
  <1>0. AccessType /\ IdsIdentify /\ \A a \in Accounts : membership[a] \in MaybeMembership
    BY DEF AccessInv, AccessType
  <1>1. ASSUME NEW p \in Processes, NEW op \in {"elevate", "demote"}, NEW a \in Accounts,
               NEW rank \in GrantableRank, PanelRead(p, op, a, rank)
        PROVE  AccessInv'
    <2> DEFINE r == [op |-> op, account |-> a, rank |-> rank, seen |-> membership[a]]
    <2>1. r \in Process
      BY <1>0 DEF Process
    <2> QED BY <1>1, <2>1, AccessReads DEF PanelRead, PanelOpenTo, Role, PassedGuard
  <1>2. ASSUME NEW p \in Processes, ElevateWrite(p)
        PROVE  AccessInv'
    <2> DEFINE r == process[p]
               seeded == IF r.seen = NoMembership THEN {r.rank} ELSE {}
    <2>1. r.account \in Accounts /\ r.rank \in GrantableRank
      BY <1>0, <1>2, ProcessFields DEF AccessType, ElevateWrite
    <2>2. seeded \subseteq OrgRoles /\ Upsert(r.account, r.rank, seeded) /\ End(p) /\ erased' = erased
      BY <1>2, <2>1, RowFacts DEF ElevateWrite
    <2> HIDE DEF seeded
    <2> QED BY <1>0, <2>1, <2>2, UpsertFacts, AccessEnds, RowFacts DEF AccessInv, AccessType
  <1>3. ASSUME NEW p \in Processes, DemoteWrite(p)
        PROVE  AccessInv'
    <2>1. process[p].account \in Accounts
      BY <1>0, <1>3, ProcessFields DEF AccessType, DemoteWrite
    <2>2. CASE StillHoldsDoor(p)
      BY <1>0, <1>3, <2>1, <2>2, RowKeeps, AccessEnds
         DEF DemoteWrite, AccessInv, AccessType, MaybeMembership
    <2>3. CASE ~StillHoldsDoor(p)
      BY <1>0, <1>3, <2>3, AccessEnds DEF DemoteWrite, AccessInv, AccessType, IdsIdentify, HasRow
    <2> QED BY <2>2, <2>3
  <1>4. ASSUME NEW p \in Processes, NEW a \in Accounts, NEW chosen \in SUBSET OrgRoles,
               AssignRead(p, a, chosen)
        PROVE  AccessInv'
    <2> DEFINE r == [op |-> "assign", account |-> a, chosen |-> chosen, seen |-> membership[a]]
    <2>1. r \in Process
      BY <1>0 DEF Process
    <2> QED BY <1>0, <1>4, <2>1, RowFacts, AccessReads DEF AssignRead, PassedGuard, HasRow, MaybeMembership
  <1>5. ASSUME NEW p \in Processes, AssignWrite(p)
        PROVE  AccessInv'
    <2> DEFINE r == process[p]
               a == r.account
               roles == (membership[a].roles \ Replaced(p)) \cup r.chosen
               row == [membership[a] EXCEPT !.roles = roles]
    <2>1. /\ a \in Accounts /\ r.chosen \subseteq OrgRoles
          /\ membership' = [membership EXCEPT ![a] = row]
          /\ process' = [q \in Processes |-> process'[q]]
          /\ \A q \in Processes :
               process'[q] = IdleProcess \/ process'[q] = Forgets(q, a, Replaced(p))
          /\ UNCHANGED <<inserted, erased>>
      BY <1>0, <1>5, ProcessFields DEF AccessType, AssignWrite
    <2>2. process' \in [Processes -> Process] /\ GuardsPassed'
      BY <2>1, ForgettingEnds
    <2>3. CASE HasRow(a)
      <3>1. membership[a] \in Membership
        BY <1>0, <2>1, <2>3 DEF MaybeMembership, HasRow
      <3>2. row \in MaybeMembership /\ row.id = membership[a].id
        BY <2>1, <3>1 DEF Membership, MaybeMembership
      <3> HIDE DEF row
      <3> QED BY <1>0, <2>1, <2>2, <2>3, <3>2, RowKeeps DEF AccessInv, AccessType
    <2>4. HasRow(a)
      BY <1>5, RowFacts DEF AssignWrite, AccessInv, GuardsPassed, PassedGuard, SameRow, HasRow
    <2> QED BY <2>3, <2>4
  <1>6. ASSUME NEW p \in Processes, NEW app \in {"web", "org"}, NEW a \in Accounts,
               BootstrapRead(p, app, a)
        PROVE  AccessInv'
    <2> DEFINE r == [op |-> app, account |-> a, seen |-> membership[a]]
    <2>1. r \in Process
      BY <1>0 DEF Process
    <2> QED BY <1>6, <2>1, AccessReads DEF BootstrapRead, PassedGuard
  <1>7. ASSUME NEW p \in Processes, BootstrapWeb(p) \/ BootstrapOrg(p)
        PROVE  AccessInv'
    <2> DEFINE a == process[p].account
               row == [membership[a] EXCEPT !.role = "god"]
    <2>1. a \in Accounts /\ End(p) /\ erased' = erased /\ "god" \in MembershipRole
      BY <1>0, <1>7, ProcessFields DEF AccessType, BootstrapWeb, BootstrapOrg, MembershipRole
    <2>2. CASE Upsert(a, "god", {})
      BY <1>0, <2>1, <2>2, UpsertFacts, AccessEnds DEF AccessInv, AccessType
    <2>3. CASE HasRow(a) /\ membership' = [membership EXCEPT ![a] = row] /\ inserted' = inserted
      <3>1. membership[a] \in Membership
        BY <1>0, <2>1, <2>3 DEF MaybeMembership, HasRow
      <3>2. row \in MaybeMembership /\ row.id = membership[a].id
        BY <2>1, <3>1 DEF Membership, MaybeMembership
      <3> HIDE DEF row
      <3> QED BY <1>0, <2>1, <2>3, <3>2, RowKeeps, AccessEnds DEF AccessInv, AccessType
    <2>4. \/ Upsert(a, "god", {})
          \/ HasRow(a) /\ membership' = [membership EXCEPT ![a] = row] /\ inserted' = inserted
      <3>1. process[p].seen # NoMembership /\ SameRow(p) => HasRow(a)
        <4>1. process[p].seen \in MaybeMembership
          BY <1>0, <1>7, ProcessFields DEF AccessType, BootstrapWeb, BootstrapOrg
        <4> QED BY <4>1, RowFacts DEF SameRow, HasRow, MaybeMembership
      <3> QED BY <1>7, <3>1 DEF BootstrapWeb, BootstrapOrg
    <2> QED BY <2>2, <2>3, <2>4
  <1>8. ASSUME NEW p \in Processes, Abandon(p)
        PROVE  AccessInv'
    BY <1>8, AccessEnds DEF Abandon, AccessInv, AccessType, IdsIdentify, HasRow
  <1>9. ASSUME NEW a \in Accounts, Erase(a)
        PROVE  AccessInv'
    <2>1. process' \in [Processes -> Process] /\ GuardsPassed'
      <3>1. /\ process' = [q \in Processes |-> process'[q]]
            /\ \A q \in Processes : process'[q] = Forgets(q, a, membership[a].roles)
        BY <1>9 DEF Erase
      <3> QED BY <3>1, ForgettingEnds
    <2>2. membership' \in [Accounts -> MaybeMembership] /\ IdsIdentify'
      <3> DEFINE row == [membership[a] EXCEPT !.role = "member", !.roles = {}]
      <3>1. CASE HasRow(a)
        <4>1. membership[a] \in Membership
          BY <1>0, <3>1 DEF MaybeMembership, HasRow
        <4>2. row \in MaybeMembership /\ row.id = membership[a].id
          BY <4>1 DEF Membership, MaybeMembership, MembershipRole
        <4>3. membership' = [membership EXCEPT ![a] = row]
          BY <1>9, <3>1 DEF Erase
        <4> HIDE DEF row
        <4> QED BY <1>0, <1>9, <3>1, <4>2, <4>3, RowKeeps DEF Erase
      <3>2. CASE ~HasRow(a)
        BY <1>0, <1>9, <3>2 DEF Erase, AccessType, IdsIdentify, HasRow
      <3> QED BY <3>1, <3>2
    <2> QED BY <1>9, <2>1, <2>2 DEF Erase, AccessInv, AccessType
  <1>10. CASE UNCHANGED vars
    BY <1>10 DEF vars, AccessInv, AccessType, IdsIdentify, GuardsPassed, HasRow
  <1> QED
    BY <1>1, <1>2, <1>3, <1>4, <1>5, <1>6, <1>7, <1>8, <1>9, <1>10 DEF Next

\* However assignments, rank changes, sign-ins and erasures overlap, the membership
\* rows and what each request read of them stay consistent.
THEOREM AccessInvariance == Spec => []AccessInv
  BY AccessStarts, AccessStep, PTL DEF Spec

---------------------------------------------------------------------------
(* What that gives.                                                        *)

\* Rows keep their type and their own id, whatever the console actions and the
\* bootstraps read before they write.
THEOREM AccessTypeCorrect == Spec => []TypeOK
  <1>1. AccessInv => TypeOK
    BY DEF AccessInv, AccessType, IdsIdentify, TypeOK, MaybeMembership
  <1> QED BY <1>1, AccessInvariance, PTL

\* The row of an account changes in one of few ways, each of one process or of an
\* erasure: what AccessChanges shows of every step.
Elevated(p, a) ==
  /\ ElevateWrite(p) /\ process[p].account = a
  /\ HasRow(a)'
  /\ membership'[a].role = process[p].rank
  /\ \/ HasRow(a) /\ membership'[a].id = membership[a].id
     \/ membership'[a].roles \subseteq {process[p].rank}

Removed(p, a) ==
  /\ DemoteWrite(p) /\ process[p].account = a
  /\ StillHoldsDoor(p)
  /\ membership'[a] = NoMembership

Assigned(p, a) ==
  /\ AssignWrite(p) /\ process[p].account = a
  /\ HasRow(a)' /\ membership'[a].id = membership[a].id
  /\ membership'[a].role = membership[a].role
  /\ membership'[a].roles = (membership[a].roles \ Replaced(p)) \cup process[p].chosen

Bootstrapped(a) ==
  /\ HasRow(a)' /\ membership'[a].role = "god"
  /\ \/ HasRow(a) /\ membership'[a].id = membership[a].id
     \/ membership'[a].roles = {}

Sanitized(a) ==
  /\ a \in erased'
  /\ HasRow(a)' /\ membership'[a].id = membership[a].id
  /\ \A p \in Processes : process[p].op = "assign" => process'[p].op = "assign"

LEMMA AccessChanges ==
  ASSUME AccessInv, [Next]_vars, NEW a \in Accounts, membership'[a] # membership[a]
  PROVE  \/ \E p \in Processes : Elevated(p, a) \/ Removed(p, a) \/ Assigned(p, a)
         \/ Bootstrapped(a)
         \/ Sanitized(a)
  <1>0. AccessType /\ IdsIdentify /\ \A b \in Accounts : membership[b] \in MaybeMembership
    BY DEF AccessInv, AccessType
  <1>1. ASSUME NEW p \in Processes, ElevateWrite(p)
        PROVE  Elevated(p, a)
    <2> DEFINE r == process[p]
               seeded == IF r.seen = NoMembership THEN {r.rank} ELSE {}
    <2>1. r.account \in Accounts /\ r.rank \in GrantableRank
      BY <1>0, <1>1, ProcessFields DEF AccessType, ElevateWrite
    <2>2. seeded \subseteq OrgRoles /\ seeded \subseteq {r.rank} /\ Upsert(r.account, r.rank, seeded)
      BY <1>1, <2>1, RowFacts DEF ElevateWrite
    <2> HIDE DEF seeded
    <2>3. /\ \A b \in Accounts \ {r.account} : membership'[b] = membership[b]
          /\ membership'[r.account] # NoMembership /\ membership'[r.account].role = r.rank
          /\ membership'[r.account].roles = membership[r.account].roles \cup seeded
          /\ HasRow(r.account) => membership'[r.account].id = membership[r.account].id
      <3>1. r.rank \in MembershipRole
        BY <2>1, RowFacts
      <3> HIDE DEF r
      <3> QED BY <1>0, <2>1, <2>2, <3>1, UpsertFacts
    <2>4. ~HasRow(r.account) => membership[r.account].roles = {}
      BY RowFacts DEF HasRow
    <2>5. a = r.account
      BY <2>3
    <2> QED BY <1>1, <2>2, <2>3, <2>4, <2>5 DEF Elevated, HasRow
  <1>2. ASSUME NEW p \in Processes, DemoteWrite(p)
        PROVE  Removed(p, a)
    BY <1>0, <1>2 DEF DemoteWrite, Removed, AccessType
  <1>3. ASSUME NEW p \in Processes, AssignWrite(p)
        PROVE  Assigned(p, a)
    <2>1. /\ process[p].account = a
          /\ membership'[a] = [membership[a] EXCEPT
               !.roles = (membership[a].roles \ Replaced(p)) \cup process[p].chosen]
      BY <1>0, <1>3 DEF AssignWrite, AccessType
    <2>2. membership[a].id # 0
      BY <1>3, <2>1 DEF AssignWrite, SameRow, AccessInv, GuardsPassed, PassedGuard
    <2>3. membership[a] \in Membership
      BY <1>0, <2>2, RowFacts DEF MaybeMembership
    <2>4. /\ membership'[a].id = membership[a].id /\ membership'[a].role = membership[a].role
          /\ membership'[a].roles = (membership[a].roles \ Replaced(p)) \cup process[p].chosen
      BY <2>1, <2>3 DEF Membership
    <2> QED BY <1>3, <2>1, <2>2, <2>4, RowFacts DEF Assigned, HasRow
  <1>4. ASSUME NEW p \in Processes, BootstrapWeb(p) \/ BootstrapOrg(p)
        PROVE  Bootstrapped(a)
    <2> DEFINE b == process[p].account
    <2>1. b \in Accounts /\ process[p].seen \in MaybeMembership /\ "god" \in MembershipRole
      BY <1>0, <1>4, ProcessFields DEF AccessType, BootstrapWeb, BootstrapOrg, MembershipRole
    <2>2. CASE Upsert(b, "god", {})
      <3>1. /\ \A c \in Accounts \ {b} : membership'[c] = membership[c]
            /\ membership'[b] # NoMembership /\ membership'[b].role = "god"
            /\ membership'[b].roles \subseteq membership[b].roles
            /\ HasRow(b) => membership'[b].id = membership[b].id
        <4> DEFINE seeded == {}
        <4>1. seeded \in SUBSET OrgRoles /\ Upsert(b, "god", seeded)
          BY <2>2
        <4> HIDE DEF b, seeded
        <4>2. /\ \A c \in Accounts \ {b} : membership'[c] = membership[c]
              /\ membership'[b] # NoMembership /\ membership'[b].role = "god"
              /\ membership'[b].roles = membership[b].roles \cup seeded
              /\ HasRow(b) => membership'[b].id = membership[b].id
          BY <1>0, <2>1, <4>1, UpsertFacts
        <4> QED BY <4>2 DEF seeded
      <3>2. ~HasRow(b) => membership[b].roles = {}
        BY RowFacts DEF HasRow
      <3>3. a = b
        BY <3>1
      <3> HIDE DEF b
      <3> QED BY <3>1, <3>2, <3>3 DEF Bootstrapped, HasRow
    <2>3. CASE /\ process[p].seen # NoMembership /\ SameRow(p)
               /\ membership' = [membership EXCEPT ![b].role = "god"]
      <3>1. a = b /\ membership'[a] = [membership[a] EXCEPT !.role = "god"]
        BY <1>0, <2>3 DEF AccessType
      <3>2. membership[a] \in Membership
        BY <1>0, <2>1, <2>3, <3>1, RowFacts DEF SameRow, MaybeMembership
      <3>3. membership'[a].id = membership[a].id /\ membership'[a].role = "god"
        BY <3>1, <3>2 DEF Membership
      <3> QED BY <3>2, <3>3, RowFacts DEF Bootstrapped, HasRow
    <2> QED BY <1>4, <2>2, <2>3 DEF BootstrapWeb, BootstrapOrg
  <1>5. ASSUME NEW b \in Accounts, Erase(b)
        PROVE  Sanitized(a)
    <2>1. /\ a = b /\ HasRow(a)
          /\ membership'[a] = [membership[a] EXCEPT !.role = "member", !.roles = {}]
      BY <1>0, <1>5 DEF Erase, AccessType, HasRow
    <2>2. membership[a] \in Membership
      BY <1>0, <2>1 DEF HasRow, MaybeMembership
    <2>3. membership'[a].id = membership[a].id /\ membership'[a].id # 0
      BY <2>1, <2>2, RowFacts DEF Membership
    <2>4. \A p \in Processes : process'[p].op = process[p].op
      BY <1>0, <1>5, ForgettingKeeps DEF Erase
    <2> QED BY <1>5, <2>1, <2>3, <2>4, RowFacts DEF Erase, Sanitized, HasRow
  <1>6. CASE membership' = membership
    BY <1>6
  <1> QED
    BY <1>1, <1>2, <1>3, <1>4, <1>5, <1>6
       DEF Next, vars, PanelRead, AssignRead, BootstrapRead, Abandon

\* A process with roles to assign ends by assigning them or by giving up.
LEMMA AssignmentsEnd ==
  ASSUME AccessInv, [Next]_vars, NEW p \in Processes,
         process[p].op = "assign", process'[p].op = "idle"
  PROVE  AssignWrite(p) \/ membership' = membership
  <1>0. AccessType /\ process \in [Processes -> Process]
    BY DEF AccessInv, AccessType
  <1>1. ASSUME NEW q \in Processes, q # p, AssignWrite(q)
        PROVE  FALSE
    <2>1. process'[p] = Forgets(p, process[q].account, Replaced(q)) /\ process[q].account \in Accounts
      BY <1>0, <1>1, ProcessFields DEF AssignWrite
    <2> QED BY <1>0, <2>1, ForgettingKeeps
  <1>2. ASSUME NEW a \in Accounts, Erase(a)
        PROVE  FALSE
    BY <1>0, <1>2, ForgettingKeeps DEF Erase
  <1>3. ASSUME NEW q \in Processes, End(q), process[q].op # "assign"
        PROVE  FALSE
    BY <1>0, <1>3 DEF End
  <1>4. ASSUME NEW q \in Processes, NEW r, Begin(q, r), Free(q)
        PROVE  FALSE
    BY <1>0, <1>4 DEF Begin, Free
  <1> QED
    BY <1>1, <1>2, <1>3, <1>4
       DEF Next, vars, PanelRead, AssignRead, BootstrapRead, Abandon,
           ElevateWrite, DemoteWrite, BootstrapWeb, BootstrapOrg

\* Nothing reattaches when access is granted again (org_role_assignments is keyed by
\* membership): only an upsert gives an account a new row, with the seeded role of
\* its door at most, and an assignment lands on the row it was made for.
THEOREM AssignmentsDoNotReattach == Spec => NothingReattaches
  <1> DEFINE Kept ==
    \A a \in Accounts :
       /\ membership'[a].id # membership[a].id => membership'[a].roles \subseteq {membership'[a].role}
       /\ \A p \in Processes :
            (/\ process[p].op = "assign" /\ process[p].account = a
             /\ process'[p].op = "idle" /\ membership'[a].roles # membership[a].roles) =>
              process[p].seen.id = membership[a].id
  <1>1. AccessInv /\ [Next]_vars => [Kept]_vars
    <2> SUFFICES ASSUME AccessInv, [Next]_vars, NEW a \in Accounts
                 PROVE  /\ membership'[a].id # membership[a].id =>
                             membership'[a].roles \subseteq {membership'[a].role}
                        /\ \A p \in Processes :
                             (/\ process[p].op = "assign" /\ process[p].account = a
                              /\ process'[p].op = "idle"
                              /\ membership'[a].roles # membership[a].roles) =>
                               process[p].seen.id = membership[a].id
      OBVIOUS
    <2>1. ASSUME membership'[a].id # membership[a].id
          PROVE  membership'[a].roles \subseteq {membership'[a].role}
      BY <2>1, AccessChanges, RowFacts DEF Elevated, Removed, Assigned, Bootstrapped, Sanitized
    <2>2. ASSUME NEW p \in Processes, process[p].op = "assign", process[p].account = a,
                 process'[p].op = "idle", membership'[a].roles # membership[a].roles
          PROVE  process[p].seen.id = membership[a].id
      BY <2>2, AssignmentsEnd DEF AssignWrite, SameRow
    <2> QED BY <2>1, <2>2
  <1> QED BY <1>1, AccessInvariance, PTL DEF Spec, NothingReattaches

\* A System manager cannot be modified or removed from the panel: what it read was
\* none, so an elevation that overwrites one read the account before it was
\* bootstrapped, and a removal does not match its rank.
THEOREM SystemManagersStay == Spec => GodUntouched
  <1> DEFINE Untouched ==
    \A a \in Accounts : Role(a) = "god" /\ Role(a)' # "god" =>
       /\ HasRow(a)'
       /\ \/ a \in erased'
          \/ \E p \in Processes : /\ process[p].op = "elevate" /\ process[p].account = a
                                 /\ ~Free(p) /\ Free(p)' /\ ~UpToDate(p)
  <1>1. AccessInv /\ [Next]_vars => [Untouched]_vars
    <2> SUFFICES ASSUME AccessInv, [Next]_vars, NEW a \in Accounts, Role(a) = "god", Role(a)' # "god"
                 PROVE  /\ HasRow(a)'
                        /\ \/ a \in erased'
                           \/ \E p \in Processes :
                                /\ process[p].op = "elevate" /\ process[p].account = a
                                /\ ~Free(p) /\ Free(p)' /\ ~UpToDate(p)
      OBVIOUS
    <2>1. \/ \E p \in Processes : Elevated(p, a) \/ Removed(p, a) \/ Assigned(p, a)
          \/ Bootstrapped(a)
          \/ Sanitized(a)
      BY AccessChanges DEF Role
    <2>2. ASSUME NEW p \in Processes, Elevated(p, a)
          PROVE  /\ HasRow(a)' /\ process[p].op = "elevate" /\ process[p].account = a
                 /\ ~Free(p) /\ Free(p)' /\ ~UpToDate(p)
      <3>1. process[p].op = "elevate" /\ process'[p] = IdleProcess
        BY <2>2 DEF Elevated, ElevateWrite, End, AccessInv, AccessType
      <3>2. process[p].seen.role # "god"
        BY <3>1 DEF AccessInv, GuardsPassed, PassedGuard
      <3> QED BY <2>2, <3>1, <3>2, IdleIsProcess DEF Elevated, Free, UpToDate, Role
    <2>3. ASSUME NEW p \in Processes, Removed(p, a)
          PROVE  FALSE
      BY <2>3 DEF Removed, DemoteWrite, StillHoldsDoor, Role, AccessInv, GuardsPassed, PassedGuard
    <2> QED BY <2>1, <2>2, <2>3 DEF Assigned, Bootstrapped, Sanitized, Role
  <1> QED BY <1>1, AccessInvariance, PTL DEF Spec, GodUntouched

\* What the panel says it did is so: the row that is unchanged since the read is the
\* row the removal matches and the assignment replaces.
THEOREM PanelKeepsItsWord == Spec => PanelDoesWhatItSays
  <1> DEFINE KeepsItsWord ==
    \A p \in Processes : UpToDate(p) /\ process'[p] = IdleProcess =>
       LET row == membership'[process[p].account] IN
       /\ process[p].op = "demote" /\ DemoteWrite(p) => OrgRankFromRole(row.role) = Null
       /\ process[p].op = "assign" /\ AssignWrite(p) => row.roles = process[p].chosen
  <1>1. AccessInv /\ [Next]_vars => [KeepsItsWord]_vars
    <2> SUFFICES ASSUME AccessInv, NEW p \in Processes, UpToDate(p)
                 PROVE  LET row == membership'[process[p].account] IN
                        /\ DemoteWrite(p) => OrgRankFromRole(row.role) = Null
                        /\ AssignWrite(p) => row.roles = process[p].chosen
      OBVIOUS
    <2> DEFINE a == process[p].account
    <2>0. AccessType /\ process[p] \in Process /\ "none" \notin ORG_RANKS
      BY DEF AccessInv, AccessType, ORG_RANKS
    <2>1. ASSUME DemoteWrite(p)
          PROVE  OrgRankFromRole(membership'[a].role) = Null
      <3>1. a \in Accounts
        BY <2>0, <2>1, ProcessFields DEF DemoteWrite
      <3>2. membership'[a] = NoMembership
        BY <2>1, <3>1, <2>0, RowFacts DEF DemoteWrite, StillHoldsDoor, UpToDate, Role, AccessType
      <3> QED BY <2>0, <3>2, RowFacts DEF OrgRankFromRole
    <2>2. ASSUME AssignWrite(p)
          PROVE  membership'[a].roles = process[p].chosen
      <3>1. a \in Accounts /\ membership[a] \in MaybeMembership
        BY <2>0, <2>2, ProcessFields DEF AssignWrite, AccessType
      <3>2. membership'[a] = [membership[a] EXCEPT
              !.roles = (membership[a].roles \ Replaced(p)) \cup process[p].chosen]
        BY <2>0, <2>2, <3>1 DEF AssignWrite, AccessType
      <3>3. membership'[a].roles = (membership[a].roles \ Replaced(p)) \cup process[p].chosen
        BY <3>1, <3>2 DEF MaybeMembership, Membership, NoMembership
      <3> QED BY <3>3 DEF Replaced, UpToDate
    <2> QED BY <2>1, <2>2
  <1> QED BY <1>1, AccessInvariance, PTL DEF Spec, PanelDoesWhatItSays
================================================================================
