------------------------------- MODULE OrgAccess -------------------------------
(***************************************************************************)
(* Who may enter the console and with which roles: the memberships of the  *)
(* org group (`god` is the System manager; `org_staff` and `engineer` open *)
(* the door) and their org_role_assignments.                               *)
(*                                                                         *)
(*   apps/org/lib/actions/accounts.ts    setOrgStaffRole                   *)
(*   apps/org/lib/actions/org-roles.ts   setAccountOrgRoles                *)
(*   apps/web/lib/session.ts, apps/org/lib/session.ts   the bootstrap of   *)
(*                                       the addresses GOD_EMAILS names    *)
(*                                                                         *)
(* The console's actions are READ COMMITTED transactions that read the     *)
(* membership and write in later statements; the bootstraps are single     *)
(* statements.  Each is a process.  An erasure (AccountDeletion) is one    *)
(* step.                                                                   *)
(***************************************************************************)
EXTENDS Naturals, FiniteSets, OrgPermissions

CONSTANTS
  Accounts,
  GodEmails,     \* accounts with a verified address that GOD_EMAILS names
  CustomRoles,   \* org roles beside the seeded one of each door
  Processes,     \* console actions and sign-ins in flight
  MaxRows        \* bound on the membership rows ever inserted

ASSUME OrgAssumption ==
  /\ GodEmails \subseteq Accounts
  /\ MaxRows \in Nat

VARIABLES
  membership,  \* each account's row in the org group, or NoMembership
  inserted,    \* rows inserted so far: the last id
  erased,      \* users.sanitized_at IS NOT NULL
  process      \* what each process has read and will write

vars == <<membership, inserted, erased, process>>

GrantableRank == {"engineer", "org_staff"}
MembershipRole == GrantableRank \cup {"member", "god"}

\* The seeded role of a door (defaultRoleKeyForRank) bears the door's name.
OrgRoles == GrantableRank \cup CustomRoles

NoMembership == [id |-> 0, role |-> "none", roles |-> {}]
Membership == [id : 1..MaxRows, role : MembershipRole, roles : SUBSET OrgRoles]

IdleProcess == [op |-> "idle"]

Init ==
  /\ membership = [a \in Accounts |-> NoMembership]
  /\ inserted = 0
  /\ erased = {}
  /\ process = [p \in Processes |-> IdleProcess]

Free(p) == process[p].op = "idle"
Begin(p, request) == process' = [process EXCEPT ![p] = request]
End(p) == process' = [process EXCEPT ![p] = IdleProcess]

HasRow(a) == membership[a] # NoMembership
Role(a) == membership[a].role

\* INSERT ... ON CONFLICT DO UPDATE SET role.
Upsert(a, role, seeded) ==
  /\ inserted' = IF HasRow(a) THEN inserted ELSE inserted + 1
  /\ inserted' <= MaxRows
  /\ membership' = [membership EXCEPT ![a] =
       [id |-> IF HasRow(a) THEN @.id ELSE inserted', role |-> role, roles |-> @.roles \cup seeded]]

---------------------------------------------------------------------------
(* setOrgStaffRole.                                                        *)

MutPanelOpenTo(a) == TRUE
\* THE SOLE-SYSTEM-MANAGER GUARD: elevate and demote refuse a System manager's
\* membership.
PanelOpenTo(a) == Role(a) # "god"

PanelRead(p, op, a, rank) ==
  /\ Free(p)
  /\ op \in {"elevate", "demote"}
  /\ PanelOpenTo(a)
  /\ Begin(p, [op |-> op, account |-> a, rank |-> rank, seen |-> membership[a]])
  /\ UNCHANGED <<membership, inserted, erased>>

\* A new account also gets the seeded role of its door.
ElevateWrite(p) ==
  LET r == process[p] IN
  /\ r.op = "elevate"
  /\ Upsert(r.account, r.rank, IF r.seen = NoMembership THEN {r.rank} ELSE {})
  /\ End(p)
  /\ UNCHANGED erased

MutDemotesStaffOnly(p) == Role(process[p].account) = "org_staff"
\* DELETE ... WHERE role = the role just read.
StillHoldsDoor(p) ==
  LET seen == process[p].seen IN
  Role(process[p].account) = IF seen = NoMembership THEN "org_staff" ELSE seen.role

\* The assignments cascade away with the row; no row matching, nothing happens.
DemoteWrite(p) ==
  /\ process[p].op = "demote"
  /\ membership' = IF StillHoldsDoor(p)
                     THEN [membership EXCEPT ![process[p].account] = NoMembership]
                     ELSE membership
  /\ End(p)
  /\ UNCHANGED <<inserted, erased>>

---------------------------------------------------------------------------
(* setAccountOrgRoles: delete the assignments the statement sees, insert   *)
(* the chosen ones.                                                        *)

AssignRead(p, a, chosen) ==
  /\ Free(p)
  /\ HasRow(a)
  /\ Role(a) # "god"
  /\ Begin(p, [op |-> "assign", account |-> a, chosen |-> chosen, seen |-> membership[a]])
  /\ UNCHANGED <<membership, inserted, erased>>

MutAssignByAccount(p) == HasRow(process[p].account)
\* The foreign key to the membership refuses a row deleted meanwhile.
SameRow(p) == membership[process[p].account].id = process[p].seen.id

\* The assignments the DELETE removes: those it saw that still exist.
Replaced(p) == process[p].seen.roles

\* Assignments of a that were deleted are no longer there for q to delete.
Forgets(q, a, gone) ==
  IF process[q].op = "assign" /\ process[q].seen.id = membership[a].id
    THEN [process[q] EXCEPT !.seen.roles = @ \ gone] ELSE process[q]

\* The primary key refuses an assignment a rival inserted meanwhile.
AssignWrite(p) ==
  LET r == process[p]
      kept == membership[r.account].roles \ Replaced(p)
  IN /\ r.op = "assign"
     /\ SameRow(p)
     /\ kept \cap r.chosen = {}
     /\ membership' = [membership EXCEPT ![r.account].roles = kept \cup r.chosen]
     /\ process' = [q \in Processes |->
          IF q = p THEN IdleProcess ELSE Forgets(q, r.account, Replaced(p))]
     /\ UNCHANGED <<inserted, erased>>

---------------------------------------------------------------------------
(* The bootstrap of a System manager at sign-in.                           *)

BootstrapRead(p, app, a) ==
  /\ Free(p)
  /\ app \in {"web", "org"}
  /\ a \in GodEmails \ erased
  /\ Role(a) # "god"
  /\ Begin(p, [op |-> app, account |-> a, seen |-> membership[a]])
  /\ UNCHANGED <<membership, inserted, erased>>

\* apps/web: insert unless a row appeared, or update the row read, by its id.
BootstrapWeb(p) ==
  LET r == process[p] IN
  /\ r.op = "web"
  /\ \/ /\ r.seen = NoMembership /\ ~HasRow(r.account)
        /\ Upsert(r.account, "god", {})
     \/ /\ r.seen # NoMembership /\ SameRow(p)
        /\ membership' = [membership EXCEPT ![r.account].role = "god"]
        /\ UNCHANGED inserted
  /\ End(p)
  /\ UNCHANGED erased

\* apps/org: an upsert.
BootstrapOrg(p) ==
  /\ process[p].op = "org"
  /\ Upsert(process[p].account, "god", {})
  /\ End(p)
  /\ UNCHANGED erased

---------------------------------------------------------------------------
\* sanitizeAccount: the membership stays, demoted, and its roles are revoked.
Erase(a) ==
  /\ a \notin erased
  /\ Role(a) = "god" => \E b \in Accounts \ {a} : Role(b) = "god"
  /\ erased' = erased \cup {a}
  /\ membership' = IF HasRow(a) THEN [membership EXCEPT ![a].role = "member", ![a].roles = {}]
                                ELSE membership
  /\ process' = [q \in Processes |-> Forgets(q, a, membership[a].roles)]
  /\ UNCHANGED inserted

\* A process is refused, conflicts with a row it did not see, or dies.
Abandon(p) ==
  /\ ~Free(p)
  /\ End(p)
  /\ UNCHANGED <<membership, inserted, erased>>

Next ==
  \/ \E p \in Processes :
       \/ \E op \in {"elevate", "demote"}, a \in Accounts, rank \in GrantableRank :
            PanelRead(p, op, a, rank)
       \/ ElevateWrite(p)
       \/ DemoteWrite(p)
       \/ \E a \in Accounts, chosen \in SUBSET OrgRoles : AssignRead(p, a, chosen)
       \/ AssignWrite(p)
       \/ \E app \in {"web", "org"}, a \in Accounts : BootstrapRead(p, app, a)
       \/ BootstrapWeb(p)
       \/ BootstrapOrg(p)
       \/ Abandon(p)
  \/ \E a \in Accounts : Erase(a)

Spec == Init /\ [][Next]_vars

---------------------------------------------------------------------------
(* Properties.                                                             *)

\* Rows keep their type, no two accounts share one, and no id is handed out
\* before the sequence reaches it (the upserts of the memberships table).
TypeOK ==
  /\ \A a \in Accounts : membership[a] \in Membership \cup {NoMembership}
  /\ \A a, b \in Accounts : HasRow(a) /\ membership[a].id = membership[b].id => a = b
  /\ inserted \in 0..MaxRows
  /\ \A a \in Accounts : membership[a].id <= inserted
  /\ erased \subseteq Accounts

\* Nothing reattaches when access is granted again: a new membership starts with
\* at most the seeded role of its door, and an assignment made for the old one
\* never lands on it (org_role_assignments is keyed by membership).
NothingReattaches ==
  [][\A a \in Accounts :
       /\ membership'[a].id # membership[a].id => membership'[a].roles \subseteq {membership'[a].role}
       /\ \A p \in Processes :
            (/\ process[p].op = "assign" /\ process[p].account = a
             /\ process'[p].op = "idle" /\ membership'[a].roles # membership[a].roles) =>
              process[p].seen.id = membership[a].id]_vars

\* What p decides on is what the row still holds.
UpToDate(p) == ~Free(p) /\ process[p].seen = membership[process[p].account]

\* A System manager cannot be modified or removed from the panel (setOrgStaffRole
\* deletes by the role it read): only an erasure takes the rank away, or an elevation
\* that read the account before it was bootstrapped, and neither takes the row.
GodUntouched ==
  [][\A a \in Accounts : Role(a) = "god" /\ Role(a)' # "god" =>
       /\ HasRow(a)'
       /\ \/ a \in erased'
          \/ \E p \in Processes : /\ process[p].op = "elevate" /\ process[p].account = a
                                 /\ ~Free(p) /\ Free(p)' /\ ~UpToDate(p)]_vars

\* What the panel says it did is so: a demoted account no longer has console access,
\* whatever rank it held, and an account holds exactly the roles chosen for it, unless
\* its row changed since the action had read it (setOrgStaffRole, setAccountOrgRoles).
PanelDoesWhatItSays ==
  [][\A p \in Processes : UpToDate(p) /\ process'[p] = IdleProcess =>
       LET row == membership'[process[p].account] IN
       /\ process[p].op = "demote" /\ DemoteWrite(p) => OrgRankFromRole(row.role) = Null
       /\ process[p].op = "assign" /\ AssignWrite(p) => row.roles = process[p].chosen]_vars
===============================================================================
