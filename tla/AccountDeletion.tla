---------------------------- MODULE AccountDeletion ----------------------------
(***************************************************************************)
(* Erasing an account (POPIA): a request opens a grace period, signing in  *)
(* cancels it, and a sweep sanitizes the accounts whose grace has elapsed, *)
(* unless that would leave the organisation without a System manager or a  *)
(* camp without a lead.                                                    *)
(*                                                                         *)
(*   apps/web/lib/account-actions.ts    requestAccountDeletion             *)
(*   packages/db/src/deletion.ts        cancelPendingDeletion (sign-in)    *)
(*   apps/web/lib/account-sanitize.ts   sanitizeAccount, sweepDueDeletions *)
(*   apps/web/lib/account.ts            buildDeletionGuardContext          *)
(*                                                                         *)
(* A tab or a sign-in reads and then writes in a later transaction, and a  *)
(* sweep handles one account after the other, so each is a process.  The   *)
(* clock is each request's own: its grace elapses once.                    *)
(***************************************************************************)
EXTENDS Naturals, Sequences, FiniteSetsExt

CONSTANTS
  Accounts,
  Camps,
  GodEmails,    \* the accounts GOD_EMAILS names
  FirstLead,    \* the lead of every camp at the start
  DeletionTabs, \* tabs and sign-ins in flight
  Sweeps,       \* runs of the sweep in flight
  Limit,        \* accounts per sweep (50)
  MaxRequests   \* bound on the deletion requests of one account

ASSUME DeletionAssumption ==
  /\ GodEmails \subseteq Accounts
  /\ GodEmails # {}
  /\ FirstLead \in Accounts
  /\ Limit \in Nat \ {0}
  /\ MaxRequests \in Nat

VARIABLES
  god,         \* the accounts whose org membership is `god`
  leads,       \* each camp's memberships with role `lead`
  sanitized,   \* users.sanitized_at IS NOT NULL
  requests,    \* each account's account_deletion_requests rows, oldest first
  audit,       \* audit_events: <<account, request, what happened>>
  deletionTab, \* what each tab holds between its read and its write
  sweep        \* what each sweep has still to do, and the request it is erasing

deletionVars == <<god, leads, sanitized, requests, audit, deletionTab, sweep>>
postVars == <<god, leads, sanitized>>

Request == [status : {"pending", "cancelled", "completed"}, elapsed : BOOLEAN]
RequestId == Accounts \X (1..MaxRequests)
NoRequest == <<>>

Row(id) == requests[id[1]][id[2]]
Rows == UNION {{<<a, i>> : i \in 1..Len(requests[a])} : a \in Accounts}
Pending(id) == Row(id).status = "pending"
PendingOf(a) == {id \in Rows : id[1] = a /\ Pending(id)}

\* deletionPhase: a pending request is in grace, then due.
InGrace(id) == Pending(id) /\ ~Row(id).elapsed
MutDueInGrace(id) == Pending(id)
Due(id) == Pending(id) /\ Row(id).elapsed

IdleTab == [op |-> "idle", id |-> NoRequest]
IdleSweep == [todo |-> {}, current |-> NoRequest]

DeletionInit ==
  /\ god \in (SUBSET GodEmails) \ {{}}
  /\ leads = [c \in Camps |-> {FirstLead}]
  /\ sanitized = {}
  /\ requests = [a \in Accounts |-> <<>>]
  /\ audit = {}
  /\ deletionTab = [t \in DeletionTabs |-> IdleTab]
  /\ sweep = [s \in Sweeps |-> IdleSweep]

Live == Accounts \ sanitized
AtWork(s) == sweep[s].todo # {} \/ sweep[s].current # NoRequest

\* assessDeletionEligibility on counts of live holders: the only System manager,
\* or the only lead of some camp.
Blocked(a) ==
  \/ a \in god /\ god \cap Live \subseteq {a}
  \/ \E c \in Camps : a \in leads[c] /\ leads[c] \cap Live \subseteq {a}

---------------------------------------------------------------------------
(* requestAccountDeletion and cancelPendingDeletion.                       *)

RequestRead(t, a) ==
  /\ deletionTab[t].op = "idle"
  /\ a \in Live
  /\ Len(requests[a]) < MaxRequests
  /\ ~Blocked(a)
  /\ PendingOf(a) = {}
  /\ deletionTab' = [deletionTab EXCEPT ![t] = [op |-> "request", id |-> <<a, 0>>]]
  /\ UNCHANGED <<postVars, requests, audit, sweep>>

\* account_deletion_requests_one_pending_idx.
MayInsert(a) == PendingOf(a) = {}

\* Row and audit line commit together.
RequestCommit(t) ==
  LET a == deletionTab[t].id[1]
      n == Len(requests[a]) + 1
  IN /\ deletionTab[t].op = "request"
     /\ n <= MaxRequests
     /\ MayInsert(a)
     /\ requests' = [requests EXCEPT ![a] = Append(@, [status |-> "pending", elapsed |-> FALSE])]
     /\ audit' = audit \cup {<<a, n, "requested">>}
     /\ deletionTab' = [deletionTab EXCEPT ![t] = IdleTab]
     /\ UNCHANGED <<postVars, sweep>>

\* Every sign-in looks for a request still in grace; an erased account has no
\* identity left to sign in with.
CancelRead(t, id) ==
  /\ deletionTab[t].op = "idle"
  /\ id[1] \in Live
  /\ InGrace(id)
  /\ deletionTab' = [deletionTab EXCEPT ![t] = [op |-> "cancel", id |-> id]]
  /\ UNCHANGED <<postVars, requests, audit, sweep>>

CancelApplies(t) == Pending(deletionTab[t].id)

\* The UPDATE matches only while pending, and the audit line commits with it.
CancelCommit(t) ==
  LET id == deletionTab[t].id IN
  /\ deletionTab[t].op = "cancel"
  /\ CancelApplies(t)
  /\ requests' = [requests EXCEPT ![id[1]][id[2]].status = "cancelled"]
  /\ audit' = audit \cup {<<id[1], id[2], "cancelled">>}
  /\ deletionTab' = [deletionTab EXCEPT ![t] = IdleTab]
  /\ UNCHANGED <<postVars, sweep>>

\* The tab is refused, matched no row, or dies.
TabEnds(t) ==
  /\ deletionTab[t].op # "idle"
  /\ deletionTab' = [deletionTab EXCEPT ![t] = IdleTab]
  /\ UNCHANGED <<postVars, requests, audit, sweep>>

\* The fourteen days pass.  No tab holds an unsent request that long, and a
\* sweep at work read its clock when it started; a sign-in may fall on the last
\* moment.
GraceElapses(id) ==
  /\ InGrace(id)
  /\ \A s \in Sweeps : ~AtWork(s)
  /\ \A t \in DeletionTabs : deletionTab[t].op = "request" => deletionTab[t].id[1] # id[1]
  /\ requests' = [requests EXCEPT ![id[1]][id[2]].elapsed = TRUE]
  /\ UNCHANGED <<postVars, audit, deletionTab, sweep>>

---------------------------------------------------------------------------
(* sweepDueDeletions and sanitizeAccount.                                  *)

DueRequests == {id \in Rows : Due(id)}

\* At most Limit due requests, in no stated order.
SweepStart(s) ==
  /\ ~AtWork(s)
  /\ \E batch \in IF Cardinality(DueRequests) <= Limit
                    THEN {DueRequests} ELSE kSubset(Limit, DueRequests) :
       /\ batch # {}
       /\ sweep' = [sweep EXCEPT ![s].todo = batch]
  /\ UNCHANGED <<postVars, requests, audit, deletionTab>>

\* sanitizeAccount re-reads the request and re-assesses the guard.
MutSkipsGuard(id) == Due(id)
MutSignInGuardReapplied(id) == FALSE
SanitizeAllowed(id) == Due(id) /\ ~Blocked(id[1])

SanitizeRead(s, id) ==
  /\ sweep[s].current = NoRequest
  /\ id \in sweep[s].todo
  /\ SanitizeAllowed(id)
  /\ sweep' = [sweep EXCEPT ![s] = [todo |-> @.todo \ {id}, current |-> id]]
  /\ UNCHANGED <<postVars, requests, audit, deletionTab>>

\* A blocked account is left pending for the next sweep.
SanitizeSkip(s, id) ==
  /\ sweep[s].current = NoRequest
  /\ id \in sweep[s].todo
  /\ ~SanitizeAllowed(id)
  /\ sweep' = [sweep EXCEPT ![s].todo = @ \ {id}]
  /\ UNCHANGED <<postVars, requests, audit, deletionTab>>

MutErasedNotCompleted(s) ==
  LET id == sweep[s].current IN
  /\ id # NoRequest
  /\ sanitized' = sanitized \cup {id[1]}
  /\ god' = god \ {id[1]}
  /\ audit' = audit \cup {<<id[1], id[2], "sanitized">>}
  /\ sweep' = [sweep EXCEPT ![s].current = NoRequest]
  /\ UNCHANGED <<leads, requests, deletionTab>>

\* One transaction: the identity, the tombstone, the request (by its id alone),
\* the org membership demoted to `member`, the audit line.  Camp memberships stay.
SanitizeCommit(s) ==
  LET id == sweep[s].current IN
  /\ id # NoRequest
  /\ sanitized' = sanitized \cup {id[1]}
  /\ god' = god \ {id[1]}
  /\ requests' = [requests EXCEPT ![id[1]][id[2]].status = "completed"]
  /\ audit' = audit \cup {<<id[1], id[2], "sanitized">>}
  /\ sweep' = [sweep EXCEPT ![s].current = NoRequest]
  /\ UNCHANGED <<leads, deletionTab>>

\* The function times out or the process dies; an open transaction rolls back.
SweepDies(s) ==
  /\ AtWork(s)
  /\ sweep' = [sweep EXCEPT ![s] = IdleSweep]
  /\ UNCHANGED <<postVars, requests, audit, deletionTab>>

---------------------------------------------------------------------------
(* What moves the posts meanwhile.                                         *)

\* bootstrapGod, at a sign-in of an address GOD_EMAILS names.
BootstrapGod(a) ==
  /\ a \in GodEmails \cap Live
  /\ a \notin god
  /\ god' = god \cup {a}
  /\ UNCHANGED <<leads, sanitized, requests, audit, deletionTab, sweep>>

\* A lead-transfer invite of c is redeemed (CampMembership).
TransferLead(c, a) ==
  /\ a \in Live \ leads[c]
  /\ leads[c] \cap Live # {}
  /\ leads' = [leads EXCEPT ![c] = {a}]
  /\ UNCHANGED <<god, sanitized, requests, audit, deletionTab, sweep>>

TabStep(t) ==
  \/ \E a \in Accounts : RequestRead(t, a)
  \/ RequestCommit(t)
  \/ \E id \in Rows : CancelRead(t, id)
  \/ CancelCommit(t)
  \/ TabEnds(t)

SweepStep(s) ==
  \/ SweepStart(s)
  \/ \E id \in RequestId : SanitizeRead(s, id)
  \/ \E id \in RequestId : SanitizeSkip(s, id)
  \/ SanitizeCommit(s)
  \/ SweepDies(s)

DeletionNext ==
  \/ \E t \in DeletionTabs : TabStep(t)
  \/ \E s \in Sweeps : SweepStep(s)
  \/ \E id \in Rows : GraceElapses(id)
  \/ \E a \in Accounts : BootstrapGod(a)
  \/ \E c \in Camps, a \in Accounts : TransferLead(c, a)

DeletionSpec == DeletionInit /\ [][DeletionNext]_deletionVars

\* The sweep runs every day, and a run that keeps getting as far as an account
\* is not killed there for ever.
FairSpec ==
  /\ DeletionSpec
  /\ \A s \in Sweeps :
       /\ WF_deletionVars(SweepStart(s))
       /\ SF_deletionVars(SanitizeCommit(s))
       /\ \A id \in RequestId : /\ SF_deletionVars(SanitizeRead(s, id))
                                /\ WF_deletionVars(SanitizeSkip(s, id))

---------------------------------------------------------------------------
(* Properties.                                                             *)

\* Every table keeps its type; an account has at most one pending request.
TypeOK ==
  /\ god \subseteq Accounts
  /\ leads \in [Camps -> SUBSET Accounts]
  /\ sanitized \subseteq Accounts
  /\ \A a \in Accounts : Len(requests[a]) <= MaxRequests /\ requests[a] \in Seq(Request)
  /\ \A a \in Accounts : Cardinality(PendingOf(a)) <= 1
  /\ audit \subseteq Accounts \X (1..MaxRequests) \X {"requested", "cancelled", "sanitized"}
  /\ \A t \in DeletionTabs : deletionTab[t].op \in {"idle", "request", "cancel"}
  /\ \A s \in Sweeps : sweep[s].todo \cup ({sweep[s].current} \ {NoRequest}) \subseteq Rows

\* The organisation always has a live System manager: the guard is asked again
\* at the moment of erasure, so requests that each were allowed when they were
\* made do not add up to a lockout (sanitizeAccount, step 0).
AlwaysALiveGod == god \cap Live # {}

\* Every request, cancellation and erasure commits with its audit line and only
\* so, and an account is erased exactly when one of its requests is completed.
TrailMatchesRequests ==
  /\ \A a \in Accounts, i \in 1..MaxRequests :
       /\ i <= Len(requests[a]) <=> <<a, i, "requested">> \in audit
       /\ i <= Len(requests[a]) =>
            /\ Row(<<a, i>>).status = "completed" <=> <<a, i, "sanitized">> \in audit
            /\ Row(<<a, i>>).status = "cancelled" => <<a, i, "cancelled">> \in audit
  /\ \A a \in Accounts :
       a \in sanitized <=> \E i \in 1..Len(requests[a]) : Row(<<a, i>>).status = "completed"

\* Nobody is erased inside the grace period, what a completed request did is
\* final, and a request that a sign-in cancelled stays cancelled, unless a sweep had
\* read it as due before the sign-in's commit (sanitizeAccount completes it by id).
ErasureIsDue ==
  [][\A id \in Rows :
       /\ Row(id).status # "completed" /\ Row(id)'.status = "completed" => Row(id).elapsed
       /\ Row(id).status = "completed" => Row(id)'.status = "completed"
       /\ Row(id).status = "cancelled" /\ Row(id)'.status # "cancelled" =>
            \E s \in Sweeps : sweep[s].current = id]_deletionVars

\* A deletion that is due and that strands nobody does not stay undone for
\* ever: the next run picks up what one sweep leaves.
DueIsErased ==
  \A id \in RequestId :
    []<>~(id \in Rows /\ Due(id) /\ ~Blocked(id[1]))
===============================================================================
