------------------------------ MODULE EmailChange ------------------------------
(***************************************************************************)
(* Changing the address an account signs in with: the request mails the    *)
(* new address a link that confirms and the old one a link that revokes,   *)
(* for 48 hours after the confirmation (requestEmailChange,                *)
(* confirmEmailChange, revokeEmailChange of apps/web/lib/                  *)
(* account-actions.ts; the phases of packages/core/src/                    *)
(* account-security.ts).                                                   *)
(*                                                                         *)
(* Each handler reads the request over a single statement and writes in a  *)
(* later transaction, so a tab is a process with a Read and a Commit.      *)
(* user.email and users.email always move together and are one address     *)
(* here; both columns are unique.                                          *)
(***************************************************************************)
EXTENDS Naturals, Sequences, FiniteSetsExt

CONSTANTS
  Users, Emails,
  First,        \* each user's address at the start
  EmailTabs,
  MaxChanges    \* bound on the requests ever made

ASSUME EmailAssumption ==
  /\ First \in [Users -> Emails]
  /\ \A u, w \in Users : First[u] = First[w] => u = w
  /\ MaxChanges \in Nat

VARIABLES
  email,    \* the address each user signs in with
  changes,  \* each user's email_change_requests, oldest first
  emailTab  \* what each tab holds between its read and its write

emailVars == <<email, changes, emailTab>>

Status == {"pending", "confirmed", "cancelled", "revoked"}

\* lapsed: the confirmation link's two hours are over; settled: so are the 48.
EmailChangeRequest == [currentEmail : Emails, newEmail : Emails, status : Status,
                       lapsed : BOOLEAN, settled : BOOLEAN]

Indices(u) == 1..Len(changes[u])

IdleEmailTab == [op |-> "idle"]

EmailInit ==
  /\ email = First
  /\ changes = [u \in Users |-> <<>>]
  /\ emailTab = [t \in EmailTabs |-> IdleEmailTab]

Free(t) == emailTab[t].op = "idle"
Begin(t, request) == emailTab' = [emailTab EXCEPT ![t] = request]
End(t) == emailTab' = [emailTab EXCEPT ![t] = IdleEmailTab]

ChangesMade == MapThenSumSet(LAMBDA u : Len(changes[u]), Users)

TakenByAnother(u, address) == \E w \in Users \ {u} : email[w] = address

---------------------------------------------------------------------------
RequestChangeRead(t, u, new) ==
  /\ Free(t)
  /\ ChangesMade < MaxChanges
  /\ new # email[u]
  /\ Begin(t, [op |-> "request", user |-> u, from |-> email[u], to |-> new])
  /\ UNCHANGED <<email, changes>>

\* A pending request is superseded by the new one.
Superseded(row) == IF row.status = "pending" THEN [row EXCEPT !.status = "cancelled"] ELSE row

RequestChangeCommit(t) ==
  LET u == emailTab[t].user IN
  /\ emailTab[t].op = "request"
  /\ ChangesMade < MaxChanges
  /\ changes' = [changes EXCEPT ![u] =
       Append([i \in Indices(u) |-> Superseded(changes[u][i])],
              [currentEmail |-> emailTab[t].from, newEmail |-> emailTab[t].to, status |-> "pending",
               lapsed |-> FALSE, settled |-> FALSE])]
  /\ End(t)
  /\ UNCHANGED email

MutConfirmsAnyLiveLink(row) == ~row.lapsed
\* canConfirmEmailChange: phase awaiting_confirm.
CanConfirmEmailChange(row) == row.status = "pending" /\ ~row.lapsed

ConfirmRead(t, u, i) ==
  /\ Free(t)
  /\ CanConfirmEmailChange(changes[u][i])
  /\ Begin(t, [op |-> "confirm", user |-> u, row |-> i, seen |-> changes[u][i].status])
  /\ UNCHANGED <<email, changes>>

\* One transaction, keyed on the request's id alone; a unique violation on the
\* address rolls it back.
ConfirmCommit(t) ==
  LET u == emailTab[t].user
      i == emailTab[t].row
      new == changes[u][i].newEmail
  IN /\ emailTab[t].op = "confirm"
     /\ ~TakenByAnother(u, new)
     /\ email' = [email EXCEPT ![u] = new]
     /\ changes' = [changes EXCEPT ![u][i].status = "confirmed", ![u][i].settled = FALSE]
     /\ End(t)

\* canRevokeEmailChange: phase revocable; a pending request is stopped outright.
CanRevokeEmailChange(row) ==
  row.status = "pending" \/ (row.status = "confirmed" /\ ~row.settled)

RevokeRead(t, u, i) ==
  /\ Free(t)
  /\ CanRevokeEmailChange(changes[u][i])
  /\ Begin(t, [op |-> "revoke", user |-> u, row |-> i, seen |-> changes[u][i].status])
  /\ UNCHANGED <<email, changes>>

MutRevokeUnchecked(t) == TRUE
\* The compare-and-set on the status the guard was evaluated on.
StillAsSeen(t) == changes[emailTab[t].user][emailTab[t].row].status = emailTab[t].seen

\* The request is revoked; a change that had been applied is put back.
RevokeCommit(t) ==
  LET u == emailTab[t].user
      i == emailTab[t].row
      old == changes[u][i].currentEmail
  IN /\ emailTab[t].op = "revoke"
     /\ StillAsSeen(t)
     /\ changes' = [changes EXCEPT ![u][i].status = "revoked"]
     /\ \/ emailTab[t].seen = "pending" /\ UNCHANGED email
        \/ /\ emailTab[t].seen = "confirmed"
           /\ ~TakenByAnother(u, old)
           /\ email' = [email EXCEPT ![u] = old]
     /\ End(t)

\* The tab is refused, loses its compare-and-set or a unique index, or dies.
EmailTabEnds(t) ==
  /\ ~Free(t)
  /\ End(t)
  /\ UNCHANGED <<email, changes>>

\* Time passes for one request.
LinkLapses(u, i) ==
  /\ changes[u][i].status = "pending" /\ ~changes[u][i].lapsed
  /\ changes' = [changes EXCEPT ![u][i].lapsed = TRUE]
  /\ UNCHANGED <<email, emailTab>>

ChangeSettles(u, i) ==
  /\ changes[u][i].status = "confirmed" /\ ~changes[u][i].settled
  /\ changes' = [changes EXCEPT ![u][i].settled = TRUE]
  /\ UNCHANGED <<email, emailTab>>

EmailNext ==
  \/ \E t \in EmailTabs :
       \/ \E u \in Users, new \in Emails : RequestChangeRead(t, u, new)
       \/ RequestChangeCommit(t)
       \/ \E u \in Users : \E i \in Indices(u) : ConfirmRead(t, u, i)
       \/ ConfirmCommit(t)
       \/ \E u \in Users : \E i \in Indices(u) : RevokeRead(t, u, i)
       \/ RevokeCommit(t)
       \/ EmailTabEnds(t)
  \/ \E u \in Users : \E i \in Indices(u) : LinkLapses(u, i) \/ ChangeSettles(u, i)

EmailSpec == EmailInit /\ [][EmailNext]_emailVars

---------------------------------------------------------------------------
(* Properties.                                                             *)

\* Every row keeps its type; addresses are unique; a user has at most one
\* pending request, a new one having superseded the last (requestEmailChange).
EmailTypeOK ==
  /\ email \in [Users -> Emails]
  /\ \A u, w \in Users : email[u] = email[w] => u = w
  /\ \A u \in Users :
       /\ \A i \in Indices(u) : changes[u][i] \in EmailChangeRequest
       /\ Cardinality({i \in Indices(u) : changes[u][i].status = "pending"}) <= 1
  /\ \A t \in EmailTabs : emailTab[t].op \in {"idle", "request", "confirm", "revoke"}

\* t's confirmation of u's request i commits, though the row has moved since t
\* read it pending: confirmEmailChange updates it by its id.
LateConfirmation(t, u, i) ==
  /\ emailTab[t] = [op |-> "confirm", user |-> u, row |-> i, seen |-> "pending"]
  /\ emailTab'[t] # emailTab[t]
  /\ changes[u][i].status # "pending"

\* The sign-in address moves only in a step that confirms a pending request and
\* takes its new address, or that takes a confirmed request back and restores the
\* address that request replaced (revokeEmailChange): a link that was used moves
\* nothing any more, whatever other changes were made, confirmed or reversed since.
\* The one exception is a click that had read the request while it was pending:
\* two clicks of one confirmation link, both read before either commits, apply it
\* twice, and undo what happened between them.
EveryMoveIsRecorded ==
  [][\A u \in Users : email'[u] # email[u] =>
       \E i \in Indices(u) :
         \/ /\ changes'[u][i].status = "confirmed"
            /\ email'[u] = changes[u][i].newEmail
            /\ \/ changes[u][i].status = "pending"
               \/ \E t \in EmailTabs : LateConfirmation(t, u, i)
         \/ /\ changes[u][i].status = "confirmed" /\ changes'[u][i].status = "revoked"
            /\ email'[u] = changes[u][i].currentEmail]_emailVars

\* A change that was stopped or superseded takes no effect any more, except by a
\* confirmation already under way: once a request is revoked or cancelled no
\* link brings it back.
StoppedIsFinal ==
  [][\A u \in Users : \A i \in Indices(u) :
       changes[u][i].status \in {"revoked", "cancelled"} =>
         \/ changes'[u][i].status = changes[u][i].status
         \/ \E t \in EmailTabs : LateConfirmation(t, u, i)]_emailVars
===============================================================================
