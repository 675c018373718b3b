---------------------------- MODULE CampMembership ----------------------------
(***************************************************************************)
(* The roster of one camp: memberships, their structural roles and         *)
(* reference codes, and the one-time invites that grow the roster or hand  *)
(* over the lead (apps/web/lib/groups-store.ts, invites-store.ts, the camp *)
(* actions, packages/core/src/invite.ts and member-ref-code.ts).           *)
(*                                                                         *)
(* Each server action reads over single statements and writes later, so a  *)
(* request keeps what it read in req[r].  Redemption is a READ COMMITTED   *)
(* transaction: its demotion of leads sees the leads committed when that   *)
(* statement started (req[r].saw) and, having waited for a rival         *)
(* transaction's row locks, re-checks each of them.  Leaving is three      *)
(* statements.  A burner may have several requests in flight.              *)
(***************************************************************************)
EXTENDS Naturals, FiniteSetsExt

CONSTANTS
  Burners, Founder,
  Nobody,
  Invites,        \* invites rows that can be minted
  RosterRequests, \* server-action invocations in flight
  MaxAttempts     \* reference-code attempts in ensureMembershipWithRefCode (5)

ASSUME MembershipAssumption ==
  /\ Founder \in Burners /\ IsFiniteSet(Burners)
  /\ Nobody \notin Burners
  /\ MaxAttempts \in Nat \ {0}

VARIABLES
  role,    \* memberships.role of each burner, "none" without a row
  refCode, \* the sequence of memberships.ref_code, 0 without a row
  invite,  \* the invites rows
  req      \* what each request holds

rosterVars == <<role, refCode, invite, req>>

MembershipRole == {"lead", "admin", "member"}
InviteKind == {"member", "lead_transfer"}

Members == {b \in Burners : role[b] # "none"}
Leads == {b \in Burners : role[b] = "lead"}

\* nextMemberSequence: one past the highest sequence in the camp.
NextSequence == Max({refCode[b] : b \in Burners}) + 1

Unminted == [kind |-> "member", minted |-> FALSE, expired |-> FALSE,
             used |-> FALSE, usedBy |-> Nobody]

Idle == [op |-> "idle", who |-> Founder, role |-> "none", invite |-> "none",
         kind |-> "member", saw |-> {}, seq |-> 0, attempts |-> 0]

\* createCampWrites: the camp and its creator's lead membership commit together.
RosterInit ==
  /\ role = [b \in Burners |-> IF b = Founder THEN "lead" ELSE "none"]
  /\ refCode = [b \in Burners |-> IF b = Founder THEN 1 ELSE 0]
  /\ invite = [i \in Invites |-> Unminted]
  /\ req = [r \in RosterRequests |-> Idle]

IsFree(r) == req[r].op = "idle"
Begins(r, request) == req' = [req EXCEPT ![r] = request]
Finishes(r) == req' = [req EXCEPT ![r] = Idle]

---------------------------------------------------------------------------
(* createInviteAction and revokeInviteAction: read the role, then write.   *)

MayMint(b, kind) ==
  /\ role[b] \in {"lead", "admin"}
  /\ kind = "lead_transfer" => role[b] = "lead"

MintRead(r, b, kind) ==
  /\ IsFree(r)
  /\ MayMint(b, kind)
  /\ Begins(r, [Idle EXCEPT !.op = "mint", !.who = b, !.kind = kind])
  /\ UNCHANGED <<role, refCode, invite>>

Mint(r, i) ==
  /\ req[r].op = "mint"
  /\ ~invite[i].minted
  /\ invite' = [invite EXCEPT ![i].minted = TRUE, ![i].kind = req[r].kind]
  /\ Finishes(r)
  /\ UNCHANGED <<role, refCode>>

RevokeRead(r, b, i) ==
  /\ IsFree(r)
  /\ role[b] \in {"lead", "admin"}
  /\ invite[i].minted /\ ~invite[i].used
  /\ Begins(r, [Idle EXCEPT !.op = "revoke", !.who = b, !.invite = i])
  /\ UNCHANGED <<role, refCode, invite>>

RevokeStillOpen(r) == ~invite[req[r].invite].used

\* revokeInvite: stamp used_at, only where it is null.
Revoke(r) ==
  /\ req[r].op = "revoke"
  /\ RevokeStillOpen(r)
  /\ invite' = [invite EXCEPT ![req[r].invite].used = TRUE,
                              ![req[r].invite].usedBy = Nobody]
  /\ Finishes(r)
  /\ UNCHANGED <<role, refCode>>

\* expires_at passes.
Expire(i) ==
  /\ invite[i].minted /\ ~invite[i].expired
  /\ invite' = [invite EXCEPT ![i].expired = TRUE]
  /\ UNCHANGED <<role, refCode, req>>

---------------------------------------------------------------------------
(* redeemInvite.                                                           *)

\* canRedeemInviteAs, on the invite and the role as read.
CanRedeemInviteAs(b, i) ==
  /\ invite[i].minted /\ ~invite[i].used /\ ~invite[i].expired
  /\ invite[i].kind = "member" => role[b] = "none"

RedeemRead(r, b, i) ==
  /\ IsFree(r)
  /\ CanRedeemInviteAs(b, i)
  /\ Begins(r, [Idle EXCEPT !.op = "redeem", !.who = b, !.invite = i, !.role = role[b],
                           !.kind = invite[i].kind])
  /\ UNCHANGED <<role, refCode, invite>>

\* The transaction opens: the demotion's statement sees the committed leads, and
\* the reference code is read over a connection of its own.
RedeemOpen(r) ==
  /\ req[r].op = "redeem"
  /\ req' = [req EXCEPT ![r].op = "claim", ![r].saw = Leads, ![r].seq = NextSequence,
                        ![r].attempts = 1]
  /\ UNCHANGED <<role, refCode, invite>>

\* The claim: only one transaction can flip used_at from null.
MutClaimUnchecked(r) == TRUE
Claims(r) == ~invite[req[r].invite].used

\* A lead transfer that read a membership updates it; everything else inserts
\* one unless the burner has one by now.
Inserts(r) ==
  /\ role[req[r].who] = "none"
  /\ ~(req[r].kind = "lead_transfer" /\ req[r].role # "none")

\* memberships_group_ref_code_idx refuses a sequence another member holds.
MutNoRefCodeIndex(r) == FALSE
SequenceTaken(r) == \E b \in Members : refCode[b] = req[r].seq

MoreAttempts(r) == req[r].attempts < MaxAttempts

\* A collision rolls back to the savepoint and recomputes the sequence.
RetryRefCode(r) ==
  /\ req[r].op = "claim"
  /\ Claims(r)
  /\ Inserts(r)
  /\ SequenceTaken(r)
  /\ MoreAttempts(r)
  /\ req' = [req EXCEPT ![r].seq = NextSequence, ![r].attempts = @ + 1]
  /\ UNCHANGED <<role, refCode, invite>>

MutDemotesNobody(r, b) == FALSE
\* The demotion of the prior leads: those its statement saw, still leads.
Demotes(r, b) ==
  req[r].kind = "lead_transfer" /\ b \in req[r].saw /\ role[b] = "lead"

\* UPDATE memberships SET role = 'lead' for a redeemer read as a member: no row,
\* no effect.
Promotes(r, b) ==
  /\ req[r].kind = "lead_transfer" /\ req[r].role # "none"
  /\ b = req[r].who /\ role[b] # "none"

MutInsertedAsMember(r) == "member"
InsertedRole(r) == IF req[r].kind = "lead_transfer" THEN "lead" ELSE "member"

RoleAfterRedeem(r, b) ==
  CASE b = req[r].who /\ Inserts(r) -> InsertedRole(r)
    [] Promotes(r, b)               -> "lead"
    [] OTHER                        -> IF Demotes(r, b) THEN "admin" ELSE role[b]

\* The claim, the demotions and the membership commit together.
RedeemCommit(r) ==
  /\ req[r].op = "claim"
  /\ Claims(r)
  /\ Inserts(r) => ~SequenceTaken(r)
  /\ invite' = [invite EXCEPT ![req[r].invite].used = TRUE,
                              ![req[r].invite].usedBy = req[r].who]
  /\ role' = [b \in Burners |-> RoleAfterRedeem(r, b)]
  /\ refCode' = IF Inserts(r) THEN [refCode EXCEPT ![req[r].who] = req[r].seq] ELSE refCode
  /\ Finishes(r)

---------------------------------------------------------------------------
(* leaveCamp: read the role; a lead counts the others; delete the row.     *)

LeaveRead(r, b) ==
  /\ IsFree(r)
  /\ role[b] # "none"
  /\ Begins(r, [Idle EXCEPT !.op = IF role[b] = "lead" THEN "count" ELSE "leave",
                           !.who = b, !.role = role[b], !.saw = Members])
  /\ UNCHANGED <<role, refCode, invite>>

MutNoOthers(r) == TRUE
NoOthers(r) == Members \subseteq {req[r].who}

LeaveCount(r) ==
  /\ req[r].op = "count"
  /\ NoOthers(r)
  /\ req' = [req EXCEPT ![r].op = "leave", ![r].saw = Members]
  /\ UNCHANGED <<role, refCode, invite>>

LeaveDelete(r) ==
  /\ req[r].op = "leave"
  /\ role' = [role EXCEPT ![req[r].who] = "none"]
  /\ refCode' = [refCode EXCEPT ![req[r].who] = 0]
  /\ Finishes(r)
  /\ UNCHANGED invite

---------------------------------------------------------------------------
\* A request is refused, loses its race, runs out of attempts or dies; an open
\* transaction rolls back.
RequestDies(r) ==
  /\ ~IsFree(r)
  /\ Finishes(r)
  /\ UNCHANGED <<role, refCode, invite>>

RosterNext ==
  \/ \E r \in RosterRequests :
       \/ \E b \in Burners, kind \in InviteKind : MintRead(r, b, kind)
       \/ \E i \in Invites : Mint(r, i)
       \/ \E b \in Burners, i \in Invites : RevokeRead(r, b, i)
       \/ Revoke(r)
       \/ \E b \in Burners, i \in Invites : RedeemRead(r, b, i)
       \/ RedeemOpen(r)
       \/ RetryRefCode(r)
       \/ RedeemCommit(r)
       \/ \E b \in Burners : LeaveRead(r, b)
       \/ LeaveCount(r)
       \/ LeaveDelete(r)
       \/ RequestDies(r)
  \/ \E i \in Invites : Expire(i)

RosterSpec == RosterInit /\ [][RosterNext]_rosterVars

---------------------------------------------------------------------------
(* Properties.                                                             *)

\* Memberships, invites and requests keep their type; a redemption makes at
\* most MaxAttempts reference-code attempts (ensureMembershipWithRefCode).
RosterTypeOK ==
  /\ role \in [Burners -> MembershipRole \cup {"none"}]
  /\ refCode \in [Burners -> Nat]
  /\ invite \in [Invites -> [kind : InviteKind, minted : BOOLEAN, expired : BOOLEAN,
                             used : BOOLEAN, usedBy : Burners \cup {Nobody}]]
  /\ req \in [RosterRequests ->
                [op : {"idle", "mint", "revoke", "redeem", "claim", "count", "leave"},
                 who : Burners, role : MembershipRole \cup {"none"},
                 invite : Invites \cup {"none"}, kind : InviteKind,
                 saw : SUBSET Burners, seq : Nat, attempts : 0..MaxAttempts]]

\* A payment reference names one member: two joins that compute the same
\* sequence cannot both commit it, and every member has one.
RefCodesIdentify ==
  /\ \A b, c \in Members : b # c => refCode[b] # refCode[c]
  /\ \A b \in Burners : role[b] # "none" <=> refCode[b] # 0

\* Every arrival on the roster, and every new lead, spends one invite of its kind,
\* which was unspent and is theirs for good: redeemed at most once, never after it
\* was revoked, and never taken back by a revocation that lost the race
\* (redeemInvite's claim, revokeInvite: used_at IS NULL).
InviteSpentOnce ==
  [][/\ \A i \in Invites : invite[i].used => /\ invite'[i].used
                                             /\ invite'[i].usedBy = invite[i].usedBy
     /\ \A b \in Burners : role'[b] # role[b] /\ role'[b] \in {"lead", "member"} =>
          \E i \in Invites : /\ ~invite[i].used /\ invite'[i].usedBy = b
                             /\ role'[b] = "lead" <=> invite[i].kind = "lead_transfer"]_rosterVars

\* r's redemption commits in this step.
Redeems(r) == req[r].op = "claim" /\ invite'[req[r].invite] # invite[req[r].invite]
              /\ req'[r] # req[r]

\* An invite whose used_at is flipped yields the membership it granted: its
\* redeemer is on the roster, as lead if it transferred the lead, provided the
\* membership redeemInvite read before its transaction is still the one it
\* finds there.
ClaimYieldsRole ==
  [][\A r \in RosterRequests : Redeems(r) =>
       LET b == req[r].who IN
         req[r].role = role[b] =>
           /\ role'[b] # "none"
           /\ req[r].kind = "lead_transfer" => role'[b] = "lead"]_rosterVars

\* A lead transfer demotes the prior leads, so the redeemer alone leads, provided
\* no other transfer committed since its demotion statement read them.
TransferLeavesOneLead ==
  [][\A r \in RosterRequests :
       Redeems(r) /\ req[r].kind = "lead_transfer" /\ req[r].saw = Leads
         /\ req[r].role = role[req[r].who] =>
           \A b \in Burners : role'[b] = "lead" <=> b = req[r].who]_rosterVars

\* A camp with members keeps a lead: leaveCamp refuses a lead who is not alone, and
\* a transfer names the next one.  Only a leaving lead whose role or company changed
\* since it looked, or a transfer whose redeemer's membership did, strands it.
LeadOrStale ==
  [][Leads # {} /\ Members' # {} /\ Leads' = {} =>
       \E r \in RosterRequests :
         /\ req[r].op \in {"leave", "claim"} /\ req'[r] = Idle
         /\ \/ req[r].role # role[req[r].who]
            \/ req[r].op = "leave" /\ req[r].saw # Members]_rosterVars
===============================================================================
