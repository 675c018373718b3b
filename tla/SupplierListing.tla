----------------------------- MODULE SupplierListing -----------------------------
(***************************************************************************)
(* The catalogue of suppliers: who may hold a listing, under what name,    *)
(* and who may remove it.                                                  *)
(*                                                                         *)
(*   apps/suppliers/lib/session.ts, lib/actions/register.ts                *)
(*   apps/org/lib/actions/suppliers.ts                                     *)
(*   apps/web/lib/registration-store.ts, account-sanitize.ts               *)
(*                                                                         *)
(* No index keeps names or owners unique: the handlers check, in READ      *)
(* COMMITTED transactions or outside any, and write by id.  A request is a *)
(* process that reads in one step and writes in a later one; several run   *)
(* at once, some for the same account.                                     *)
(***************************************************************************)
EXTENDS FiniteSets

CONSTANTS
  Accounts,
  Names,     \* business names, as lower(btrim(name)) tells them apart
  Listings,  \* ids of suppliers
  Portal,    \* requests of the suppliers' portal
  Consoles,  \* deletions of the org console in flight
  Camps,     \* registrations, each with one autosave in flight
  Nobody

ASSUME SupplierListingAssumption ==
  /\ Nobody \notin Accounts
  /\ Portal \cap Consoles = {} /\ Portal \cap Camps = {} /\ Consoles \cap Camps = {}

VARIABLES
  listing,   \* suppliers: name, user_id and standing, or Absent
  declared,  \* supplier_declarations of each registration
  erased,    \* users.sanitized_at
  req,       \* what each request has read and will write
  overtaken  \* history: requests during which another one wrote

vars == <<listing, declared, erased, req, overtaken>>

Requests == Portal \cup Consoles \cup Camps
Absent == [name |-> "none", owner |-> Nobody, standing |-> "none"]
Listed == {s \in Listings : listing[s] # Absent}
OwnedBy(u) == {s \in Listed : listing[s].owner = u}

Idle == [op |-> "idle"]

Init ==
  /\ listing = [s \in Listings |-> Absent]
  /\ declared = [c \in Camps |-> {}]
  /\ erased = {}
  /\ req = [r \in Requests |-> Idle]
  /\ overtaken = {}

InFlight == {r \in Requests : req[r] # Idle}

\* r goes on, having written nothing.
Reads(r, next) ==
  /\ req' = [req EXCEPT ![r] = next]
  /\ overtaken' = IF req[r] = Idle \/ next = Idle THEN overtaken \ {r} ELSE overtaken
  /\ UNCHANGED <<listing, declared, erased>>

\* r writes and goes on to next: every other request in flight is overtaken.
Writes(r, next) ==
  /\ req' = [req EXCEPT ![r] = next]
  /\ overtaken' = ((overtaken \cup InFlight) \ {r})
                    \cup (IF next = Idle THEN {} ELSE overtaken \cap {r})

\* A write of one statement, with no request behind it.
WritesAtOnce == /\ overtaken' = InFlight
                /\ UNCHANGED req

Add(s, n, u) == listing' = [listing EXCEPT ![s] = [name |-> n, owner |-> u, standing |-> "good"]]

---------------------------------------------------------------------------
(* resolveSupplierForUser, at the start of every request of the portal.    *)
(* Whether a listing's contact line names the account's verified address   *)
(* is free text: any listing may.                                          *)

Signin(p, u) ==
  /\ req[p] = Idle
  /\ u \notin erased
  /\ IF OwnedBy(u) # {}
       THEN \E s \in OwnedBy(u) : Reads(p, [op |-> "session", account |-> u, listing |-> s])
       ELSE \E s \in Listed : /\ listing[s].owner = Nobody
                              /\ Reads(p, [op |-> "claim", account |-> u, listing |-> s])

MutClaimable(s) == TRUE
\* WHERE user_id IS NULL.
Claimable(s) == listing[s].owner = Nobody

\* The row count is not looked at: the loser goes on as if the listing were its
\* own.  A listing deleted meanwhile takes no onboarding row, and ends the request.
Claim(p) ==
  LET r == req[p] IN
  /\ r.op = "claim"
  /\ r.listing \in Listed
  /\ IF Claimable(r.listing)
       THEN /\ listing' = [listing EXCEPT ![r.listing].owner = r.account]
            /\ Writes(p, [r EXCEPT !.op = "session"])
            /\ UNCHANGED <<declared, erased>>
       ELSE Reads(p, [r EXCEPT !.op = "session"])

---------------------------------------------------------------------------
(* registerSupplier and updateSupplierProfile, one transaction each.       *)

\* findNameClash.
NameFree(n, except) == \A s \in Listed \ except : listing[s].name # n

MutMayRegister(u, n) == NameFree(n, {})
MayRegister(u, n) ==
  /\ u \notin erased
  /\ OwnedBy(u) = {}
  /\ NameFree(n, {})

RegisterRead(p, u, n) ==
  /\ req[p] = Idle
  /\ MayRegister(u, n)
  /\ Reads(p, [op |-> "register", account |-> u, name |-> n])

RegisterCommit(p) ==
  LET r == req[p] IN
  /\ r.op = "register"
  /\ \E s \in Listings \ Listed : Add(s, r.name, r.account)
  /\ Writes(p, Idle)
  /\ UNCHANGED <<declared, erased>>

ProfileRead(p, n) ==
  LET r == req[p] IN
  /\ r.op = "session"
  /\ NameFree(n, {r.listing})
  /\ Reads(p, [op |-> "profile", account |-> r.account, listing |-> r.listing, name |-> n])

\* The update is keyed on the id alone.  Where the listing is gone it matches no
\* row and the request reports success all the same: Drop stands for that.
ProfileCommit(p) ==
  LET r == req[p] IN
  /\ r.op = "profile"
  /\ r.listing \in Listed
  /\ listing' = [listing EXCEPT ![r.listing].name = r.name]
  /\ Writes(p, Idle)
  /\ UNCHANGED <<declared, erased>>

---------------------------------------------------------------------------
(* The org console: addSupplier asks nobody, setSupplierStanding writes by *)
(* id, deleteSupplier checks outside its transaction.                      *)

AddSupplier(n) ==
  /\ \E s \in Listings \ Listed : Add(s, n, Nobody)
  /\ WritesAtOnce
  /\ UNCHANGED <<declared, erased>>

SetStanding(s, standing) ==
  /\ s \in Listed /\ standing # listing[s].standing
  /\ listing' = [listing EXCEPT ![s].standing = standing]
  /\ WritesAtOnce
  /\ UNCHANGED <<declared, erased>>

MutDeletable(s) == s \in Listed /\ listing[s].owner = Nobody
Deletable(s) ==
  /\ s \in Listed
  /\ listing[s].owner = Nobody
  /\ \A c \in Camps : s \notin declared[c]

DeleteRead(c, s) ==
  /\ req[c] = Idle
  /\ Deletable(s)
  /\ Reads(c, [op |-> "delete", listing |-> s])

\* The declarations of the listing go with it (ON DELETE CASCADE).
DeleteCommit(c) ==
  LET s == req[c].listing IN
  /\ req[c].op = "delete"
  /\ listing' = [listing EXCEPT ![s] = Absent]
  /\ declared' = [k \in Camps |-> declared[k] \ {s}]
  /\ Writes(c, Idle)
  /\ UNCHANGED erased

---------------------------------------------------------------------------
\* replaceSupplierDeclarations: filterPickerEligible on what the camp asked for.
DeclareRead(c, asked) ==
  /\ req[c] = Idle
  /\ Reads(c, [op |-> "declare", eligible |->
       {s \in asked \cap Listed : listing[s].standing # "suspended"}])

\* A listing deleted meanwhile fails the foreign key, and the transaction.
DeclareCommit(c) ==
  /\ req[c].op = "declare"
  /\ req[c].eligible \subseteq Listed
  /\ declared' = [declared EXCEPT ![c] = req[c].eligible]
  /\ Writes(c, Idle)
  /\ UNCHANGED <<listing, erased>>

MutReleased(u) == listing
\* sanitizeAccount: the listing stays, for the business to claim again.
Released(u) == [s \in Listings |->
  IF listing[s].owner = u THEN [listing[s] EXCEPT !.owner = Nobody] ELSE listing[s]]

Erase(u) ==
  /\ u \notin erased
  /\ erased' = erased \cup {u}
  /\ listing' = Released(u)
  /\ WritesAtOnce
  /\ UNCHANGED declared

\* The request ends without writing, or dies.
Drop(r) == req[r] # Idle /\ Reads(r, Idle)

PortalStep(p) ==
  \/ \E u \in Accounts : Signin(p, u)
  \/ Claim(p)
  \/ \E u \in Accounts, n \in Names : RegisterRead(p, u, n)
  \/ RegisterCommit(p)
  \/ \E n \in Names : ProfileRead(p, n)
  \/ ProfileCommit(p)

ConsoleStep(c) ==
  \/ \E s \in Listings : DeleteRead(c, s)
  \/ DeleteCommit(c)

CampStep(c) ==
  \/ \E asked \in SUBSET Listings : DeclareRead(c, asked)
  \/ DeclareCommit(c)

Next ==
  \/ \E p \in Portal : PortalStep(p)
  \/ \E c \in Consoles : ConsoleStep(c)
  \/ \E c \in Camps : CampStep(c)
  \/ \E r \in Requests : Drop(r)
  \/ \E n \in Names : AddSupplier(n)
  \/ \E s \in Listings, standing \in {"good", "suspended"} : SetStanding(s, standing)
  \/ \E u \in Accounts : Erase(u)

Spec == Init /\ [][Next]_vars

---------------------------------------------------------------------------
(* Properties.  Each says what one request at a time would guarantee, and  *)
(* allows no more than what another request's write during it explains.    *)

Undisturbed(r) == req[r] # Idle /\ r \notin overtaken

\* The request that this step completes.
Completes(r) == req[r] # Idle /\ req'[r] = Idle

\* A listing is its holder's: it changes hands only by being given up, so that two
\* claims of it, or a claim and an erasure, never take it from whoever holds it (the
\* claim's WHERE user_id IS NULL, sanitizeAccount's release); and whoever lost the
\* race for it, or was erased since, rewrites it only by having been overtaken
\* (updateSupplierProfile writes to the listing its session resolved to).
OnlyHoldersAct ==
  [][/\ \A s \in Listed :
          LET was == listing[s].owner IN
          was # Nobody /\ listing'[s] # Absent /\ listing'[s].owner # was =>
            /\ listing'[s].owner = Nobody
            /\ was \in erased'
     /\ \A p \in Portal :
          Undisturbed(p) /\ Completes(p) /\ req[p].op = "profile" /\ listing' # listing =>
            listing[req[p].listing].owner = req[p].account]_vars

\* A suspension is not laundered, nor a business's history split: an account gets
\* no second listing, and no listing takes a name that another one bears, however
\* registrations, renamings, claims and deletions follow one another (the two
\* guards of registerSupplier and updateSupplierProfile).
RegistersOnce ==
  [][\A p \in Portal :
       Undisturbed(p) /\ req'[p] # req[p] =>
         \A s \in Listings :
           /\ listing'[s].name # listing[s].name =>
                \A t \in Listed \ {s} : listing[t].name # listing'[s].name
           /\ listing'[s].owner # listing[s].owner => OwnedBy(listing'[s].owner) = {}]_vars

\* "declared by any registration -> REFUSED ... claimed -> REFUSED" (deleteSupplier):
\* a listing that goes leaves no holder and takes no camp's declaration along.
DeleteStrandsNobody ==
  [][\A c \in Consoles :
       Undisturbed(c) /\ Completes(c) =>
         /\ declared' = declared
         /\ \A s \in Listed : listing'[s] = Absent => listing[s].owner = Nobody]_vars

\* An erased account holds no listing, unless a request of its own was in flight
\* when it was erased (sanitizeAccount, registerSupplier, resolveSupplierForUser).
ErasedHoldsNothing ==
  [][\A u \in erased' :
       (\E s \in Listings : listing'[s].owner = u) =>
         \/ OwnedBy(u) # {} /\ u \in erased
         \/ \E p \in Portal \cap overtaken : req[p].account = u]_vars
==================================================================================
