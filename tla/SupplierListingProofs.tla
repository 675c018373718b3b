-------------------------- MODULE SupplierListingProofs --------------------------
(***************************************************************************)
(* Theorems about SupplierListing, for every set of accounts, names,       *)
(* listings and requests.                                                  *)
(***************************************************************************)
EXTENDS SupplierListing, TLAPS

Supplier == [name : Names \cup {"none"}, owner : Accounts \cup {Nobody},
             standing : {"none", "good", "suspended"}]

\* The requests of each process.
Typed(r, q) ==
  /\ r \in Portal => /\ q.op \in {"claim", "session", "register", "profile"}
                     /\ q.account \in Accounts
                     /\ q.op \in {"register", "profile"} => q.name \in Names
                     /\ q.op \in {"claim", "session", "profile"} => q.listing \in Listings
  /\ r \in Consoles => q.op = "delete" /\ q.listing \in Listings
  /\ r \in Camps => q.op = "declare"

TypeInv ==
  /\ listing \in [Listings -> Supplier]
  /\ declared \in [Camps -> SUBSET Listings]
  /\ erased \subseteq Accounts
  /\ DOMAIN req = Requests
  /\ \A r \in Requests : req[r] # Idle => Typed(r, req[r])

\* What a request found is still so.
Current(q) ==
  /\ q.op = "claim" => listing[q.listing].owner = Nobody /\ OwnedBy(q.account) = {}
  /\ q.op \in {"session", "profile"} => listing[q.listing].owner = q.account
  /\ q.op = "profile" => NameFree(q.name, {q.listing})
  /\ q.op = "register" => OwnedBy(q.account) = {} /\ NameFree(q.name, {})
  /\ q.op = "delete" => Deletable(q.listing)

\* What a request that nothing overtook has found is still so.
RequestsAreCurrent ==
  \A r \in Requests : req[r] # Idle /\ r \notin overtaken => Current(req[r])

\* A request of an account that is erased was overtaken by the erasure.
ErasureOvertakes ==
  \A p \in Portal : req[p] # Idle /\ req[p].account \in erased => p \in overtaken

Inv == TypeInv /\ RequestsAreCurrent /\ ErasureOvertakes

---------------------------------------------------------------------------
(* The kinds of step.                                                      *)

\* A process is of one kind, and a request in flight is not idle.
LEMMA RequestFacts ==
  /\ Idle.op = "idle"
  /\ \A r \in Portal : r \in Requests /\ r \notin Consoles /\ r \notin Camps
  /\ \A r \in Consoles : r \in Requests /\ r \notin Portal /\ r \notin Camps
  /\ \A r \in Camps : r \in Requests /\ r \notin Portal /\ r \notin Consoles
  BY SupplierListingAssumption DEF Idle, Requests

\* The invariant holds at the start.
LEMMA InitInv == Init => Inv
  <1> SUFFICES ASSUME Init PROVE Inv
    OBVIOUS
  <1>1. Absent \in Supplier
    BY DEF Absent, Supplier
  <1>2. \A r \in Requests : req[r] = Idle
    BY DEF Init
  <1> QED BY <1>1, <1>2, RequestFacts DEF Init, Inv, TypeInv, RequestsAreCurrent, ErasureOvertakes

\* A step that only reads keeps the invariant, if what it goes on with is so.
LEMMA ReadKeeps ==
  ASSUME Inv, NEW r \in Requests, NEW next, Reads(r, next),
         next # Idle => /\ Typed(r, next)
                        /\ req[r] = Idle \/ r \notin overtaken => Current(next)
                        /\ r \in Portal /\ next.account \in erased =>
                             req[r] # Idle /\ req[r].account = next.account
  PROVE  Inv'
  <1>1. /\ req' = [req EXCEPT ![r] = next]
        /\ UNCHANGED <<listing, declared, erased>>
        /\ \A q \in Requests \ {r} : q \in overtaken' <=> q \in overtaken
        /\ r \in overtaken' => req[r] # Idle /\ next # Idle /\ r \in overtaken
        /\ r \notin overtaken' => req[r] = Idle \/ next = Idle \/ r \notin overtaken
    BY DEF Reads
  <1>2. /\ DOMAIN req' = Requests /\ req'[r] = next
        /\ \A q \in Requests \ {r} : req'[q] = req[q]
    BY <1>1 DEF Inv, TypeInv
  <1>3. TypeInv'
    BY <1>1, <1>2 DEF Inv, TypeInv
  <1>4. \A q : Current(q)' <=> Current(q)
    BY <1>1 DEF Current, OwnedBy, NameFree, Deletable, Listed
  <1>5. RequestsAreCurrent'
    <2> SUFFICES ASSUME NEW q \in Requests, req'[q] # Idle, q \notin overtaken'
                 PROVE  Current(req[q])'
      BY DEF RequestsAreCurrent
    <2>1. CASE q = r
      <3>1. Current(next)
        BY <1>1, <1>2, <2>1
      <3> QED BY <1>1, <1>2, <2>1, <3>1 DEF Current, OwnedBy, NameFree, Deletable, Listed
    <2>2. CASE q # r
      <3>1. Current(req[q])
        BY <1>1, <1>2, <2>2 DEF Inv, RequestsAreCurrent
      <3> QED BY <1>1, <1>2, <2>2, <3>1 DEF Current, OwnedBy, NameFree, Deletable, Listed
    <2> QED BY <2>1, <2>2
  <1>6. ErasureOvertakes'
    <2> SUFFICES ASSUME NEW p \in Portal, req'[p] # Idle, req'[p].account \in erased
                 PROVE  p \in overtaken'
      BY <1>1 DEF ErasureOvertakes
    <2>1. CASE p = r
      BY <1>1, <1>2, <2>1, RequestFacts DEF Inv, ErasureOvertakes
    <2>2. CASE p # r
      BY <1>1, <1>2, <2>2, RequestFacts DEF Inv, ErasureOvertakes
    <2> QED BY <2>1, <2>2
  <1> QED BY <1>3, <1>5, <1>6 DEF Inv

\* A request that writes and ends overtakes all others.
LEMMA WriteKeeps ==
  ASSUME Inv, NEW r \in Requests, Writes(r, Idle), UNCHANGED erased,
         listing' \in [Listings -> Supplier], declared' \in [Camps -> SUBSET Listings]
  PROVE  Inv'
  <1>1. /\ DOMAIN req' = Requests /\ req'[r] = Idle
        /\ \A q \in Requests \ {r} : /\ req'[q] = req[q]
                                     /\ req[q] # Idle => q \in overtaken'
    BY DEF Inv, TypeInv, Writes, InFlight
  <1>2. TypeInv'
    BY <1>1 DEF Inv, TypeInv
  <1> QED BY <1>1, <1>2, RequestFacts DEF Inv, RequestsAreCurrent, ErasureOvertakes

\* So does a write with no request behind it.
LEMMA WriteAtOnceKeeps ==
  ASSUME Inv, WritesAtOnce, listing' \in [Listings -> Supplier], UNCHANGED declared,
         erased' \subseteq Accounts
  PROVE  Inv'
  <1>1. req' = req /\ \A q \in Requests : req[q] # Idle => q \in overtaken'
    BY DEF WritesAtOnce, InFlight
  <1>2. TypeInv'
    BY <1>1 DEF Inv, TypeInv
  <1> QED BY <1>1, <1>2, RequestFacts DEF Inv, RequestsAreCurrent, ErasureOvertakes

---------------------------------------------------------------------------
(* The actions.                                                            *)

LEMMA SigninKeeps ==
  ASSUME Inv, NEW p \in Portal, NEW u \in Accounts, Signin(p, u)
  PROVE  Inv'
  <1>1. PICK s \in Listed, op \in {"session", "claim"} :
          /\ Reads(p, [op |-> op, account |-> u, listing |-> s])
          /\ op = "session" => listing[s].owner = u
          /\ op = "claim" => listing[s].owner = Nobody /\ OwnedBy(u) = {}
    <2>1. CASE OwnedBy(u) # {}
      BY <2>1 DEF Signin, OwnedBy
    <2>2. CASE OwnedBy(u) = {}
      BY <2>2 DEF Signin
    <2> QED BY <2>1, <2>2
  <1> DEFINE next == [op |-> op, account |-> u, listing |-> s]
  <1>2. Typed(p, next)
    BY RequestFacts DEF Typed, Listed
  <1>3. Current(next)
    BY <1>1 DEF Current
  <1>4. u \notin erased
    BY DEF Signin
  <1> QED BY <1>1, <1>2, <1>3, <1>4, ReadKeeps, RequestFacts

\* A claim that wins gives the account its first listing.
ClaimWins(p) ==
  /\ listing' = [listing EXCEPT ![req[p].listing].owner = req[p].account]
  /\ listing[req[p].listing].owner = Nobody
  /\ Writes(p, [req[p] EXCEPT !.op = "session"])

LEMMA ClaimKeeps ==
  ASSUME Inv, NEW p \in Portal, Claim(p)
  PROVE  Inv'
  <1> DEFINE q == req[p]
             next == [q EXCEPT !.op = "session"]
  <1>1. /\ q # Idle /\ q.op = "claim" /\ q.account \in Accounts /\ q.listing \in Listings
        /\ next.op = "session" /\ next.account = q.account /\ next.listing = q.listing
    BY RequestFacts DEF Inv, TypeInv, Typed, Claim
  <1>2. Typed(p, next) /\ next # Idle
    BY <1>1, RequestFacts DEF Typed
  <1>3. CASE ~Claimable(q.listing)
    <2>1. Reads(p, next)
      BY <1>3 DEF Claim
    <2>2. p \in overtaken
      BY <1>1, <1>3, RequestFacts DEF Inv, RequestsAreCurrent, Current, Claimable
    <2> QED BY <1>1, <1>2, <2>1, <2>2, ReadKeeps, RequestFacts
  <1>4. CASE Claimable(q.listing)
    <2>1. /\ listing' = [listing EXCEPT ![q.listing].owner = q.account]
          /\ Writes(p, next) /\ UNCHANGED <<declared, erased>>
      BY <1>4 DEF Claim
    <2>2. /\ req'[p] = next /\ DOMAIN req' = Requests
          /\ \A r \in Requests \ {p} : /\ req'[r] = req[r]
                                       /\ req[r] # Idle => r \in overtaken'
          /\ p \in overtaken => p \in overtaken'
      BY <1>2, <2>1, RequestFacts DEF Inv, TypeInv, Writes, InFlight
    <2>3. listing' \in [Listings -> Supplier] /\ listing'[q.listing].owner = q.account
      BY <1>1, <2>1 DEF Inv, TypeInv, Supplier
    <2>4. TypeInv'
      BY <1>2, <2>1, <2>2, <2>3 DEF Inv, TypeInv
    <2>5. /\ req'[p].op = "session"
          /\ listing'[req'[p].listing].owner = req'[p].account
      BY <1>1, <2>2, <2>3
    <2>6. RequestsAreCurrent'
      BY <2>2, <2>5 DEF RequestsAreCurrent, Current
    <2>7. ErasureOvertakes'
      BY <1>1, <2>1, <2>2, RequestFacts DEF Inv, ErasureOvertakes
    <2> QED BY <2>4, <2>6, <2>7 DEF Inv
  <1> QED BY <1>3, <1>4

LEMMA RegisterReadKeeps ==
  ASSUME Inv, NEW p \in Portal, NEW u \in Accounts, NEW n \in Names, RegisterRead(p, u, n)
  PROVE  Inv'
  <1> DEFINE next == [op |-> "register", account |-> u, name |-> n]
  <1>1. Typed(p, next) /\ Reads(p, next) /\ u \notin erased
    BY RequestFacts DEF Typed, RegisterRead, MayRegister
  <1>2. Current(next)
    BY DEF Current, RegisterRead, MayRegister
  <1> QED BY <1>1, <1>2, ReadKeeps, RequestFacts

LEMMA ProfileReadKeeps ==
  ASSUME Inv, NEW p \in Portal, NEW n \in Names, ProfileRead(p, n)
  PROVE  Inv'
  <1> DEFINE q == req[p]
             next == [op |-> "profile", account |-> q.account, listing |-> q.listing, name |-> n]
  <1>1. q # Idle /\ q.op = "session" /\ q.account \in Accounts /\ q.listing \in Listings
    BY RequestFacts DEF Inv, TypeInv, Typed, ProfileRead
  <1>2. Typed(p, next) /\ Reads(p, next)
    BY <1>1, RequestFacts DEF Typed, ProfileRead
  <1>3. p \notin overtaken => Current(next)
    BY <1>1, RequestFacts DEF Inv, RequestsAreCurrent, Current, ProfileRead
  <1> QED BY <1>1, <1>2, <1>3, ReadKeeps, RequestFacts

LEMMA DeleteReadKeeps ==
  ASSUME Inv, NEW c \in Consoles, NEW s \in Listings, DeleteRead(c, s)
  PROVE  Inv'
  <1> DEFINE next == [op |-> "delete", listing |-> s]
  <1>1. Typed(c, next) /\ Reads(c, next) /\ Current(next)
    BY RequestFacts DEF Typed, DeleteRead, Current
  <1> QED BY <1>1, ReadKeeps, RequestFacts

LEMMA DeclareReadKeeps ==
  ASSUME Inv, NEW c \in Camps, NEW asked \in SUBSET Listings, DeclareRead(c, asked)
  PROVE  Inv'
  <1>1. PICK eligible : Reads(c, [op |-> "declare", eligible |-> eligible])
    BY DEF DeclareRead
  <1> DEFINE next == [op |-> "declare", eligible |-> eligible]
  <1>2. Typed(c, next) /\ Current(next)
    BY RequestFacts DEF Typed, Current
  <1> QED BY <1>1, <1>2, ReadKeeps, RequestFacts

\* A new listing is no other's.
LEMMA AddFacts ==
  ASSUME TypeInv, NEW s \in Listings \ Listed, NEW n \in Names,
         NEW u \in Accounts \cup {Nobody}, Add(s, n, u)
  PROVE  /\ listing' \in [Listings -> Supplier]
         /\ listing[s] = Absent /\ listing'[s].name = n /\ listing'[s].owner = u
         /\ \A t \in Listings \ {s} : listing'[t] = listing[t]
  BY DEF TypeInv, Supplier, Add, Listed

\* What one request's commit does to the listings.
LEMMA CommitFacts ==
  ASSUME Inv, NEW p \in Portal, RegisterCommit(p) \/ ProfileCommit(p)
  PROVE  /\ listing' \in [Listings -> Supplier]
         /\ Writes(p, Idle) /\ UNCHANGED <<declared, erased>>
         /\ req[p] # Idle /\ req[p].account \in Accounts
  <1>1. req[p] # Idle /\ Typed(p, req[p])
    BY RequestFacts DEF Inv, TypeInv, RegisterCommit, ProfileCommit
  <1>2. CASE RegisterCommit(p)
    <2>1. PICK s \in Listings \ Listed : Add(s, req[p].name, req[p].account)
      BY <1>2 DEF RegisterCommit
    <2>2. req[p].name \in Names /\ req[p].account \in Accounts
      BY <1>1, <1>2 DEF Typed, RegisterCommit
    <2>3. listing' \in [Listings -> Supplier]
      BY <2>1, <2>2, AddFacts DEF Inv
    <2> QED BY <1>1, <1>2, <2>2, <2>3 DEF RegisterCommit
  <1>3. CASE ProfileCommit(p)
    <2>1. req[p].name \in Names /\ req[p].listing \in Listings /\ req[p].account \in Accounts
      BY <1>1, <1>3 DEF Typed, ProfileCommit
    <2>2. listing' = [listing EXCEPT ![req[p].listing].name = req[p].name]
      BY <1>3 DEF ProfileCommit
    <2>3. listing' \in [Listings -> Supplier]
      BY <2>1, <2>2 DEF Inv, TypeInv, Supplier
    <2> QED BY <1>1, <1>3, <2>1, <2>3 DEF ProfileCommit
  <1> QED BY <1>2, <1>3

LEMMA CommitKeeps ==
  ASSUME Inv, NEW p \in Portal, RegisterCommit(p) \/ ProfileCommit(p)
  PROVE  Inv'
  BY CommitFacts, WriteKeeps, RequestFacts DEF Inv, TypeInv

LEMMA DeleteCommitKeeps ==
  ASSUME Inv, NEW c \in Consoles, DeleteCommit(c)
  PROVE  Inv'
  <1>1. Absent \in Supplier
    BY DEF Absent, Supplier
  <1>2. listing' \in [Listings -> Supplier] /\ declared' \in [Camps -> SUBSET Listings]
    BY <1>1 DEF Inv, TypeInv, DeleteCommit
  <1> QED BY <1>2, WriteKeeps, RequestFacts DEF DeleteCommit

LEMMA DeclareCommitKeeps ==
  ASSUME Inv, NEW c \in Camps, DeclareCommit(c)
  PROVE  Inv'
  <1>1. listing' \in [Listings -> Supplier] /\ declared' \in [Camps -> SUBSET Listings]
    BY DEF Inv, TypeInv, DeclareCommit, Listed
  <1> QED BY <1>1, WriteKeeps, RequestFacts DEF DeclareCommit

LEMMA DropKeeps ==
  ASSUME Inv, NEW r \in Requests, Drop(r)
  PROVE  Inv'
  BY ReadKeeps DEF Drop

LEMMA AddSupplierKeeps ==
  ASSUME Inv, NEW n \in Names, AddSupplier(n)
  PROVE  Inv'
  <1>1. PICK s \in Listings \ Listed : Add(s, n, Nobody)
    BY DEF AddSupplier
  <1>2. listing' \in [Listings -> Supplier]
    BY <1>1, AddFacts DEF Inv
  <1> QED BY <1>2, WriteAtOnceKeeps DEF AddSupplier, Inv, TypeInv

LEMMA SetStandingKeeps ==
  ASSUME Inv, NEW s \in Listings, NEW standing \in {"good", "suspended"}, SetStanding(s, standing)
  PROVE  Inv'
  <1>1. listing' \in [Listings -> Supplier]
    BY DEF Inv, TypeInv, SetStanding, Supplier
  <1> QED BY <1>1, WriteAtOnceKeeps DEF SetStanding, Inv, TypeInv

\* Erasure lets go of every listing of the account, and of no other's.
LEMMA EraseFacts ==
  ASSUME Inv, NEW u \in Accounts, Erase(u)
  PROVE  /\ listing' \in [Listings -> Supplier]
         /\ \A s \in Listings :
              /\ listing[s].owner = u => listing'[s].owner = Nobody
              /\ listing[s].owner # u => listing'[s] = listing[s]
  <1>1. listing' = [s \in Listings |->
          IF listing[s].owner = u THEN [listing[s] EXCEPT !.owner = Nobody] ELSE listing[s]]
    BY DEF Erase, Released
  <1>2. \A s \in Listings : /\ [listing[s] EXCEPT !.owner = Nobody] \in Supplier
                            /\ [listing[s] EXCEPT !.owner = Nobody].owner = Nobody
                            /\ listing[s] \in Supplier
    BY DEF Inv, TypeInv, Supplier
  <1> QED BY <1>1, <1>2

LEMMA EraseKeeps ==
  ASSUME Inv, NEW u \in Accounts, Erase(u)
  PROVE  Inv'
  BY EraseFacts, WriteAtOnceKeeps DEF Erase, Inv, TypeInv

\* Every step keeps the invariant.
LEMMA NextKeeps == Inv /\ [Next]_vars => Inv'
  <1> SUFFICES ASSUME Inv, [Next]_vars PROVE Inv'
    OBVIOUS
  <1>1. ASSUME NEW p \in Portal, PortalStep(p) PROVE Inv'
    BY <1>1, SigninKeeps, ClaimKeeps, RegisterReadKeeps, ProfileReadKeeps, CommitKeeps DEF PortalStep
  <1>2. ASSUME NEW c \in Consoles, ConsoleStep(c) PROVE Inv'
    BY <1>2, DeleteReadKeeps, DeleteCommitKeeps DEF ConsoleStep
  <1>3. ASSUME NEW c \in Camps, CampStep(c) PROVE Inv'
    BY <1>3, DeclareReadKeeps, DeclareCommitKeeps DEF CampStep
  <1>4. ASSUME NEW r \in Requests, Drop(r) PROVE Inv'
    BY <1>4, DropKeeps
  <1>5. ASSUME NEW n \in Names, AddSupplier(n) PROVE Inv'
    BY <1>5, AddSupplierKeeps
  <1>6. ASSUME NEW s \in Listings, NEW standing \in {"good", "suspended"}, SetStanding(s, standing)
        PROVE  Inv'
    BY <1>6, SetStandingKeeps
  <1>7. ASSUME NEW u \in Accounts, Erase(u) PROVE Inv'
    BY <1>7, EraseKeeps
  <1>8. CASE UNCHANGED vars
    BY <1>8 DEF vars, Inv, TypeInv, RequestsAreCurrent, ErasureOvertakes, Current,
                OwnedBy, NameFree, Deletable, Listed
  <1> QED BY <1>1, <1>2, <1>3, <1>4, <1>5, <1>6, <1>7, <1>8 DEF Next

---------------------------------------------------------------------------
(* Theorems.                                                               *)

\* The inductive invariant of the listings: what a request that nothing overtook has
\* read is still so.
THEOREM ListingsInvariance == Spec => []Inv
  BY InitInv, NextKeeps, PTL DEF Spec

\* Which steps write the listings.
LEMMA Writers ==
  ASSUME Next, listing' # listing
  PROVE  \/ \E p \in Portal : (Claim(p) /\ ClaimWins(p)) \/ RegisterCommit(p) \/ ProfileCommit(p)
         \/ \E c \in Consoles : DeleteCommit(c)
         \/ \E n \in Names : AddSupplier(n)
         \/ \E s \in Listings, standing \in {"good", "suspended"} : SetStanding(s, standing)
         \/ \E u \in Accounts : Erase(u)
  BY DEF Next, PortalStep, ConsoleStep, CampStep, Signin, RegisterRead, ProfileRead, DeleteRead,
         DeclareRead, DeclareCommit, Drop, Reads, Claim, ClaimWins, Claimable

\* What each of them does to one listing.
LEMMA ListingMoves ==
  ASSUME Inv, Next, NEW s \in Listings, listing'[s] # listing[s]
  PROVE  \/ \E p \in Portal :
              /\ Claim(p) /\ ClaimWins(p) /\ s = req[p].listing
              /\ listing[s].owner = Nobody /\ listing'[s].owner = req[p].account
              /\ listing'[s].name = listing[s].name
         \/ \E p \in Portal :
              /\ RegisterCommit(p) /\ listing[s] = Absent
              /\ listing'[s].owner = req[p].account /\ listing'[s].name = req[p].name
         \/ \E p \in Portal :
              /\ ProfileCommit(p) /\ s = req[p].listing /\ listing'[s].owner = listing[s].owner
              /\ listing'[s].name = req[p].name
         \/ \E c \in Consoles : DeleteCommit(c) /\ s = req[c].listing /\ listing'[s] = Absent
         \/ \E n \in Names : AddSupplier(n) /\ listing[s] = Absent /\ listing'[s].owner = Nobody
         \/ \E standing \in {"good", "suspended"} :
              /\ SetStanding(s, standing) /\ listing'[s].owner = listing[s].owner
              /\ listing'[s].name = listing[s].name
         \/ \E u \in Accounts :
              /\ Erase(u) /\ listing[s].owner = u /\ listing'[s].owner = Nobody
  <1>1. listing' # listing
    OBVIOUS
  <1>2. ASSUME NEW p \in Portal, Claim(p), ClaimWins(p)
        PROVE  /\ s = req[p].listing
               /\ listing[s].owner = Nobody /\ listing'[s].owner = req[p].account
               /\ listing'[s].name = listing[s].name
    BY <1>2 DEF Inv, TypeInv, Supplier, ClaimWins
  <1>3. ASSUME NEW p \in Portal, RegisterCommit(p)
        PROVE  /\ listing[s] = Absent
               /\ listing'[s].owner = req[p].account /\ listing'[s].name = req[p].name
    <2>1. PICK t \in Listings \ Listed : Add(t, req[p].name, req[p].account)
      BY <1>3 DEF RegisterCommit
    <2>2. req[p].name \in Names /\ req[p].account \in Accounts
      BY <1>3, RequestFacts DEF Inv, TypeInv, Typed, RegisterCommit
    <2> QED BY <2>1, <2>2, AddFacts DEF Inv
  <1>4. ASSUME NEW p \in Portal, ProfileCommit(p)
        PROVE  /\ s = req[p].listing /\ listing'[s].owner = listing[s].owner
               /\ listing'[s].name = req[p].name
    BY <1>4 DEF Inv, TypeInv, Supplier, ProfileCommit
  <1>5. ASSUME NEW c \in Consoles, DeleteCommit(c)
        PROVE  s = req[c].listing /\ listing'[s] = Absent
    BY <1>5 DEF Inv, TypeInv, DeleteCommit
  <1>6. ASSUME NEW n \in Names, AddSupplier(n)
        PROVE  listing[s] = Absent /\ listing'[s].owner = Nobody
    <2>1. PICK t \in Listings \ Listed : Add(t, n, Nobody)
      BY <1>6 DEF AddSupplier
    <2> QED BY <2>1, AddFacts DEF Inv
  <1>7. ASSUME NEW t \in Listings, NEW standing \in {"good", "suspended"}, SetStanding(t, standing)
        PROVE  /\ s = t /\ listing'[s].owner = listing[s].owner
               /\ listing'[s].name = listing[s].name
    BY <1>7 DEF Inv, TypeInv, Supplier, SetStanding
  <1>8. ASSUME NEW u \in Accounts, Erase(u)
        PROVE  listing[s].owner = u /\ listing'[s].owner = Nobody
    BY <1>8, EraseFacts
  <1> QED BY <1>1, <1>2, <1>3, <1>4, <1>5, <1>6, <1>7, <1>8, Writers

\* A request that completes undisturbed found what is still so.
LEMMA UndisturbedIsCurrent ==
  ASSUME Inv, NEW r \in Requests, Undisturbed(r)
  PROVE  Current(req[r]) /\ Typed(r, req[r])
  BY DEF Inv, TypeInv, RequestsAreCurrent, Undisturbed

\* Only the request that steps changes its own record.
LEMMA OneSteps ==
  ASSUME Inv, NEW p \in Requests, NEW r \in Requests, req'[r] # req[r],
         (\E next : Reads(p, next)) \/ (\E next : Writes(p, next))
  PROVE  p = r
  BY DEF Inv, TypeInv, Reads, Writes

\* A listing changes hands only by being given up (resolveSupplierForUser's claim,
\* sanitizeAccount), and only who holds it rewrites it, or was overtaken.
THEOREM HoldersAct == Spec => OnlyHoldersAct
  <1> DEFINE A ==
        /\ \A s \in Listed :
             LET was == listing[s].owner IN
             was # Nobody /\ listing'[s] # Absent /\ listing'[s].owner # was =>
               /\ listing'[s].owner = Nobody
               /\ was \in erased'
        /\ \A p \in Portal :
             Undisturbed(p) /\ Completes(p) /\ req[p].op = "profile" /\ listing' # listing =>
               listing[req[p].listing].owner = req[p].account
  <1>1. Inv /\ [Next]_vars => [A]_vars
    <2> SUFFICES ASSUME Inv, Next PROVE A
      OBVIOUS
    <2>1. ASSUME NEW s \in Listed, listing[s].owner # Nobody, listing'[s] # Absent,
                 listing'[s].owner # listing[s].owner
          PROVE  listing'[s].owner = Nobody /\ listing[s].owner \in erased'
      <3>1. PICK u \in Accounts : Erase(u) /\ listing[s].owner = u /\ listing'[s].owner = Nobody
        BY <2>1, ListingMoves DEF Listed, Absent
      <3> QED BY <3>1 DEF Erase
    <2>2. ASSUME NEW p \in Portal, Undisturbed(p), req[p].op = "profile"
          PROVE  listing[req[p].listing].owner = req[p].account
      BY <2>2, UndisturbedIsCurrent, RequestFacts DEF Current
    <2> QED BY <2>1, <2>2
  <1> QED BY <1>1, ListingsInvariance, PTL DEF Spec, OnlyHoldersAct

\* No account gets a second listing and no listing another's name, from a request
\* that nothing overtook (registerSupplier, updateSupplierProfile).
THEOREM RegistrationIsOnce == Spec => RegistersOnce
  <1> DEFINE A ==
        \A p \in Portal :
          Undisturbed(p) /\ req'[p] # req[p] =>
            \A s \in Listings :
              /\ listing'[s].name # listing[s].name =>
                   \A t \in Listed \ {s} : listing[t].name # listing'[s].name
              /\ listing'[s].owner # listing[s].owner => OwnedBy(listing'[s].owner) = {}
  <1>1. Inv /\ [Next]_vars => [A]_vars
    <2> SUFFICES ASSUME Inv, Next, NEW p \in Portal, Undisturbed(p), req'[p] # req[p],
                        NEW s \in Listings, listing'[s] # listing[s]
                 PROVE  /\ listing'[s].name # listing[s].name =>
                             \A t \in Listed \ {s} : listing[t].name # listing'[s].name
                        /\ listing'[s].owner # listing[s].owner => OwnedBy(listing'[s].owner) = {}
      OBVIOUS
    <2>1. ~ \E n \in Names : AddSupplier(n)
      BY DEF AddSupplier, WritesAtOnce
    <2>2. ~ \E standing \in {"good", "suspended"} : SetStanding(s, standing)
      BY DEF SetStanding, WritesAtOnce
    <2>3. ~ \E u \in Accounts : Erase(u)
      BY DEF Erase, WritesAtOnce
    <2>4. ~ \E c \in Consoles : DeleteCommit(c)
      BY OneSteps, RequestFacts DEF DeleteCommit
    <2>5. \A q \in Portal : ClaimWins(q) \/ RegisterCommit(q) \/ ProfileCommit(q) => q = p
      BY OneSteps, RequestFacts DEF ClaimWins, RegisterCommit, ProfileCommit
    <2>6. Current(req[p])
      BY UndisturbedIsCurrent, RequestFacts
    <2>7. CASE /\ Claim(p) /\ s = req[p].listing /\ listing'[s].owner = req[p].account
               /\ listing'[s].name = listing[s].name
      BY <2>6, <2>7 DEF Current, Claim
    <2>8. CASE /\ RegisterCommit(p) /\ listing'[s].owner = req[p].account
               /\ listing'[s].name = req[p].name
      BY <2>6, <2>8 DEF Current, RegisterCommit, NameFree
    <2>9. CASE /\ ProfileCommit(p) /\ s = req[p].listing /\ listing'[s].owner = listing[s].owner
               /\ listing'[s].name = req[p].name
      BY <2>6, <2>9 DEF Current, ProfileCommit, NameFree
    <2> QED BY <2>1, <2>2, <2>3, <2>4, <2>5, <2>7, <2>8, <2>9, ListingMoves
  <1> QED BY <1>1, ListingsInvariance, PTL DEF Spec, RegistersOnce

\* A listing that goes leaves no holder and no declaration, unless something overtook
\* its deletion (deleteSupplier).
THEOREM DeletionStrandsNobody == Spec => DeleteStrandsNobody
  <1> DEFINE A ==
        \A c \in Consoles :
          Undisturbed(c) /\ Completes(c) =>
            /\ declared' = declared
            /\ \A s \in Listed : listing'[s] = Absent => listing[s].owner = Nobody
  <1>1. Inv /\ [Next]_vars => [A]_vars
    <2> SUFFICES ASSUME Inv, Next, NEW c \in Consoles, Undisturbed(c), Completes(c)
                 PROVE  /\ declared' = declared
                        /\ \A s \in Listed : listing'[s] = Absent => listing[s].owner = Nobody
      OBVIOUS
    <2>1. req'[c] # req[c] /\ Current(req[c]) /\ req[c].op = "delete"
      BY UndisturbedIsCurrent, RequestFacts DEF Completes, Typed
    <2>2. CASE DeleteCommit(c)
      <3>1. \A k \in Camps : req[c].listing \notin declared[k]
        BY <2>1 DEF Current, Deletable
      <3>2. declared' = [k \in Camps |-> declared[k] \ {req[c].listing}]
        BY <2>2 DEF DeleteCommit
      <3>3. declared' = declared
        BY <3>1, <3>2 DEF Inv, TypeInv
      <3>4. \A s \in Listed : listing'[s] = Absent => s = req[c].listing
        BY <2>2 DEF DeleteCommit, Inv, TypeInv, Listed
      <3> QED BY <2>1, <3>3, <3>4 DEF Current, Deletable
    <2>3. CASE ~DeleteCommit(c)
      <3>1. ASSUME NEW p \in Portal, PortalStep(p) PROVE FALSE
        BY <2>1, <3>1, OneSteps, RequestFacts
           DEF PortalStep, Signin, Claim, RegisterRead, RegisterCommit, ProfileRead, ProfileCommit
      <3>2. ASSUME NEW k \in Camps, CampStep(k) PROVE FALSE
        BY <2>1, <3>2, OneSteps, RequestFacts DEF CampStep, DeclareRead, DeclareCommit
      <3>3. ASSUME NEW d \in Consoles, ConsoleStep(d) PROVE UNCHANGED <<listing, declared>>
        <4>1. d = c
          BY <2>1, <3>3, OneSteps, RequestFacts DEF ConsoleStep, DeleteRead, DeleteCommit
        <4> QED BY <2>3, <3>3, <4>1 DEF ConsoleStep, DeleteRead, Reads
      <3>4. ASSUME NEW r \in Requests, Drop(r) PROVE UNCHANGED <<listing, declared>>
        BY <3>4 DEF Drop, Reads
      <3>5. UNCHANGED <<listing, declared>>
        BY <2>1, <3>1, <3>2, <3>3, <3>4
           DEF Next, AddSupplier, SetStanding, Erase, WritesAtOnce
      <3> QED BY <3>5, RequestFacts DEF Listed
    <2> QED BY <2>2, <2>3
  <1> QED BY <1>1, ListingsInvariance, PTL DEF Spec, DeleteStrandsNobody

\* An erased account holds nothing, but for a request in flight when it was erased
\* (sanitizeAccount).
THEOREM ErasedHoldNothing == Spec => ErasedHoldsNothing
  <1> DEFINE A ==
        \A u \in erased' :
          (\E s \in Listings : listing'[s].owner = u) =>
            \/ OwnedBy(u) # {} /\ u \in erased
            \/ \E p \in Portal \cap overtaken : req[p].account = u
  <1>1. Inv /\ [Next]_vars => [A]_vars
    <2> SUFFICES ASSUME Inv, Next, NEW u \in erased', NEW s \in Listings, listing'[s].owner = u
                 PROVE  \/ OwnedBy(u) # {} /\ u \in erased
                        \/ \E p \in Portal \cap overtaken : req[p].account = u
      OBVIOUS
    <2>1. CASE u \notin erased
      <3>1. PICK v \in Accounts : Erase(v)
        BY <2>1
           DEF Next, PortalStep, ConsoleStep, CampStep, Signin, Claim, RegisterRead,
               RegisterCommit, ProfileRead, ProfileCommit, DeleteRead, DeleteCommit,
               DeclareRead, DeclareCommit, Drop, Reads, AddSupplier, SetStanding
      <3>2. v = u
        BY <2>1, <3>1 DEF Erase
      <3> QED BY <3>1, <3>2, EraseFacts, SupplierListingAssumption
    <2>2. u \in erased => u # Nobody
      BY SupplierListingAssumption DEF Inv, TypeInv
    <2>3. CASE u \in erased /\ listing[s].owner = u
      BY <2>2, <2>3 DEF OwnedBy, Listed, Absent
    <2>4. CASE u \in erased /\ listing[s].owner # u
      <3>1. PICK p \in Portal : /\ (Claim(p) \/ RegisterCommit(p))
                               /\ listing'[s].owner = req[p].account
        BY <2>2, <2>4, ListingMoves DEF Absent
      <3>2. req[p] # Idle
        BY <3>1, RequestFacts DEF Claim, RegisterCommit
      <3> QED BY <2>4, <3>1, <3>2 DEF Inv, ErasureOvertakes
    <2> QED BY <2>1, <2>3, <2>4
  <1> QED BY <1>1, ListingsInvariance, PTL DEF Spec, ErasedHoldsNothing
==================================================================================
