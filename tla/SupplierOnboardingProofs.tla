------------------------ MODULE SupplierOnboardingProofs ------------------------
(***************************************************************************)
(* Theorems about SupplierOnboarding, for every set of steps, documents,   *)
(* supplier's and organisers' requests, and every number of requests.      *)
(***************************************************************************)
EXTENDS SupplierOnboarding, TLAPS

\* The supplier's requests come from a session, which opens the row.
TabsAreOpen == \A t \in Tabs : req[t] # Idle => listing = "open"

\* Before the row exists nothing is signed, and no reader has seen otherwise.
UnopenedIsBlank ==
  listing # "open" =>
    /\ acks = {}
    /\ \A c \in Consoles : req[c].op = "publish" =>
         req[c].acks = {} /\ \A k \in StepKeys : req[c].steps[k] = "pending"

\* An acknowledgement about to be inserted refers to a document in the list
\* that nobody is withdrawing: the key lock of the foreign key.
PendingAcksRefer ==
  \A t \in Tabs : req[t].op = "ack" /\ req[t].effect = "insert" =>
    /\ req[t].doc \in Published(docs)
    /\ \A c \in Consoles :
         ~(req[c].op = "publish" /\ req[c].doc = req[t].doc /\ req[c].to = Withdrawn)

\* A tick about to be written looked for documents and found none.
TicksAreFree ==
  \A t \in Tabs : req[t].op = "tick" =>
    req[t].key \notin OrgConfirmed /\ BoundTo(req[t].docs, req[t].key) = {}

\* The inductive invariant.
Inv ==
  /\ TypeOK
  /\ TabsAreOpen
  /\ UnopenedIsBlank
  /\ PendingAcksRefer
  /\ TicksAreFree

---------------------------------------------------------------------------
(* The rules and the reconciliation.                                       *)

\* The three kinds of step are different steps.
LEMMA KindsAreDisjoint ==
  /\ SelfService \cap OrgConfirmed = {}
  /\ SelfService \cap OrgReviewed = {}
  /\ OrgReviewed \cap OrgConfirmed = {}
  /\ "registration_form" \in SelfService \cap StepKeys
  BY SupplierAssumption DEF SelfService, OrgReviewed, OrgConfirmed

\* A reconciliation moves the supplier's own steps only.  Each step it looked at
\* it leaves completed exactly when its signatures are there, or as it was while
\* it awaits a confirmation.
LEMMA ReconciledFacts ==
  ASSUME NEW s \in StepMap, NEW ds, NEW as, NEW also
  PROVE  /\ Reconciled(s, ds, as, also) \in StepMap
         /\ \A k \in StepKeys : Reconciled(s, ds, as, also)[k] # s[k] =>
              k \in SelfService /\ k \in Considered(ds, also)
         /\ \A k \in StepKeys \cap Considered(ds, also) :
              IF s[k] = "awaiting_confirmation"
              THEN Reconciled(s, ds, as, also)[k] = s[k]
              ELSE Reconciled(s, ds, as, also)[k] = "completed" <=> Satisfied(ds, as, k)
  <1> DEFINE new == Reconciled(s, ds, as, also)
  <1>1. new = [k \in StepKeys |->
                 LET to == IF Satisfied(ds, as, k) THEN "completed" ELSE "pending" IN
                 IF k \in Considered(ds, also) /\ SupplierMay(k, s[k], to) THEN to ELSE s[k]]
    BY DEF Reconciled
  <1>2. new \in StepMap
    BY <1>1 DEF StepMap, Status
  <1>3. \A k \in StepKeys : new[k] # s[k] => k \in SelfService /\ k \in Considered(ds, also)
    BY <1>1 DEF Considered
  <1>4. ASSUME NEW k \in StepKeys, k \in Considered(ds, also), s[k] # "awaiting_confirmation"
        PROVE  new[k] = "completed" <=> Satisfied(ds, as, k)
    <2>1. k \in SelfService
      BY <1>4 DEF Considered
    <2>2. s[k] \in {"pending", "completed"}
      BY <1>4 DEF StepMap, Status
    <2>3. CASE Satisfied(ds, as, k)
      <3>1. s[k] = "pending" => SupplierMay(k, s[k], "completed")
        BY <2>1 DEF SupplierMay
      <3> QED
        BY <1>1, <1>4, <2>2, <2>3, <3>1
    <2>4. CASE ~Satisfied(ds, as, k)
      <3>1. s[k] = "completed" => SupplierMay(k, s[k], "pending")
        BY <2>1 DEF SupplierMay
      <3> QED
        BY <1>1, <1>4, <2>2, <2>4, <3>1
    <2> QED
      BY <2>3, <2>4
  <1>5. ASSUME NEW k \in StepKeys, k \in Considered(ds, also), s[k] = "awaiting_confirmation"
        PROVE  new[k] = s[k]
    <2>1. k \in SelfService /\ k \notin OrgReviewed
      BY <1>5, KindsAreDisjoint DEF Considered
    <2>2. ~SupplierMay(k, s[k], "completed") /\ ~SupplierMay(k, s[k], "pending")
      BY <1>5, <2>1 DEF SupplierMay
    <2> QED
      BY <1>1, <2>2
  <1> HIDE DEF new
  <1>6. \A k \in StepKeys \cap Considered(ds, also) :
          IF s[k] = "awaiting_confirmation"
          THEN new[k] = s[k]
          ELSE new[k] = "completed" <=> Satisfied(ds, as, k)
    BY <1>4, <1>5
  <1> QED
    BY <1>2, <1>3, <1>6 DEF new

---------------------------------------------------------------------------
(* The requests.                                                           *)

\* The operation of a request says whose it is and what it has read.
LEMMA RequestFacts ==
  ASSUME TypedRequests, NEW r \in Requests
  PROVE  /\ req[r].op = "tick" => r \in Tabs /\ req[r] \in Tick
         /\ req[r].op = "profile" => r \in Tabs /\ req[r] \in Profile
         /\ req[r].op = "ack" => r \in Tabs /\ req[r] \in Ack
         /\ req[r].op = "set" => r \in Consoles /\ req[r] \in Set
         /\ req[r].op = "edit" => r \in Consoles /\ req[r] \in Edit
         /\ req[r].op = "publish" => r \in Consoles /\ req[r] \in Publish
         /\ req[r].op = "idle" => req[r] = Idle
  <1>1. CASE r \in Tabs
    <2>1. req[r] \in TabRequest
      BY <1>1 DEF TypedRequests
    <2> QED
      BY <1>1, <2>1 DEF TabRequest, Idle, Tick, Profile, Ack
  <1>2. CASE r \in Consoles
    <2>1. req[r] \in ConsoleRequest
      BY <1>2 DEF TypedRequests
    <2> QED
      BY <1>2, <2>1 DEF ConsoleRequest, Idle, Set, Edit, Publish
  <1> QED
    BY <1>1, <1>2 DEF Requests

\* One request is replaced by a record of its kind.
Replaces(r, x) ==
  /\ req' = [req EXCEPT ![r] = x]
  /\ r \in Tabs => x \in TabRequest
  /\ r \in Consoles => x \in ConsoleRequest

LEMMA ReplaceTyped ==
  ASSUME TypedRequests, NEW r \in Requests, NEW x, Replaces(r, x)
  PROVE  /\ TypedRequests'
         /\ req'[r] = x
         /\ \A o \in Requests \ {r} : req'[o] = req[o]
  BY DEF TypedRequests, Replaces, Requests

\* The end of a request is one.
LEMMA EndReplaces ==
  ASSUME NEW r \in Requests, End(r)
  PROVE  Replaces(r, Idle)
  BY DEF End, Replaces, TabRequest, ConsoleRequest

\* The lock stays with its holder as long as the holder does not end.
LEMMA HolderKept ==
  ASSUME TypeOK, NEW r \in Requests, NEW x, Replaces(r, x), req[r].op # "profile",
         holder' = holder
  PROVE  (holder \in {Nobody} \cup Holding("profile"))'
  <1>1. \A o \in Requests \ {r} : req'[o] = req[o]
    BY ReplaceTyped DEF TypeOK
  <1>2. holder \in {Nobody} \cup {o \in Requests : req[o].op = "profile"}
    BY DEF TypeOK, Holding
  <1> QED
    BY <1>1, <1>2 DEF Holding

\* A request that only reads: some record takes the place of another.
Reads(r, x) ==
  /\ Replaces(r, x)
  /\ UNCHANGED <<listing, steps, docs, acks>>

\* Replacing a step by one of the reads keeps the types of all rows.
LEMMA ReadTyped ==
  ASSUME TypeOK, NEW r \in Requests, NEW x, Reads(r, x), req[r].op # "profile",
         holder' = holder
  PROVE  TypeOK'
  BY ReplaceTyped, HolderKept DEF TypeOK, Reads, StepMap, DocList, Published

\* What DocWrite is going to leave in the list.
LEMMA WrittenTyped ==
  ASSUME NEW ds \in DocList, NEW d \in Docs, NEW was, NEW to \in Bindings \cup {Withdrawn}
  PROVE  Written(ds, d, was, to) \in DocList
  BY DEF Written, DocList

\* The reads, each with the record it leaves.
LEMMA SupplierReads ==
  ASSUME TypeOK, NEW t \in Tabs
  PROVE  /\ \A k \in StepKeys, to \in Status : StepRead(t, k, to) =>
              Reads(t, [op |-> "tick", key |-> k, to |-> to, docs |-> docs])
         /\ ProfileRead(t) => Reads(t, [op |-> "profile", docs |-> docs])
         /\ \A d \in Docs, acknowledged \in BOOLEAN : AckRead(t, d, acknowledged) =>
              Reads(t, [op |-> "ack", doc |-> d, effect |-> AckEffect(d, acknowledged),
                        docs |-> docs, session |-> steps,
                        acks |-> IF acknowledged THEN acks \cup {d} ELSE acks \ {d}])
  <1>1. docs \in DocList /\ steps \in StepMap /\ acks \subseteq Docs /\ t \notin Consoles
    BY SupplierAssumption DEF TypeOK, Published
  <1>2. ASSUME NEW k \in StepKeys, NEW to \in Status, StepRead(t, k, to)
        PROVE  Reads(t, [op |-> "tick", key |-> k, to |-> to, docs |-> docs])
    <2>1. [op |-> "tick", key |-> k, to |-> to, docs |-> docs] \in Tick
      BY <1>1 DEF Tick
    <2> QED
      BY <1>1, <1>2, <2>1 DEF StepRead, Begin, Reads, Replaces, TabRequest
  <1>3. ASSUME ProfileRead(t) PROVE Reads(t, [op |-> "profile", docs |-> docs])
    <2>1. [op |-> "profile", docs |-> docs] \in Profile
      BY <1>1 DEF Profile
    <2> QED
      BY <1>1, <1>3, <2>1 DEF ProfileRead, Begin, Reads, Replaces, TabRequest
  <1>4. ASSUME NEW d \in Docs, NEW acknowledged \in BOOLEAN, AckRead(t, d, acknowledged)
        PROVE  Reads(t, [op |-> "ack", doc |-> d, effect |-> AckEffect(d, acknowledged),
                         docs |-> docs, session |-> steps,
                         acks |-> IF acknowledged THEN acks \cup {d} ELSE acks \ {d}])
    <2> DEFINE x == [op |-> "ack", doc |-> d, effect |-> AckEffect(d, acknowledged),
                     docs |-> docs, session |-> steps,
                     acks |-> IF acknowledged THEN acks \cup {d} ELSE acks \ {d}]
    <2>1. x \in Ack
      BY <1>1 DEF Ack, AckEffect
    <2>2. x \in TabRequest
      BY <2>1 DEF TabRequest
    <2> HIDE DEF x
    <2>3. Reads(t, x)
      <3>1. req' = [req EXCEPT ![t] = x] /\ UNCHANGED <<listing, steps, docs, acks>>
        BY <1>4 DEF AckRead, Begin, x
      <3> QED
        BY <1>1, <2>2, <3>1 DEF Reads, Replaces
    <2> QED
      BY <2>3 DEF x
  <1> QED
    BY <1>2, <1>3, <1>4

LEMMA ConsoleReads ==
  ASSUME TypeOK, NEW c \in Consoles
  PROVE  /\ \A k \in StepKeys, to \in Status : ConsoleRead(c, k, to) =>
              Reads(c, [op |-> "set", key |-> k, to |-> to, steps |-> steps])
         /\ \A d \in Docs, k \in StepKeys \cup {Unbound}, requiredAck \in BOOLEAN :
              CreateStart(c, d, k, requiredAck) =>
                Reads(c, [op |-> "edit", doc |-> d, to |-> k, was |-> Unpublished])
         /\ \A d \in Docs, k \in StepKeys \cup {Unbound}, requiredAck \in BOOLEAN :
              UpdateRead(c, d, k, requiredAck) =>
                Reads(c, [op |-> "edit", doc |-> d, to |-> k, was |-> docs[d]])
         /\ \A d \in Docs : WithdrawRead(c, d) =>
              Reads(c, [op |-> "edit", doc |-> d, to |-> Withdrawn, was |-> docs[d]])
         /\ DocWrite(c) =>
              \E x \in Publish :
                /\ Reads(c, x)
                /\ req[c] \in Edit /\ ~DocPending(req[c].doc)
                /\ req[c].to = Withdrawn => ~AckPending(req[c].doc)
                /\ x.doc = req[c].doc /\ x.to = req[c].to /\ x.was = req[c].was
                /\ x.docs = Written(docs, x.doc, x.was, x.to)
                /\ x.steps = steps /\ x.acks = acks \cap Published(x.docs)
  <1>1. docs \in DocList /\ steps \in StepMap /\ acks \subseteq Docs /\ c \notin Tabs
        /\ c \in Requests /\ TypedRequests
    BY SupplierAssumption DEF TypeOK, Published, Requests
  <1>2. ASSUME NEW k \in StepKeys, NEW to \in Status, ConsoleRead(c, k, to)
        PROVE  Reads(c, [op |-> "set", key |-> k, to |-> to, steps |-> steps])
    <2>1. [op |-> "set", key |-> k, to |-> to, steps |-> steps] \in Set
      BY <1>1 DEF Set
    <2> QED
      BY <1>1, <1>2, <2>1 DEF ConsoleRead, Begin, Reads, Replaces, ConsoleRequest
  <1>3. ASSUME NEW k \in StepKeys \cup {Unbound}, NEW requiredAck \in BOOLEAN,
               ValidBinding(k, requiredAck)
        PROVE  k \in Bindings
    BY <1>3 DEF ValidBinding, Bindings
  <1>4. ASSUME NEW d \in Docs, NEW to \in Bindings \cup {Withdrawn},
               NEW was \in Bindings \cup {Unpublished}
        PROVE  [op |-> "edit", doc |-> d, to |-> to, was |-> was] \in Edit
    BY DEF Edit
  <1>5. ASSUME NEW d \in Docs, NEW k \in StepKeys \cup {Unbound}, NEW requiredAck \in BOOLEAN,
               CreateStart(c, d, k, requiredAck)
        PROVE  Reads(c, [op |-> "edit", doc |-> d, to |-> k, was |-> Unpublished])
    <2>1. [op |-> "edit", doc |-> d, to |-> k, was |-> Unpublished] \in Edit
      BY <1>3, <1>4, <1>5 DEF CreateStart
    <2> QED
      BY <1>1, <1>5, <2>1 DEF CreateStart, Begin, Reads, Replaces, ConsoleRequest
  <1>6. ASSUME NEW d \in Docs, NEW k \in StepKeys \cup {Unbound}, NEW requiredAck \in BOOLEAN,
               UpdateRead(c, d, k, requiredAck)
        PROVE  Reads(c, [op |-> "edit", doc |-> d, to |-> k, was |-> docs[d]])
    <2>1. docs[d] \in Bindings
      BY <1>6 DEF UpdateRead, Published
    <2>2. [op |-> "edit", doc |-> d, to |-> k, was |-> docs[d]] \in Edit
      BY <1>3, <1>4, <1>6, <2>1 DEF UpdateRead
    <2> QED
      BY <1>1, <1>6, <2>2 DEF UpdateRead, Begin, Reads, Replaces, ConsoleRequest
  <1>7. ASSUME NEW d \in Docs, WithdrawRead(c, d)
        PROVE  Reads(c, [op |-> "edit", doc |-> d, to |-> Withdrawn, was |-> docs[d]])
    <2>1. docs[d] \in Bindings
      BY <1>7 DEF WithdrawRead, Published
    <2>2. [op |-> "edit", doc |-> d, to |-> Withdrawn, was |-> docs[d]] \in Edit
      BY <1>4, <2>1
    <2> QED
      BY <1>1, <1>7, <2>2 DEF WithdrawRead, Begin, Reads, Replaces, ConsoleRequest
  <1>8. ASSUME DocWrite(c)
        PROVE  \E x \in Publish :
                 /\ Reads(c, x)
                 /\ req[c] \in Edit /\ ~DocPending(req[c].doc)
                 /\ req[c].to = Withdrawn => ~AckPending(req[c].doc)
                 /\ x.doc = req[c].doc /\ x.to = req[c].to /\ x.was = req[c].was
                 /\ x.docs = Written(docs, x.doc, x.was, x.to)
                 /\ x.steps = steps /\ x.acks = acks \cap Published(x.docs)
    <2> DEFINE r == req[c]
               written == Written(docs, r.doc, r.was, r.to)
               x == [op |-> "publish", doc |-> r.doc, to |-> r.to, was |-> r.was,
                     docs |-> written, steps |-> steps, acks |-> acks \cap Published(written)]
    <2>1. r \in Edit
      BY <1>1, <1>8, RequestFacts DEF DocWrite
    <2>2. /\ r.doc \in Docs /\ r.to \in Bindings \cup {Withdrawn}
          /\ r.was \in Bindings \cup {Unpublished}
      BY <2>1 DEF Edit
    <2>3. written \in DocList
      BY <1>1, <2>2, WrittenTyped
    <2>4. x \in Publish
      <3> HIDE DEF r, written
      <3> QED
        BY <1>1, <2>2, <2>3 DEF Publish
    <2>5. req' = [req EXCEPT ![c] = x] /\ UNCHANGED <<listing, steps, docs, acks>>
      BY <1>8 DEF DocWrite
    <2>6. Reads(c, x)
      <3> HIDE DEF x
      <3> QED
        BY <1>1, <2>4, <2>5 DEF Reads, Replaces, ConsoleRequest
    <2>7. ~DocPending(r.doc) /\ (r.to = Withdrawn => ~AckPending(r.doc))
      BY <1>8 DEF DocWrite
    <2> WITNESS x \in Publish
    <2> QED
      BY <2>1, <2>6, <2>7
  <1> QED
    BY <1>2, <1>5, <1>6, <1>7, <1>8

---------------------------------------------------------------------------
(* The type invariant.                                                     *)

\* What a commit leaves besides the rows it writes: its request is over, and
\* the lock is free if it was the request's.
Ends(r) ==
  /\ r \in Requests /\ req[r] # Idle
  /\ End(r)
  /\ holder' \in {Nobody, holder}
  /\ req[r].op = "profile" => holder' # r

LEMMA EndTyped ==
  ASSUME TypeOK, NEW r, Ends(r)
  PROVE  TypedRequests' /\ (holder \in {Nobody} \cup Holding("profile"))'
  <1>1. TypedRequests' /\ \A o \in Requests \ {r} : req'[o] = req[o]
    BY EndReplaces, ReplaceTyped DEF TypeOK, Ends
  <1>2. holder \in {Nobody} \cup {o \in Requests : req[o].op = "profile"}
    BY DEF TypeOK, Holding
  <1>3. holder' # Nobody => holder' \in Requests \ {r} /\ req[holder'].op = "profile"
    BY <1>2 DEF Ends
  <1> QED
    BY <1>1, <1>3 DEF Holding

\* Where each commit is one.
LEMMA CommitsEnd ==
  ASSUME TypeOK
  PROVE  /\ \A t \in Tabs : StepCommit(t) \/ ProfileCommit(t) \/ AckCommit(t) => Ends(t)
         /\ \A c \in Consoles : ConsoleCommit(c) \/ DocCommit(c) => Ends(c)
         /\ \A r \in Requests : Abandon(r) => Ends(r)
  <1>1. ASSUME NEW t \in Tabs, StepCommit(t) \/ ProfileCommit(t) \/ AckCommit(t)
        PROVE  Ends(t)
    <2>1. t # Nobody
      BY SupplierAssumption
    <2>2. CASE StepCommit(t)
      BY <2>1, <2>2 DEF StepCommit, Ends, Idle, Requests
    <2>3. CASE ProfileCommit(t)
      BY <2>1, <2>3 DEF ProfileCommit, Ends, Idle, Requests
    <2>4. CASE AckCommit(t)
      BY <2>1, <2>4 DEF AckCommit, Ends, Idle, Requests
    <2> QED
      BY <1>1, <2>2, <2>3, <2>4
  <1>2. ASSUME NEW c \in Consoles, ConsoleCommit(c) \/ DocCommit(c) PROVE Ends(c)
    <2>1. CASE ConsoleCommit(c)
      BY <2>1 DEF ConsoleCommit, Ends, Idle, Requests
    <2>2. CASE DocCommit(c)
      BY <2>2 DEF DocCommit, Ends, Idle, Requests
    <2> QED
      BY <1>2, <2>1, <2>2
  <1>3. ASSUME NEW r \in Requests, Abandon(r) PROVE Ends(r)
    <2>1. req[r].op = "profile" => r # Nobody
      BY SupplierAssumption, RequestFacts DEF TypeOK
    <2> QED
      BY <1>3, <2>1 DEF Abandon, Ends, Free, Idle
  <1> QED
    BY <1>1, <1>2, <1>3

\* The list and the acknowledgements after DocCommit.
LEMMA DocCommitRows ==
  ASSUME TypeOK, NEW c \in Consoles, DocCommit(c)
  PROVE  /\ req[c] \in Publish
         /\ docs' \in DocList
         /\ acks' = acks \cap Published(docs')
         /\ \A d \in Published(docs) :
              d \in Published(docs') \/ (d = req[c].doc /\ req[c].to = Withdrawn)
         /\ Reconciled(req[c].steps, req[c].docs, req[c].acks, {req[c].was, req[c].to}) \in StepMap
         /\ steps' \in {steps, Reconciled(req[c].steps, req[c].docs, req[c].acks,
                                          {req[c].was, req[c].to})}
  <1>1. req[c] \in Publish
    BY RequestFacts DEF DocCommit, TypeOK, Requests
  <1>2. /\ req[c].doc \in Docs /\ req[c].to \in Bindings \cup {Withdrawn}
        /\ req[c].steps \in StepMap
    BY <1>1 DEF Publish
  <1>3. docs' = Written(docs, req[c].doc, req[c].was, req[c].to) /\ docs \in DocList
    BY DEF DocCommit, TypeOK
  <1>4. docs' \in DocList
    BY <1>2, <1>3, WrittenTyped
  <1>5. ASSUME NEW d \in Published(docs)
        PROVE  d \in Published(docs') \/ (d = req[c].doc /\ req[c].to = Withdrawn)
    BY <1>2, <1>3 DEF Published, Written, DocList
  <1>6. acks' = acks \cap Published(docs')
    BY DEF DocCommit, SurvivingAcks
  <1>7. Reconciled(req[c].steps, req[c].docs, req[c].acks, {req[c].was, req[c].to}) \in StepMap
    BY <1>2, ReconciledFacts
  <1>8. steps' \in {steps, Reconciled(req[c].steps, req[c].docs, req[c].acks,
                                      {req[c].was, req[c].to})}
    BY DEF DocCommit
  <1> QED
    BY <1>1, <1>4, <1>5, <1>6, <1>7, <1>8

\* What AckCommit writes.
LEMMA AckCommitRows ==
  ASSUME TypeOK, NEW t \in Tabs, AckCommit(t)
  PROVE  /\ req[t] \in Ack
         /\ steps' = Reconciled(steps, req[t].docs, req[t].acks, {})
         /\ steps' \in StepMap
         /\ docs' = docs
         /\ acks' \subseteq acks \cup (IF req[t].effect = "insert" THEN {req[t].doc} ELSE {})
  <1>1. req[t] \in Ack
    BY RequestFacts DEF AckCommit, TypeOK, Requests
  <1>2. steps' = Reconciled(steps, req[t].docs, req[t].acks, {})
    BY DEF AckCommit, LockedSteps
  <1>3. steps' \in StepMap
    BY <1>2, ReconciledFacts DEF TypeOK
  <1>4. acks' \subseteq acks \cup (IF req[t].effect = "insert" THEN {req[t].doc} ELSE {})
    BY DEF AckCommit
  <1> QED
    BY <1>1, <1>2, <1>3, <1>4 DEF AckCommit

\* A supplier's request in flight has an open row.
LEMMA OpenTabs ==
  ASSUME TabsAreOpen, NEW t \in Tabs, Ends(t)
  PROVE  listing = "open"
  BY DEF TabsAreOpen, Ends

\* Every handler leaves the rows well typed.
LEMMA TypeStep == Inv /\ [Next]_vars => TypeOK'
  <1> SUFFICES ASSUME Inv, [Next]_vars PROVE TypeOK'
    OBVIOUS
  <1>0. TypeOK /\ TabsAreOpen /\ UnopenedIsBlank /\ PendingAcksRefer
    BY DEF Inv
  <1>1. CASE UNCHANGED vars
    BY <1>0, <1>1 DEF TypeOK, TypedRequests, vars, Published, Holding
  <1>2. CASE AddSupplier \/ RegisterSupplier \/ EnsureRow
    <2>1. listing' \in {"listed", "open"} /\ steps' \in StepMap
      BY <1>0, <1>2 DEF AddSupplier, RegisterSupplier, EnsureRow, TypeOK, StepMap, Status
    <2>2. listing' # "open" => \A k \in StepKeys : steps'[k] = "pending"
      BY <1>0, <1>2 DEF AddSupplier, RegisterSupplier, EnsureRow, TypeOK
    <2>3. UNCHANGED <<docs, acks, holder, req>>
      BY <1>2 DEF AddSupplier, RegisterSupplier, EnsureRow
    <2> QED
      BY <1>0, <2>1, <2>2, <2>3 DEF TypeOK, TypedRequests, Published, Holding
  <1>3. ASSUME NEW t \in Tabs, SupplierStep(t) PROVE TypeOK'
    <2>0. t \in Requests
      BY DEF Requests
    <2>1. ASSUME NEW k \in StepKeys, NEW to \in Status, StepRead(t, k, to) PROVE TypeOK'
      BY <1>0, <2>0, <2>1, SupplierReads, ReadTyped DEF StepRead, Free
    <2>2. CASE StepCommit(t)
      <3>1. listing' = "open" /\ docs' = docs /\ acks' = acks
        BY <1>0, <2>2, CommitsEnd, OpenTabs DEF StepCommit
      <3>2. req[t] \in Tick
        BY <1>0, <2>0, <2>2, RequestFacts DEF StepCommit, TypeOK
      <3>3. steps' \in StepMap
        BY <1>0, <2>2, <3>2 DEF StepCommit, TypeOK, StepMap, Tick
      <3> QED
        BY <1>0, <2>2, <3>1, <3>3, CommitsEnd, EndTyped DEF TypeOK
    <2>3. CASE ProfileRead(t)
      <3>1. Reads(t, [op |-> "profile", docs |-> docs])
        BY <1>0, <2>3, SupplierReads
      <3>2. TypedRequests' /\ req'[t] = [op |-> "profile", docs |-> docs]
        BY <1>0, <2>0, <3>1, ReplaceTyped DEF Reads, TypeOK
      <3>3. (holder \in {Nobody} \cup Holding("profile"))'
        BY <2>0, <2>3, <3>2 DEF ProfileRead, Holding
      <3> QED
        BY <1>0, <2>3, <3>2, <3>3 DEF ProfileRead, TypeOK, Published
    <2>4. CASE ProfileCommit(t)
      <3>1. listing' = "open" /\ docs' = docs /\ acks' = acks
        BY <1>0, <2>4, CommitsEnd, OpenTabs DEF ProfileCommit
      <3>2. steps' \in StepMap
        BY <1>0, <2>4 DEF ProfileCommit, TypeOK, StepMap, Status
      <3> QED
        BY <1>0, <2>4, <3>1, <3>2, CommitsEnd, EndTyped DEF TypeOK
    <2>5. ASSUME NEW d \in Docs, NEW acknowledged \in BOOLEAN, AckRead(t, d, acknowledged)
          PROVE  TypeOK'
      BY <1>0, <2>0, <2>5, SupplierReads, ReadTyped DEF AckRead, Free
    <2>6. CASE AckCommit(t)
      <3>1. listing' = "open"
        BY <1>0, <2>6, CommitsEnd, OpenTabs DEF AckCommit
      <3>2. acks' \subseteq Published(docs')
        <4>1. req[t].effect = "insert" => req[t].doc \in Published(docs)
          BY <1>0, <2>6 DEF PendingAcksRefer, AckCommit
        <4> QED
          BY <1>0, <2>6, <4>1, AckCommitRows DEF TypeOK
      <3> QED
        BY <1>0, <2>6, <3>1, <3>2, AckCommitRows, CommitsEnd, EndTyped DEF TypeOK
    <2> QED
      BY <1>3, <2>1, <2>2, <2>3, <2>4, <2>5, <2>6 DEF SupplierStep
  <1>4. ASSUME NEW c \in Consoles, ConsoleStep(c) PROVE TypeOK'
    <2>0. c \in Requests
      BY DEF Requests
    <2>1. ASSUME NEW k \in StepKeys, NEW to \in Status, ConsoleRead(c, k, to)
          PROVE  TypeOK'
      <3>1. to \in Status
        BY DEF Status
      <3> QED
        BY <1>0, <2>0, <2>1, <3>1, ConsoleReads, ReadTyped DEF ConsoleRead, Free
    <2>2. CASE ConsoleCommit(c)
      <3>1. listing' = "open" /\ docs' = docs /\ acks' = acks
        BY <2>2 DEF ConsoleCommit
      <3>2. req[c] \in Set
        BY <1>0, <2>0, <2>2, RequestFacts DEF ConsoleCommit, TypeOK
      <3>3. steps' \in StepMap
        BY <2>2, <3>2 DEF ConsoleCommit, StepMap, Set
      <3> QED
        BY <1>0, <2>2, <3>1, <3>3, CommitsEnd, EndTyped DEF TypeOK
    <2>3. ASSUME NEW d \in Docs, NEW k \in StepKeys \cup {Unbound}, NEW requiredAck \in BOOLEAN,
                 CreateStart(c, d, k, requiredAck) \/ UpdateRead(c, d, k, requiredAck)
          PROVE  TypeOK'
      <3>1. req[c].op = "idle" /\ holder' = holder
        BY <2>3 DEF CreateStart, UpdateRead, Free
      <3>2. \E was : Reads(c, [op |-> "edit", doc |-> d, to |-> k, was |-> was])
        BY <1>0, <2>3, ConsoleReads
      <3> QED
        BY <1>0, <2>0, <3>1, <3>2, ReadTyped
    <2>4. ASSUME NEW d \in Docs, WithdrawRead(c, d) PROVE TypeOK'
      BY <1>0, <2>0, <2>4, ConsoleReads, ReadTyped DEF WithdrawRead, Free
    <2>5. CASE DocWrite(c)
      BY <1>0, <2>0, <2>5, ConsoleReads, ReadTyped DEF DocWrite
    <2>6. CASE DocCommit(c)
      <3>1. steps' \in StepMap
        BY <1>0, <2>6, DocCommitRows DEF TypeOK
      <3>2. listing' = listing
        BY <2>6 DEF DocCommit
      <3>3. listing # "open" => \A k \in StepKeys : steps'[k] = "pending"
        <4> SUFFICES ASSUME listing # "open" PROVE \A k \in StepKeys : steps'[k] = "pending"
          OBVIOUS
        <4>1. req[c].acks = {} /\ \A k \in StepKeys : req[c].steps[k] = "pending"
          BY <1>0, <2>6 DEF UnopenedIsBlank, DocCommit
        <4>2. \A k \in StepKeys : ~Satisfied(req[c].docs, req[c].acks, k)
          BY <4>1 DEF Satisfied
        <4>3. \A k \in StepKeys :
                Reconciled(req[c].steps, req[c].docs, req[c].acks, {req[c].was, req[c].to})[k]
                  = "pending"
          BY <4>1, <4>2 DEF Reconciled
        <4> QED
          BY <1>0, <2>6, <4>3, DocCommitRows DEF TypeOK
      <3> QED
        BY <1>0, <2>6, <3>1, <3>2, <3>3, DocCommitRows, CommitsEnd, EndTyped DEF TypeOK
    <2> QED
      BY <1>4, <2>1, <2>2, <2>3, <2>4, <2>5, <2>6 DEF ConsoleStep
  <1>5. ASSUME NEW r \in Requests, Abandon(r) PROVE TypeOK'
    BY <1>0, <1>5, CommitsEnd, EndTyped DEF Abandon, TypeOK, Published
  <1> QED
    BY <1>1, <1>2, <1>3, <1>4, <1>5 DEF Next

---------------------------------------------------------------------------
(* The other invariants.                                                   *)

LEMMA InitInv == Init => Inv
  <1> SUFFICES ASSUME Init PROVE Inv
    OBVIOUS
  <1>1. TypeOK
    <2>1. TypedRequests
      BY DEF Init, TypedRequests, TabRequest, ConsoleRequest, Requests
    <2>2. steps \in StepMap /\ docs \in DocList
      BY DEF Init, StepMap, Status, DocList
    <2> QED
      BY <2>1, <2>2 DEF Init, TypeOK
  <1>2. \A r \in Requests : req[r] = Idle
    BY DEF Init
  <1>3. TabsAreOpen /\ UnopenedIsBlank /\ PendingAcksRefer /\ TicksAreFree
    BY <1>2 DEF Init, TabsAreOpen, UnopenedIsBlank, PendingAcksRefer, TicksAreFree, Idle, Requests
  <1> QED
    BY <1>1, <1>3 DEF Inv

\* Nothing closes a row that is open, and the supplier's requests begin on an
\* open one.
LEMMA TabsAreOpenStep == Inv /\ [Next]_vars => TabsAreOpen'
  <1> SUFFICES ASSUME Inv, [Next]_vars PROVE TabsAreOpen'
    OBVIOUS
  <1>0. TypeOK /\ TabsAreOpen
    BY DEF Inv
  <1>1. CASE UNCHANGED vars
    BY <1>0, <1>1 DEF TabsAreOpen, vars
  <1>2. CASE AddSupplier \/ RegisterSupplier \/ EnsureRow
    BY <1>0, <1>2 DEF AddSupplier, RegisterSupplier, EnsureRow, TabsAreOpen
  <1>3. ASSUME NEW t \in Tabs, SupplierStep(t) PROVE TabsAreOpen'
    <2>1. listing' = listing
      BY <1>3 DEF SupplierStep, StepRead, StepCommit, ProfileRead, ProfileCommit, AckRead, AckCommit
    <2>2. listing = "open"
      BY <1>0, <1>3, CommitsEnd, OpenTabs DEF SupplierStep, StepRead, ProfileRead, AckRead
    <2> QED
      BY <2>1, <2>2 DEF TabsAreOpen
  <1>4. ASSUME NEW c \in Consoles, ConsoleStep(c) PROVE TabsAreOpen'
    <2>1. listing' \in {listing, "open"}
      BY <1>4 DEF ConsoleStep, ConsoleRead, ConsoleCommit, CreateStart, UpdateRead, WithdrawRead,
                  DocWrite, DocCommit
    <2>2. \E x : req' = [req EXCEPT ![c] = x]
      BY <1>4 DEF ConsoleStep, ConsoleRead, ConsoleCommit, CreateStart, UpdateRead, WithdrawRead,
                  DocWrite, DocCommit, Begin, End
    <2>3. \A t \in Tabs : req'[t] = req[t]
      BY <1>0, <2>2, SupplierAssumption DEF TypeOK, TypedRequests, Requests
    <2> QED
      BY <1>0, <2>1, <2>3 DEF TabsAreOpen
  <1>5. ASSUME NEW r \in Requests, Abandon(r) PROVE TabsAreOpen'
    <2>1. \A t \in Tabs : req'[t] \in {req[t], Idle}
      BY <1>0, <1>5 DEF Abandon, End, TypeOK, TypedRequests, Requests
    <2> QED
      BY <1>0, <1>5, <2>1 DEF Abandon, TabsAreOpen
  <1> QED
    BY <1>1, <1>2, <1>3, <1>4, <1>5 DEF Next

\* A request that moves leaves the others alone.
LEMMA OthersKept ==
  ASSUME TypeOK, NEW r \in Requests, (\E x : Reads(r, x)) \/ Ends(r)
  PROVE  \A o \in Requests \ {r} : req'[o] = req[o]
  <1>1. PICK x : req' = [req EXCEPT ![r] = x]
    BY DEF Reads, Replaces, Ends, End
  <1>2. req \in [Requests -> TabRequest \cup ConsoleRequest]
    BY DEF TypeOK, TypedRequests
  <1> QED
    BY <1>1, <1>2

LEMMA EndedIsIdle ==
  ASSUME TypeOK, NEW r, Ends(r)
  PROVE  req'[r] = Idle
  BY DEF Ends, End, TypeOK, TypedRequests

\* Every step is a new row, reads, or ends a request, and a console's keeps
\* the supplier's requests.
LEMMA StepKinds ==
  ASSUME TypeOK
  PROVE  /\ \A t \in Tabs : SupplierStep(t) => (\E x : Reads(t, x)) \/ Ends(t)
         /\ \A c \in Consoles : ConsoleStep(c) => (\E x : Reads(c, x)) \/ Ends(c)
  <1>1. ASSUME NEW t \in Tabs, SupplierStep(t) PROVE (\E x : Reads(t, x)) \/ Ends(t)
    BY <1>1, SupplierReads, CommitsEnd DEF SupplierStep
  <1>2. ASSUME NEW c \in Consoles, ConsoleStep(c) PROVE (\E x : Reads(c, x)) \/ Ends(c)
    <2>2. ASSUME NEW k \in StepKeys, NEW to \in Status, ConsoleRead(c, k, to)
          PROVE  \E x : Reads(c, x)
      BY <2>2, ConsoleReads
    <2>3. ASSUME NEW d \in Docs, NEW k \in StepKeys \cup {Unbound}, NEW requiredAck \in BOOLEAN,
                 CreateStart(c, d, k, requiredAck) \/ UpdateRead(c, d, k, requiredAck)
          PROVE  \E x : Reads(c, x)
      <3>1. \E was : Reads(c, [op |-> "edit", doc |-> d, to |-> k, was |-> was])
        BY <2>3, ConsoleReads
      <3> QED
        BY <3>1
    <2>4. (\E d \in Docs : WithdrawRead(c, d)) \/ DocWrite(c) => \E x : Reads(c, x)
      BY ConsoleReads
    <2> QED
      BY <1>2, <2>2, <2>3, <2>4, CommitsEnd DEF ConsoleStep
  <1> QED
    BY <1>1, <1>2

LEMMA ConsoleKeepsTabs ==
  ASSUME TypeOK, NEW c \in Consoles, ConsoleStep(c)
  PROVE  \A t \in Tabs : req'[t] = req[t]
  BY StepKinds, OthersKept, SupplierAssumption DEF Requests

LEMMA SupplierKeepsConsoles ==
  ASSUME TypeOK, NEW t \in Tabs, SupplierStep(t)
  PROVE  \A c \in Consoles : req'[c] = req[c]
  BY StepKinds, OthersKept, SupplierAssumption DEF Requests

\* The request that a read leaves is the record it is said to leave.
LEMMA ReadsLeave ==
  ASSUME TypeOK, NEW r \in Requests, NEW x, Reads(r, x)
  PROVE  req'[r] = x
  BY ReplaceTyped DEF Reads, TypeOK

\* Only DocWrite leaves a request that is about to publish.
LEMMA OtherConsoleReads ==
  ASSUME TypeOK, NEW c \in Consoles, ConsoleStep(c)
  PROVE  DocWrite(c) \/ Ends(c) \/ \E x : Reads(c, x) /\ x.op # "publish"
  <1>2. ASSUME NEW k \in StepKeys, NEW to \in Status, ConsoleRead(c, k, to)
        PROVE  \E x : Reads(c, x) /\ x.op # "publish"
    <2> DEFINE x == [op |-> "set", key |-> k, to |-> to, steps |-> steps]
    <2>1. Reads(c, x) /\ x.op # "publish"
      BY <1>2, ConsoleReads
    <2> QED
      BY <2>1
  <1>3. ASSUME NEW d \in Docs, NEW to, NEW was,
               Reads(c, [op |-> "edit", doc |-> d, to |-> to, was |-> was])
        PROVE  \E x : Reads(c, x) /\ x.op # "publish"
    <2> DEFINE x == [op |-> "edit", doc |-> d, to |-> to, was |-> was]
    <2>1. Reads(c, x) /\ x.op # "publish"
      BY <1>3
    <2> QED
      BY <2>1
  <1>4. ASSUME NEW d \in Docs, NEW k \in StepKeys \cup {Unbound}, NEW requiredAck \in BOOLEAN,
               CreateStart(c, d, k, requiredAck) \/ UpdateRead(c, d, k, requiredAck)
        PROVE  \E x : Reads(c, x) /\ x.op # "publish"
    <2>1. PICK was : Reads(c, [op |-> "edit", doc |-> d, to |-> k, was |-> was])
      BY <1>4, ConsoleReads
    <2> QED
      BY <1>3, <2>1
  <1>5. ASSUME NEW d \in Docs, WithdrawRead(c, d) PROVE \E x : Reads(c, x) /\ x.op # "publish"
    BY <1>3, <1>5, ConsoleReads
  <1> QED
    BY <1>2, <1>4, <1>5, CommitsEnd DEF ConsoleStep

\* A tick begins by looking for documents.
LEMMA TicksAreFreeStep == Inv /\ [Next]_vars => TicksAreFree'
  <1> SUFFICES ASSUME Inv, [Next]_vars PROVE TicksAreFree'
    OBVIOUS
  <1>0. TypeOK /\ TicksAreFree
    BY DEF Inv
  <1>1. CASE UNCHANGED vars
    BY <1>0, <1>1 DEF TicksAreFree, vars
  <1>2. CASE AddSupplier \/ RegisterSupplier \/ EnsureRow
    BY <1>0, <1>2 DEF AddSupplier, RegisterSupplier, EnsureRow, TicksAreFree
  <1>3. ASSUME NEW t \in Tabs, SupplierStep(t) PROVE TicksAreFree'
    <2>0. t \in Requests
      BY DEF Requests
    <2>1. \A o \in Tabs \ {t} : req'[o] = req[o]
      BY <1>0, <1>3, StepKinds, OthersKept DEF Requests
    <2> SUFFICES req'[t].op = "tick" =>
                   req'[t].key \notin OrgConfirmed /\ BoundTo(req'[t].docs, req'[t].key) = {}
      BY <1>0, <2>1 DEF TicksAreFree
    <2>2. CASE Ends(t)
      BY <1>0, <2>2, EndedIsIdle DEF Idle
    <2>3. ASSUME NEW k \in StepKeys, NEW to \in Status, StepRead(t, k, to)
          PROVE  req'[t].key \notin OrgConfirmed /\ BoundTo(req'[t].docs, req'[t].key) = {}
      <3>1. req'[t] = [op |-> "tick", key |-> k, to |-> to, docs |-> docs]
        BY <1>0, <2>0, <2>3, SupplierReads, ReadsLeave
      <3> QED
        BY <2>3, <3>1 DEF StepRead, MayTick
    <2>4. CASE ProfileRead(t)
      BY <1>0, <2>0, <2>4, SupplierReads, ReadsLeave
    <2>5. ASSUME NEW d \in Docs, NEW acknowledged \in BOOLEAN, AckRead(t, d, acknowledged)
          PROVE  req'[t].op # "tick"
      <3>1. \E x \in {y \in {req'[t]} : y.op = "ack"} : Reads(t, x)
        BY <1>0, <2>0, <2>5, SupplierReads, ReadsLeave
      <3> QED
        BY <3>1
    <2> QED
      BY <1>0, <1>3, <2>2, <2>3, <2>4, <2>5, CommitsEnd DEF SupplierStep
  <1>4. ASSUME NEW c \in Consoles, ConsoleStep(c) PROVE TicksAreFree'
    BY <1>0, <1>4, ConsoleKeepsTabs DEF TicksAreFree
  <1>5. ASSUME NEW r \in Requests, Abandon(r) PROVE TicksAreFree'
    <2>1. \A t \in Tabs : req'[t] \in {req[t], Idle}
      BY <1>0, <1>5 DEF Abandon, End, TypeOK, TypedRequests, Requests
    <2> QED
      BY <1>0, <2>1 DEF TicksAreFree, Idle
  <1> QED
    BY <1>1, <1>2, <1>3, <1>4, <1>5 DEF Next

\* Nobody signs before the row is open, and a console reads what there is.
LEMMA UnopenedIsBlankStep == Inv /\ [Next]_vars => UnopenedIsBlank'
  <1> SUFFICES ASSUME Inv, [Next]_vars PROVE UnopenedIsBlank'
    OBVIOUS
  <1>0. TypeOK /\ TabsAreOpen /\ UnopenedIsBlank
    BY DEF Inv
  <1>1. CASE UNCHANGED vars
    BY <1>0, <1>1 DEF UnopenedIsBlank, vars
  <1>2. CASE AddSupplier \/ RegisterSupplier \/ EnsureRow
    BY <1>0, <1>2 DEF AddSupplier, RegisterSupplier, EnsureRow, UnopenedIsBlank
  <1>3. ASSUME NEW t \in Tabs, SupplierStep(t) PROVE UnopenedIsBlank'
    <2>1. listing' = listing
      BY <1>3 DEF SupplierStep, StepRead, StepCommit, ProfileRead, ProfileCommit, AckRead, AckCommit
    <2>2. listing = "open"
      BY <1>0, <1>3, CommitsEnd, OpenTabs DEF SupplierStep, StepRead, ProfileRead, AckRead
    <2> QED
      BY <2>1, <2>2 DEF UnopenedIsBlank
  <1>4. ASSUME NEW c \in Consoles, ConsoleStep(c) PROVE UnopenedIsBlank'
    <2>0. c \in Requests
      BY DEF Requests
    <2>1. \A o \in Consoles \ {c} : req'[o] = req[o]
      BY <1>0, <1>4, StepKinds, OthersKept DEF Requests
    <2>2. listing' # "open" => listing # "open" /\ acks' \subseteq acks
      BY <1>4 DEF ConsoleStep, ConsoleRead, ConsoleCommit, CreateStart, UpdateRead, WithdrawRead,
                  DocWrite, DocCommit, SurvivingAcks
    <2>3. listing # "open" /\ req'[c].op = "publish" =>
            req'[c].acks = {} /\ \A k \in StepKeys : req'[c].steps[k] = "pending"
      <3>1. CASE Ends(c)
        BY <1>0, <3>1, EndedIsIdle DEF Idle
      <3>2. CASE DocWrite(c)
        <4>1. PICK x \in Publish : Reads(c, x) /\ x.steps = steps
                                   /\ x.acks = acks \cap Published(x.docs)
          BY <1>0, <3>2, ConsoleReads
        <4>2. req'[c] = x
          BY <1>0, <2>0, <4>1, ReadsLeave
        <4> QED
          BY <1>0, <4>1, <4>2 DEF TypeOK, UnopenedIsBlank
      <3>3. ASSUME NEW x, Reads(c, x), x.op # "publish" PROVE req'[c].op # "publish"
        BY <1>0, <2>0, <3>3, ReadsLeave
      <3>4. DocWrite(c) \/ Ends(c) \/ \E x : Reads(c, x) /\ x.op # "publish"
        BY <1>0, <1>4, OtherConsoleReads
      <3> QED
        BY <3>1, <3>2, <3>3, <3>4
    <2> QED
      BY <1>0, <2>1, <2>2, <2>3 DEF UnopenedIsBlank
  <1>5. ASSUME NEW r \in Requests, Abandon(r) PROVE UnopenedIsBlank'
    <2>1. \A c \in Consoles : req'[c] \in {req[c], Idle}
      BY <1>0, <1>5 DEF Abandon, End, TypeOK, TypedRequests, Requests
    <2> QED
      BY <1>0, <1>5, <2>1 DEF Abandon, UnopenedIsBlank, Idle
  <1> QED
    BY <1>1, <1>2, <1>3, <1>4, <1>5 DEF Next

\* A document stays in the list while an acknowledgement of it is uncommitted.
LEMMA PendingAcksReferStep == Inv /\ [Next]_vars => PendingAcksRefer'
  <1> SUFFICES ASSUME Inv, [Next]_vars PROVE PendingAcksRefer'
    OBVIOUS
  <1>0. TypeOK /\ PendingAcksRefer
    BY DEF Inv
  <1>1. CASE UNCHANGED vars
    BY <1>0, <1>1 DEF PendingAcksRefer, Published, vars
  <1>2. CASE AddSupplier \/ RegisterSupplier \/ EnsureRow
    BY <1>0, <1>2 DEF AddSupplier, RegisterSupplier, EnsureRow, PendingAcksRefer, Published
  <1>3. ASSUME NEW t \in Tabs, SupplierStep(t) PROVE PendingAcksRefer'
    <2>0. t \in Requests
      BY DEF Requests
    <2>1. \A o \in Tabs \ {t} : req'[o] = req[o]
      BY <1>0, <1>3, StepKinds, OthersKept DEF Requests
    <2>2. \A c \in Consoles : req'[c] = req[c]
      BY <1>0, <1>3, SupplierKeepsConsoles
    <2>3. docs' = docs
      BY <1>3 DEF SupplierStep, StepRead, StepCommit, ProfileRead, ProfileCommit, AckRead, AckCommit
    <2>4. req'[t].op = "ack" /\ req'[t].effect = "insert" =>
            /\ req'[t].doc \in Published(docs)
            /\ \A c \in Consoles :
                 ~(req[c].op = "publish" /\ req[c].doc = req'[t].doc /\ req[c].to = Withdrawn)
      <3>1. CASE Ends(t)
        BY <1>0, <3>1, EndedIsIdle DEF Idle
      <3>2. ASSUME NEW k \in StepKeys, NEW to \in Status, StepRead(t, k, to)
            PROVE  req'[t].op # "ack"
        <4>1. req'[t] = [op |-> "tick", key |-> k, to |-> to, docs |-> docs]
          BY <1>0, <2>0, <3>2, SupplierReads, ReadsLeave
        <4> QED
          BY <4>1
      <3>3. ProfileRead(t) => req'[t].op # "ack"
        BY <1>0, <2>0, SupplierReads, ReadsLeave
      <3>4. ASSUME NEW d \in Docs, NEW acknowledged \in BOOLEAN, AckRead(t, d, acknowledged)
            PROVE  /\ req'[t].doc \in Published(docs)
                   /\ \A c \in Consoles :
                        ~(req[c].op = "publish" /\ req[c].doc = req'[t].doc
                          /\ req[c].to = Withdrawn)
        <4>1. req'[t].doc = d
          <5> DEFINE x == [op |-> "ack", doc |-> d, effect |-> AckEffect(d, acknowledged),
                           docs |-> docs, session |-> steps,
                           acks |-> IF acknowledged THEN acks \cup {d} ELSE acks \ {d}]
          <5>1. Reads(t, x)
            BY <1>0, <3>4, SupplierReads
          <5>2. x.doc = d
            OBVIOUS
          <5> HIDE DEF x
          <5>3. req'[t] = x
            BY <1>0, <2>0, <5>1, ReadsLeave
          <5> QED
            BY <5>2, <5>3
        <4>2. d \in Published(docs) /\ ~WithdrawPending(d)
          BY <3>4 DEF AckRead
        <4> QED
          BY <4>1, <4>2 DEF WithdrawPending, Holding, Requests
      <3> QED
        BY <1>0, <1>3, <3>1, <3>2, <3>3, <3>4, CommitsEnd DEF SupplierStep
    <2> QED
      BY <1>0, <2>1, <2>2, <2>3, <2>4 DEF PendingAcksRefer, Published
  <1>4. ASSUME NEW c \in Consoles, ConsoleStep(c) PROVE PendingAcksRefer'
    <2>0. c \in Requests
      BY DEF Requests
    <2>1. \A t \in Tabs : req'[t] = req[t]
      BY <1>0, <1>4, ConsoleKeepsTabs
    <2>2. \A o \in Consoles \ {c} : req'[o] = req[o]
      BY <1>0, <1>4, StepKinds, OthersKept DEF Requests
    <2>3. ASSUME NEW t \in Tabs, req[t].op = "ack", req[t].effect = "insert"
          PROVE  req[t].doc \in Published(docs')
      <3>1. CASE DocCommit(c)
        BY <1>0, <2>3, <3>1, DocCommitRows DEF PendingAcksRefer, DocCommit
      <3>2. CASE docs' = docs
        BY <1>0, <2>3, <3>2 DEF PendingAcksRefer
      <3> QED
        BY <1>4, <3>1, <3>2 DEF ConsoleStep, ConsoleRead, ConsoleCommit, CreateStart, UpdateRead,
                                WithdrawRead, DocWrite
    <2>4. ASSUME NEW t \in Tabs, req[t].op = "ack", req[t].effect = "insert"
          PROVE  ~(req'[c].op = "publish" /\ req'[c].doc = req[t].doc /\ req'[c].to = Withdrawn)
      <3>1. CASE Ends(c)
        BY <1>0, <3>1, EndedIsIdle DEF Idle
      <3>2. CASE DocWrite(c)
        <4>1. PICK x \in Publish : /\ Reads(c, x)
                                   /\ req[c].to = Withdrawn => ~AckPending(req[c].doc)
                                   /\ x.doc = req[c].doc /\ x.to = req[c].to
          BY <1>0, <3>2, ConsoleReads
        <4>2. req'[c] = x
          BY <1>0, <2>0, <4>1, ReadsLeave
        <4>3. x.doc = req[t].doc => AckPending(req[c].doc)
          BY <2>4, <4>1 DEF AckPending, Holding, Requests
        <4> QED
          BY <4>1, <4>2, <4>3
      <3>3. ASSUME NEW x, Reads(c, x), x.op # "publish" PROVE req'[c].op # "publish"
        BY <1>0, <2>0, <3>3, ReadsLeave
      <3>4. DocWrite(c) \/ Ends(c) \/ \E x : Reads(c, x) /\ x.op # "publish"
        BY <1>0, <1>4, OtherConsoleReads
      <3> QED
        BY <3>1, <3>2, <3>3, <3>4
    <2> QED
      BY <1>0, <2>1, <2>2, <2>3, <2>4 DEF PendingAcksRefer
  <1>5. ASSUME NEW r \in Requests, Abandon(r) PROVE PendingAcksRefer'
    <2>1. \A o \in Requests : req'[o] \in {req[o], Idle}
      BY <1>0, <1>5 DEF Abandon, End, TypeOK, TypedRequests
    <2> QED
      BY <1>0, <1>5, <2>1 DEF Abandon, PendingAcksRefer, Idle, Requests, Published
  <1> QED
    BY <1>1, <1>2, <1>3, <1>4, <1>5 DEF Next

\* The invariant is inductive.
LEMMA InductiveStep == Inv /\ [Next]_vars => Inv'
  BY TypeStep, TabsAreOpenStep, UnopenedIsBlankStep, PendingAcksReferStep, TicksAreFreeStep
     DEF Inv

---------------------------------------------------------------------------
(* The theorems.                                                           *)

\* In every reachable state of the checklist the inductive invariant holds.
THEOREM OnboardingInvariance == Spec => []Inv
  BY InitInv, InductiveStep, PTL DEF Spec

\* The rows keep their types, an acknowledgement outlives no document it
\* refers to, and no step is done before there is a row.
THEOREM OnboardingTypeCorrect == Spec => []TypeOK
  <1>1. Inv => TypeOK
    BY DEF Inv
  <1> QED
    BY <1>1, OnboardingInvariance, PTL

\* What the supplier's steps write, kind by kind.
LEMMA SupplierWrites ==
  ASSUME Inv, NEW t \in Tabs, SupplierStep(t), steps' # steps
  PROVE  /\ \A k \in StepKeys \ SelfService : steps'[k] # steps[k] =>
              /\ k \in OrgReviewed
              /\ {steps[k], steps'[k]} = {"pending", "awaiting_confirmation"}
         /\ StepCommit(t) \/ ProfileCommit(t) \/ AckCommit(t)
  <1>0. TypeOK /\ t \in Requests
    BY DEF Inv, Requests
  <1>1. CASE StepCommit(t)
    <2>1. req[t] \in Tick
      BY <1>0, <1>1, RequestFacts DEF StepCommit, TypeOK
    <2> QED
      BY <1>0, <1>1, <2>1 DEF StepCommit, SupplierMay, TypeOK, StepMap, Tick
  <1>2. CASE ProfileCommit(t)
    BY <1>0, <1>2, KindsAreDisjoint DEF ProfileCommit, TypeOK, StepMap
  <1>3. CASE AckCommit(t)
    BY <1>0, <1>3, AckCommitRows, ReconciledFacts DEF TypeOK
  <1> QED
    BY <1>1, <1>2, <1>3 DEF SupplierStep, StepRead, ProfileRead, AckRead

\* A request that ends with the map moved is the request that moved it.
LEMMA CommitterMoves ==
  ASSUME Inv, [Next]_vars, NEW r \in Requests, Commits(r)
  PROVE  \/ r \in Tabs /\ SupplierStep(r)
         \/ r \in Consoles /\ ConsoleStep(r)
  <1>0. TypeOK /\ r \notin Tabs \cap Consoles
    BY SupplierAssumption DEF Inv
  <1>1. req[r] # Idle /\ req'[r] # req[r] /\ steps' # steps
    BY DEF Commits, Free, Idle
  <1>2. ~UNCHANGED vars
    BY <1>1 DEF vars
  <1>3. ~(AddSupplier \/ RegisterSupplier \/ EnsureRow)
    BY <1>1 DEF AddSupplier, RegisterSupplier, EnsureRow
  <1>4. ASSUME NEW t \in Tabs, SupplierStep(t) PROVE r = t
    BY <1>0, <1>1, <1>4, StepKinds, OthersKept DEF Requests
  <1>5. ASSUME NEW c \in Consoles, ConsoleStep(c) PROVE r = c
    BY <1>0, <1>1, <1>5, StepKinds, OthersKept DEF Requests
  <1>6. \A o \in Requests : ~Abandon(o)
    BY <1>1 DEF Abandon
  <1> QED
    BY <1>2, <1>3, <1>4, <1>5, <1>6 DEF Next

\* A supplier's request never moves a step only AfrikaBurn confirms, and
\* never moves one AfrikaBurn reviews to or from its confirmation.
THEOREM SupplierCannotConfirm == Spec => SupplierNeverConfirms
  <1>1. ASSUME Inv, [Next]_vars, NEW t \in Tabs, Commits(t)
        PROVE  /\ \A k \in OrgConfirmed \cap StepKeys : steps'[k] = steps[k]
               /\ \A k \in OrgReviewed \cap StepKeys :
                    "completed" \in {steps[k], steps'[k]} => steps'[k] = steps[k]
    <2>1. SupplierStep(t) /\ steps' # steps
      BY <1>1, CommitterMoves, SupplierAssumption DEF Requests, Commits
    <2>2. \A k \in StepKeys \ SelfService : steps'[k] # steps[k] =>
            /\ k \in OrgReviewed
            /\ {steps[k], steps'[k]} = {"pending", "awaiting_confirmation"}
      BY <1>1, <2>1, SupplierWrites
    <2>3. "completed" \notin {"pending", "awaiting_confirmation"}
      OBVIOUS
    <2> QED
      BY <2>2, <2>3, KindsAreDisjoint
  <1>2. Inv /\ [Next]_vars =>
          [\A t \in Tabs : Commits(t) =>
             /\ \A k \in OrgConfirmed \cap StepKeys : steps'[k] = steps[k]
             /\ \A k \in OrgReviewed \cap StepKeys :
                  "completed" \in {steps[k], steps'[k]} => steps'[k] = steps[k]]_vars
    BY <1>1
  <1> QED
    BY <1>2, OnboardingInvariance, PTL DEF Spec, SupplierNeverConfirms

\* While a document gates a step, neither a tick nor a saved profile completes
\* it, unless the document was bound after the request looked.
THEOREM DocumentsGateSteps == Spec => OneWayToComplete
  <1>1. ASSUME Inv, [Next]_vars, NEW t \in Tabs, Commits(t), req[t].op \in {"tick", "profile"},
               NEW k \in StepKeys, steps[k] # "completed", steps'[k] = "completed"
        PROVE  BoundTo(docs, k) = {} \/ req[t].docs # docs
    <2>1. TypeOK /\ TicksAreFree /\ t \in Requests
      BY <1>1 DEF Inv, Requests
    <2>2. SupplierStep(t) /\ steps' # steps
      BY <1>1, <2>1, CommitterMoves, SupplierAssumption DEF Commits
    <2>3. StepCommit(t) \/ ProfileCommit(t)
      BY <1>1, <2>2, SupplierWrites DEF AckCommit
    <2>4. CASE StepCommit(t)
      <3>1. req[t] \in Tick
        BY <2>1, <2>4, RequestFacts DEF StepCommit, TypeOK
      <3>2. k = req[t].key
        BY <1>1, <2>1, <2>4, <3>1 DEF StepCommit, TypeOK, StepMap, Tick
      <3> QED
        BY <2>1, <2>4, <3>2 DEF TicksAreFree, StepCommit
    <2>5. CASE ProfileCommit(t)
      BY <1>1, <2>1, <2>5 DEF ProfileCommit, TypeOK, StepMap
    <2> QED
      BY <2>3, <2>4, <2>5
  <1>2. Inv /\ [Next]_vars =>
          [\A t \in Tabs : Commits(t) /\ req[t].op \in {"tick", "profile"} =>
             \A k \in StepKeys :
               steps[k] # "completed" /\ steps'[k] = "completed" =>
                 BoundTo(docs, k) = {} \/ req[t].docs # docs]_vars
    BY <1>1
  <1> QED
    BY <1>2, OnboardingInvariance, PTL DEF Spec, OneWayToComplete

\* A step whose last document goes is among those the reconciliation looks at.
LEMMA TakenAwayIsConsidered ==
  ASSUME TypeOK, NEW c \in Consoles, DocCommit(c), UpToDate(c),
         NEW k \in SelfService \cap StepKeys, BoundTo(docs, k) \cup BoundTo(docs', k) # {}
  PROVE  k \in Considered(req[c].docs, {req[c].was, req[c].to})
  <1>1. req[c].docs = docs' /\ req[c].was = docs[req[c].doc]
    BY DEF UpToDate, DocCommit
  <1>2. CASE BoundTo(docs', k) # {}
    BY <1>1, <1>2 DEF BoundTo, Considered
  <1>3. CASE BoundTo(docs', k) = {}
    <2>1. PICK d \in Docs : docs[d] = k /\ docs'[d] # k
      BY <1>3 DEF BoundTo
    <2>2. d = req[c].doc
      BY <2>1 DEF DocCommit, Written, TypeOK, DocList
    <2> QED
      BY <1>1, <2>1, <2>2 DEF Considered
  <1> QED
    BY <1>2, <1>3

\* A reconciliation that overlapped nothing leaves a step complete exactly
\* when all the documents that gate it are signed, and a step alone that the
\* console has set to await a confirmation.
THEOREM SignaturesComplete == Spec => SignedIsCompleted
  <1>1. ASSUME Inv, NEW r \in Requests, AckCommit(r) \/ DocCommit(r), UpToDate(r),
               NEW k \in SelfService \cap StepKeys, BoundTo(docs, k) \cup BoundTo(docs', k) # {}
        PROVE  IF steps[k] = "awaiting_confirmation"
               THEN steps'[k] = steps[k]
               ELSE steps'[k] = "completed" <=> Satisfied(docs', acks', k)
    <2>1. TypeOK
      BY <1>1 DEF Inv
    <2>2. req[r].docs = docs' /\ req[r].acks = acks'
      BY <1>1 DEF UpToDate
    <2>3. CASE AckCommit(r)
      <3>1. r \in Tabs
        BY <2>1, <2>3, RequestFacts DEF AckCommit, TypeOK
      <3>2. steps' = Reconciled(steps, docs', acks', {}) /\ docs' = docs
        BY <2>1, <2>2, <2>3, <3>1, AckCommitRows
      <3>3. k \in Considered(docs', {})
        BY <1>1, <3>2 DEF BoundTo, Considered
      <3>4. steps \in StepMap
        BY <2>1 DEF TypeOK
      <3> QED
        BY <3>2, <3>3, <3>4, ReconciledFacts
    <2>4. CASE DocCommit(r)
      <3> DEFINE also == {req[r].was, req[r].to}
      <3>1. r \in Consoles
        BY <2>1, <2>4, RequestFacts DEF DocCommit, TypeOK
      <3>2. req[r].steps = steps
        BY <1>1, <2>4 DEF UpToDate, DocCommit
      <3>3. steps' = Reconciled(steps, docs', acks', also)
        BY <2>2, <2>4, <3>2 DEF DocCommit
      <3>4. k \in Considered(docs', also)
        BY <1>1, <2>1, <2>2, <2>4, <3>1, TakenAwayIsConsidered
      <3>5. steps \in StepMap
        BY <2>1 DEF TypeOK
      <3> HIDE DEF also
      <3> QED
        BY <3>3, <3>4, <3>5, ReconciledFacts
    <2> QED
      BY <1>1, <2>3, <2>4
  <1>2. Inv =>
          [\A r \in Requests :
             (AckCommit(r) \/ DocCommit(r)) /\ UpToDate(r) =>
               \A k \in SelfService \cap StepKeys :
                 BoundTo(docs, k) \cup BoundTo(docs', k) # {} =>
                   IF steps[k] = "awaiting_confirmation"
                   THEN steps'[k] = steps[k]
                   ELSE steps'[k] = "completed" <=> Satisfied(docs', acks', k)]_vars
    BY <1>1
  <1> QED
    BY <1>2, OnboardingInvariance, PTL DEF Spec, SignedIsCompleted

\* No step moves without an audit row that says so, except by a console whose
\* reading of the map went stale.
THEOREM MovesAuditedOrStale == Spec => AuditedOrStale
  <1>1. ASSUME Inv, [Next]_vars, NEW k \in StepKeys, steps'[k] # steps[k],
               ~Reaffirmed(k), ~StaleConsole
        PROVE  <<k, steps'[k]>> \in audit'
    <2>0. TypeOK /\ steps \in StepMap /\ steps' # steps
      BY <1>1 DEF Inv, TypeOK
    <2>1. ASSUME NEW t \in Tabs, SupplierStep(t) PROVE <<k, steps'[k]>> \in audit'
      <3>1. CASE StepCommit(t)
        <4>1. k = req[t].key
          BY <1>1, <2>0, <3>1 DEF StepCommit, StepMap
        <4> QED
          BY <2>0, <3>1, <4>1 DEF StepCommit, StepMap
      <3>2. CASE ProfileCommit(t)
        <4>1. k = "registration_form"
          BY <1>1, <2>0, <3>2 DEF ProfileCommit, StepMap
        <4> QED
          BY <1>1, <3>2, <4>1 DEF Reaffirmed
      <3>3. CASE AckCommit(t)
        BY <1>1, <2>0, <3>3 DEF AckCommit, LockedSteps, Moved
      <3> QED
        BY <1>1, <2>1, <2>0, <3>1, <3>2, <3>3, SupplierWrites
    <2>2. ASSUME NEW c \in Consoles, ConsoleCommit(c) \/ DocCommit(c)
          PROVE  <<k, steps'[k]>> \in audit'
      <3>1. req[c].op \in {"set", "publish"} /\ req'[c] = Idle
        BY <2>0, <2>2, CommitsEnd, EndedIsIdle DEF ConsoleCommit, DocCommit
      <3>2. req[c].steps = steps
        BY <1>1, <2>0, <3>1 DEF StaleConsole, Commits, Free
      <3>3. CASE ConsoleCommit(c)
        <4>1. k = req[c].key
          BY <1>1, <2>0, <3>2, <3>3 DEF ConsoleCommit, StepMap
        <4> QED
          BY <2>0, <3>2, <3>3, <4>1 DEF ConsoleCommit, StepMap
      <3>4. CASE DocCommit(c)
        BY <1>1, <2>0, <3>2, <3>4 DEF DocCommit, Moved
      <3> QED
        BY <2>2, <3>3, <3>4
    <2>3. ~RegisterSupplier
      <3>1. RegisterSupplier => k = "registration_form"
        BY <1>1, <2>0 DEF RegisterSupplier, StepMap
      <3> QED
        BY <1>1, <3>1 DEF Reaffirmed
    <2>4. ASSUME NEW c \in Consoles, ConsoleStep(c) PROVE ConsoleCommit(c) \/ DocCommit(c)
      BY <2>0, <2>4 DEF ConsoleStep, ConsoleRead, CreateStart, UpdateRead, WithdrawRead, DocWrite
    <2>5. ~(AddSupplier \/ EnsureRow \/ UNCHANGED vars) /\ \A r \in Requests : ~Abandon(r)
      BY <2>0 DEF AddSupplier, EnsureRow, vars, Abandon
    <2> QED
      BY <1>1, <2>1, <2>2, <2>3, <2>4, <2>5 DEF Next
  <1>2. Inv /\ [Next]_vars =>
          [\A k \in StepKeys :
             steps'[k] # steps[k] =>
               <<k, steps'[k]>> \in audit' \/ Reaffirmed(k) \/ StaleConsole]_vars
    BY <1>1
  <1> QED
    BY <1>2, OnboardingInvariance, PTL DEF Spec, AuditedOrStale
===============================================================================
