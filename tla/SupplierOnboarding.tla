--------------------------- MODULE SupplierOnboarding ---------------------------
(***************************************************************************)
(* The onboarding checklist of one supplier in one edition: a single jsonb *)
(* map of steps that everybody rewrites as a whole.                        *)
(*                                                                         *)
(*   apps/suppliers/lib/actions   the supplier ticks a step, saves the     *)
(*                                profile, acknowledges a document         *)
(*   apps/org/lib/actions         the console sets a step, publishes,      *)
(*                                rebinds and withdraws documents, and     *)
(*                                reconciles the map with what is signed   *)
(*   packages/core/src            supplier-onboarding.ts (the rules),      *)
(*                                supplier-documents.ts (reconciliation)   *)
(*                                                                         *)
(* Every action is a READ COMMITTED transaction.  The supplier's lock the  *)
(* row before they read the map (lockOnboardingSteps), the console's do    *)
(* not; and no lock covers the documents and acknowledgements.             *)
(***************************************************************************)
EXTENDS Naturals, FiniteSets

CONSTANTS
  StepKeys,     \* the steps explored
  Docs,         \* document ids; an id is never used twice
  Tabs,         \* the supplier's requests in flight
  Consoles,     \* the organisers' requests in flight
  Nobody,       \* holds no lock
  MaxRequests   \* bound on the requests explored

SelfService == {"registration_form", "agreement_signed"}
OrgReviewed == {"inventory_submitted", "crew_details_submitted"}
OrgConfirmed == {"deposit_paid", "briefing_attended", "registration_fee_paid"}

ASSUME SupplierAssumption ==
  /\ StepKeys \subseteq SelfService \cup OrgReviewed \cup OrgConfirmed
  /\ "registration_form" \in StepKeys
  /\ Nobody \notin Tabs
  /\ Tabs \cap Consoles = {}
  /\ MaxRequests \in Nat

Status == {"pending", "awaiting_confirmation", "completed"}
StepMap == [StepKeys -> Status]

\* A document is unbound, or gates a step; or it is not in the list.
Unbound == "unbound"
Bindings == {Unbound} \cup (SelfService \cap StepKeys)
Unpublished == "unpublished"
Withdrawn == "withdrawn"

DocList == [Docs -> Bindings \cup {Unpublished, Withdrawn}]

VARIABLES
  listing,  \* "none", "listed" in the catalogue, or "open": it has its row
  steps,    \* supplier_onboarding.steps; a missing key is pending
  docs,     \* supplier_documents of the edition
  acks,     \* supplier_document_acks of the supplier
  holder,   \* the request that holds the row lock across statements
  req,      \* each request in flight
  begun,    \* requests begun
  audit     \* the steps named by the audit rows of the latest transaction

vars == <<listing, steps, docs, acks, holder, req, begun, audit>>

\* What a request has read, and what it is going to write.
Idle == [op |-> "idle"]
Tick == [op : {"tick"}, key : StepKeys, to : Status, docs : DocList]
Profile == [op : {"profile"}, docs : DocList]
Ack == [op : {"ack"}, doc : Docs, effect : {"none", "insert", "delete"},
        docs : DocList, session : StepMap, acks : SUBSET Docs]
Set == [op : {"set"}, key : StepKeys, to : Status, steps : StepMap]
Edit == [op : {"edit"}, doc : Docs, to : Bindings \cup {Withdrawn},
         was : Bindings \cup {Unpublished}]
Publish == [op : {"publish"}, doc : Docs, to : Bindings \cup {Withdrawn},
            was : Bindings \cup {Unpublished},
            docs : DocList, steps : StepMap, acks : SUBSET Docs]
TabRequest == {Idle} \cup Tick \cup Profile \cup Ack
ConsoleRequest == {Idle} \cup Set \cup Edit \cup Publish

Requests == Tabs \cup Consoles
Free(r) == req[r].op = "idle"
Begin(r, record) ==
  /\ begun < MaxRequests
  /\ begun' = begun + 1
  /\ req' = [req EXCEPT ![r] = record]
End(r) ==
  /\ req' = [req EXCEPT ![r] = Idle]
  /\ UNCHANGED begun
Holding(op) == {r \in Requests : req[r].op = op}

Init ==
  /\ listing = "none"
  /\ steps = [k \in StepKeys |-> "pending"]
  /\ docs = [d \in Docs |-> Unpublished]
  /\ acks = {}
  /\ holder = Nobody
  /\ req = [r \in Requests |-> Idle]
  /\ begun = 0
  /\ audit = {}

---------------------------------------------------------------------------
(* packages/core: who may move a step, and what acknowledgements do.       *)

\* validateStepTransition for the supplier.
SupplierMay(k, from, to) ==
  \/ k \in SelfService /\ {from, to} = {"pending", "completed"}
  \/ k \in OrgReviewed /\ {from, to} = {"pending", "awaiting_confirmation"}

Published(ds) == {d \in Docs : ds[d] \in Bindings}
BoundTo(ds, k) == {d \in Docs : ds[d] = k}

\* validateDocumentBinding: a document that gates a step must ask for an
\* acknowledgement, and the step must be the supplier's own.
ValidBinding(k, requiredAck) == k = Unbound \/ (k \in SelfService /\ requiredAck)

\* isStepSatisfiedByAcks.
Satisfied(ds, as, k) == BoundTo(ds, k) # {} /\ BoundTo(ds, k) \subseteq as

MutConsideredNow(ds, also) == {ds[d] : d \in Docs} \cap SelfService
\* The steps a reconciliation looks at: those with a document now, and those
\* whose document was just taken away.
Considered(ds, also) == ({ds[d] : d \in Docs} \cup also) \cap SelfService

\* applyDocumentAcksToSteps.
Reconciled(s, ds, as, also) ==
  [k \in StepKeys |->
     LET to == IF Satisfied(ds, as, k) THEN "completed" ELSE "pending" IN
     IF k \in Considered(ds, also) /\ SupplierMay(k, s[k], to) THEN to ELSE s[k]]

MutMovedForward(from, to) ==
  {<<k, "completed">> : k \in {j \in StepKeys : from[j] # to[j] /\ to[j] = "completed"}}
\* The audit rows of a reconciliation: one for each step it moved.
Moved(from, to) == {<<k, to[k]>> : k \in {j \in StepKeys : from[j] # to[j]}}

---------------------------------------------------------------------------
(* The row.                                                                *)

\* addSupplier, or the import of the suppliers list.
AddSupplier ==
  /\ listing = "none"
  /\ listing' = "listed"
  /\ audit' = {}
  /\ UNCHANGED <<steps, docs, acks, holder, req, begun>>

\* registerSupplier: supplier and row together, with the first step done.
RegisterSupplier ==
  /\ listing = "none"
  /\ listing' = "open"
  /\ steps' = [steps EXCEPT !["registration_form"] = "completed"]
  /\ audit' = {}
  /\ UNCHANGED <<docs, acks, holder, req, begun>>

\* ensureOnboardingSteps: resolving a session creates the row, empty.
EnsureRow ==
  /\ listing = "listed"
  /\ listing' = "open"
  /\ audit' = {}
  /\ UNCHANGED <<steps, docs, acks, holder, req, begun>>

\* The row lock is free for r, or r's own.
LockFree(r) == holder \in {Nobody, r}

MutLockedSteps(t) == req[t].session
\* lockOnboardingSteps: the map as it stands, the row held until the commit.
LockedSteps(t) == steps

---------------------------------------------------------------------------
(* The supplier: setOnboardingStep.                                        *)

MutMayTick(k) == k \notin OrgConfirmed
\* A step AfrikaBurn confirms is refused, and so is one that a document gates.
MayTick(k) == k \notin OrgConfirmed /\ BoundTo(docs, k) = {}

StepRead(t, k, to) ==
  /\ Free(t)
  /\ listing = "open"
  /\ MayTick(k)
  /\ Begin(t, [op |-> "tick", key |-> k, to |-> to, docs |-> docs])
  /\ audit' = {}
  /\ UNCHANGED <<listing, steps, docs, acks, holder>>

StepCommit(t) ==
  LET key == req[t].key IN
  /\ req[t].op = "tick"
  /\ LockFree(t)
  /\ SupplierMay(key, steps[key], req[t].to)
  /\ steps' = [steps EXCEPT ![key] = req[t].to]
  /\ audit' = {<<key, req[t].to>>}
  /\ End(t)
  /\ UNCHANGED <<listing, docs, acks, holder>>

(* updateSupplierProfile: the lock, then the documents, then the write.    *)

ProfileRead(t) ==
  /\ Free(t)
  /\ listing = "open"
  /\ holder = Nobody
  /\ holder' = t
  /\ Begin(t, [op |-> "profile", docs |-> docs])
  /\ audit' = {}
  /\ UNCHANGED <<listing, steps, docs, acks>>

ProfileCommit(t) ==
  /\ req[t].op = "profile"
  /\ steps' = IF BoundTo(req[t].docs, "registration_form") = {}
              THEN [steps EXCEPT !["registration_form"] = "completed"]
              ELSE steps
  /\ holder' = Nobody
  /\ audit' = {}
  /\ End(t)
  /\ UNCHANGED <<listing, docs, acks>>

---------------------------------------------------------------------------
(* The supplier: setDocumentAcknowledgement.                               *)

\* Rows other transactions have written and not yet committed.
AckPending(d) == \E t \in Holding("ack") : req[t].doc = d /\ req[t].effect # "none"
DocPending(d) == \E c \in Holding("publish") : req[c].doc = d
WithdrawPending(d) == \E c \in Holding("publish") : req[c].doc = d /\ req[c].to = Withdrawn

\* The INSERT ... ON CONFLICT DO NOTHING (or the DELETE) of the
\* acknowledgement; it waits for a transaction that has written the same row.
AckEffect(d, acknowledged) ==
  IF acknowledged = (d \in acks) THEN "none"
  ELSE IF acknowledged THEN "insert" ELSE "delete"

AckRead(t, d, acknowledged) ==
  /\ Free(t)
  /\ listing = "open"
  /\ d \in Published(docs)
  /\ ~WithdrawPending(d)
  /\ AckPending(d) => ~acknowledged /\ d \notin acks
  /\ Begin(t, [op |-> "ack", doc |-> d, effect |-> AckEffect(d, acknowledged),
               docs |-> docs, session |-> steps,
               acks |-> IF acknowledged THEN acks \cup {d} ELSE acks \ {d}])
  /\ audit' = {}
  /\ UNCHANGED <<listing, steps, docs, acks, holder>>

AckCommit(t) ==
  LET r == req[t]
      stored == LockedSteps(t)
      new == Reconciled(stored, r.docs, r.acks, {})
  IN
  /\ r.op = "ack"
  /\ LockFree(t)
  /\ acks' = CASE r.effect = "insert" -> acks \cup {r.doc}
               [] r.effect = "delete" -> acks \ {r.doc}
               [] OTHER -> acks
  /\ steps' = IF new = stored THEN steps ELSE new
  /\ audit' = Moved(stored, new)
  /\ End(t)
  /\ UNCHANGED <<listing, docs, holder>>

---------------------------------------------------------------------------
(* The console: setSupplierOnboardingStep reads the map without the lock   *)
(* and upserts all of it.  validateStepTransition lets AfrikaBurn move any *)
(* step anywhere: the screen offers to confirm and to take back, the       *)
(* action also takes a step of the supplier's own to awaiting_confirmation.*)

ConsoleRead(c, k, to) ==
  /\ Free(c)
  /\ listing # "none"
  /\ steps[k] # to
  /\ Begin(c, [op |-> "set", key |-> k, to |-> to, steps |-> steps])
  /\ audit' = {}
  /\ UNCHANGED <<listing, steps, docs, acks, holder>>

ConsoleCommit(c) ==
  /\ req[c].op = "set"
  /\ LockFree(c)
  /\ listing' = "open"
  /\ steps' = [req[c].steps EXCEPT ![req[c].key] = req[c].to]
  /\ audit' = {<<req[c].key, req[c].to>>}
  /\ End(c)
  /\ UNCHANGED <<docs, acks, holder>>

---------------------------------------------------------------------------
(* The console: the document list.  An update or a withdrawal first reads  *)
(* which step the document gates, then writes it, reads documents, maps    *)
(* and acknowledgements, and commits the reconciled maps.                  *)

\* createSupplierDocument has nothing to read.
CreateStart(c, d, k, requiredAck) ==
  /\ Free(c)
  /\ docs[d] = Unpublished
  /\ ~\E o \in Requests : req[o].op \in {"edit", "publish"} /\ req[o].doc = d
  /\ ValidBinding(k, requiredAck)
  /\ Begin(c, [op |-> "edit", doc |-> d, to |-> k, was |-> Unpublished])
  /\ audit' = {}
  /\ UNCHANGED <<listing, steps, docs, acks, holder>>

\* updateSupplierDocument.
UpdateRead(c, d, k, requiredAck) ==
  /\ Free(c)
  /\ d \in Published(docs)
  /\ ValidBinding(k, requiredAck)
  /\ Begin(c, [op |-> "edit", doc |-> d, to |-> k, was |-> docs[d]])
  /\ audit' = {}
  /\ UNCHANGED <<listing, steps, docs, acks, holder>>

\* deleteSupplierDocument.
WithdrawRead(c, d) ==
  /\ Free(c)
  /\ d \in Published(docs)
  /\ Begin(c, [op |-> "edit", doc |-> d, to |-> Withdrawn, was |-> docs[d]])
  /\ audit' = {}
  /\ UNCHANGED <<listing, steps, docs, acks, holder>>

\* The documents once c has written its own: nothing if the row is gone.
Written(ds, d, was, to) ==
  IF was # Unpublished /\ ds[d] = Withdrawn THEN ds ELSE [ds EXCEPT ![d] = to]

\* Acknowledgements cascade away with their document.
SurvivingAcks(as, ds) == as \cap Published(ds)

\* The write waits for other writers of the document, and a withdrawal for
\* the acknowledgements that refer to it.
DocWrite(c) ==
  LET r == req[c]
      written == Written(docs, r.doc, r.was, r.to)
  IN
  /\ r.op = "edit"
  /\ ~DocPending(r.doc)
  /\ r.to = Withdrawn => ~AckPending(r.doc)
  /\ req' = [req EXCEPT ![c] =
       [op |-> "publish", doc |-> r.doc, to |-> r.to, was |-> r.was, docs |-> written,
        steps |-> steps, acks |-> acks \cap Published(written)]]
  /\ audit' = {}
  /\ UNCHANGED <<listing, steps, docs, acks, holder, begun>>

\* reconcileEditionSupplierSteps and the commit; it writes no map it did not
\* change.
DocCommit(c) ==
  LET r == req[c]
      new == Reconciled(r.steps, r.docs, r.acks, {r.was, r.to})
  IN
  /\ r.op = "publish"
  /\ docs' = Written(docs, r.doc, r.was, r.to)
  /\ acks' = SurvivingAcks(acks, docs')
  /\ \/ new = r.steps /\ steps' = steps
     \/ new # r.steps /\ LockFree(c) /\ steps' = new
  /\ audit' = Moved(r.steps, new)
  /\ End(c)
  /\ UNCHANGED <<listing, holder>>

---------------------------------------------------------------------------
\* A refusal, a constraint violation or a crash: the transaction rolls back.
Abandon(r) ==
  /\ ~Free(r)
  /\ holder' = IF holder = r THEN Nobody ELSE holder
  /\ audit' = {}
  /\ End(r)
  /\ UNCHANGED <<listing, steps, docs, acks>>

SupplierStep(t) ==
  \/ \E k \in StepKeys, to \in Status : StepRead(t, k, to)
  \/ StepCommit(t)
  \/ ProfileRead(t)
  \/ ProfileCommit(t)
  \/ \E d \in Docs, acknowledged \in BOOLEAN : AckRead(t, d, acknowledged)
  \/ AckCommit(t)

ConsoleStep(c) ==
  \/ \E k \in StepKeys, to \in Status : ConsoleRead(c, k, to)
  \/ ConsoleCommit(c)
  \/ \E d \in Docs, k \in StepKeys \cup {Unbound}, requiredAck \in BOOLEAN :
       CreateStart(c, d, k, requiredAck) \/ UpdateRead(c, d, k, requiredAck)
  \/ \E d \in Docs : WithdrawRead(c, d)
  \/ DocWrite(c)
  \/ DocCommit(c)

Next ==
  \/ AddSupplier
  \/ RegisterSupplier
  \/ EnsureRow
  \/ \E t \in Tabs : SupplierStep(t)
  \/ \E c \in Consoles : ConsoleStep(c)
  \/ \E r \in Requests : Abandon(r)

Spec == Init /\ [][Next]_vars

---------------------------------------------------------------------------
(* Properties.                                                             *)

Commits(r) == ~Free(r) /\ req'[r] = Idle /\ steps' # steps

TypedRequests ==
  /\ req \in [Requests -> TabRequest \cup ConsoleRequest]
  /\ \A t \in Tabs : req[t] \in TabRequest
  /\ \A c \in Consoles : req[c] \in ConsoleRequest

\* The rows keep their types, an acknowledgement refers to a document in the
\* list (the foreign key's cascade), and there is no map without its row.
TypeOK ==
  /\ listing \in {"none", "listed", "open"}
  /\ steps \in StepMap
  /\ listing # "open" => \A k \in StepKeys : steps[k] = "pending"
  /\ docs \in DocList
  /\ acks \subseteq Published(docs)
  /\ holder \in {Nobody} \cup Holding("profile")
  /\ TypedRequests

\* A supplier's request never moves a step only AfrikaBurn confirms, in
\* neither direction, and never confirms one AfrikaBurn reviews - not even by
\* rewriting the whole map beside a confirmation (lockOnboardingSteps).
SupplierNeverConfirms ==
  [][\A t \in Tabs : Commits(t) =>
       /\ \A k \in OrgConfirmed \cap StepKeys : steps'[k] = steps[k]
       /\ \A k \in OrgReviewed \cap StepKeys :
            "completed" \in {steps[k], steps'[k]} => steps'[k] = steps[k]]_vars

\* One step, one way to complete it (setOnboardingStep, updateSupplierProfile):
\* while a document gates a step, neither a tick nor a saved profile completes
\* it, unless the document was bound after the request looked.
OneWayToComplete ==
  [][\A t \in Tabs : Commits(t) /\ req[t].op \in {"tick", "profile"} =>
       \A k \in StepKeys :
         steps[k] # "completed" /\ steps'[k] = "completed" =>
           BoundTo(docs, k) = {} \/ req[t].docs # docs]_vars

\* What a reconciliation read is still so when it commits.
UpToDate(r) ==
  /\ req[r].docs = docs'
  /\ req[r].acks = acks'
  /\ req[r].op = "publish" => req[r].steps = steps /\ req[r].was = docs[req[r].doc]

\* A reconciliation that overlapped nothing leaves no step complete without
\* its signatures and none open with all of them, the steps whose document
\* was withdrawn or moved included (applyDocumentAcksToSteps, after
\* setDocumentAcknowledgement and every edit of the document list).  It leaves a
\* step alone that the console has set to await a confirmation: the rules of the
\* supplier, by which it moves steps, take none out of there.
SignedIsCompleted ==
  [][\A r \in Requests :
       (AckCommit(r) \/ DocCommit(r)) /\ UpToDate(r) =>
         \A k \in SelfService \cap StepKeys :
           BoundTo(docs, k) \cup BoundTo(docs', k) # {} =>
             IF steps[k] = "awaiting_confirmation"
             THEN steps'[k] = steps[k]
             ELSE steps'[k] = "completed" <=> Satisfied(docs', acks', k)]_vars

\* Registering and saving the profile complete the first step under audit
\* rows of their own.
Reaffirmed(k) ==
  k = "registration_form" /\ (RegisterSupplier \/ \E t \in Tabs : ProfileCommit(t))

\* A console writes the map it read, and the row has moved since.
StaleConsole == \E c \in Consoles : Commits(c) /\ req[c].steps # steps

\* No step moves without an audit row that says so, whoever moves it, except
\* by a console whose reading of the map went stale (setSupplierOnboardingStep
\* and reconcileEditionSupplierSteps write the whole map they read).
AuditedOrStale ==
  [][\A k \in StepKeys :
       steps'[k] # steps[k] =>
         <<k, steps'[k]>> \in audit' \/ Reaffirmed(k) \/ StaleConsole]_vars
===============================================================================
