----------------------------- MODULE Registration -----------------------------
(***************************************************************************)
(* One camp's registration for one edition: a row of `registrations`, the  *)
(* camp's requests that write it (autosave, submit, withdraw, reopen,      *)
(* carry-forward; apps/web/lib/registration-store.ts) and the reviewers'   *)
(* (decide; apps/org/lib/actions/registrations.ts).                        *)
(*                                                                         *)
(* Every handler reads the row, decides, and writes in a later statement   *)
(* or READ COMMITTED transaction, so a request is a process with a Read    *)
(* action and a Commit action and the requests interleave.  A request may  *)
(* also die between the two (Abandon).  An operation that is refused       *)
(* changes nothing: a refused Read is not a step.                          *)
(*                                                                         *)
(* The six sections of the form are the set Sections, one answer each; the *)
(* answer carries the section's text, its supplier declarations and the    *)
(* camp description, all replaced in the autosave's one transaction.       *)
(***************************************************************************)
EXTENDS RegistrationStates, Sequences, Naturals

CONSTANTS
  CampRequests,     \* requests of the camp's leads and admins
  Reviewers,        \* organisers, one console request each
  Sections,         \* FORM_1_SECTION_KEYS
  CarriedSections,  \* those whose answers come across from the prior edition
  Texts,            \* answers a camp can give
  LastYear,         \* the prior edition's answer
  Blank,            \* unanswered
  Reasons, NoReason,
  MaxDecisions      \* bound on the reviewers' actions explored

ASSUME RegistrationAssumption ==
  /\ CarriedSections \subseteq Sections
  /\ LastYear \in Texts
  /\ Blank \notin Texts
  /\ NoReason \notin Reasons
  /\ MaxDecisions \in Nat

VARIABLES
  status,             \* registrations.status, or NoRow
  answers,            \* the answer columns
  completedSections,  \* completed_sections, what the submit gate reads
  decisionReason,     \* decision_reason
  decidedBy,          \* decided_by_user_id, or NoReviewer
  carriedForward,     \* carried_forward_at IS NOT NULL
  audit,              \* the audit_events of this registration, oldest first
  notifications,      \* the decision notifications delivered to the camp
  req                 \* each request in flight

vars == <<status, answers, completedSections, decisionReason, decidedBy,
          carriedForward, audit, notifications, req>>
decisionVars == <<decisionReason, decidedBy, audit, notifications>>

NoReviewer == "nobody"
Requests == CampRequests \cup Reviewers
MaybeReason == Reasons \cup {NoReason}
Answers == [Sections -> Texts \cup {Blank}]
Unanswered == [s \in Sections |-> Blank]

\* What a request holds between its read and its write: the status it read,
\* the answers it will write, the action it will take.
Request == [op     : {"idle", "save", "act", "carry", "decide", "notify"},
            seen   : RegistrationStatus \cup {NoRow},
            values : Answers,
            action : CAMP_ACTIONS \cup REVIEW_ACTIONS \cup {"none"},
            reason : MaybeReason]

Idle == [op |-> "idle", seen |-> NoRow, values |-> Unanswered,
         action |-> "none", reason |-> NoReason]

Init ==
  /\ status = NoRow
  /\ answers = Unanswered
  /\ completedSections = {}
  /\ decisionReason = NoReason
  /\ decidedBy = NoReviewer
  /\ carriedForward = FALSE
  /\ audit = <<>>
  /\ notifications = {}
  /\ req = [r \in Requests |-> Idle]

---------------------------------------------------------------------------
(* Helpers of the handlers.                                                *)

Free(r) == req[r].op = "idle"
Begin(r, request) == req' = [req EXCEPT ![r] = request]
End(r) == req' = [req EXCEPT ![r] = Idle]

\* The row has not moved since r read it: WHERE status = <the status read>.
MutStatusUnchecked(r) == TRUE
StatusUnmoved(r) == status = req[r].seen

\* completedSectionsFor: the sections whose required fields are answered.
CompletedFor(values) == {s \in Sections : values[s] # Blank}

\* isSubmittable: the all-sections-complete gate.
IsSubmittable(completed) == Sections \subseteq completed

---------------------------------------------------------------------------
(* saveRegistrationDraft: the wizard's autosave.  The row is read outside  *)
(* the transaction; the UPDATE is keyed on the row's id alone.             *)

MutSaveAnywhere == TRUE
Editable == status \in EDITABLE_STATUSES \cup {NoRow}

SaveRead(r, values) ==
  /\ Free(r)
  /\ Editable
  /\ Begin(r, [Idle EXCEPT !.op = "save", !.seen = status, !.values = values])
  /\ UNCHANGED <<status, answers, completedSections, carriedForward, decisionVars>>

\* A first save inserts the draft; if another request did so meanwhile, the
\* unique index on (group, edition) fails the transaction.
SaveCommit(r) ==
  /\ req[r].op = "save"
  /\ req[r].seen = NoRow => status = NoRow
  /\ status' = IF req[r].seen = NoRow THEN "draft" ELSE status
  /\ answers' = req[r].values
  /\ completedSections' = CompletedFor(req[r].values)
  /\ End(r)
  /\ UNCHANGED <<carriedForward, decisionVars>>

---------------------------------------------------------------------------
(* applyCampAction: submit, resubmit, withdraw, reopen.                    *)

ActRead(r, action) ==
  /\ Free(r)
  /\ status # NoRow
  /\ CanTransition(status, CampTarget(action))
  /\ CampTarget(action) = "submitted" => IsSubmittable(completedSections)
  /\ Begin(r, [Idle EXCEPT !.op = "act", !.seen = status, !.action = action])
  /\ UNCHANGED <<status, answers, completedSections, carriedForward, decisionVars>>

MutActCommitKeepsReason(r) ==
  /\ req[r].op = "act"
  /\ StatusUnmoved(r)
  /\ status' = CampTarget(req[r].action)
  /\ End(r)
  /\ UNCHANGED <<answers, completedSections, carriedForward, decisionVars>>

\* One compare-and-set statement.  The reviewer's words belong to the state
\* they were said about, so the move clears them.
ActCommit(r) ==
  /\ req[r].op = "act"
  /\ StatusUnmoved(r)
  /\ status' = CampTarget(req[r].action)
  /\ decisionReason' = NoReason
  /\ End(r)
  /\ UNCHANGED <<answers, completedSections, decidedBy, carriedForward, audit, notifications>>

---------------------------------------------------------------------------
(* carryForwardRegistration: seed the draft from the prior edition's row.  *)
(* Read and write are two statements of one READ COMMITTED transaction, so *)
(* other requests commit between them.                                     *)

\* The carried answers that fill a blank; a section the camp has answered is
\* not in the patch.
CarryPatch ==
  [s \in Sections |-> IF s \in CarriedSections /\ answers[s] = Blank
                      THEN LastYear ELSE Blank]

CarryRead(r) ==
  /\ Free(r)
  /\ Editable
  /\ ~carriedForward
  /\ CarryPatch # Unanswered
  /\ Begin(r, [Idle EXCEPT !.op = "carry", !.seen = status, !.values = CarryPatch])
  /\ UNCHANGED <<status, answers, completedSections, carriedForward, decisionVars>>

\* The compare-and-set on status and carried_forward_at IS NULL; with no row
\* read, an INSERT that yields to a row created meanwhile.
CarryWritable(r) ==
  /\ status = req[r].seen
  /\ ~carriedForward

MutCarryCommitUnstamped(r) ==
  /\ req[r].op = "carry"
  /\ CarryWritable(r)
  /\ status' = IF status = NoRow THEN "draft" ELSE status
  /\ answers' = [s \in Sections |-> IF req[r].values[s] = Blank
                                    THEN answers[s] ELSE req[r].values[s]]
  /\ completedSections' = {}
  /\ End(r)
  /\ UNCHANGED <<carriedForward, decisionVars>>

\* Pre-filled is not complete: completed_sections is emptied.  The patch is the
\* one computed at the reading: an autosave that committed since moved neither the
\* status nor the stamp, so what it stored in a patched section is replaced.
CarryCommit(r) ==
  /\ req[r].op = "carry"
  /\ CarryWritable(r)
  /\ status' = IF status = NoRow THEN "draft" ELSE status
  /\ answers' = [s \in Sections |-> IF req[r].values[s] = Blank
                                    THEN answers[s] ELSE req[r].values[s]]
  /\ completedSections' = {}
  /\ carriedForward' = TRUE
  /\ End(r)
  /\ UNCHANGED decisionVars

---------------------------------------------------------------------------
(* decideRegistration: start review, approve, request changes, reject.     *)

NeedsReason(action) == action \in {"request_changes", "reject"}

DecideRead(v, action, reason) ==
  /\ Free(v)
  /\ Len(audit) < MaxDecisions
  /\ NeedsReason(action) => reason # NoReason
  /\ status # NoRow
  /\ CanReview(status, REVIEW_ACTION_TARGET[action])
  /\ Begin(v, [Idle EXCEPT !.op = "decide", !.seen = status,
                           !.action = action, !.reason = reason])
  /\ UNCHANGED <<status, answers, completedSections, carriedForward, decisionVars>>

\* DECISION_STATUSES: the decisions the camp is told of.
DECISION_STATUSES == {"approved", "changes_requested", "rejected"}

\* The status flip and its audit row commit in one transaction, guarded on the
\* status the transition was validated against.
DecideCommit(v) ==
  LET to == REVIEW_ACTION_TARGET[req[v].action] IN
  /\ req[v].op = "decide"
  /\ StatusUnmoved(v)
  /\ Len(audit) < MaxDecisions
  /\ status' = to
  /\ decisionReason' = req[v].reason
  /\ decidedBy' = IF to \in {"approved", "rejected"} THEN v ELSE decidedBy
  /\ audit' = Append(audit, [actor |-> v, from |-> req[v].seen, to |-> to,
                             reason |-> req[v].reason])
  /\ IF to \in DECISION_STATUSES
       THEN req' = [req EXCEPT ![v].op = "notify"]
       ELSE End(v)
  /\ UNCHANGED <<answers, completedSections, carriedForward, notifications>>

MutNotifyEarly(v) == req[v].op \in {"decide", "notify"}
ReadyToNotify(v) == req[v].op = "notify"

\* notifyRegistrationDecision, after the commit and best-effort.
Notify(v) ==
  /\ ReadyToNotify(v)
  /\ notifications' = notifications \cup
       {[to |-> REVIEW_ACTION_TARGET[req[v].action], reason |-> req[v].reason]}
  /\ End(v)
  /\ UNCHANGED <<status, answers, completedSections, decisionReason, decidedBy,
                 carriedForward, audit>>

---------------------------------------------------------------------------
\* A request ends without writing: its compare-and-set matched no row, a
\* constraint refused it, the notification failed, or its process died.
Abandon(r) ==
  /\ ~Free(r)
  /\ End(r)
  /\ UNCHANGED <<status, answers, completedSections, carriedForward, decisionVars>>

CampStep(r) ==
  \/ \E values \in Answers : SaveRead(r, values)
  \/ SaveCommit(r)
  \/ \E action \in CAMP_ACTIONS : ActRead(r, action)
  \/ ActCommit(r)
  \/ CarryRead(r)
  \/ CarryCommit(r)

ReviewerStep(v) ==
  \/ \E action \in REVIEW_ACTIONS, reason \in MaybeReason : DecideRead(v, action, reason)
  \/ DecideCommit(v)
  \/ Notify(v)

Next ==
  \/ \E r \in CampRequests : CampStep(r)
  \/ \E v \in Reviewers : ReviewerStep(v)
  \/ \E r \in Requests : Abandon(r)

Spec == Init /\ [][Next]_vars

---------------------------------------------------------------------------
(* Properties.                                                             *)

Decision == [actor : Reviewers, from : RegistrationStatus,
             to : ReviewedStatus, reason : MaybeReason]

\* Every column and every request in flight keeps its type.
TypeOK ==
  /\ status \in RegistrationStatus \cup {NoRow}
  /\ answers \in Answers
  /\ completedSections \in SUBSET Sections
  /\ decisionReason \in MaybeReason
  /\ decidedBy \in Reviewers \cup {NoReviewer}
  /\ carriedForward \in BOOLEAN
  /\ audit \in Seq(Decision)
  /\ notifications \in SUBSET [to : ReviewedStatus, reason : MaybeReason]
  /\ req \in [Requests -> Request]

\* A committed decision never exists without its audit trail and vice versa
\* (decideRegistration): in a status only a reviewer produces, the last audit
\* row is the decision that produced it, with the reason the camp reads on the
\* row and the reviewer stamped on it; in a status the camp moved to, no
\* reviewer's words are left standing (applyCampAction).
DecisionIsAudited ==
  IF status \in ReviewedStatus
    THEN /\ audit # <<>>
         /\ LET last == audit[Len(audit)] IN
              /\ last.to = status
              /\ last.reason = decisionReason
              /\ status \in {"approved", "rejected"} => decidedBy = last.actor
    ELSE decisionReason = NoReason

\* The audit trail reads as one history of legal reviews: each decision starts
\* from what the one before it left or from the camp's own (re)submission, and
\* nothing follows a rejection, however the reviewers' and the camp's requests
\* overlap (resolveReviewAction validated against a status read earlier).
TrailIsAHistory ==
  \A i \in 1..Len(audit) :
    /\ CanReview(audit[i].from, audit[i].to)
    /\ i > 1 => /\ audit[i-1].to # "rejected"
                /\ audit[i].from \in {"submitted", audit[i-1].to}
    /\ i = 1 => audit[i].from = "submitted"

\* A camp is told only of a decision that was committed, in the words that were
\* committed (notifyRegistrationDecision runs after the transaction).
NotificationsAreCommitted ==
  \A n \in notifications :
    \E i \in 1..Len(audit) : audit[i].to = n.to /\ audit[i].reason = n.reason

\* A rejection or a request for changes always carries a reason
\* (decideRegistration): the camp is never sent back without being told why.
RefusalHasReason ==
  status \in {"changes_requested", "rejected"} => decisionReason # NoReason

\* Last year's answers come across at most once in the life of the registration,
\* however many requests ask, overlap or are sent again, and whatever the camp and
\* the reviewers do between them (carryForwardRegistration): every filling of the
\* form turns the stamp on, having found it off, and nothing turns it off again.
CarriedOnce ==
  [][/\ carriedForward => carriedForward'
     /\ \A r \in CampRequests :
          req[r].op = "carry" /\ req'[r] # req[r] /\ answers' # answers
            => ~carriedForward /\ carriedForward'
    ]_vars

\* The answers a reviewer reads are the answers that were submitted: outside the
\* editable statuses nothing changes them, except an autosave that was already in
\* flight, having read an editable status, when the camp's move committed
\* (saveRegistrationDraft and carryForwardRegistration refuse a locked registration).
AnswersLockedOrStale ==
  [][status \notin EDITABLE_STATUSES \cup {NoRow} /\ answers' # answers =>
       \E r \in CampRequests : /\ req[r].op = "save" /\ req'[r] = Idle
                               /\ req[r].seen \in EDITABLE_STATUSES]_vars

\* The row's status and reason and its audit trail behave as one registration
\* handled by one person at a time would (the compare-and-sets of
\* applyCampAction and decideRegistration make each move atomic).
Lifecycle == INSTANCE RegistrationLifecycle WITH trail <- audit
ImplementsLifecycle == Lifecycle!Spec
===============================================================================
