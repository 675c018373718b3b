-------------------------- MODULE RegistrationProofs --------------------------
(***************************************************************************)
(* Proofs about Registration, for any number of camp requests, reviewers,  *)
(* sections, answers and decisions: its type invariant, the agreement of   *)
(* the row with its audit trail, the legality of that trail, the lock on   *)
(* answers under review, and that it implements RegistrationLifecycle.     *)
(*                                                                         *)
(* None of these is inductive alone.  A commit is guarded only by "the     *)
(* status is the one I read", so the induction must remember, for every    *)
(* request in flight, that its transition is legal from the status it read *)
(* (RequestsAreLegal), and that a trail ending in a rejection means a      *)
(* rejected row (RejectionIsLast).                                         *)
(***************************************************************************)
EXTENDS Registration, TLAPS

\* What a request in flight validated at its read still holds of the status it
\* read, which is what its compare-and-set asserts is still the row's.
RequestsAreLegal ==
  \A r \in Requests :
    /\ req[r].op = "act" =>
         /\ req[r].action \in CAMP_ACTIONS
         /\ req[r].seen \in RegistrationStatus
         /\ CanTransition(req[r].seen, CampTarget(req[r].action))
    /\ req[r].op \in {"decide", "notify"} => req[r].action \in REVIEW_ACTIONS
    /\ req[r].op = "decide" =>
         /\ req[r].seen \in RegistrationStatus
         /\ CanReview(req[r].seen, REVIEW_ACTION_TARGET[req[r].action])
         /\ NeedsReason(req[r].action) => req[r].reason # NoReason

\* Nothing moves a rejected registration, so a trail that ends in a rejection
\* belongs to a rejected row.
RejectionIsLast ==
  audit # <<>> /\ audit[Len(audit)].to = "rejected" => status = "rejected"

\* The trail records a decision with this outcome and reason.
Records(trail, to, reason) ==
  \E i \in 1..Len(trail) : trail[i].to = to /\ trail[i].reason = reason

\* A request that is about to tell the camp has committed what it will say.
NotifiersCommitted ==
  \A v \in Reviewers : req[v].op = "notify" =>
    Records(audit, REVIEW_ACTION_TARGET[req[v].action], req[v].reason)

Inv ==
  /\ TypeOK
  /\ RequestsAreLegal
  /\ NotifiersCommitted
  /\ NotificationsAreCommitted
  /\ DecisionIsAudited
  /\ RefusalHasReason
  /\ RejectionIsLast
  /\ TrailIsAHistory

\* A camp action leads only to a status the camp owns, never out of a rejection.
LEMMA CampMovesAreLegal ==
  ASSUME NEW from \in RegistrationStatus, NEW action \in CAMP_ACTIONS,
         CanTransition(from, CampTarget(action))
  PROVE  /\ CampTarget(action) \in RegistrationStatus \ ReviewedStatus
         /\ from # "rejected"
  BY DEF RegistrationStatus, CAMP_ACTIONS, CanTransition, CampTarget, ReviewedStatus,
         REGISTRATION_TRANSITIONS, REVIEW_ACTIONS, REVIEW_ACTION_TARGET

\* A reviewer's action starts from a submitted registration or one under review.
LEMMA ReviewsAreLegal ==
  ASSUME NEW from \in RegistrationStatus, NEW action \in REVIEW_ACTIONS,
         CanReview(from, REVIEW_ACTION_TARGET[action])
  PROVE  /\ from \in {"submitted", "under_review"}
         /\ REVIEW_ACTION_TARGET[action] \in RegistrationStatus \cap ReviewedStatus
         /\ REVIEW_ACTION_TARGET[action] \in {"changes_requested", "rejected"}
              => NeedsReason(action)
  BY DEF RegistrationStatus, CanTransition, CanReview, ReviewedStatus, NeedsReason,
         REGISTRATION_TRANSITIONS, REVIEW_ACTIONS, REVIEW_ACTION_TARGET

\* Where the statuses a draft or a missing row has lie among the others.
LEMMA StatusFacts ==
  /\ NoRow \notin RegistrationStatus /\ NoRow \notin ReviewedStatus
  /\ "draft" \in RegistrationStatus /\ "draft" \notin ReviewedStatus
  /\ ReviewedStatus = {"under_review", "approved", "changes_requested", "rejected"}
  BY DEF NoRow, RegistrationStatus, ReviewedStatus, REVIEW_ACTIONS, REVIEW_ACTION_TARGET

\* A slot with no request in it is well typed.
LEMMA IdleIsRequest == Idle \in Request
  BY RegistrationAssumption DEF Idle, Request, Unanswered, Answers, NoRow, MaybeReason

---------------------------------------------------------------------------
(* The type invariant is inductive given the legality of the requests.     *)

\* With no row and no request, every conjunct of the invariant holds.
LEMMA InitInv == Init => Inv
  <1> SUFFICES ASSUME Init PROVE Inv
    OBVIOUS
  <1> USE RegistrationAssumption DEF Init
  <1>1. TypeOK
    <2>1. Unanswered \in Answers
      BY DEF Unanswered, Answers
    <2>2. audit \in Seq(Decision)
      OBVIOUS
    <2>3. NoReason \in MaybeReason
      BY DEF MaybeReason
    <2>4. req \in [Requests -> Request]
      BY IdleIsRequest
    <2> QED
      BY <2>1, <2>2, <2>3, <2>4 DEF TypeOK
  <1>2. RequestsAreLegal
    BY DEF RequestsAreLegal, Idle
  <1>3. DecisionIsAudited /\ RefusalHasReason
    BY StatusFacts DEF DecisionIsAudited, RefusalHasReason, NoRow
  <1>4. RejectionIsLast /\ TrailIsAHistory
    <2>1. Len(audit) = 0
      OBVIOUS
    <2> QED
      BY <2>1 DEF RejectionIsLast, TrailIsAHistory
  <1>5. NotifiersCommitted /\ NotificationsAreCommitted
    BY DEF NotifiersCommitted, NotificationsAreCommitted, Idle, Requests
  <1> QED
    BY <1>1, <1>2, <1>3, <1>4, <1>5 DEF Inv

\* Every handler leaves the row, the trail and the requests well typed.
LEMMA TypeStep == TypeOK /\ RequestsAreLegal /\ [Next]_vars => TypeOK'
  <1> SUFFICES ASSUME TypeOK, RequestsAreLegal, [Next]_vars PROVE TypeOK'
    OBVIOUS
  <1> USE RegistrationAssumption, StatusFacts
  <1>1. ASSUME NEW r \in CampRequests, NEW values \in Answers, SaveRead(r, values)
        PROVE  TypeOK'
    <2>1. [Idle EXCEPT !.op = "save", !.seen = status, !.values = values] \in Request
      BY IdleIsRequest, <1>1 DEF TypeOK, Request
    <2> QED
      BY <1>1, <2>1 DEF TypeOK, SaveRead, Begin, decisionVars, Requests
  <1>2. ASSUME NEW r \in CampRequests, SaveCommit(r) PROVE TypeOK'
    <2>1. /\ req[r].values \in Answers
          /\ CompletedFor(req[r].values) \subseteq Sections
      BY DEF TypeOK, Request, Requests, CompletedFor
    <2> QED
      BY <1>2, <2>1, IdleIsRequest DEF TypeOK, SaveCommit, End, decisionVars, Requests
  <1>3. ASSUME NEW r \in CampRequests, NEW action \in CAMP_ACTIONS, ActRead(r, action)
        PROVE  TypeOK'
    <2>1. [Idle EXCEPT !.op = "act", !.seen = status, !.action = action] \in Request
      BY IdleIsRequest, <1>3 DEF TypeOK, Request
    <2> QED
      BY <1>3, <2>1 DEF TypeOK, ActRead, Begin, decisionVars, Requests
  <1>4. ASSUME NEW r \in CampRequests, ActCommit(r) PROVE TypeOK'
    <2>1. CampTarget(req[r].action) \in RegistrationStatus
      BY <1>4, CampMovesAreLegal DEF RequestsAreLegal, ActCommit, Requests
    <2> QED
      BY <1>4, <2>1, IdleIsRequest DEF TypeOK, ActCommit, End, Requests, MaybeReason
  <1>5. ASSUME NEW r \in CampRequests, CarryRead(r) PROVE TypeOK'
    <2>1. CarryPatch \in Answers
      BY DEF CarryPatch, Answers
    <2>2. [Idle EXCEPT !.op = "carry", !.seen = status, !.values = CarryPatch] \in Request
      BY <2>1, IdleIsRequest DEF TypeOK, Request
    <2> QED
      BY <1>5, <2>2 DEF TypeOK, CarryRead, Begin, decisionVars, Requests
  <1>6. ASSUME NEW r \in CampRequests, CarryCommit(r) PROVE TypeOK'
    <2>1. req[r].values \in Answers
      BY DEF TypeOK, Request, Requests
    <2>2. [s \in Sections |-> IF req[r].values[s] = Blank
                              THEN answers[s] ELSE req[r].values[s]] \in Answers
      BY <2>1 DEF TypeOK, Answers
    <2> QED
      BY <1>6, <2>2, IdleIsRequest DEF TypeOK, CarryCommit, End, decisionVars, Requests
  <1>7. ASSUME NEW v \in Reviewers, NEW action \in REVIEW_ACTIONS,
               NEW reason \in MaybeReason, DecideRead(v, action, reason)
        PROVE  TypeOK'
    <2>1. [Idle EXCEPT !.op = "decide", !.seen = status,
                       !.action = action, !.reason = reason] \in Request
      BY IdleIsRequest, <1>7 DEF TypeOK, Request
    <2> QED
      BY <1>7, <2>1 DEF TypeOK, DecideRead, Begin, decisionVars, Requests
  <1>8. ASSUME NEW v \in Reviewers, DecideCommit(v) PROVE TypeOK'
    <2> DEFINE to == REVIEW_ACTION_TARGET[req[v].action]
               d == [actor |-> v, from |-> req[v].seen, to |-> to, reason |-> req[v].reason]
    <2>1. v \in Requests /\ req[v] \in Request
      BY DEF TypeOK, Requests
    <2>2. to \in RegistrationStatus /\ to \in ReviewedStatus
      BY <1>8, <2>1, ReviewsAreLegal DEF RequestsAreLegal, DecideCommit
    <2>3. req[v].seen \in RegistrationStatus /\ req[v].reason \in MaybeReason
      BY <1>8, <2>1 DEF RequestsAreLegal, DecideCommit, Request
    <2>4. d \in Decision
      BY <2>2, <2>3 DEF Decision
    <2>5. Append(audit, d) \in Seq(Decision)
      BY <2>4 DEF TypeOK
    <2>6. [req[v] EXCEPT !.op = "notify"] \in Request
      BY <2>1 DEF Request
    <2>7. req' \in [Requests -> Request]
      BY <1>8, <2>6, <2>1, IdleIsRequest DEF TypeOK, DecideCommit, End
    <2>8. /\ status' = to /\ decisionReason' = req[v].reason
          /\ decidedBy' = (IF to \in {"approved", "rejected"} THEN v ELSE decidedBy)
          /\ audit' = Append(audit, d)
          /\ UNCHANGED <<answers, completedSections, carriedForward, notifications>>
      BY <1>8 DEF DecideCommit
    <2> QED
      BY <2>2, <2>3, <2>5, <2>7, <2>8 DEF TypeOK
  <1>9. ASSUME NEW v \in Reviewers, Notify(v) PROVE TypeOK'
    <2>1. v \in Requests /\ req[v] \in Request
      BY DEF TypeOK, Requests
    <2>2. REVIEW_ACTION_TARGET[req[v].action] \in ReviewedStatus
      BY <1>9, <2>1 DEF RequestsAreLegal, Notify, ReadyToNotify, ReviewedStatus
    <2>3. req[v].reason \in MaybeReason
      BY <2>1 DEF Request
    <2> QED
      BY <1>9, <2>2, <2>3, IdleIsRequest DEF TypeOK, Notify, End, Requests
  <1>10. ASSUME NEW r \in Requests, Abandon(r) PROVE TypeOK'
    BY <1>10, IdleIsRequest DEF TypeOK, Abandon, End, decisionVars
  <1>11. CASE UNCHANGED vars
    BY <1>11 DEF TypeOK, vars
  <1> QED
    BY <1>1, <1>2, <1>3, <1>4, <1>5, <1>6, <1>7, <1>8, <1>9, <1>10, <1>11
    DEF Next, CampStep, ReviewerStep

---------------------------------------------------------------------------
(* A request in flight stays legal: only its own Read fills it, from the   *)
(* status that read checked.                                               *)

\* Every handler keeps each request's action legal from the status it read.
LEMMA RequestsStep == TypeOK /\ RequestsAreLegal /\ [Next]_vars => RequestsAreLegal'
  <1> SUFFICES ASSUME TypeOK, RequestsAreLegal, [Next]_vars PROVE RequestsAreLegal'
    OBVIOUS
  <1> USE StatusFacts DEF Requests
  <1>0. req \in [Requests -> Request]
    BY DEF TypeOK
  <1>1. ASSUME NEW r \in Requests, req' = [req EXCEPT ![r] = Idle] PROVE RequestsAreLegal'
    BY <1>0, <1>1 DEF RequestsAreLegal, Idle
  <1>2. ASSUME NEW r \in CampRequests, NEW values \in Answers, SaveRead(r, values)
        PROVE  RequestsAreLegal'
    BY <1>0, <1>2 DEF RequestsAreLegal, SaveRead, Begin, Idle
  <1>3. ASSUME NEW r \in CampRequests, NEW action \in CAMP_ACTIONS, ActRead(r, action)
        PROVE  RequestsAreLegal'
    <2>1. status \in RegistrationStatus
      BY <1>3 DEF TypeOK, ActRead
    <2> QED
      BY <1>0, <1>3, <2>1 DEF RequestsAreLegal, ActRead, Begin, Idle
  <1>4. ASSUME NEW r \in CampRequests, CarryRead(r) PROVE RequestsAreLegal'
    BY <1>0, <1>4 DEF RequestsAreLegal, CarryRead, Begin, Idle
  <1>5. ASSUME NEW v \in Reviewers, NEW action \in REVIEW_ACTIONS,
               NEW reason \in MaybeReason, DecideRead(v, action, reason)
        PROVE  RequestsAreLegal'
    <2>1. status \in RegistrationStatus
      BY <1>5 DEF TypeOK, DecideRead
    <2> QED
      BY <1>0, <1>5, <2>1 DEF RequestsAreLegal, DecideRead, Begin, Idle
  <1>6. ASSUME NEW v \in Reviewers, DecideCommit(v) PROVE RequestsAreLegal'
    <2>1. CASE End(v)
      BY <1>1, <2>1 DEF End
    <2>2. CASE req' = [req EXCEPT ![v].op = "notify"]
      BY <1>0, <1>6, <2>2 DEF RequestsAreLegal, DecideCommit, Request
    <2> QED
      BY <1>6, <2>1, <2>2 DEF DecideCommit
  <1>7. ASSUME NEW r \in CampRequests, SaveCommit(r) \/ ActCommit(r) \/ CarryCommit(r)
        PROVE  RequestsAreLegal'
    BY <1>1, <1>7 DEF SaveCommit, ActCommit, CarryCommit, End
  <1>8. ASSUME NEW v \in Reviewers, Notify(v) PROVE RequestsAreLegal'
    BY <1>1, <1>8 DEF Notify, End
  <1>9. ASSUME NEW r \in Requests, Abandon(r) PROVE RequestsAreLegal'
    BY <1>1, <1>9 DEF Abandon, End
  <1>10. CASE UNCHANGED vars
    BY <1>10 DEF RequestsAreLegal, vars
  <1> QED
    BY <1>2, <1>3, <1>4, <1>5, <1>6, <1>7, <1>8, <1>9, <1>10
    DEF Next, CampStep, ReviewerStep

---------------------------------------------------------------------------
(* What a step does to the row and its trail: a step either leaves both,   *)
(* starts the draft, is a camp's legal move, or is a reviewer's.           *)

RowUnmoved == UNCHANGED <<status, decisionReason, decidedBy, audit>>

DraftStarted ==
  /\ status = NoRow /\ status' = "draft"
  /\ UNCHANGED <<decisionReason, decidedBy, audit>>

CampMoved ==
  /\ status \in RegistrationStatus \ {"rejected"}
  /\ \E action \in CAMP_ACTIONS : CanTransition(status, CampTarget(action))
                                  /\ status' = CampTarget(action)
  /\ status' \in RegistrationStatus \ ReviewedStatus
  /\ decisionReason' = NoReason
  /\ UNCHANGED <<decidedBy, audit>>

Reviewed(v) ==
  \E action \in REVIEW_ACTIONS, reason \in MaybeReason :
    /\ status \in {"submitted", "under_review"}
    /\ CanReview(status, REVIEW_ACTION_TARGET[action])
    /\ NeedsReason(action) => reason # NoReason
    /\ status' = REVIEW_ACTION_TARGET[action]
    /\ status' \in RegistrationStatus \cap ReviewedStatus
    /\ status' \in {"changes_requested", "rejected"} => reason # NoReason
    /\ decisionReason' = reason
    /\ status' \in {"approved", "rejected"} => decidedBy' = v
    /\ audit' = Append(audit, [actor |-> v, from |-> status, to |-> status', reason |-> reason])

\* Seen from the row, every step is one of four: nothing moves, a draft starts,
\* the camp moves it, a reviewer decides.
LEMMA RowSteps ==
  ASSUME TypeOK, RequestsAreLegal, [Next]_vars
  PROVE  RowUnmoved \/ DraftStarted \/ CampMoved \/ \E v \in Reviewers : Reviewed(v)
  <1> USE StatusFacts DEF Requests
  <1>1. ASSUME NEW r \in CampRequests, SaveCommit(r) PROVE RowUnmoved \/ DraftStarted
    BY <1>1 DEF SaveCommit, RowUnmoved, DraftStarted, decisionVars
  <1>2. ASSUME NEW r \in CampRequests, CarryCommit(r) PROVE RowUnmoved \/ DraftStarted
    BY <1>2 DEF CarryCommit, RowUnmoved, DraftStarted, decisionVars
  <1>3. ASSUME NEW r \in CampRequests, ActCommit(r) PROVE CampMoved
    <2>1. /\ req[r].action \in CAMP_ACTIONS /\ status \in RegistrationStatus
          /\ CanTransition(status, CampTarget(req[r].action))
      BY <1>3 DEF ActCommit, StatusUnmoved, RequestsAreLegal
    <2>2. status # "rejected" /\ CampTarget(req[r].action) \in RegistrationStatus \ ReviewedStatus
      BY <2>1, CampMovesAreLegal
    <2> QED
      BY <1>3, <2>1, <2>2 DEF ActCommit, CampMoved
  <1>4. ASSUME NEW v \in Reviewers, DecideCommit(v) PROVE Reviewed(v)
    <2>1. /\ req[v].action \in REVIEW_ACTIONS /\ status \in RegistrationStatus
          /\ CanReview(status, REVIEW_ACTION_TARGET[req[v].action])
          /\ NeedsReason(req[v].action) => req[v].reason # NoReason
          /\ req[v].seen = status
      BY <1>4 DEF DecideCommit, StatusUnmoved, RequestsAreLegal
    <2>2. req[v].reason \in MaybeReason
      BY DEF TypeOK, Request
    <2>3. /\ status' = REVIEW_ACTION_TARGET[req[v].action]
          /\ decisionReason' = req[v].reason
          /\ status' \in {"approved", "rejected"} => decidedBy' = v
          /\ audit' = Append(audit, [actor |-> v, from |-> status, to |-> status',
                                     reason |-> req[v].reason])
      BY <1>4, <2>1 DEF DecideCommit
    <2>4. /\ status \in {"submitted", "under_review"}
          /\ status' \in RegistrationStatus \cap ReviewedStatus
          /\ status' \in {"changes_requested", "rejected"} => NeedsReason(req[v].action)
      BY <2>1, <2>3, ReviewsAreLegal
    <2> QED
      BY <2>1, <2>2, <2>3, <2>4 DEF Reviewed
  <1>5. ASSUME NEW r \in Requests,
               \/ \E values \in Answers : SaveRead(r, values)
               \/ \E action \in CAMP_ACTIONS : ActRead(r, action)
               \/ CarryRead(r)
               \/ \E action \in REVIEW_ACTIONS, reason \in MaybeReason :
                     DecideRead(r, action, reason)
               \/ Notify(r) \/ Abandon(r)
        PROVE  RowUnmoved
    BY <1>5 DEF SaveRead, ActRead, CarryRead, DecideRead, Notify, Abandon, RowUnmoved,
                decisionVars
  <1>6. CASE UNCHANGED vars
    BY <1>6 DEF RowUnmoved, vars
  <1> QED
    BY <1>1, <1>2, <1>3, <1>4, <1>5, <1>6 DEF Next, CampStep, ReviewerStep

\* Appending a decision keeps the ones before it where they were.
LEMMA AuditGrowth ==
  ASSUME NEW s \in Seq(Decision), NEW d \in Decision
  PROVE  /\ Append(s, d) \in Seq(Decision)
         /\ Len(Append(s, d)) = Len(s) + 1
         /\ Append(s, d) # <<>>
         /\ \A i \in 1..Len(s) : Append(s, d)[i] = s[i]
         /\ Append(s, d)[Len(s) + 1] = d
  OBVIOUS

\* Each of the four keeps row and trail in agreement.
LEMMA RowInvStep ==
  ASSUME Inv, [Next]_vars
  PROVE  DecisionIsAudited' /\ RefusalHasReason' /\ RejectionIsLast' /\ TrailIsAHistory'
  <1> USE StatusFacts DEF Inv
  <1>0. /\ audit \in Seq(Decision) /\ Len(audit) \in Nat
        /\ status \in RegistrationStatus \cup {NoRow}
    BY DEF TypeOK
  <1>1. CASE RowUnmoved
    BY <1>1 DEF RowUnmoved, DecisionIsAudited, RefusalHasReason, RejectionIsLast, TrailIsAHistory
  <1>2. CASE DraftStarted
    <2>1. RejectionIsLast'
      BY <1>2 DEF DraftStarted, RejectionIsLast
    <2>2. TrailIsAHistory'
      BY <1>2 DEF DraftStarted, TrailIsAHistory
    <2>3. DecisionIsAudited' /\ RefusalHasReason'
      BY <1>2 DEF DraftStarted, DecisionIsAudited, RefusalHasReason
    <2> QED
      BY <2>1, <2>2, <2>3
  <1>3. CASE CampMoved
    <2>1. RejectionIsLast'
      BY <1>3 DEF CampMoved, RejectionIsLast
    <2>2. TrailIsAHistory'
      BY <1>3 DEF CampMoved, TrailIsAHistory
    <2>3. DecisionIsAudited' /\ RefusalHasReason'
      BY <1>3 DEF CampMoved, DecisionIsAudited, RefusalHasReason
    <2> QED
      BY <2>1, <2>2, <2>3
  <1>4. ASSUME NEW v \in Reviewers, Reviewed(v)
        PROVE  DecisionIsAudited' /\ RefusalHasReason' /\ RejectionIsLast' /\ TrailIsAHistory'
    <2> DEFINE n == Len(audit)
    <2>1. PICK reason \in MaybeReason :
            /\ status \in {"submitted", "under_review"}
            /\ CanReview(status, status')
            /\ status' \in RegistrationStatus \cap ReviewedStatus
            /\ status' \in {"changes_requested", "rejected"} => reason # NoReason
            /\ decisionReason' = reason
            /\ status' \in {"approved", "rejected"} => decidedBy' = v
            /\ audit' = Append(audit, [actor |-> v, from |-> status, to |-> status',
                                       reason |-> reason])
      BY <1>4 DEF Reviewed
    <2> DEFINE d == [actor |-> v, from |-> status, to |-> status', reason |-> reason]
    <2>2. status \in RegistrationStatus
      BY <2>1 DEF RegistrationStatus
    <2>3. d \in Decision
      BY <2>1, <2>2 DEF Decision
    <2>4. /\ Len(audit') = n + 1 /\ audit' # <<>> /\ audit'[n + 1] = d
          /\ \A i \in 1..n : audit'[i] = audit[i]
      BY <1>0, <2>1, <2>3, AuditGrowth
    <2>5. d.to = status' /\ d.reason = decisionReason' /\ d.actor = v /\ d.from = status
      BY <2>1
    <2>6. DecisionIsAudited' /\ RefusalHasReason' /\ RejectionIsLast'
      <3>1. audit'[Len(audit')] = d
        BY <2>4
      <3> QED
        BY <2>1, <2>4, <2>5, <3>1 DEF DecisionIsAudited, RefusalHasReason, RejectionIsLast
    <2>7. TrailIsAHistory'
      <3> SUFFICES ASSUME NEW i \in 1..(n + 1)
                   PROVE  /\ CanReview(audit'[i].from, audit'[i].to)
                          /\ i > 1 => /\ audit'[i-1].to # "rejected"
                                      /\ audit'[i].from \in {"submitted", audit'[i-1].to}
                          /\ i = 1 => audit'[i].from = "submitted"
        BY <2>4 DEF TrailIsAHistory
      <3>1. CASE i \in 1..n
        <4>1. audit'[i] = audit[i] /\ (i > 1 => audit'[i-1] = audit[i-1])
          BY <1>0, <2>4, <3>1
        <4> QED
          BY <3>1, <4>1 DEF TrailIsAHistory
      <3>2. CASE i = n + 1
        <4>1. audit'[i] = d
          BY <2>4, <3>2
        <4>2. CASE n = 0
          <5>1. audit = <<>>
            BY <1>0, <4>2
          <5>2. status \notin ReviewedStatus
            BY <5>1 DEF DecisionIsAudited
          <5>3. status = "submitted"
            BY <2>1, <5>2
          <5> QED
            BY <2>1, <2>5, <3>2, <4>1, <4>2, <5>3
        <4>3. CASE n > 0
          <5>1. audit # <<>> /\ audit'[n] = audit[n]
            BY <1>0, <2>4, <4>3
          <5>2. audit[n].to # "rejected"
            BY <2>1, <5>1 DEF RejectionIsLast
          <5>3. status = "under_review" => audit[n].to = status
            BY <5>1 DEF DecisionIsAudited
          <5> QED
            BY <1>0, <2>1, <2>5, <3>2, <4>1, <4>3, <5>1, <5>2, <5>3
        <4> QED
          BY <1>0, <4>2, <4>3
      <3> QED
        BY <1>0, <3>1, <3>2
    <2> QED
      BY <2>6, <2>7
  <1> QED
    BY <1>1, <1>2, <1>3, <1>4, RowSteps

\* The trail only grows, so what was committed stays in it.
LEMMA NotificationStep ==
  ASSUME Inv, [Next]_vars
  PROVE  NotifiersCommitted' /\ NotificationsAreCommitted'
  <1> USE DEF Inv, Requests
  <1>0. /\ audit \in Seq(Decision) /\ Len(audit) \in Nat
        /\ req \in [Requests -> Request]
    BY DEF TypeOK
  <1>1. CASE UNCHANGED audit
    <2>2. ASSUME NEW r \in Requests, req' = [req EXCEPT ![r] = Idle] PROVE NotifiersCommitted'
      BY <1>0, <1>1, <2>2 DEF NotifiersCommitted, Idle
    <2>3. ASSUME NEW v \in Reviewers, Notify(v) PROVE NotificationsAreCommitted'
      BY <1>1, <2>3 DEF NotifiersCommitted, NotificationsAreCommitted, Records, Notify, ReadyToNotify
    <2>4. ASSUME NEW r \in Requests, NEW request,
                 request.op # "notify", req' = [req EXCEPT ![r] = request]
          PROVE  NotifiersCommitted'
      BY <1>0, <1>1, <2>4 DEF NotifiersCommitted
    <2>5. ASSUME UNCHANGED notifications PROVE NotificationsAreCommitted'
      BY <1>1, <2>5 DEF NotificationsAreCommitted
    <2>6. ASSUME NEW r \in CampRequests, CampStep(r)
          PROVE  NotifiersCommitted' /\ NotificationsAreCommitted'
      <3>1. UNCHANGED notifications
        BY <2>6 DEF CampStep, SaveRead, SaveCommit, ActRead, ActCommit, CarryRead, CarryCommit,
                    decisionVars
      <3>2. ASSUME NEW values \in Answers, SaveRead(r, values) PROVE NotifiersCommitted'
        BY <2>4, <3>2 DEF SaveRead, Begin, Idle
      <3>3. ASSUME NEW action \in CAMP_ACTIONS, ActRead(r, action) PROVE NotifiersCommitted'
        BY <2>4, <3>3 DEF ActRead, Begin, Idle
      <3>4. ASSUME CarryRead(r) PROVE NotifiersCommitted'
        BY <2>4, <3>4 DEF CarryRead, Begin, Idle
      <3>5. ASSUME SaveCommit(r) \/ ActCommit(r) \/ CarryCommit(r) PROVE NotifiersCommitted'
        BY <2>2, <3>5 DEF SaveCommit, ActCommit, CarryCommit, End
      <3> QED
        BY <2>5, <2>6, <3>1, <3>2, <3>3, <3>4, <3>5 DEF CampStep
    <2>7. ASSUME NEW v \in Reviewers, NEW action \in REVIEW_ACTIONS,
                 NEW reason \in MaybeReason, DecideRead(v, action, reason)
          PROVE  NotifiersCommitted' /\ NotificationsAreCommitted'
      BY <2>4, <2>5, <2>7 DEF DecideRead, Begin, Idle, decisionVars
    <2>8. ASSUME NEW v \in Reviewers, DecideCommit(v) PROVE FALSE
      <3>1. Len(audit') = Len(audit) + 1
        BY <1>0, <2>8 DEF DecideCommit
      <3> QED
        BY <1>0, <1>1, <3>1
    <2>9. ASSUME NEW r \in Requests, Abandon(r)
          PROVE  NotifiersCommitted' /\ NotificationsAreCommitted'
      BY <2>2, <2>5, <2>9 DEF Abandon, End, decisionVars
    <2>10. ASSUME UNCHANGED vars PROVE NotifiersCommitted' /\ NotificationsAreCommitted'
      BY <2>10 DEF vars, NotifiersCommitted, NotificationsAreCommitted
    <2>11. ASSUME NEW v \in Reviewers, Notify(v) PROVE NotifiersCommitted'
      BY <2>2, <2>11 DEF Notify, End
    <2> QED
      BY <2>3, <2>6, <2>7, <2>8, <2>9, <2>10, <2>11 DEF Next, ReviewerStep
  <1>2. ASSUME NEW v \in Reviewers, DecideCommit(v)
        PROVE  NotifiersCommitted' /\ NotificationsAreCommitted'
    <2> DEFINE d == [actor |-> v, from |-> req[v].seen,
                     to |-> REVIEW_ACTION_TARGET[req[v].action], reason |-> req[v].reason]
    <2>1. d \in Decision
      <3>1. req[v].seen \in RegistrationStatus /\ req[v].reason \in MaybeReason
        BY <1>0, <1>2 DEF RequestsAreLegal, DecideCommit, Request
      <3>2. REVIEW_ACTION_TARGET[req[v].action] \in ReviewedStatus
        BY <1>2 DEF RequestsAreLegal, DecideCommit, ReviewedStatus
      <3> QED
        BY <3>1, <3>2 DEF Decision
    <2>2. audit' = Append(audit, d)
      BY <1>2 DEF DecideCommit
    <2>3. /\ Len(audit') = Len(audit) + 1 /\ audit'[Len(audit) + 1] = d
          /\ \A i \in 1..Len(audit) : audit'[i] = audit[i]
      BY <1>0, <2>1, <2>2, AuditGrowth
    <2>4. \A to, reason : Records(audit, to, reason) => Records(audit', to, reason)
      BY <1>0, <2>3 DEF Records
    <2>5. Records(audit', d.to, d.reason)
      <3>1. Len(audit) + 1 \in 1..Len(audit')
        BY <1>0, <2>3
      <3> QED
        BY <2>3, <3>1 DEF Records
    <2>6. NotificationsAreCommitted'
      BY <1>2, <2>4 DEF DecideCommit, NotificationsAreCommitted, Records
    <2>7. \A w \in Reviewers \ {v} : req'[w] = req[w]
      BY <1>0, <1>2 DEF DecideCommit, End
    <2>8. req'[v].op = "notify" => req'[v].action = req[v].action /\ req'[v].reason = req[v].reason
      BY <1>0, <1>2 DEF DecideCommit, End, Idle, Request
    <2>9. \A w \in Reviewers \ {v} : req'[w].op = "notify" =>
            Records(audit', REVIEW_ACTION_TARGET[req'[w].action], req'[w].reason)
      BY <2>4, <2>7 DEF NotifiersCommitted
    <2>10. req'[v].op = "notify" =>
             Records(audit', REVIEW_ACTION_TARGET[req'[v].action], req'[v].reason)
      BY <2>5, <2>8
    <2>11. NotifiersCommitted'
      BY <2>9, <2>10 DEF NotifiersCommitted
    <2> QED
      BY <2>6, <2>11
  <1>3. ASSUME ~\E v \in Reviewers : DecideCommit(v) PROVE UNCHANGED audit
    BY <1>3 DEF Next, CampStep, ReviewerStep, SaveRead, SaveCommit, ActRead, ActCommit,
                CarryRead, CarryCommit, DecideRead, Notify, Abandon, decisionVars, vars
  <1> QED
    BY <1>1, <1>2, <1>3

---------------------------------------------------------------------------
(* The theorems.                                                           *)

\* The invariant holds in every reachable state.
THEOREM Invariance == Spec => []Inv
  <1>1. Inv /\ [Next]_vars => Inv'
    <2> SUFFICES ASSUME Inv, [Next]_vars PROVE Inv'
      OBVIOUS
    <2>1. TypeOK'
      BY TypeStep DEF Inv
    <2>2. RequestsAreLegal'
      BY RequestsStep DEF Inv
    <2> QED
      BY <2>1, <2>2, RowInvStep, NotificationStep DEF Inv
  <1> QED
    BY InitInv, <1>1, PTL DEF Spec

\* The row, its requests and its trail keep their types
\* (registrations columns, the handlers' locals, audit_events).
THEOREM TypeCorrect == Spec => []TypeOK
  <1>1. Inv => TypeOK
    BY DEF Inv
  <1> QED
    BY <1>1, Invariance, PTL

\* However many reviewers and camp requests overlap, the row's status, reason
\* and reviewer are those of its last audit row (decideRegistration's
\* transaction, applyCampAction's compare-and-set).
THEOREM DecisionsAudited == Spec => []DecisionIsAudited
  <1>1. Inv => DecisionIsAudited
    BY DEF Inv
  <1> QED
    BY <1>1, Invariance, PTL

\* The audit trail is a legal history and nothing follows a rejection.
THEOREM TrailLegal == Spec => []TrailIsAHistory
  <1>1. Inv => TrailIsAHistory
    BY DEF Inv
  <1> QED
    BY <1>1, Invariance, PTL

\* A camp sent back or refused can always read why.
THEOREM RefusalsExplained == Spec => []RefusalHasReason
  <1>1. Inv => RefusalHasReason
    BY DEF Inv
  <1> QED
    BY <1>1, Invariance, PTL

\* The camp is notified only of committed decisions.
THEOREM NotificationsCommitted == Spec => []NotificationsAreCommitted
  <1>1. Inv => NotificationsAreCommitted
    BY DEF Inv
  <1> QED
    BY <1>1, Invariance, PTL

---------------------------------------------------------------------------
(* Carry-forward happens once.                                             *)

\* A step in which a carrying request ends and the answers change is that request's
\* own commit, whose compare-and-set found carried_forward_at null and which sets it;
\* no step clears it.
LEMMA CarryStep ==
  ASSUME TypeOK, [Next]_vars
  PROVE  /\ carriedForward => carriedForward'
         /\ \A r \in CampRequests :
              req[r].op = "carry" /\ req'[r] # req[r] /\ answers' # answers
                => ~carriedForward /\ carriedForward'
  <1>1. ASSUME NEW r \in CampRequests, req[r].op = "carry", req'[r] # req[r],
               NEW q \in CampRequests, SaveCommit(q)
        PROVE  FALSE
    <2>1. q # r
      BY <1>1 DEF SaveCommit
    <2>2. req'[r] = req[r]
      BY <1>1, <2>1 DEF SaveCommit, End, TypeOK, Requests
    <2> QED
      BY <1>1, <2>2
  <1>2. ASSUME NEW q \in CampRequests, CarryCommit(q)
        PROVE  ~carriedForward /\ carriedForward'
    BY <1>2 DEF CarryCommit, CarryWritable
  <1>3. \/ answers' = answers /\ carriedForward' = carriedForward
        \/ \E q \in CampRequests : SaveCommit(q) \/ CarryCommit(q)
    BY DEF Next, CampStep, ReviewerStep, SaveRead, ActRead, ActCommit, CarryRead,
           DecideRead, DecideCommit, Notify, Abandon, vars
  <1>4. ASSUME NEW q \in CampRequests, SaveCommit(q)
        PROVE  carriedForward' = carriedForward
    BY <1>4 DEF SaveCommit
  <1> QED
    BY <1>1, <1>2, <1>3, <1>4

\* However many requests ask for it, and whatever happens between them, last year's
\* registration fills the form at most once (carryForwardRegistration).
THEOREM CarriedAtMostOnce == Spec => CarriedOnce
  <1>1. Inv /\ [Next]_vars =>
          [/\ carriedForward => carriedForward'
           /\ \A r \in CampRequests :
                req[r].op = "carry" /\ req'[r] # req[r] /\ answers' # answers
                  => ~carriedForward /\ carriedForward'
          ]_vars
    BY CarryStep DEF Inv
  <1> QED
    BY <1>1, Invariance, PTL DEF Spec, CarriedOnce

---------------------------------------------------------------------------
(* The answers under review.                                               *)

\* Whoever is about to write answers read a status in which they may be edited.
WritersReadEditable ==
  \A r \in Requests : req[r].op \in {"save", "carry"} =>
    req[r].seen \in EDITABLE_STATUSES \cup {NoRow}

\* A request begins to write answers only in SaveRead and CarryRead, which look
\* at the status, and what it has read does not change.
LEMMA WritersStep ==
  ASSUME TypeOK, WritersReadEditable, [Next]_vars
  PROVE  WritersReadEditable'
  <1> USE DEF Requests
  <1>0. req \in [Requests -> Request]
    BY DEF TypeOK
  <1>1. ASSUME NEW r \in Requests, req' = [req EXCEPT ![r] = Idle]
        PROVE  WritersReadEditable'
    BY <1>0, <1>1 DEF WritersReadEditable, Idle
  <1>2. ASSUME NEW r \in CampRequests, NEW values \in Answers, SaveRead(r, values)
        PROVE  WritersReadEditable'
    BY <1>0, <1>2 DEF WritersReadEditable, SaveRead, Editable, Begin, Idle
  <1>3. ASSUME NEW r \in CampRequests, CarryRead(r)
        PROVE  WritersReadEditable'
    BY <1>0, <1>3 DEF WritersReadEditable, CarryRead, Editable, Begin, Idle
  <1>4. ASSUME NEW r \in CampRequests, NEW action \in CAMP_ACTIONS, ActRead(r, action)
        PROVE  WritersReadEditable'
    BY <1>0, <1>4 DEF WritersReadEditable, ActRead, Begin, Idle
  <1>5. ASSUME NEW v \in Reviewers, NEW action \in REVIEW_ACTIONS, NEW reason \in MaybeReason,
               DecideRead(v, action, reason)
        PROVE  WritersReadEditable'
    BY <1>0, <1>5 DEF WritersReadEditable, DecideRead, Begin, Idle
  <1>6. ASSUME NEW v \in Reviewers, DecideCommit(v)
        PROVE  WritersReadEditable'
    <2>1. CASE End(v)
      BY <1>1, <2>1 DEF End
    <2>2. CASE req' = [req EXCEPT ![v].op = "notify"]
      BY <1>0, <2>2 DEF WritersReadEditable, Request
    <2> QED
      BY <1>6, <2>1, <2>2 DEF DecideCommit
  <1>7. ASSUME NEW r \in Requests,
               \/ SaveCommit(r) \/ ActCommit(r) \/ CarryCommit(r)
               \/ Notify(r) \/ Abandon(r)
        PROVE  WritersReadEditable'
    BY <1>1, <1>7 DEF SaveCommit, ActCommit, CarryCommit, Notify, Abandon, End
  <1>8. CASE UNCHANGED vars
    BY <1>8 DEF WritersReadEditable, vars
  <1> QED
    BY <1>2, <1>3, <1>4, <1>5, <1>6, <1>7, <1>8 DEF Next, CampStep, ReviewerStep

\* A carry-forward compares the status with the one it read, so what rewrites
\* locked answers is an autosave, which does not.
LEMMA AnswersStep ==
  ASSUME TypeOK, WritersReadEditable, [Next]_vars,
         status \notin EDITABLE_STATUSES \cup {NoRow}, answers' # answers
  PROVE  \E r \in CampRequests : /\ req[r].op = "save" /\ req'[r] = Idle
                                 /\ req[r].seen \in EDITABLE_STATUSES
  <1>1. ASSUME NEW q \in CampRequests, SaveCommit(q)
        PROVE  /\ req[q].op = "save" /\ req'[q] = Idle
               /\ req[q].seen \in EDITABLE_STATUSES
    BY <1>1 DEF SaveCommit, WritersReadEditable, End, TypeOK, Requests
  <1>2. ASSUME NEW q \in CampRequests, CarryCommit(q)
        PROVE  FALSE
    BY <1>2 DEF CarryCommit, CarryWritable, WritersReadEditable, Requests
  <1>3. answers' = answers \/ \E q \in CampRequests : SaveCommit(q) \/ CarryCommit(q)
    BY DEF Next, CampStep, ReviewerStep, SaveRead, ActRead, ActCommit, CarryRead,
           DecideRead, DecideCommit, Notify, Abandon, vars
  <1> QED
    BY <1>1, <1>2, <1>3

\* Outside the editable statuses the only thing that rewrites answers is an
\* autosave that had read an editable one (saveRegistrationDraft).
THEOREM AnswersAreLocked == Spec => AnswersLockedOrStale
  <1>1. Init => WritersReadEditable
    BY DEF Init, WritersReadEditable, Idle
  <1>2. Inv /\ WritersReadEditable /\ [Next]_vars => WritersReadEditable'
    BY WritersStep DEF Inv
  <1>3. Inv /\ WritersReadEditable /\ [Next]_vars =>
          [status \notin EDITABLE_STATUSES \cup {NoRow} /\ answers' # answers =>
             \E r \in CampRequests : /\ req[r].op = "save" /\ req'[r] = Idle
                                     /\ req[r].seen \in EDITABLE_STATUSES]_vars
    BY AnswersStep DEF Inv
  <1> QED
    BY <1>1, <1>2, <1>3, Invariance, PTL DEF Spec, AnswersLockedOrStale

---------------------------------------------------------------------------
(* Registration implements RegistrationLifecycle.                          *)

\* A camp with no registration is an initial state of the lifecycle.
LEMMA InitRefines == Init => Lifecycle!Init
  BY DEF Init, Lifecycle!Init, NoRow, Lifecycle!NoRow

\* Each of the four is a step of the lifecycle, or a stutter.
LEMMA StepRefines == Inv /\ [Next]_vars => [Lifecycle!Next]_Lifecycle!lifecycle
  <1> SUFFICES ASSUME Inv, [Next]_vars PROVE [Lifecycle!Next]_Lifecycle!lifecycle
    OBVIOUS
  <1>1. CASE RowUnmoved
    BY <1>1 DEF RowUnmoved, Lifecycle!lifecycle
  <1>2. CASE DraftStarted
    BY <1>2 DEF DraftStarted, Lifecycle!Next, Lifecycle!Start, NoRow, Lifecycle!NoRow
  <1>3. CASE CampMoved
    <2>1. PICK action \in CAMP_ACTIONS : CanTransition(status, CampTarget(action))
                                        /\ status' = CampTarget(action)
      BY <1>3 DEF CampMoved
    <2>2. Lifecycle!CampMoves(action)
      BY <1>3, <2>1, StatusFacts DEF CampMoved, Lifecycle!CampMoves, Lifecycle!CampTarget, CampTarget,
         Lifecycle!CanTransition, CanTransition, NoRow, Lifecycle!NoRow,
         REGISTRATION_TRANSITIONS, Lifecycle!REGISTRATION_TRANSITIONS,
         RegistrationStatus, Lifecycle!RegistrationStatus
    <2> QED
      BY <2>1, <2>2 DEF Lifecycle!Next, Lifecycle!CAMP_ACTIONS, CAMP_ACTIONS
  <1>4. ASSUME NEW v \in Reviewers, Reviewed(v) PROVE Lifecycle!Next
    <2>1. PICK action \in REVIEW_ACTIONS, reason \in MaybeReason :
            /\ status \in {"submitted", "under_review"}
            /\ CanReview(status, REVIEW_ACTION_TARGET[action])
            /\ NeedsReason(action) => reason # NoReason
            /\ status' = REVIEW_ACTION_TARGET[action]
            /\ decisionReason' = reason
            /\ audit' = Append(audit, [actor |-> v, from |-> status, to |-> status',
                                       reason |-> reason])
      BY <1>4 DEF Reviewed
    <2>2. Lifecycle!ReviewerMoves(v, action, reason)
      BY <2>1 DEF Lifecycle!ReviewerMoves, NeedsReason, NoRow, Lifecycle!NoRow,
         CanReview, Lifecycle!CanReview, CanTransition, Lifecycle!CanTransition,
         REGISTRATION_TRANSITIONS, Lifecycle!REGISTRATION_TRANSITIONS,
         RegistrationStatus, Lifecycle!RegistrationStatus,
         REVIEW_ACTION_TARGET, Lifecycle!REVIEW_ACTION_TARGET,
         REVIEW_ACTIONS, Lifecycle!REVIEW_ACTIONS
    <2> QED
      BY <2>2 DEF Lifecycle!Next, Lifecycle!REVIEW_ACTIONS, REVIEW_ACTIONS, MaybeReason
  <1> QED
    BY <1>1, <1>2, <1>3, <1>4, RowSteps DEF Inv

\* Reads, races, lost requests and all, the registration behaves as the one
\* with no requests in RegistrationLifecycle: every status change is a legal
\* camp move or a legal, recorded review.
THEOREM Refinement == Spec => ImplementsLifecycle
  <1> QED
    BY InitRefines, StepRefines, Invariance, PTL DEF Spec, ImplementsLifecycle, Lifecycle!Spec
===============================================================================
