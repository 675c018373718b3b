------------------------ MODULE RegistrationLifecycle -------------------------
(***************************************************************************)
(* What the registration subsystem promises, with no requests, no reads    *)
(* and no races: one registration, whose status moves only along the state *)
(* machine, and a trail that records every reviewer's action together with *)
(* the status it produced.  Registration.tla implements it.                *)
(***************************************************************************)
EXTENDS RegistrationStates, Sequences, Naturals

CONSTANTS Reviewers, Reasons, NoReason

VARIABLES
  status,          \* registrations.status, or NoRow
  decisionReason,  \* registrations.decision_reason
  trail            \* the reviewers' actions, oldest first

lifecycle == <<status, decisionReason, trail>>

Init ==
  /\ status = NoRow
  /\ decisionReason = NoReason
  /\ trail = <<>>

\* The camp starts its registration: the row begins as a draft.
Start ==
  /\ status = NoRow
  /\ status' = "draft"
  /\ UNCHANGED <<decisionReason, trail>>

\* The camp moves its own registration.  A reason belongs to the state it was
\* given for, so the camp's move clears it.
CampMoves(action) ==
  /\ status # NoRow
  /\ CanTransition(status, CampTarget(action))
  /\ status' = CampTarget(action)
  /\ decisionReason' = NoReason
  /\ UNCHANGED trail

\* A reviewer moves it, and the trail says who, from where, to where and why.
ReviewerMoves(who, action, reason) ==
  LET to == REVIEW_ACTION_TARGET[action] IN
  /\ status # NoRow
  /\ CanReview(status, to)
  /\ action \in {"request_changes", "reject"} => reason # NoReason
  /\ status' = to
  /\ decisionReason' = reason
  /\ trail' = Append(trail, [actor |-> who, from |-> status, to |-> to, reason |-> reason])

Next ==
  \/ Start
  \/ \E action \in CAMP_ACTIONS : CampMoves(action)
  \/ \E who \in Reviewers, action \in REVIEW_ACTIONS, reason \in Reasons \cup {NoReason} :
        ReviewerMoves(who, action, reason)

Spec == Init /\ [][Next]_lifecycle
===============================================================================
