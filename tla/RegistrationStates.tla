-------------------------- MODULE RegistrationStates --------------------------
(***************************************************************************)
(* The registration state machine: the pure tables and predicates every    *)
(* writer of registrations.status consults before it writes.               *)
(*                                                                         *)
(*   packages/core/src/registration-state.ts   transitions, camp actions   *)
(*   apps/org/lib/org-logic.ts                 reviewer actions            *)
(*   apps/web/lib/registration-store.ts        editable statuses           *)
(***************************************************************************)

RegistrationStatus == {"draft", "submitted", "under_review", "changes_requested",
                       "approved", "rejected", "withdrawn"}

\* There is no registrations row for this camp and edition yet.
NoRow == "none"

\* REGISTRATION_TRANSITIONS: the legal next-states of each status.
REGISTRATION_TRANSITIONS ==
  [s \in RegistrationStatus |->
     CASE s = "draft"             -> {"submitted", "withdrawn"}
       [] s = "submitted"         -> {"under_review", "changes_requested", "withdrawn"}
       [] s = "under_review"      -> {"approved", "rejected", "changes_requested"}
       [] s = "changes_requested" -> {"submitted", "withdrawn"}
       [] s = "approved"          -> {"withdrawn"}
       [] s = "rejected"          -> {}
       [] s = "withdrawn"         -> {"draft"}]

CanTransition(from, to) == to \in REGISTRATION_TRANSITIONS[from]

CAMP_ACTIONS == {"submit", "resubmit", "withdraw", "reopen"}

\* The target of a camp action; resolveCampAction asserts it with CanTransition.
CampTarget(action) ==
  CASE action = "withdraw" -> "withdrawn"
    [] action = "reopen"   -> "draft"
    [] OTHER               -> "submitted"

REVIEW_ACTIONS == {"start_review", "approve", "request_changes", "reject"}

REVIEW_ACTION_TARGET ==
  [a \in REVIEW_ACTIONS |->
     CASE a = "start_review"    -> "under_review"
       [] a = "approve"         -> "approved"
       [] a = "request_changes" -> "changes_requested"
       [] a = "reject"          -> "rejected"]

\* resolveReviewActionPath: a direct transition, or one routed through
\* under_review, so a reviewer approves a submitted registration in one step.
CanReview(from, to) ==
  /\ from # to
  /\ \/ CanTransition(from, to)
     \/ /\ to # "under_review"
        /\ CanTransition(from, "under_review")
        /\ CanTransition("under_review", to)

\* The statuses in which the camp may edit its answers.
EDITABLE_STATUSES == {"draft", "changes_requested"}

\* The statuses only a reviewer's action produces.
ReviewedStatus == {REVIEW_ACTION_TARGET[a] : a \in REVIEW_ACTIONS}
===============================================================================
