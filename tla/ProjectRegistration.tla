-------------------------- MODULE ProjectRegistration --------------------------
(***************************************************************************)
(* The registration of a mutant vehicle or an artwork, in the edition it   *)
(* was created for (apps/web/lib/project-registration-store.ts): one form, *)
(* saved or filed in one transaction that writes the registrations row and *)
(* the answer record together.  An edit reads the status first and writes  *)
(* it back later, keyed on (group, edition) alone.                         *)
(*                                                                         *)
(* The actions of a camp's registration ask for the camp's slug and its    *)
(* lead, not for its kind (apps/web/app/(app)/camps/[slug]/registration/   *)
(* actions.ts): only the page hides the link to them.  So the wizard's     *)
(* autosave and the camp's moves work on a project's row too, and know     *)
(* nothing of its answer record.  Edits, autosaves and moves are requests  *)
(* with a Read and a Commit.                                               *)
(*                                                                         *)
(* Reviews are RegistrationLifecycle's ReviewerMoves: Registration proves  *)
(* that the console's compare-and-set makes each review one step.          *)
(***************************************************************************)
EXTENDS RegistrationLifecycle

CONSTANTS
  Edits,          \* requests of the project's leads and admins
  Answers,        \* what the project's form can say
  WizardAnswers,  \* what the camp wizard can say
  SixAnswered,    \* those that complete its six sections
  NoAnswers,      \* nothing recorded yet
  MaxReviews      \* bound on the reviews explored

ASSUME ProjectAssumption ==
  /\ SixAnswered \subseteq WizardAnswers
  /\ NoAnswers \notin Answers

VARIABLES
  columns,      \* the columns of the registrations row that the answers mirror to
  submittable,  \* isSubmittable(registrations.completed_sections)
  answers,      \* questionnaire_responses.responses
  completedAt,  \* questionnaire_responses.completed_at IS NOT NULL
  edit          \* each request in flight

vars == <<status, decisionReason, trail, columns, submittable, answers, completedAt, edit>>
row == <<columns, submittable, answers, completedAt>>

\* What a request holds between its read and its write: the status it read, the
\* status and the answers it will write.
Edit == [op : {"idle", "edit", "save", "act"}, seen : RegistrationStatus,
         next : RegistrationStatus, submit : BOOLEAN,
         values : Answers \cup WizardAnswers \cup {NoAnswers}]
NoEdit == [op |-> "idle", seen |-> "draft", next |-> "draft", submit |-> FALSE,
           values |-> NoAnswers]

Closed(e) == edit[e].op = "idle"
Opens(e, request) ==
  /\ Closed(e)
  /\ edit' = [edit EXCEPT ![e] = request]
  /\ UNCHANGED <<status, decisionReason, trail, row>>
Closes(e) == edit' = [edit EXCEPT ![e] = NoEdit]

ProjectInit ==
  /\ Init
  /\ columns = NoAnswers
  /\ submittable = FALSE
  /\ answers = NoAnswers
  /\ completedAt = FALSE
  /\ edit = [e \in Edits |-> NoEdit]

\* createProjectRegistration: group, row and answers in one transaction, saved
\* as a draft or filed at once.
CreateProject(a, submit) ==
  /\ status = NoRow
  /\ status' = IF submit THEN "submitted" ELSE "draft"
  /\ columns' = a
  /\ answers' = a
  /\ completedAt' = submit
  /\ UNCHANGED <<decisionReason, trail, submittable, edit>>

---------------------------------------------------------------------------
(* updateProjectRegistration.                                              *)

\* Before the transaction: the status must be editable; a submit resolves to its
\* target through the state machine.
MutEditAnyStatus == status # NoRow
ProjectEditable == status \in EDITABLE_STATUSES

EditRead(e, a, submit) ==
  /\ ProjectEditable
  /\ Opens(e, [op |-> "edit", submit |-> submit, values |-> a, seen |-> status,
               next |-> IF submit THEN CampTarget("submit") ELSE status])

MutEditLeavesCompletedAt(e) ==
  /\ edit[e].op = "edit"
  /\ status' = edit[e].next
  /\ columns' = edit[e].values
  /\ answers' = edit[e].values
  /\ Closes(e)
  /\ UNCHANGED <<decisionReason, trail, submittable, completedAt>>

\* The transaction: status, columns and answer record of this project and
\* edition, whatever the row holds by now.
EditCommit(e) ==
  /\ edit[e].op = "edit"
  /\ status' = edit[e].next
  /\ columns' = edit[e].values
  /\ answers' = edit[e].values
  /\ completedAt' = edit[e].submit
  /\ Closes(e)
  /\ UNCHANGED <<decisionReason, trail, submittable>>

---------------------------------------------------------------------------
(* saveRegistrationDraft and applyCampAction, on a project's row.          *)

WizardRead(e, values) ==
  /\ ProjectEditable
  /\ Opens(e, [NoEdit EXCEPT !.op = "save", !.seen = status, !.next = status,
                             !.values = values])

\* The columns and the completed sections are the wizard's; the answer record
\* is not touched.
WizardCommit(e) ==
  /\ edit[e].op = "save"
  /\ columns' = edit[e].values
  /\ submittable' = (edit[e].values \in SixAnswered)
  /\ Closes(e)
  /\ UNCHANGED <<status, decisionReason, trail, answers, completedAt>>

ActRead(e, action) ==
  /\ status # NoRow
  /\ CanTransition(status, CampTarget(action))
  /\ CampTarget(action) = "submitted" => submittable
  /\ Opens(e, [NoEdit EXCEPT !.op = "act", !.seen = status, !.next = CampTarget(action)])

\* The compare-and-set on the status that was read.
ActCommit(e) ==
  /\ edit[e].op = "act"
  /\ status = edit[e].seen
  /\ status' = edit[e].next
  /\ decisionReason' = NoReason
  /\ Closes(e)
  /\ UNCHANGED <<trail, row>>

---------------------------------------------------------------------------
\* The request dies before its write, or its write matches no row.
EditDies(e) ==
  /\ ~Closed(e)
  /\ Closes(e)
  /\ UNCHANGED <<status, decisionReason, trail, row>>

Review(v, action, reason) ==
  /\ Len(trail) < MaxReviews
  /\ ReviewerMoves(v, action, reason)
  /\ UNCHANGED <<row, edit>>

ProjectNext ==
  \/ \E a \in Answers, submit \in BOOLEAN : CreateProject(a, submit)
  \/ \E e \in Edits, a \in Answers, submit \in BOOLEAN : EditRead(e, a, submit)
  \/ \E e \in Edits, values \in WizardAnswers : WizardRead(e, values)
  \/ \E e \in Edits, action \in CAMP_ACTIONS : ActRead(e, action)
  \/ \E e \in Edits : EditCommit(e) \/ WizardCommit(e) \/ ActCommit(e) \/ EditDies(e)
  \/ \E v \in Reviewers, action \in REVIEW_ACTIONS, reason \in Reasons \cup {NoReason} :
        Review(v, action, reason)

ProjectSpec == ProjectInit /\ [][ProjectNext]_vars

---------------------------------------------------------------------------
(* Properties.                                                             *)

\* The row and every request in flight keep their types, and from its first
\* commit a project has its answer record (createProjectRegistration writes both
\* in one transaction).
TypeOK ==
  /\ status \in RegistrationStatus \cup {NoRow}
  /\ decisionReason \in Reasons \cup {NoReason}
  /\ columns \in Answers \cup WizardAnswers \cup {NoAnswers}
  /\ submittable \in BOOLEAN
  /\ answers \in IF status = NoRow THEN {NoAnswers} ELSE Answers
  /\ completedAt \in BOOLEAN
  /\ edit \in [Edits -> Edit]

\* What AfrikaBurn sees as filed is recorded as completed, and a draft is not.
FiledIsCompleted ==
  /\ status \in {"submitted", "under_review", "approved", "rejected"} => completedAt
  /\ status = "draft" => ~completedAt

\* The columns AfrikaBurn reads mirror the answer record.
Mirrored == columns = answers

\* Request e is over.
Over(e) == edit[e].op # "idle" /\ edit'[e].op = "idle"

\* Row and answer record part only by the camp's wizard: its submission or reopening
\* moves the status without the record, its autosave rewrites the columns.  Neither
\* reviews and withdrawals nor saves and filings of the project's form part them,
\* whatever they overlap with, and such a save brings them together again
\* (updateProjectRegistration writes both in one transaction).
OnlyTheWizardDivides ==
  [][/\ FiledIsCompleted /\ ~FiledIsCompleted' =>
          \E e \in Edits : Over(e) /\ edit[e].op = "act" /\ edit[e].next \in {"draft", "submitted"}
     /\ Mirrored /\ ~Mirrored' => \E e \in Edits : Over(e) /\ edit[e].op = "save"
     /\ \A e \in Edits :
          edit[e].op = "edit" /\ Over(e) /\ <<status, row>>' # <<status, row>>
            => FiledIsCompleted' /\ Mirrored'
    ]_vars

\* The end of an edit or autosave whose reading of the status went stale: the only
\* way past the checks of updateProjectRegistration and saveRegistrationDraft,
\* which their UPDATEs do not repeat.
StaleEdit(e) == Over(e) /\ edit[e].op \in {"edit", "save"} /\ edit[e].seen # status

\* Edits respect the state machine (updateProjectRegistration, applyCampAction): a
\* project's status moves only along legal camp and reviewer transitions, and a
\* project under review, approved, rejected or withdrawn keeps its answers and its
\* columns, except by an edit or autosave that overlapped another move.
EditsRespectStateMachine ==
  [][status # NoRow =>
       \/ /\ status' # status =>
              \/ \E action \in CAMP_ACTIONS :
                   CanTransition(status, CampTarget(action)) /\ status' = CampTarget(action)
              \/ CanReview(status, status')
          /\ status \notin EDITABLE_STATUSES => UNCHANGED <<answers, columns>>
       \/ \E e \in Edits : StaleEdit(e)]_vars
===============================================================================
