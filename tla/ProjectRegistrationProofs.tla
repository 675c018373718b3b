----------------------- MODULE ProjectRegistrationProofs -----------------------
(***************************************************************************)
(* Theorems about ProjectRegistration, the registration of a mutant        *)
(* vehicle or an artwork, for any number of requests, forms and reviews:   *)
(* its type invariant, that only the camp's wizard parts the row from the  *)
(* answer record, and that only a request that overlapped another move     *)
(* leaves the state machine.                                               *)
(***************************************************************************)
EXTENDS ProjectRegistration, TLAPS

\* What a request in flight still knows: an edit read an editable status, and will
\* leave it or file; an autosave read one too; a move was legal from what it read.
RequestsAreLegal ==
  \A e \in Edits :
    /\ edit[e].op = "edit" =>
         /\ edit[e].seen \in EDITABLE_STATUSES
         /\ edit[e].next = IF edit[e].submit THEN "submitted" ELSE edit[e].seen
         /\ edit[e].values \in Answers
    /\ edit[e].op = "save" =>
         /\ edit[e].seen \in EDITABLE_STATUSES
         /\ edit[e].values \in WizardAnswers
    /\ edit[e].op = "act" =>
         \E action \in CAMP_ACTIONS :
           /\ CanTransition(edit[e].seen, CampTarget(action))
           /\ edit[e].next = CampTarget(action)

ProjectInv == TypeOK /\ RequestsAreLegal

\* The statuses, spelled out.
LEMMA ProjectFacts ==
  /\ EDITABLE_STATUSES = {"draft", "changes_requested"}
  /\ NoRow = "none"
  /\ RegistrationStatus = {"draft", "submitted", "under_review", "changes_requested",
                                   "approved", "rejected", "withdrawn"}
  /\ CampTarget("submit") = "submitted"
  BY DEF EDITABLE_STATUSES, NoRow, RegistrationStatus, CampTarget

\* A camp's move ends in one of three statuses.
LEMMA CampTargets ==
  ASSUME NEW action \in CAMP_ACTIONS
  PROVE  CampTarget(action) \in {"submitted", "withdrawn", "draft"}
  BY DEF CampTarget

\* A review finds a filed project and leaves one that is filed or sent back.
LEMMA ProjectReviews ==
  ASSUME NEW v, NEW action \in REVIEW_ACTIONS, NEW reason,
         ReviewerMoves(v, action, reason),
         status \in RegistrationStatus \cup {NoRow}
  PROVE  /\ status \in {"submitted", "under_review"}
         /\ status' \in {"under_review", "approved", "changes_requested", "rejected"}
         /\ CanReview(status, status')
  BY DEF ReviewerMoves, CanReview, CanTransition, NoRow,
         RegistrationStatus, REGISTRATION_TRANSITIONS,
         REVIEW_ACTIONS, REVIEW_ACTION_TARGET

\* With no row and no request the invariant holds.
LEMMA ProjectStarts == ProjectInit => ProjectInv
  <1> SUFFICES ASSUME ProjectInit PROVE ProjectInv
    OBVIOUS
  <1> USE ProjectFacts DEF ProjectInit, Init
  <1>1. NoEdit \in Edit /\ NoEdit.op = "idle"
    BY DEF NoEdit, Edit
  <1>2. TypeOK
    BY <1>1 DEF TypeOK
  <1>3. RequestsAreLegal
    BY <1>1 DEF RequestsAreLegal
  <1> QED
    BY <1>2, <1>3 DEF ProjectInv

\* A request ends and the others are as they were.
LEMMA ClosingKeeps ==
  ASSUME ProjectInv, NEW e \in Edits, Closes(e)
  PROVE  edit' \in [Edits -> Edit] /\ RequestsAreLegal'
  <1>1. NoEdit \in Edit /\ NoEdit.op = "idle"
    BY ProjectFacts DEF NoEdit, Edit
  <1>2. edit' = [edit EXCEPT ![e] = NoEdit] /\ edit \in [Edits -> Edit]
    BY DEF Closes, ProjectInv, TypeOK
  <1>3. edit' \in [Edits -> Edit]
    BY <1>1, <1>2
  <1>4. edit'[e].op = "idle" /\ \A x \in Edits \ {e} : edit'[x] = edit[x]
    BY <1>1, <1>2
  <1>5. ASSUME NEW x \in Edits, x # e
        PROVE  edit'[x] = edit[x]
    BY <1>4, <1>5
  <1>6. RequestsAreLegal'
    BY <1>4, <1>5 DEF RequestsAreLegal, ProjectInv
  <1> QED
    BY <1>3, <1>6

\* A request opens with what its reading found.
LEMMA OpeningKeeps ==
  ASSUME ProjectInv, NEW e \in Edits, NEW new \in Edit, Opens(e, new),
         new.op = "edit" =>
           /\ new.seen \in EDITABLE_STATUSES
           /\ new.next = IF new.submit THEN "submitted" ELSE new.seen
           /\ new.values \in Answers,
         new.op = "save" => new.seen \in EDITABLE_STATUSES /\ new.values \in WizardAnswers,
         new.op = "act" =>
           \E action \in CAMP_ACTIONS :
             CanTransition(new.seen, CampTarget(action)) /\ new.next = CampTarget(action)
  PROVE  ProjectInv'
  <1>1. edit' = [edit EXCEPT ![e] = new] /\ edit \in [Edits -> Edit]
    BY DEF Opens, ProjectInv, TypeOK
  <1>2. edit'[e] = new /\ edit' \in [Edits -> Edit]
    BY <1>1
  <1>3. ASSUME NEW x \in Edits, x # e
        PROVE  edit'[x] = edit[x]
    BY <1>1, <1>3
  <1>4. RequestsAreLegal'
    BY <1>2, <1>3 DEF RequestsAreLegal, ProjectInv
  <1>5. TypeOK'
    BY <1>2 DEF Opens, row, TypeOK, ProjectInv
  <1> QED
    BY <1>4, <1>5 DEF ProjectInv

\* What a request has read stays true of what it read, whatever the others write.
LEMMA ProjectStep ==
  ASSUME ProjectInv, [ProjectNext]_vars
  PROVE  ProjectInv'
  <1> USE ProjectFacts DEF ProjectInv
  <1>1. ASSUME NEW a \in Answers, NEW submit \in BOOLEAN, CreateProject(a, submit)
        PROVE  ProjectInv'
    BY <1>1 DEF CreateProject, TypeOK, RequestsAreLegal
  <1>2. ASSUME NEW e \in Edits, NEW a \in Answers, NEW submit \in BOOLEAN,
               EditRead(e, a, submit)
        PROVE  ProjectInv'
    <2> DEFINE new == [op |-> "edit", submit |-> submit, values |-> a, seen |-> status,
                       next |-> IF submit THEN CampTarget("submit") ELSE status]
    <2>1. status \in EDITABLE_STATUSES /\ Opens(e, new)
      BY <1>2 DEF EditRead, ProjectEditable
    <2>2. new \in Edit
      BY <2>1 DEF Edit
    <2> QED
      BY <2>1, <2>2, OpeningKeeps
  <1>3. ASSUME NEW e \in Edits, NEW values \in WizardAnswers, WizardRead(e, values)
        PROVE  ProjectInv'
    <2> DEFINE new == [NoEdit EXCEPT !.op = "save", !.seen = status, !.next = status,
                                     !.values = values]
    <2>1. status \in EDITABLE_STATUSES /\ Opens(e, new)
      BY <1>3 DEF WizardRead, ProjectEditable
    <2>2. new \in Edit /\ new.op = "save" /\ new.seen = status /\ new.values = values
      BY <2>1 DEF Edit, NoEdit
    <2> QED
      BY <2>1, <2>2, OpeningKeeps
  <1>4. ASSUME NEW e \in Edits, NEW action \in CAMP_ACTIONS, ActRead(e, action)
        PROVE  ProjectInv'
    <2> DEFINE new == [NoEdit EXCEPT !.op = "act", !.seen = status,
                                     !.next = CampTarget(action)]
    <2>1. CanTransition(status, CampTarget(action)) /\ status # NoRow /\ Opens(e, new)
      BY <1>4 DEF ActRead
    <2>2. /\ new \in Edit
          /\ new.op = "act" /\ new.seen = status /\ new.next = CampTarget(action)
      BY <2>1, CampTargets DEF Edit, NoEdit, TypeOK
    <2> QED
      BY <2>1, <2>2, OpeningKeeps
  <1>5. ASSUME NEW e \in Edits, EditCommit(e)
        PROVE  ProjectInv'
    <2>1. /\ edit[e].values \in Answers
          /\ edit[e].seen \in {"draft", "changes_requested"}
          /\ edit[e].next = IF edit[e].submit THEN "submitted" ELSE edit[e].seen
          /\ edit[e].submit \in BOOLEAN
      BY <1>5 DEF EditCommit, RequestsAreLegal, TypeOK, Edit
    <2> QED
      BY <1>5, <2>1, ClosingKeeps DEF EditCommit, TypeOK
  <1>6. ASSUME NEW e \in Edits, WizardCommit(e)
        PROVE  ProjectInv'
    <2>1. edit[e].values \in WizardAnswers
      BY <1>6 DEF WizardCommit, RequestsAreLegal
    <2> QED
      BY <1>6, <2>1, ClosingKeeps DEF WizardCommit, TypeOK
  <1>7. ASSUME NEW e \in Edits, ActCommit(e)
        PROVE  ProjectInv'
    <2>1. /\ edit[e].seen \in RegistrationStatus /\ edit[e].next \in RegistrationStatus
      BY DEF TypeOK, Edit
    <2>2. answers \in Answers /\ status' # NoRow
      BY <1>7, <2>1 DEF ActCommit, TypeOK
    <2> QED
      BY <1>7, <2>1, <2>2, ClosingKeeps DEF ActCommit, TypeOK, row
  <1>8. ASSUME NEW e \in Edits, EditDies(e)
        PROVE  ProjectInv'
    BY <1>8, ClosingKeeps DEF EditDies, TypeOK, row
  <1>9. ASSUME NEW v \in Reviewers, NEW action \in REVIEW_ACTIONS,
               NEW reason \in Reasons \cup {NoReason}, Review(v, action, reason)
        PROVE  ProjectInv'
    <2>1. /\ status \in {"submitted", "under_review"}
          /\ status' \in {"under_review", "approved", "changes_requested", "rejected"}
      BY <1>9, ProjectReviews DEF Review, TypeOK
    <2>2. decisionReason' = reason /\ UNCHANGED <<row, edit>>
      BY <1>9 DEF Review, ReviewerMoves
    <2> QED
      BY <2>1, <2>2 DEF TypeOK, RequestsAreLegal, row
  <1>10. CASE UNCHANGED vars
    BY <1>10 DEF vars, TypeOK, RequestsAreLegal
  <1> QED
    BY <1>1, <1>2, <1>3, <1>4, <1>5, <1>6, <1>7, <1>8, <1>9, <1>10 DEF ProjectNext

\* However edits, autosaves, moves and reviews overlap, every column keeps its type
\* and a request in flight still knows what its reading told it.
THEOREM ProjectInvariance == ProjectSpec => []ProjectInv
  <1> QED
    BY ProjectStarts, ProjectStep, PTL DEF ProjectSpec

\* Every column of a project and every request in flight keeps its type; a project
\* that is not there has no answers.
THEOREM ProjectTypeCorrect == ProjectSpec => []TypeOK
  <1>1. ProjectInv => TypeOK
    BY DEF ProjectInv
  <1> QED
    BY <1>1, ProjectInvariance, PTL

---------------------------------------------------------------------------
\* A request that is over has closed its own slot and no other.
LEMMA OnlyOneIsOver ==
  ASSUME ProjectInv, NEW e \in Edits, Closes(e), NEW x \in Edits, Over(x)
  PROVE  x = e
  BY DEF Closes, Over, ProjectInv, TypeOK

\* A committed edit leaves row and record in step: it files and completes, or saves
\* what is not filed and does neither.
LEMMA EditsUnite ==
  ASSUME ProjectInv, NEW e \in Edits, EditCommit(e)
  PROVE  FiledIsCompleted' /\ Mirrored'
  <1>1. /\ edit[e].seen \in {"draft", "changes_requested"}
        /\ edit[e].next = IF edit[e].submit THEN "submitted" ELSE edit[e].seen
        /\ edit[e].submit \in BOOLEAN
    BY ProjectFacts DEF EditCommit, ProjectInv, RequestsAreLegal, TypeOK, Edit
  <1> QED
    BY <1>1 DEF EditCommit, FiledIsCompleted, Mirrored

\* Only the camp's wizard parts the row of a project from its answer record, and the
\* project's own form brings them together again (updateProjectRegistration).
THEOREM WizardAloneDivides == ProjectSpec => OnlyTheWizardDivides
  <1> DEFINE Divides ==
        /\ FiledIsCompleted /\ ~FiledIsCompleted' =>
             \E e \in Edits :
               Over(e) /\ edit[e].op = "act" /\ edit[e].next \in {"draft", "submitted"}
        /\ Mirrored /\ ~Mirrored' => \E e \in Edits : Over(e) /\ edit[e].op = "save"
        /\ \A e \in Edits :
             edit[e].op = "edit" /\ Over(e) /\ <<status, row>>' # <<status, row>>
               => FiledIsCompleted' /\ Mirrored'
  <1>1. ASSUME ProjectInv, ProjectNext
        PROVE  Divides
    <2>1. ASSUME NEW a \in Answers, NEW submit \in BOOLEAN, CreateProject(a, submit)
          PROVE  Divides
      BY <2>1 DEF CreateProject, FiledIsCompleted, Mirrored, Over
    <2>2. ASSUME UNCHANGED <<status, row>>
          PROVE  Divides
      BY <2>2 DEF row, FiledIsCompleted, Mirrored
    <2>3. ASSUME NEW e \in Edits, EditCommit(e)
          PROVE  Divides
      BY <1>1, <2>3, EditsUnite
    <2>4. ASSUME NEW e \in Edits, edit[e].op # "idle", Closes(e)
          PROVE  Over(e)
      BY <1>1, <2>4 DEF Closes, Over, NoEdit, ProjectInv, TypeOK
    <2>5. ASSUME NEW e \in Edits, WizardCommit(e)
          PROVE  Divides
      <3>1. Over(e) /\ edit[e].op = "save"
        BY <2>4, <2>5 DEF WizardCommit
      <3>2. ASSUME NEW x \in Edits, Over(x) PROVE edit[x].op = "save"
        BY <1>1, <2>5, <3>1, <3>2, OnlyOneIsOver DEF WizardCommit
      <3>3. FiledIsCompleted => FiledIsCompleted'
        BY <2>5 DEF WizardCommit, FiledIsCompleted
      <3> QED
        BY <3>1, <3>2, <3>3
    <2>6. ASSUME NEW e \in Edits, ActCommit(e)
          PROVE  Divides
      <3>1. Over(e) /\ edit[e].op = "act"
        BY <2>4, <2>6 DEF ActCommit
      <3>2. ASSUME NEW x \in Edits, Over(x) PROVE edit[x].op = "act"
        BY <1>1, <2>6, <3>1, <3>2, OnlyOneIsOver DEF ActCommit
      <3>3. Mirrored => Mirrored'
        BY <2>6 DEF ActCommit, Mirrored, row
      <3>4. edit[e].next \in {"submitted", "withdrawn", "draft"}
        BY <1>1, <3>1, CampTargets DEF ProjectInv, RequestsAreLegal
      <3>5. edit[e].next = "withdrawn" => FiledIsCompleted'
        BY <2>6 DEF ActCommit, FiledIsCompleted
      <3> QED
        BY <3>1, <3>2, <3>3, <3>4, <3>5
    <2>7. ASSUME NEW v \in Reviewers, NEW action \in REVIEW_ACTIONS,
                 NEW reason \in Reasons \cup {NoReason}, Review(v, action, reason)
          PROVE  Divides
      <3>1. /\ status \in {"submitted", "under_review"}
            /\ status' \in {"under_review", "approved", "changes_requested", "rejected"}
            /\ UNCHANGED <<row, edit>>
        BY <1>1, <2>7, ProjectReviews DEF Review, ProjectInv, TypeOK
      <3> QED
        BY <3>1 DEF row, FiledIsCompleted, Mirrored, Over
    <2> QED
      BY <1>1, <2>1, <2>2, <2>3, <2>5, <2>6, <2>7, Zenon
         DEF ProjectNext, EditRead, WizardRead, ActRead, EditDies, Opens
  <1>2. ProjectInv /\ [ProjectNext]_vars => [Divides]_vars
    BY <1>1
  <1> QED
    BY <1>2, ProjectInvariance, PTL DEF ProjectSpec, OnlyTheWizardDivides

---------------------------------------------------------------------------
\* An edit or autosave whose reading is current moves the status as the state machine
\* allows, and never finds a project under review.
LEMMA EditsFollow ==
  ASSUME ProjectInv, NEW e \in Edits, EditCommit(e) \/ WizardCommit(e), ~StaleEdit(e)
  PROVE  /\ status' # status =>
              /\ CanTransition(status, CampTarget("submit"))
              /\ status' = CampTarget("submit")
         /\ status \in EDITABLE_STATUSES
  <1>1. Over(e) /\ edit[e].op \in {"edit", "save"}
    BY DEF EditCommit, WizardCommit, Closes, Over, NoEdit, ProjectInv, TypeOK
  <1>2. edit[e].seen = status
    BY <1>1 DEF StaleEdit
  <1>3. /\ status \in {"draft", "changes_requested"}
        /\ status' \in {"submitted", status}
    BY <1>1, <1>2, ProjectFacts DEF ProjectInv, RequestsAreLegal, EditCommit, WizardCommit
  <1> QED
    BY <1>3, ProjectFacts
       DEF CanTransition, REGISTRATION_TRANSITIONS, RegistrationStatus

\* Only a request that overlapped another move takes a project off the state machine
\* or rewrites what is under review (updateProjectRegistration, saveRegistrationDraft).
THEOREM EditsAreStaleOrLegal == ProjectSpec => EditsRespectStateMachine
  <1> DEFINE Respects ==
        status # NoRow =>
          \/ /\ status' # status =>
                 \/ \E action \in CAMP_ACTIONS :
                      CanTransition(status, CampTarget(action))
                        /\ status' = CampTarget(action)
                 \/ CanReview(status, status')
             /\ status \notin EDITABLE_STATUSES => UNCHANGED <<answers, columns>>
          \/ \E e \in Edits : StaleEdit(e)
  <1>1. ASSUME ProjectInv, ProjectNext
        PROVE  Respects
    <2>1. ASSUME NEW a \in Answers, NEW submit \in BOOLEAN, CreateProject(a, submit)
          PROVE  Respects
      BY <2>1 DEF CreateProject
    <2>2. ASSUME UNCHANGED <<status, row>>
          PROVE  Respects
      BY <2>2 DEF row
    <2>3. ASSUME NEW e \in Edits, EditCommit(e) \/ WizardCommit(e)
          PROVE  Respects
      BY <1>1, <2>3, EditsFollow DEF CAMP_ACTIONS
    <2>4. ASSUME NEW e \in Edits, ActCommit(e)
          PROVE  Respects
      <3>1. PICK action \in CAMP_ACTIONS :
              CanTransition(edit[e].seen, CampTarget(action)) /\ edit[e].next = CampTarget(action)
        BY <1>1, <2>4 DEF ActCommit, ProjectInv, RequestsAreLegal
      <3> QED
        BY <2>4, <3>1 DEF ActCommit, row
    <2>5. ASSUME NEW v \in Reviewers, NEW action \in REVIEW_ACTIONS,
                 NEW reason \in Reasons \cup {NoReason}, Review(v, action, reason)
          PROVE  Respects
      BY <1>1, <2>5, ProjectReviews DEF Review, ProjectInv, TypeOK, row
    <2> QED
      BY <1>1, <2>1, <2>2, <2>3, <2>4, <2>5, Zenon
         DEF ProjectNext, EditRead, WizardRead, ActRead, EditDies, Opens
  <1>2. ProjectInv /\ [ProjectNext]_vars => [Respects]_vars
    BY <1>1
  <1> QED
    BY <1>2, ProjectInvariance, PTL DEF ProjectSpec, EditsRespectStateMachine
===============================================================================
