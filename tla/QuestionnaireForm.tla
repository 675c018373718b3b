--------------------------- MODULE QuestionnaireForm ---------------------------
(***************************************************************************)
(* The form of a questionnaire: which definitions are accepted, which      *)
(* sections a person walks through given their answers, and which answers  *)
(* a submission keeps.                                                     *)
(*                                                                         *)
(*   packages/core/src/questionnaire-definition.ts, questionnaire-runtime.ts *)
(*                                                                         *)
(* A form is a sequence of pages, and a page's id is its position.  Its    *)
(* questions are choices, whose options may lead to another page; one that *)
(* leads nowhere stands for every other kind.  The uniqueness of ids and   *)
(* values and the ranges of the other kinds are left out.                  *)
(***************************************************************************)
EXTENDS Naturals, Sequences

CONSTANTS Options, NoAnswer, BadAnswer  \* BadAnswer: what validateOne refuses

ASSUME FormAssumption == NoAnswer \notin Options /\ BadAnswer \notin Options

\* A page's next and an option's goTo are a set of at most one target: the position
\* of a page, which need not be there, or the end.
SUBMIT_TARGET == 0
Unset == {}
Target == {Unset} \cup {{t} : t \in Nat}

Question == [required : BOOLEAN, goTo : [Options -> Target]]
Page == [next : Target, questions : Seq(Question)]

Pages(form) == 1..Len(form)
QuestionsOf(form, i) == DOMAIN form[i].questions
Asked(form, i, k) == form[i].questions[k]

TheTarget(set) == CHOOSE t \in set : TRUE

---------------------------------------------------------------------------
(* validateQuestionnaireDefinition.                                        *)

BranchTargets(form, i) ==
  form[i].next \cup UNION {UNION {Asked(form, i, k).goTo[o] : o \in Options} : k \in QuestionsOf(form, i)}

\* It exists, and it points forward.
TargetAllowed(form, i, t) == t = SUBMIT_TARGET \/ (t \in Pages(form) /\ t > i)

\* The fall-through edge is always live.
Edges(form, i) == BranchTargets(form, i) \cup (IF form[i].next = Unset THEN {i + 1} ELSE {})

\* One sweep from left to right.
Reachable(form) ==
  LET reached[i \in Pages(form)] ==
        i = 1 \/ \E j \in 1..(i - 1) : reached[j] /\ i \in Edges(form, j)
  IN {i \in Pages(form) : reached[i]}

IsValidDefinition(form) ==
  /\ \A i \in Pages(form) : \A t \in BranchTargets(form, i) : TargetAllowed(form, i, t)
  /\ Reachable(form) = Pages(form)

---------------------------------------------------------------------------
(* The runner.                                                             *)

\* The branching questions of page i that the answers have branch.
Branching(form, i, answers) ==
  {k \in QuestionsOf(form, i) :
     answers[i][k] \in Options /\ Asked(form, i, k).goTo[answers[i][k]] # Unset}

\* The last one wins, else the page's own next, else the next page in order; what is
\* not a page ends the walk.
NextPage(form, i, answers) ==
  LET branching == Branching(form, i, answers)
      last == CHOOSE k \in branching : \A m \in branching : m <= k
      target == IF branching # {} THEN TheTarget(Asked(form, i, last).goTo[answers[i][last]])
                  ELSE IF form[i].next # Unset THEN TheTarget(form[i].next) ELSE i + 1
  IN IF target \in Pages(form) THEN target ELSE SUBMIT_TARGET

Visited(path) == {path[n] : n \in DOMAIN path}

\* From the first page until the end, or until a page comes back.
ResolvePath(form, answers) ==
  LET walk[n \in Pages(form)] ==
        IF n = 1 THEN <<1>>
          ELSE LET path == walk[n - 1]
                   next == NextPage(form, path[Len(path)], answers)
               IN IF next = SUBMIT_TARGET \/ next \in Visited(path) THEN path ELSE Append(path, next)
  IN walk[Len(form)]

\* validateOne of a choice, where it is an answer at all.
Accepted(question, answer) == IF answer = NoAnswer THEN ~question.required ELSE answer \in Options

\* What of an answer survives at a question that is not looked at for its errors.
Driving(form, raw) ==
  [i \in Pages(form) |-> [k \in QuestionsOf(form, i) |->
     IF raw[i][k] \in Options THEN raw[i][k] ELSE NoAnswer]]

\* The path is resolved against all the answers; only what it shows is validated, and
\* only that is kept.
ValidateSubmission(form, raw) ==
  LET path == Visited(ResolvePath(form, Driving(form, raw))) IN
  [ok |-> \A i \in path : \A k \in QuestionsOf(form, i) : Accepted(Asked(form, i, k), raw[i][k]),
   responses |-> [i \in Pages(form) |-> [k \in QuestionsOf(form, i) |->
                    IF i \in path THEN raw[i][k] ELSE NoAnswer]]]

\* deriveProgress: every required question on the path has a usable answer.
Complete(form, answers) ==
  \A i \in Visited(ResolvePath(form, answers)) : \A k \in QuestionsOf(form, i) :
    Asked(form, i, k).required => answers[i][k] \in Options

---------------------------------------------------------------------------
(* Properties, for every form and every payload.                           *)

\* A walk ends and shows no page twice; on an accepted definition it only moves
\* forward and ends by itself (the guard of resolvePath is for legacy definitions).
WalkEnds(form, answers) ==
  LET path == ResolvePath(form, answers) IN
  /\ \A m, n \in DOMAIN path : path[m] = path[n] => m = n
  /\ IsValidDefinition(form) =>
       /\ \A m \in 1..(Len(path) - 1) : path[m] < path[m + 1]
       /\ NextPage(form, path[Len(path)], answers) = SUBMIT_TARGET

\* What is stored resolves to the walk it was given on, is done, and would be accepted
\* again as it is: although the walk was resolved against answers that were then
\* thrown away (validateSubmission, deriveProgress).
SubmissionIsStable(form, raw) ==
  LET submission == ValidateSubmission(form, raw) IN
  submission.ok =>
    /\ ResolvePath(form, submission.responses) = ResolvePath(form, Driving(form, raw))
    /\ Complete(form, submission.responses)
    /\ ValidateSubmission(form, submission.responses) = submission

\* "Branching safe both ways": what somebody answered on pages they branched past can
\* neither block them nor be smuggled into what is stored.
SkippedIsIgnored(form, raw) ==
  LET path == Visited(ResolvePath(form, Driving(form, raw))) IN
  \A answer \in Options \cup {NoAnswer, BadAnswer} :
    ValidateSubmission(form, raw) =
      ValidateSubmission(form, [i \in Pages(form) |-> [k \in QuestionsOf(form, i) |->
                                  IF i \in path THEN raw[i][k] ELSE answer]])

\* Every section of an accepted definition is one that some answers lead to, if
\* nothing in it is required.
SectionsAreVisited(form, payloads) ==
  /\ IsValidDefinition(form)
  /\ \A i \in Pages(form) : \A k \in QuestionsOf(form, i) : ~Asked(form, i, k).required
  => \A i \in Pages(form) : \E raw \in payloads :
       ValidateSubmission(form, raw).ok /\ i \in Visited(ResolvePath(form, raw))
===============================================================================
