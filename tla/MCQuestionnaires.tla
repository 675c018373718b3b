---------------------------- MODULE MCQuestionnaires ----------------------------
(* Instances of Questionnaires and of the rules of a form for TLC. *)
EXTENDS Questionnaires, QuestionnaireForm, TLC
CONSTANTS ann, s1, s2, p1, yes, no

\* Forms of three pages: two questions that may branch, then one, then one that does
\* not.  Targets lead on, back, to the same page and nowhere.
Choice(targets, compulsory) ==
  [required : compulsory, goTo : {(yes :> t) @@ (no :> Unset) : t \in targets}]
Plain == Choice({Unset}, BOOLEAN)
Branching1 == {<<>>} \cup {<<q>> : q \in Choice({Unset, {2}, {3}, {SUBMIT_TARGET}}, BOOLEAN)}
                \cup {<<q, r>> : q \in Choice({{2}, {4}}, {FALSE}), r \in Choice({{3}, {SUBMIT_TARGET}}, {TRUE})}
Branching2 == {<<>>} \cup {<<q>> : q \in Choice({Unset, {1}, {2}, {3}}, BOOLEAN)}

Forms ==
  {<<a, b, c>> : a \in [next : {Unset, {3}}, questions : Branching1],
                 b \in [next : {Unset, {SUBMIT_TARGET}}, questions : Branching2],
                 c \in [next : {Unset}, questions : {<<>>} \cup {<<q>> : q \in Plain}]
                        \cup [next : {{2}}, questions : {<<>>}]}

Answers == {yes, no, NoAnswer, BadAnswer}
Payloads(form) ==
  {<<a, b, c>> : a \in [DOMAIN form[1].questions -> Answers],
                 b \in [DOMAIN form[2].questions -> Answers],
                 c \in [DOMAIN form[3].questions -> Answers]}

ASSUME FormRules ==
  \A form \in Forms :
    /\ SectionsAreVisited(form, Payloads(form))
    /\ \A raw \in Payloads(form) :
         /\ WalkEnds(form, raw)
         /\ SubmissionIsStable(form, raw)
         /\ SkippedIsIgnored(form, raw)
===============================================================================
