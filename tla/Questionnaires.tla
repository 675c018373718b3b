----------------------------- MODULE Questionnaires -----------------------------
(***************************************************************************)
(* Questionnaires sent to people, the required actions they raise, and the *)
(* gate a blocking one puts in front of the app until it is answered or    *)
(* recalled.                                                               *)
(*                                                                         *)
(*   apps/org/lib/questionnaires/actions.ts, queries.ts                    *)
(*   apps/web/lib/questionnaire-store.ts, required-actions.ts              *)
(*   apps/web/app/(app)/camps/[slug]/questionnaires/actions.ts             *)
(*                                                                         *)
(* The sends of one questionnaire of AfrikaBurn, which share its           *)
(* definition, and of one camp's, each with a definition of its own; one   *)
(* edition.  That AfrikaBurn's definition is published when it is sent is  *)
(* an input here.  Authors and the tab of each recipient are processes: a  *)
(* read step carries the action's checks, the writes come later, and a     *)
(* process may die in between.                                             *)
(***************************************************************************)
EXTENDS Naturals, FiniteSets

CONSTANTS
  Users,
  Staff,        \* users the console admits: the audience of what is internal
  Activations,  \* ids of the sends
  Authors       \* author requests in flight

ASSUME QuestionnairesAssumption ==
  /\ Staff \subseteq Users
  /\ "none" \notin Activations /\ "org" \notin Activations

VARIABLES
  activation,  \* questionnaire_activations, or Unsent
  action,      \* required_actions: the status of each user's action for a send
  answer,      \* questionnaire_responses: the send each user last answered
  author,      \* what each author request has read and will write
  tab          \* what each recipient's submission has read and will write

vars == <<activation, action, answer, author, tab>>

\* A camp's own, AfrikaBurn's outbound, and the console's internal ones.
Kinds == {"camp", "outbound", "internal"}

Activation ==
  [kind : Kinds, status : {"open", "closed"}, blocking : BOOLEAN]
Unsent == [kind |-> "none", status |-> "none", blocking |-> FALSE]

\* The definition a send is answered under: sends of AfrikaBurn's share one.
Keys == Activations \cup {"org"}
Key(a) == IF activation[a].kind = "camp" THEN a ELSE "org"

Idle == [op |-> "idle"]

Init ==
  /\ activation = [a \in Activations |-> Unsent]
  /\ action = [u \in Users |-> [a \in Activations |-> "none"]]
  /\ answer = [u \in Users |-> [k \in Keys |-> "none"]]
  /\ author = [p \in Authors |-> Idle]
  /\ tab = [u \in Users |-> Idle]

Free(p) == author[p] = Idle
Begin(p, r) == author' = [author EXCEPT ![p] = r]
End(p) == Begin(p, Idle)

OnlyAuthor == UNCHANGED <<activation, action, answer, tab>>
OnlyTab == UNCHANGED <<activation, action, answer, author>>

---------------------------------------------------------------------------
(* activateQuestionnaire and createAndActivateProjectQuestionnaire: the    *)
(* definition and the audience are read before the transaction.  Whom a    *)
(* camp's audience or the participants' resolves to is any set of users.   *)

SendRead(p, kind, blocking, targets) ==
  /\ Free(p)
  /\ kind = "internal" => targets = Staff
  /\ Begin(p, [op |-> "send", kind |-> kind, blocking |-> blocking, targets |-> targets])
  /\ OnlyAuthor

\* The activation, with the definition as sent, and one action for each target.
SendCommit(p) ==
  LET r == author[p] IN
  /\ r.op = "send"
  /\ \E a \in Activations :
       /\ activation[a] = Unsent
       /\ activation' = [activation EXCEPT ![a] =
            [kind |-> r.kind, status |-> "open", blocking |-> r.blocking]]
       /\ action' = [u \in Users |-> [action[u] EXCEPT ![a] =
            IF u \in r.targets THEN "pending" ELSE @]]
  /\ End(p)
  /\ UNCHANGED <<answer, tab>>

---------------------------------------------------------------------------
(* closeQuestionnaireAction of a camp, closeActivation of the console.     *)

CloseRead(p, a) ==
  /\ Free(p)
  /\ activation[a].kind = "camp" /\ activation[a].status = "open"
  /\ Begin(p, [op |-> "close", activation |-> a])
  /\ OnlyAuthor

MutExpired(a) == action
\* Every action of a that is still pending expires.
Expired(a) == [u \in Users |->
  IF action[u][a] = "pending" THEN [action[u] EXCEPT ![a] = "expired"] ELSE action[u]]

CloseCommit(p) ==
  LET a == author[p].activation IN
  /\ author[p].op = "close"
  /\ activation' = [activation EXCEPT ![a].status = "closed"]
  /\ action' = Expired(a)
  /\ End(p)
  /\ UNCHANGED <<answer, tab>>

\* One transaction, whatever the status, and no action is touched.
CloseActivation(a) ==
  /\ activation[a].kind \in {"outbound", "internal"}
  /\ activation' = [activation EXCEPT ![a].status = "closed"]
  /\ UNCHANGED <<action, answer, author, tab>>

---------------------------------------------------------------------------
(* submitResponse: the answer and the completion of the action are two     *)
(* statements.  submitConsoleQuestionnaire: one transaction.               *)

MutAnswerable(u, a) == action[u][a] # "none" /\ answer[u][Key(a)] # a
\* Whoever was sent it may answer it: again, after it was closed, and after they
\* left its audience.
Answerable(u, a) == action[u][a] # "none"

AnswerRead(u, a) ==
  /\ tab[u] = Idle
  /\ activation[a].kind \in {"camp", "outbound"}
  /\ Answerable(u, a)
  /\ tab' = [tab EXCEPT ![u] = [op |-> "answer", activation |-> a]]
  /\ OnlyTab

MutStored(u, a) == IF activation[a].status = "open" THEN [answer EXCEPT ![u][Key(a)] = a] ELSE answer
\* An upsert on the person and the definition.
Stored(u, a) == [answer EXCEPT ![u][Key(a)] = a]

StoreAnswer(u, a) ==
  /\ tab[u] = [op |-> "answer", activation |-> a]
  /\ answer' = Stored(u, a)
  /\ tab' = [tab EXCEPT ![u].op = "complete"]
  /\ UNCHANGED <<activation, action, author>>

\* completeRequiredAction: whatever the status was.
Completed(u, a) == [action EXCEPT ![u][a] = IF @ = "none" THEN @ ELSE "completed"]

CompleteAction(u, a) ==
  /\ tab[u] = [op |-> "complete", activation |-> a]
  /\ action' = Completed(u, a)
  /\ tab' = [tab EXCEPT ![u] = Idle]
  /\ UNCHANGED <<activation, answer, author>>

\* Every rank may answer; the console asks nobody else in.
ConsoleRead(u, a) ==
  /\ tab[u] = Idle
  /\ u \in Staff
  /\ activation[a].kind = "internal"
  /\ tab' = [tab EXCEPT ![u] = [op |-> "console", activation |-> a]]
  /\ OnlyTab

\* Nothing checks that it was sent to u: the update then finds no action.
ConsoleCommit(u, a) ==
  /\ tab[u] = [op |-> "console", activation |-> a]
  /\ answer' = Stored(u, a)
  /\ action' = Completed(u, a)
  /\ tab' = [tab EXCEPT ![u] = Idle]
  /\ UNCHANGED <<activation, author>>

---------------------------------------------------------------------------
AuthorDies(p) ==
  /\ ~Free(p)
  /\ End(p)
  /\ OnlyAuthor

TabDies(u) ==
  /\ tab[u] # Idle
  /\ tab' = [tab EXCEPT ![u] = Idle]
  /\ OnlyTab

Next ==
  \/ \E p \in Authors :
       \/ \E kind \in Kinds, blocking \in BOOLEAN, targets \in SUBSET Users :
            SendRead(p, kind, blocking, targets)
       \/ SendCommit(p)
       \/ \E a \in Activations : CloseRead(p, a)
       \/ CloseCommit(p)
       \/ AuthorDies(p)
  \/ \E u \in Users :
       \/ \E a \in Activations :
            \/ AnswerRead(u, a)
            \/ StoreAnswer(u, a)
            \/ CompleteAction(u, a)
            \/ ConsoleRead(u, a)
            \/ ConsoleCommit(u, a)
       \/ TabDies(u)
  \/ \E a \in Activations : CloseActivation(a)

Spec == Init /\ [][Next]_vars

\* A gated person keeps trying, and a submission tried for ever gets through
\* some time: nothing is assumed of authors, and any one try may die.
Gates(u, a) ==
  /\ action[u][a] = "pending"
  /\ activation[a].blocking /\ activation[a].status = "open"
  /\ activation[a].kind = "internal" => u \in Staff

TriesAgain(u, a) == Gates(u, a) /\ (AnswerRead(u, a) \/ ConsoleRead(u, a))

Submissions ==
  \A u \in Users, a \in Activations :
    /\ SF_vars(TriesAgain(u, a))
    /\ SF_vars(StoreAnswer(u, a) \/ ConsoleCommit(u, a))
    /\ SF_vars(CompleteAction(u, a))

FairSpec == Spec /\ Submissions

---------------------------------------------------------------------------
(* Properties.                                                             *)

AuthorRequest ==
  {Idle}
  \cup [op : {"send"}, kind : Kinds, blocking : BOOLEAN, targets : SUBSET Users]
  \cup [op : {"close"}, activation : Activations]

\* Every variable keeps its type, and an action belongs to a send that was made.
TypeOK ==
  /\ activation \in [Activations -> Activation \cup {Unsent}]
  /\ action \in [Users -> [Activations -> {"none", "pending", "completed", "expired"}]]
  /\ \A u \in Users, a \in Activations : activation[a] = Unsent => action[u][a] = "none"
  /\ answer \in [Users -> [Keys -> Activations \cup {"none"}]]
  /\ author \in [Authors -> AuthorRequest]
  /\ tab \in [Users -> {Idle} \cup
       [op : {"answer", "complete", "console"}, activation : Activations]]

\* Nobody counts as done without an answer on record, whatever was closed, died
\* or was sent again in between (submitResponse, submitConsoleQuestionnaire).
CompletedIsAnswered ==
  \A u \in Users, a \in Activations :
    action[u][a] = "completed" => answer[u][Key(a)] # "none"

\* Recalling a camp's questionnaire releases everybody it reached, those who left
\* the camp included: no action of it is left pending (closeQuestionnaireAction).
RecallIsComplete ==
  \A a \in Activations :
    activation[a].kind = "camp" /\ activation[a].status = "closed" =>
      \A u \in Users : action[u][a] # "pending"

\* No gate is for ever: a person who keeps trying gets past it, although the
\* answer and its completion are two statements and a try may die between them
\* (submitResponse, completeRequiredAction).
GateOpens ==
  \A u \in Users, a \in Activations : Gates(u, a) ~> ~Gates(u, a)
===============================================================================
