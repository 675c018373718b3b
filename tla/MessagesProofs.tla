---------------------------- MODULE MessagesProofs ----------------------------
(***************************************************************************)
(* Theorems about what AfrikaBurn sends people.  First Questionnaires, for *)
(* every set of people, of sends and of author requests; then Broadcasts,  *)
(* for every set of bulletins, of staff requests, of camps, of runs of the *)
(* job and of milestones.                                                  *)
(***************************************************************************)
EXTENDS Questionnaires, Broadcasts, TLAPS

\* What is about to be answered, completed or closed was sent.
TabsWereSent ==
  \A u \in Users : tab[u] # Idle => activation[tab[u].activation] # Unsent
ClosersMeanCamps ==
  \A p \in Authors : author[p].op = "close" => activation[author[p].activation].kind = "camp"

\* Whoever is about to complete has answered.
CompletersAnswered ==
  \A u \in Users : tab[u].op = "complete" => answer[u][Key(tab[u].activation)] # "none"

Inv ==
  /\ TypeOK
  /\ TabsWereSent
  /\ ClosersMeanCamps
  /\ CompletersAnswered
  /\ CompletedIsAnswered
  /\ RecallIsComplete

Tab == [op : {"answer", "complete", "console"}, activation : Activations]

---------------------------------------------------------------------------
(* The states of a send and of a tab.                                      *)

\* What was not sent has no kind.
LEMMA UnsentFacts ==
  /\ Unsent \notin Activation /\ Unsent.kind = "none" /\ Unsent.status = "none"
  /\ Idle \notin Tab /\ Idle.op = "idle"
  BY DEF Unsent, Activation, Kinds, Idle, Tab

\* Every send is answered under a key.
LEMMA KeyType ==
  ASSUME NEW a \in Activations
  PROVE  Key(a) \in Keys
  BY DEF Key, Keys

\* The invariant holds at the start.
LEMMA InitInv == Init => Inv
  <1> SUFFICES ASSUME Init PROVE Inv
    OBVIOUS
  <1>1. TypeOK
    BY DEF Init, TypeOK, AuthorRequest
  <1>2. TabsWereSent /\ CompletersAnswered /\ ClosersMeanCamps
    BY DEF Init, TabsWereSent, CompletersAnswered, ClosersMeanCamps, Idle
  <1>3. CompletedIsAnswered /\ RecallIsComplete
    BY DEF Init, CompletedIsAnswered, RecallIsComplete, Unsent
  <1> QED BY <1>1, <1>2, <1>3 DEF Inv

---------------------------------------------------------------------------
(* The authors.                                                            *)

\* An author that reads, or drops out, keeps the invariant.
LEMMA AuthorReadKeeps ==
  ASSUME Inv, NEW p \in Authors, NEW r \in AuthorRequest, Begin(p, r), OnlyAuthor,
         r.op = "close" => activation[r.activation].kind = "camp"
  PROVE  Inv'
  <1>1. TypeOK'
    BY DEF Inv, TypeOK, Begin, OnlyAuthor
  <1>2. ClosersMeanCamps'
    BY DEF Inv, TypeOK, ClosersMeanCamps, Begin, OnlyAuthor
  <1> QED BY <1>1, <1>2
    DEF Inv, OnlyAuthor, TabsWereSent, CompletersAnswered, CompletedIsAnswered, RecallIsComplete, Key

\* A send that is written: it was not there, so nobody had seen it.
LEMMA SendKeeps ==
  ASSUME Inv, NEW p \in Authors, SendCommit(p)
  PROVE  Inv'
  <1> DEFINE r == author[p]
  <1>1. r \in [op : {"send"}, kind : Kinds, blocking : BOOLEAN, targets : SUBSET Users]
    BY DEF Inv, TypeOK, AuthorRequest, SendCommit, Idle
  <1>2. PICK a \in Activations :
          /\ activation[a] = Unsent
          /\ activation' = [activation EXCEPT ![a] =
               [kind |-> r.kind, status |-> "open", blocking |-> r.blocking]]
          /\ action' = [u \in Users |-> [action[u] EXCEPT ![a] =
               IF u \in r.targets THEN "pending" ELSE @]]
    BY DEF SendCommit
  <1>3. /\ activation'[a] \in Activation /\ activation'[a].status = "open"
        /\ \A b \in Activations \ {a} : activation'[b] = activation[b]
        /\ activation' \in [Activations -> Activation \cup {Unsent}]
    BY <1>1, <1>2 DEF Inv, TypeOK, Activation
  <1>4. \A u \in Users : /\ action[u][a] = "none"
                         /\ action'[u][a] \in {"none", "pending"}
                         /\ \A b \in Activations \ {a} : action'[u][b] = action[u][b]
    BY <1>2 DEF Inv, TypeOK
  <1>5. author' = [author EXCEPT ![p] = Idle] /\ UNCHANGED <<answer, tab>>
    BY DEF SendCommit, End, Begin
  <1>6. TypeOK'
    <2>1. action' \in [Users -> [Activations -> {"none", "pending", "completed", "expired"}]]
      BY <1>2 DEF Inv, TypeOK
    <2>2. \A u \in Users, b \in Activations : activation'[b] = Unsent => action'[u][b] = "none"
      BY <1>3, <1>4, UnsentFacts DEF Inv, TypeOK
    <2> QED BY <1>3, <1>5, <2>1, <2>2 DEF Inv, TypeOK, AuthorRequest
  <1>7. TabsWereSent'
    BY <1>3, <1>5, UnsentFacts DEF Inv, TypeOK, TabsWereSent
  <1>8. ClosersMeanCamps'
    <2> SUFFICES ASSUME NEW q \in Authors, author'[q].op = "close"
                 PROVE  activation'[author'[q].activation].kind = "camp"
      BY DEF ClosersMeanCamps
    <2>1. q # p /\ author'[q] = author[q]
      BY <1>5, UnsentFacts DEF Inv, TypeOK
    <2>2. activation[author[q].activation].kind = "camp" /\ author[q].activation \in Activations
      BY <2>1 DEF Inv, ClosersMeanCamps, TypeOK, AuthorRequest, Idle
    <2> QED BY <1>2, <1>3, <2>1, <2>2, UnsentFacts
  <1>9. CompletersAnswered'
    <2> SUFFICES ASSUME NEW u \in Users, tab[u].op = "complete"
                 PROVE  answer[u][Key(tab[u].activation)'] # "none"
      BY <1>5 DEF CompletersAnswered
    <2>1. tab[u] # Idle /\ tab[u].activation \in Activations \ {a}
      BY <1>2, UnsentFacts DEF Inv, TypeOK, TabsWereSent
    <2> QED BY <1>3, <1>5, <2>1 DEF Inv, CompletersAnswered, Key
  <1>10. CompletedIsAnswered'
    <2> SUFFICES ASSUME NEW u \in Users, NEW b \in Activations, action'[u][b] = "completed"
                 PROVE  answer[u][Key(b)'] # "none"
      BY <1>5 DEF CompletedIsAnswered
    <2>1. b # a /\ action[u][b] = "completed"
      BY <1>4
    <2> QED BY <1>3, <2>1 DEF Inv, CompletedIsAnswered, Key
  <1>11. RecallIsComplete'
    BY <1>3, <1>4 DEF Inv, RecallIsComplete
  <1> QED BY <1>6, <1>7, <1>8, <1>9, <1>10, <1>11 DEF Inv

\* A send that is closed keeps its kind.
LEMMA ClosedFacts ==
  ASSUME TypeOK, NEW a \in Activations, activation[a] # Unsent,
         activation' = [activation EXCEPT ![a].status = "closed"]
  PROVE  /\ activation' \in [Activations -> Activation \cup {Unsent}]
         /\ activation'[a].status = "closed"
         /\ \A b \in Activations : /\ activation'[b].kind = activation[b].kind
                                   /\ activation'[b] = Unsent <=> activation[b] = Unsent
                                   /\ b # a => activation'[b] = activation[b]
  <1>1. activation[a] \in Activation /\ activation'[a] = [activation[a] EXCEPT !.status = "closed"]
    BY DEF TypeOK
  <1>2. activation'[a] \in Activation /\ activation'[a].kind = activation[a].kind
        /\ activation'[a].status = "closed"
    BY <1>1 DEF Activation
  <1> QED BY <1>1, <1>2, UnsentFacts DEF TypeOK

\* Closing a send expires what is pending of it, and completes nothing.
LEMMA CloseKeeps ==
  ASSUME Inv, NEW p \in Authors, CloseCommit(p)
  PROVE  Inv'
  <1> DEFINE a == author[p].activation
  <1>1. a \in Activations /\ activation[a].kind = "camp" /\ activation[a] # Unsent
    BY UnsentFacts DEF Inv, TypeOK, AuthorRequest, CloseCommit, ClosersMeanCamps, Idle
  <1>2. /\ activation' = [activation EXCEPT ![a].status = "closed"]
        /\ action' = Expired(a)
        /\ author' = [author EXCEPT ![p] = Idle]
        /\ UNCHANGED <<answer, tab>>
    BY DEF CloseCommit, End, Begin
  <1>3. /\ activation' \in [Activations -> Activation \cup {Unsent}]
        /\ \A b \in Activations : /\ activation'[b].kind = activation[b].kind
                                  /\ activation'[b] = Unsent <=> activation[b] = Unsent
                                  /\ b # a => activation'[b] = activation[b]
    BY <1>1, <1>2, ClosedFacts DEF Inv
  <1>4. /\ action' \in [Users -> [Activations -> {"none", "pending", "completed", "expired"}]]
        /\ \A u \in Users, b \in Activations :
             /\ action'[u][b] = "completed" <=> action[u][b] = "completed"
             /\ action'[u][b] = "pending" => action[u][b] = "pending" /\ b # a
             /\ action[u][b] = "none" => action'[u][b] = "none"
    BY <1>1, <1>2 DEF Inv, TypeOK, Expired
  <1>5. TypeOK'
    BY <1>2, <1>3, <1>4 DEF Inv, TypeOK, AuthorRequest
  <1>6. TabsWereSent'
    BY <1>2, <1>3 DEF Inv, TypeOK, TabsWereSent
  <1>7. ClosersMeanCamps'
    <2> SUFFICES ASSUME NEW q \in Authors, author'[q].op = "close"
                 PROVE  activation'[author'[q].activation].kind = "camp"
      BY DEF ClosersMeanCamps
    <2>1. author'[q] = author[q]
      BY <1>2, UnsentFacts DEF Inv, TypeOK
    <2>2. activation[author[q].activation].kind = "camp" /\ author[q].activation \in Activations
      BY <2>1 DEF Inv, ClosersMeanCamps, TypeOK, AuthorRequest, Idle
    <2> QED BY <1>3, <2>1, <2>2
  <1>8. \A b \in Activations : Key(b)' = Key(b)
    BY <1>3 DEF Key
  <1>9. CompletersAnswered'
    BY <1>2, <1>8, UnsentFacts DEF Inv, TypeOK, CompletersAnswered
  <1>10. CompletedIsAnswered'
    BY <1>2, <1>4, <1>8 DEF Inv, CompletedIsAnswered
  <1>11. RecallIsComplete'
    BY <1>3, <1>4 DEF Inv, RecallIsComplete
  <1> QED BY <1>5, <1>6, <1>7, <1>9, <1>10, <1>11 DEF Inv

\* What is not a camp's is closed without a word to anybody.
LEMMA CloseActivationKeeps ==
  ASSUME Inv, NEW a \in Activations, CloseActivation(a)
  PROVE  Inv'
  <1>1. /\ activation' = [activation EXCEPT ![a].status = "closed"]
        /\ activation[a] # Unsent /\ activation[a].kind # "camp"
        /\ UNCHANGED <<action, answer, author, tab>>
    BY UnsentFacts DEF CloseActivation
  <1>2. /\ activation' \in [Activations -> Activation \cup {Unsent}]
        /\ \A b \in Activations : /\ activation'[b].kind = activation[b].kind
                                  /\ activation'[b] = Unsent <=> activation[b] = Unsent
                                  /\ b # a => activation'[b] = activation[b]
    BY <1>1, ClosedFacts DEF Inv
  <1>3. \A b \in Activations : Key(b)' = Key(b)
    BY <1>2 DEF Key
  <1>4. TypeOK'
    BY <1>1, <1>2 DEF Inv, TypeOK
  <1>5. TabsWereSent' /\ CompletersAnswered'
    BY <1>1, <1>2, <1>3, UnsentFacts DEF Inv, TypeOK, TabsWereSent, CompletersAnswered
  <1>6. ClosersMeanCamps'
    BY <1>1, <1>2 DEF Inv, TypeOK, AuthorRequest, ClosersMeanCamps, Idle
  <1>7. CompletedIsAnswered'
    BY <1>1, <1>3 DEF Inv, CompletedIsAnswered
  <1>8. RecallIsComplete'
    BY <1>1, <1>2 DEF Inv, RecallIsComplete
  <1> QED BY <1>4, <1>5, <1>6, <1>7, <1>8 DEF Inv

---------------------------------------------------------------------------
(* The recipients.                                                         *)

\* A tab that reads, or gives up, keeps the invariant.
LEMMA TabReadKeeps ==
  ASSUME Inv, NEW u \in Users, NEW r \in {Idle} \cup Tab, OnlyTab,
         tab' = [tab EXCEPT ![u] = r], r.op # "complete",
         r # Idle => activation[r.activation] # Unsent
  PROVE  Inv'
  <1>1. TypeOK'
    BY DEF Inv, TypeOK, OnlyTab, Tab
  <1>2. TabsWereSent' /\ CompletersAnswered'
    BY DEF Inv, TypeOK, TabsWereSent, CompletersAnswered, OnlyTab, Key
  <1> QED BY <1>1, <1>2
    DEF Inv, OnlyTab, ClosersMeanCamps, CompletedIsAnswered, RecallIsComplete, Key

\* An answer that is stored is an answer, under one key of one person.
LEMMA StoredFacts ==
  ASSUME TypeOK, NEW u \in Users, NEW a \in Activations
  PROVE  /\ Stored(u, a) \in [Users -> [Keys -> Activations \cup {"none"}]]
         /\ Stored(u, a)[u][Key(a)] # "none"
         /\ \A v \in Users, k \in Keys : answer[v][k] # "none" => Stored(u, a)[v][k] # "none"
  BY KeyType, QuestionnairesAssumption DEF TypeOK, Stored

\* Completing moves one action of one person, that was sent.
LEMMA CompletedFacts ==
  ASSUME TypeOK, NEW u \in Users, NEW a \in Activations
  PROVE  /\ Completed(u, a) \in [Users -> [Activations -> {"none", "pending", "completed", "expired"}]]
         /\ \A v \in Users, b \in Activations :
              /\ Completed(u, a)[v][b] = "none" <=> action[v][b] = "none"
              /\ Completed(u, a)[v][b] = "pending" => action[v][b] = "pending"
              /\ Completed(u, a)[v][b] = "completed" =>
                   action[v][b] = "completed" \/ (v = u /\ b = a)
  <1> DEFINE next == IF action[u][a] = "none" THEN action[u][a] ELSE "completed"
  <1>1. /\ next \in {"none", "pending", "completed", "expired"}
        /\ next = "none" <=> action[u][a] = "none"
        /\ next \in {"none", "completed"}
    BY DEF TypeOK
  <1>2. Completed(u, a) = [action EXCEPT ![u][a] = next]
    BY DEF TypeOK, Completed
  <1> HIDE DEF next
  <1>3. \A v \in Users, b \in Activations :
          Completed(u, a)[v][b] = IF v = u /\ b = a THEN next ELSE action[v][b]
    BY <1>2 DEF TypeOK
  <1>4. Completed(u, a) \in [Users -> [Activations -> {"none", "pending", "completed", "expired"}]]
    BY <1>1, <1>2 DEF TypeOK
  <1>5. ASSUME NEW v \in Users, NEW b \in Activations
        PROVE  /\ Completed(u, a)[v][b] = "none" <=> action[v][b] = "none"
               /\ Completed(u, a)[v][b] = "pending" => action[v][b] = "pending"
               /\ Completed(u, a)[v][b] = "completed" =>
                    action[v][b] = "completed" \/ (v = u /\ b = a)
    <2>1. CASE v = u /\ b = a
      BY <1>1, <1>3, <2>1
    <2>2. CASE v # u \/ b # a
      BY <1>3, <2>2
    <2> QED BY <2>1, <2>2
  <1> QED BY <1>4, <1>5

LEMMA StoreKeeps ==
  ASSUME Inv, NEW u \in Users, NEW a \in Activations, StoreAnswer(u, a)
  PROVE  Inv'
  <1>1. /\ UNCHANGED <<activation, action, author>>
        /\ answer' = Stored(u, a)
        /\ tab[u] = [op |-> "answer", activation |-> a]
        /\ tab'[u] = [op |-> "complete", activation |-> a]
        /\ \A v \in Users \ {u} : tab'[v] = tab[v]
        /\ tab' \in [Users -> {Idle} \cup Tab]
    BY DEF Inv, TypeOK, Tab, StoreAnswer
  <1>2. \A b \in Activations : Key(b)' = Key(b) /\ Key(b) \in Keys
    BY <1>1, KeyType DEF Key
  <1>3. TypeOK'
    BY <1>1, StoredFacts DEF Inv, TypeOK, Tab
  <1>4. TabsWereSent'
    BY <1>1, UnsentFacts DEF Inv, TabsWereSent, Idle
  <1>5. CompletersAnswered'
    <2> SUFFICES ASSUME NEW v \in Users, tab'[v].op = "complete"
                 PROVE  (answer[v][Key(tab[v].activation)])' # "none"
      BY DEF CompletersAnswered
    <2>1. CASE v = u
      <3>1. Key(tab[v].activation)' = Key(a)
        BY <1>1, <2>1 DEF Key
      <3> QED BY <1>1, <2>1, <3>1, StoredFacts DEF Inv
    <2>2. CASE v # u
      <3>1. tab'[v] = tab[v] /\ tab[v].op = "complete" /\ tab[v].activation \in Activations
        BY <1>1, <2>2, UnsentFacts DEF Inv, TypeOK
      <3>2. answer[v][Key(tab[v].activation)] # "none"
        BY <3>1 DEF Inv, CompletersAnswered
      <3>3. Key(tab[v].activation)' = Key(tab[v].activation)
        BY <1>1, <3>1 DEF Key
      <3> QED BY <1>1, <1>2, <3>1, <3>2, <3>3, StoredFacts DEF Inv
    <2> QED BY <2>1, <2>2
  <1>6. CompletedIsAnswered'
    BY <1>1, <1>2, StoredFacts DEF Inv, CompletedIsAnswered
  <1>7. ClosersMeanCamps' /\ RecallIsComplete'
    BY <1>1 DEF Inv, ClosersMeanCamps, RecallIsComplete
  <1> QED BY <1>3, <1>4, <1>5, <1>6, <1>7 DEF Inv

LEMMA CompleteKeeps ==
  ASSUME Inv, NEW u \in Users, NEW a \in Activations, CompleteAction(u, a)
  PROVE  Inv'
  <1>1. /\ UNCHANGED <<activation, answer, author>>
        /\ action' = Completed(u, a)
        /\ tab[u].op = "complete" /\ tab[u].activation = a
        /\ tab'[u] = Idle
        /\ \A v \in Users \ {u} : tab'[v] = tab[v]
        /\ tab' \in [Users -> {Idle} \cup Tab]
    BY DEF Inv, TypeOK, Tab, CompleteAction
  <1>2. \A b \in Activations : Key(b)' = Key(b)
    BY <1>1 DEF Key
  <1>3. TypeOK'
    BY <1>1, CompletedFacts DEF Inv, TypeOK, Tab
  <1>4. TabsWereSent' /\ CompletersAnswered'
    BY <1>1, UnsentFacts DEF Inv, TabsWereSent, CompletersAnswered, Key
  <1>5. CompletedIsAnswered'
    <2>1. answer[u][Key(a)] # "none"
      BY <1>1 DEF Inv, CompletersAnswered
    <2> QED BY <1>1, <1>2, <2>1, CompletedFacts DEF Inv, CompletedIsAnswered
  <1>6. ClosersMeanCamps' /\ RecallIsComplete'
    <2>1. \A v \in Users, b \in Activations : action'[v][b] = "pending" => action[v][b] = "pending"
      BY <1>1, CompletedFacts DEF Inv
    <2> QED BY <1>1, <2>1 DEF Inv, ClosersMeanCamps, RecallIsComplete
  <1> QED BY <1>3, <1>4, <1>5, <1>6 DEF Inv

LEMMA ConsoleKeeps ==
  ASSUME Inv, NEW u \in Users, NEW a \in Activations, ConsoleCommit(u, a)
  PROVE  Inv'
  <1>1. /\ UNCHANGED <<activation, author>>
        /\ answer' = Stored(u, a)
        /\ action' = Completed(u, a)
        /\ tab'[u] = Idle
        /\ \A v \in Users \ {u} : tab'[v] = tab[v]
        /\ tab' \in [Users -> {Idle} \cup Tab]
    BY DEF Inv, TypeOK, Tab, ConsoleCommit
  <1>2. \A b \in Activations : Key(b)' = Key(b) /\ Key(b) \in Keys
    BY <1>1, KeyType DEF Key
  <1>3. TypeOK'
    BY <1>1, StoredFacts, CompletedFacts DEF Inv, TypeOK, Tab
  <1>4. TabsWereSent'
    BY <1>1, UnsentFacts DEF Inv, TabsWereSent
  <1>5. CompletersAnswered'
    <2> SUFFICES ASSUME NEW v \in Users, tab'[v].op = "complete"
                 PROVE  (answer[v][Key(tab[v].activation)])' # "none"
      BY DEF CompletersAnswered
    <2>1. v # u /\ tab'[v] = tab[v] /\ tab[v].activation \in Activations
      BY <1>1, UnsentFacts DEF Inv, TypeOK
    <2>2. answer[v][Key(tab[v].activation)] # "none"
      BY <2>1 DEF Inv, CompletersAnswered
    <2>3. Key(tab[v].activation)' = Key(tab[v].activation)
      BY <1>1, <2>1 DEF Key
    <2> QED BY <1>1, <1>2, <2>1, <2>2, <2>3, StoredFacts DEF Inv
  <1>6. CompletedIsAnswered'
    BY <1>1, <1>2, StoredFacts, CompletedFacts DEF Inv, CompletedIsAnswered
  <1>7. ClosersMeanCamps' /\ RecallIsComplete'
    <2>1. \A v \in Users, b \in Activations : action'[v][b] = "pending" => action[v][b] = "pending"
      BY <1>1, CompletedFacts DEF Inv
    <2> QED BY <1>1, <2>1 DEF Inv, ClosersMeanCamps, RecallIsComplete
  <1> QED BY <1>3, <1>4, <1>5, <1>6, <1>7 DEF Inv

---------------------------------------------------------------------------
(* Theorems.                                                               *)

\* Every step keeps the invariant.
LEMMA NextKeeps == Inv /\ [Next]_vars => Inv'
  <1> SUFFICES ASSUME Inv, [Next]_vars PROVE Inv'
    OBVIOUS
  <1>1. ASSUME NEW p \in Authors, NEW kind \in Kinds, NEW blocking \in BOOLEAN,
               NEW targets \in SUBSET Users, SendRead(p, kind, blocking, targets)
        PROVE  Inv'
    <2> DEFINE r == [op |-> "send", kind |-> kind, blocking |-> blocking, targets |-> targets]
    <2>1. r \in AuthorRequest /\ r.op # "close"
      BY DEF AuthorRequest
    <2>2. Begin(p, r) /\ OnlyAuthor
      BY <1>1 DEF SendRead
    <2> QED BY <2>1, <2>2, AuthorReadKeeps
  <1>2. ASSUME NEW p \in Authors, NEW a \in Activations, CloseRead(p, a)
        PROVE  Inv'
    <2> DEFINE r == [op |-> "close", activation |-> a]
    <2>1. r \in AuthorRequest /\ activation[r.activation].kind = "camp"
      BY <1>2 DEF AuthorRequest, CloseRead
    <2>2. Begin(p, r) /\ OnlyAuthor
      BY <1>2 DEF CloseRead
    <2> QED BY <2>1, <2>2, AuthorReadKeeps
  <1>3. ASSUME NEW p \in Authors, AuthorDies(p)
        PROVE  Inv'
    <2>1. Idle \in AuthorRequest /\ Idle.op # "close"
      BY UnsentFacts DEF AuthorRequest
    <2> QED BY <1>3, <2>1, AuthorReadKeeps DEF AuthorDies, End
  <1>4. ASSUME NEW p \in Authors, SendCommit(p) \/ CloseCommit(p)
        PROVE  Inv'
    BY <1>4, SendKeeps, CloseKeeps
  <1>5. ASSUME NEW u \in Users, NEW a \in Activations, AnswerRead(u, a) \/ ConsoleRead(u, a)
        PROVE  Inv'
    <2>1. PICK op \in {"answer", "console"} :
            tab' = [tab EXCEPT ![u] = [op |-> op, activation |-> a]]
      BY <1>5 DEF AnswerRead, ConsoleRead
    <2>2. activation[a] # Unsent /\ OnlyTab
      BY <1>5, UnsentFacts DEF AnswerRead, ConsoleRead
    <2>3. [op |-> op, activation |-> a] \in {Idle} \cup Tab
      BY DEF Tab
    <2> QED BY <2>1, <2>2, <2>3, TabReadKeeps
  <1>6. ASSUME NEW u \in Users, TabDies(u)
        PROVE  Inv'
    BY <1>6, TabReadKeeps, UnsentFacts DEF TabDies
  <1>7. ASSUME NEW u \in Users, NEW a \in Activations,
               StoreAnswer(u, a) \/ CompleteAction(u, a) \/ ConsoleCommit(u, a)
        PROVE  Inv'
    BY <1>7, StoreKeeps, CompleteKeeps, ConsoleKeeps
  <1>8. ASSUME NEW a \in Activations, CloseActivation(a) PROVE Inv'
    BY <1>8, CloseActivationKeeps
  <1>9. CASE UNCHANGED vars
    BY <1>9 DEF vars, Inv, TypeOK, TabsWereSent, ClosersMeanCamps, CompletersAnswered,
                CompletedIsAnswered, RecallIsComplete, Key
  <1> QED BY <1>1, <1>2, <1>3, <1>4, <1>5, <1>6, <1>7, <1>8, <1>9 DEF Next

\* The inductive invariant of the questionnaires.
THEOREM QuestionnairesInvariance == Spec => []Inv
  BY InitInv, NextKeeps, PTL DEF Spec

\* Every variable keeps its type, and an action belongs to a send that was made.
THEOREM QuestionnairesTypeCorrect == Spec => []TypeOK
  <1>1. Inv => TypeOK
    BY DEF Inv
  <1> QED BY <1>1, QuestionnairesInvariance, PTL

\* Nobody counts as done without an answer, for any number of people and sends
\* (submitResponse, submitConsoleQuestionnaire).
THEOREM CompletionIsEarned == Spec => []CompletedIsAnswered
  <1>1. Inv => CompletedIsAnswered
    BY DEF Inv
  <1> QED BY <1>1, QuestionnairesInvariance, PTL

\* A recalled questionnaire leaves nobody's action pending (closeQuestionnaireAction).
THEOREM RecallReleases == Spec => []RecallIsComplete
  <1>1. Inv => RecallIsComplete
    BY DEF Inv
  <1> QED BY <1>1, QuestionnairesInvariance, PTL

---------------------------------------------------------------------------
(* Bulletins and reminders: what is typed, held and written.               *)

Saving == [op : {"save"}, bulletin : Bulletins, fans : BOOLEAN, row : Row]
Sending == [op : {"send"}, milestone : Milestones, camps : SUBSET Camps]

StaffType ==
  /\ bulletin \in [Bulletins -> Row \cup {Unwritten}]
  /\ lock \in [Bulletins -> Editors \cup {Unlocked}]
  /\ staff \in [Editors -> Saving \cup {Unoccupied}]
  /\ DOMAIN sent = Bulletins

\* Whoever is about to write a row holds its lock, and nobody else does.
LocksAreHeld ==
  \A p \in Editors, b \in Bulletins :
    lock[b] = p <=> staff[p] \in Saving /\ staff[p].bulletin = b

\* What is about to be written publishes only what was not, and keeps what was.
WritesAreCurrent ==
  \A p \in Editors : staff[p] \in Saving =>
    LET r == staff[p]
        was == bulletin[r.bulletin] IN
    /\ was \in Row
    /\ r.fans <=> r.row.published /\ ~was.published
    /\ was.published => /\ r.row.published
                        /\ r.row.title = was.title
                        /\ r.row.audience = was.audience

\* The invariant of the bulletins.
StaffInv == StaffType /\ LocksAreHeld /\ WritesAreCurrent /\ PublishedIsSentOnce

\* The invariant of the reminders.
ReminderInv ==
  /\ daysLeft \in 0..MaxDays
  /\ behind \subseteq Camps
  /\ run \in [Runs -> Sending \cup {Unoccupied}]
  /\ marker \in [Milestones -> (SUBSET Camps) \cup {Unclaimed}]
  /\ told \in [Camps -> [Milestones -> Nat]]
  /\ RemindedOnce

---------------------------------------------------------------------------
(* Bulletins.                                                              *)

\* A bulletin that was written has a title and an audience.
LEMMA RowsAreWritten == Unwritten \notin Row /\ Unoccupied \notin Saving /\ Unoccupied \notin Sending
  <1>1. \A r \in Row : DOMAIN r = {"title", "audience", "published"}
    BY DEF Row
  <1>2. DOMAIN Unwritten = {"published"}
    BY DEF Unwritten
  <1>3. \A r \in Saving \cup Sending : r.op # Unoccupied.op
    BY DEF Saving, Sending, Unoccupied
  <1> QED BY <1>1, <1>2, <1>3

\* A fan-out adds one sending of the row to the bulletin's, and to no other's.
LEMMA FanOutFacts ==
  ASSUME DOMAIN sent = Bulletins, NEW b \in Bulletins, NEW row \in Row, FanOut(b, row)
  PROVE  /\ DOMAIN sent' = Bulletins
         /\ \A c \in Bulletins \ {b} : sent'[c] = sent[c]
         /\ sent[b] = <<>> => /\ Len(sent'[b]) = 1
                              /\ sent'[b][1].title = row.title
                              /\ sent'[b][1].audience = row.audience
  BY DEF FanOut, Row

\* The invariant holds at the start.
LEMMA StaffInit == BroadcastsInit => StaffInv
  <1> SUFFICES ASSUME BroadcastsInit PROVE StaffInv
    OBVIOUS
  <1>1. StaffType
    BY DEF BroadcastsInit, StaffType
  <1>2. \A p \in Editors : staff[p] \notin Saving
    BY RowsAreWritten DEF BroadcastsInit
  <1>3. LocksAreHeld
    BY <1>2, BroadcastsAssumption DEF BroadcastsInit, LocksAreHeld, Unlocked
  <1>4. PublishedIsSentOnce
    BY DEF BroadcastsInit, PublishedIsSentOnce, Unwritten
  <1> QED BY <1>1, <1>2, <1>3, <1>4 DEF StaffInv, WritesAreCurrent

\* Taking a free row's lock, with a write that is current, keeps the invariant.
LEMMA TakingKeeps ==
  ASSUME StaffInv, NEW p \in Editors, NEW b \in Bulletins, NEW next \in Saving,
         staff[p] = Unoccupied, MayLock(b), bulletin[b] \in Row, next.bulletin = b,
         next.fans <=> next.row.published /\ ~bulletin[b].published,
         bulletin[b].published => /\ next.row.published
                                  /\ next.row.title = bulletin[b].title
                                  /\ next.row.audience = bulletin[b].audience,
         lock' = [lock EXCEPT ![b] = p], staff' = [staff EXCEPT ![p] = next],
         UNCHANGED <<bulletin, sent>>
  PROVE  StaffInv'
  <1>1. StaffType'
    BY DEF StaffInv, StaffType
  <1>2. LocksAreHeld'
    <2> SUFFICES ASSUME NEW q \in Editors, NEW c \in Bulletins
                 PROVE  lock'[c] = q <=> staff'[q] \in Saving /\ staff'[q].bulletin = c
      BY DEF LocksAreHeld
    <2>1. CASE q = p
      BY <2>1, RowsAreWritten, BroadcastsAssumption
         DEF StaffInv, StaffType, LocksAreHeld, MayLock, Unlocked
    <2>2. CASE q # p
      BY <2>2, BroadcastsAssumption DEF StaffInv, StaffType, LocksAreHeld, MayLock, Unlocked
    <2> QED BY <2>1, <2>2
  <1>3. WritesAreCurrent'
    BY DEF StaffInv, StaffType, WritesAreCurrent
  <1>4. PublishedIsSentOnce'
    BY DEF StaffInv, PublishedIsSentOnce
  <1> QED BY <1>1, <1>2, <1>3, <1>4 DEF StaffInv

\* Giving up the lock keeps what is said of the others.
LEMMA UnlockKeeps ==
  ASSUME StaffInv, NEW p \in Editors, Unlock(p)
  PROVE  /\ staff' \in [Editors -> Saving \cup {Unoccupied}]
         /\ lock' \in [Bulletins -> Editors \cup {Unlocked}]
         /\ LocksAreHeld'
         /\ \A q \in Editors : staff'[q] \in Saving => q # p /\ staff'[q] = staff[q]
  <1>1. staff' \in [Editors -> Saving \cup {Unoccupied}] /\ lock' \in [Bulletins -> Editors \cup {Unlocked}]
    BY DEF StaffInv, StaffType, Unlock
  <1>2. \A q \in Editors : staff'[q] \in Saving => q # p /\ staff'[q] = staff[q]
    BY RowsAreWritten DEF StaffInv, StaffType, Unlock
  <1>3. ASSUME NEW q \in Editors, NEW c \in Bulletins
        PROVE  lock'[c] = q <=> staff'[q] \in Saving /\ staff'[q].bulletin = c
    <2>1. CASE q = p
      BY <2>1, RowsAreWritten, BroadcastsAssumption
         DEF StaffInv, StaffType, LocksAreHeld, Unlock, Unlocked
    <2>2. CASE q # p
      BY <2>2, BroadcastsAssumption DEF StaffInv, StaffType, LocksAreHeld, Unlock, Unlocked
    <2> QED BY <2>1, <2>2
  <1> QED BY <1>1, <1>2, <1>3 DEF LocksAreHeld

\* A write under the lock.
LEMMA CommitKeeps ==
  ASSUME StaffInv, NEW p \in Editors, StaffCommit(p)
  PROVE  StaffInv'
  <1> DEFINE r == staff[p]
             b == r.bulletin
  <1>1. r \in Saving /\ b \in Bulletins /\ r.row \in Row
    BY DEF StaffInv, StaffType, StaffCommit, Saving, Unoccupied
  <1>2. Unlock(p) /\ bulletin' = [bulletin EXCEPT ![b] = r.row]
    BY DEF StaffCommit
  <1>3. /\ bulletin[b] \in Row
        /\ r.fans <=> r.row.published /\ ~bulletin[b].published
        /\ bulletin[b].published => /\ r.row.published
                                    /\ r.row.title = bulletin[b].title
                                    /\ r.row.audience = bulletin[b].audience
    BY <1>1 DEF StaffInv, WritesAreCurrent
  <1>4. /\ DOMAIN sent' = Bulletins
        /\ \A c \in Bulletins \ {b} : sent'[c] = sent[c]
        /\ ~r.fans => sent' = sent
        /\ r.fans /\ sent[b] = <<>> => /\ Len(sent'[b]) = 1
                                       /\ sent'[b][1].title = r.row.title
                                       /\ sent'[b][1].audience = r.row.audience
    <2>1. CASE r.fans
      <3>1. FanOut(b, r.row)
        BY <2>1 DEF StaffCommit
      <3> QED BY <1>1, <2>1, <3>1, FanOutFacts DEF StaffInv, StaffType
    <2>2. CASE ~r.fans
      BY <2>2 DEF StaffCommit, StaffInv, StaffType
    <2> QED BY <2>1, <2>2
  <1>5. StaffType'
    BY <1>1, <1>2, <1>4, UnlockKeeps DEF StaffInv, StaffType
  <1>6. LocksAreHeld'
    BY <1>2, UnlockKeeps
  <1>7. WritesAreCurrent'
    <2> SUFFICES ASSUME NEW q \in Editors, staff'[q] \in Saving
                 PROVE  LET s == staff'[q]
                            was == bulletin'[s.bulletin] IN
                        /\ was \in Row
                        /\ s.fans <=> s.row.published /\ ~was.published
                        /\ was.published => /\ s.row.published
                                            /\ s.row.title = was.title
                                            /\ s.row.audience = was.audience
      BY DEF WritesAreCurrent
    <2>1. q # p /\ staff'[q] = staff[q] /\ staff[q].bulletin \in Bulletins
      BY <1>2, UnlockKeeps DEF Saving
    <2>2. staff[q].bulletin # b
      BY <2>1, <1>1 DEF StaffInv, LocksAreHeld
    <2>3. bulletin'[staff[q].bulletin] = bulletin[staff[q].bulletin]
      BY <1>2, <2>1, <2>2 DEF StaffInv, StaffType
    <2> QED BY <2>1, <2>3 DEF StaffInv, WritesAreCurrent
  <1>8. PublishedIsSentOnce'
    <2> SUFFICES ASSUME NEW c \in Bulletins
                 PROVE  IF bulletin'[c].published
                          THEN /\ Len(sent'[c]) = 1
                               /\ sent'[c][1].title = bulletin'[c].title
                               /\ sent'[c][1].audience = bulletin'[c].audience
                          ELSE sent'[c] = <<>>
      BY DEF PublishedIsSentOnce
    <2>1. CASE c # b
      BY <2>1, <1>2, <1>4 DEF StaffInv, StaffType, PublishedIsSentOnce
    <2>2. CASE c = b
      <3>1. bulletin'[b] = r.row
        BY <1>1, <1>2 DEF StaffInv, StaffType
      <3>2. IF bulletin[b].published
              THEN /\ Len(sent[b]) = 1
                   /\ sent[b][1].title = bulletin[b].title
                   /\ sent[b][1].audience = bulletin[b].audience
              ELSE sent[b] = <<>>
        BY <1>1 DEF StaffInv, PublishedIsSentOnce
      <3> QED BY <2>2, <3>1, <3>2, <1>3, <1>4
    <2> QED BY <2>1, <2>2
  <1> QED BY <1>5, <1>6, <1>7, <1>8 DEF StaffInv

\* A bulletin that is written for the first time.
LEMMA CreateKeeps ==
  ASSUME StaffInv, NEW b \in Bulletins, NEW row \in Row, Create(b, row)
  PROVE  StaffInv'
  <1>1. /\ bulletin' = [bulletin EXCEPT ![b] = row]
        /\ bulletin[b] = Unwritten /\ ~bulletin[b].published
        /\ UNCHANGED <<lock, staff>>
    BY DEF Create, Unwritten
  <1>2. sent[b] = <<>>
    BY <1>1 DEF StaffInv, PublishedIsSentOnce
  <1>3. /\ DOMAIN sent' = Bulletins
        /\ \A c \in Bulletins \ {b} : sent'[c] = sent[c]
        /\ ~row.published => sent' = sent
        /\ row.published => /\ Len(sent'[b]) = 1
                            /\ sent'[b][1].title = row.title
                            /\ sent'[b][1].audience = row.audience
    <2>1. CASE row.published
      <3>1. FanOut(b, row)
        BY <2>1 DEF Create
      <3> QED BY <1>2, <2>1, <3>1, FanOutFacts DEF StaffInv, StaffType
    <2>2. CASE ~row.published
      BY <2>2 DEF Create, StaffInv, StaffType
    <2> QED BY <2>1, <2>2
  <1>4. StaffType' /\ LocksAreHeld'
    BY <1>1, <1>3 DEF StaffInv, StaffType, LocksAreHeld
  <1>5. WritesAreCurrent'
    <2>1. \A q \in Editors : staff[q] \in Saving => staff[q].bulletin # b
      BY <1>1, RowsAreWritten DEF StaffInv, WritesAreCurrent
    <2>2. \A q \in Editors : staff[q] \in Saving =>
            bulletin'[staff[q].bulletin] = bulletin[staff[q].bulletin]
      BY <1>1, <2>1 DEF StaffInv, StaffType
    <2> QED BY <1>1, <2>2 DEF StaffInv, WritesAreCurrent
  <1>6. PublishedIsSentOnce'
    BY <1>1, <1>2, <1>3 DEF StaffInv, StaffType, PublishedIsSentOnce
  <1> QED BY <1>4, <1>5, <1>6 DEF StaffInv

\* Every step of a staff request keeps the invariant of the bulletins.
LEMMA StaffStepKeeps ==
  ASSUME StaffInv, NEW p \in Editors, StaffStep(p)
  PROVE  StaffInv'
  <1>1. ASSUME NEW b \in Bulletins, NEW row \in Row, SaveRead(p, b, row)
        PROVE  StaffInv'
    <2> DEFINE next == [op |-> "save", bulletin |-> b,
                        fans |-> row.published /\ ~bulletin[b].published,
                        row |-> [row EXCEPT !.published = @ \/ bulletin[b].published]]
    <2>1. bulletin[b] \in Row
      BY <1>1 DEF SaveRead, StaffInv, StaffType
    <2>2. next \in Saving
      BY <2>1 DEF Saving, Row
    <2>3. /\ next.bulletin = b
          /\ next.fans <=> next.row.published /\ ~bulletin[b].published
          /\ bulletin[b].published => /\ next.row.published
                                      /\ next.row.title = bulletin[b].title
                                      /\ next.row.audience = bulletin[b].audience
      BY <1>1, <2>1 DEF SaveRead, Saves, Row
    <2>4. /\ staff[p] = Unoccupied /\ MayLock(b)
          /\ lock' = [lock EXCEPT ![b] = p] /\ staff' = [staff EXCEPT ![p] = next]
          /\ UNCHANGED <<bulletin, sent>>
      BY <1>1 DEF SaveRead
    <2> HIDE DEF next
    <2> QED BY <2>1, <2>2, <2>3, <2>4, TakingKeeps
  <1>2. ASSUME NEW b \in Bulletins, PublishRead(p, b)
        PROVE  StaffInv'
    <2> DEFINE next == [op |-> "save", bulletin |-> b, fans |-> TRUE,
                        row |-> [bulletin[b] EXCEPT !.published = TRUE]]
    <2>1. bulletin[b] \in Row /\ ~bulletin[b].published
      BY <1>2 DEF PublishRead, StaffInv, StaffType
    <2>2. next \in Saving /\ next.row.published
      BY <2>1 DEF Saving, Row
    <2>3. /\ staff[p] = Unoccupied /\ MayLock(b)
          /\ lock' = [lock EXCEPT ![b] = p] /\ staff' = [staff EXCEPT ![p] = next]
          /\ UNCHANGED <<bulletin, sent>>
      BY <1>2 DEF PublishRead
    <2>4. next.bulletin = b /\ next.fans = TRUE
      OBVIOUS
    <2> HIDE DEF next
    <2> QED BY <2>1, <2>2, <2>3, <2>4, TakingKeeps
  <1>3. CASE StaffCommit(p)
    BY <1>3, CommitKeeps
  <1>4. CASE StaffDies(p)
    BY <1>4, UnlockKeeps
       DEF StaffDies, StaffInv, StaffType, WritesAreCurrent, PublishedIsSentOnce
  <1> QED BY <1>1, <1>2, <1>3, <1>4 DEF StaffStep

---------------------------------------------------------------------------
(* Reminders.                                                              *)

\* The invariant of the reminders holds at the start.
LEMMA ReminderInit == BroadcastsInit => ReminderInv
  <1> SUFFICES ASSUME BroadcastsInit PROVE ReminderInv
    OBVIOUS
  <1>1. RemindedOnce
    BY DEF BroadcastsInit, RemindedOnce
  <1> QED BY <1>1, BroadcastsAssumption DEF BroadcastsInit, ReminderInv

\* The run that claims a milestone tells each camp it gathered, once.
LEMMA ClaimKeeps ==
  ASSUME ReminderInv, NEW r \in Runs, ClaimAndSend(r)
  PROVE  ReminderInv'
  <1> DEFINE m == run[r].milestone
             camps == run[r].camps
  <1>1. m \in Milestones /\ camps \in SUBSET Camps
    BY DEF ReminderInv, ClaimAndSend, Sending, Unoccupied
  <1>2. camps # Unclaimed
    BY <1>1, BroadcastsAssumption DEF Unclaimed
  <1>3. told' \in [Camps -> [Milestones -> Nat]]
    BY <1>1 DEF ReminderInv, ClaimAndSend, TellCamps
  <1>4. RemindedOnce'
    <2> SUFFICES ASSUME NEW c \in Camps, NEW n \in Milestones
                 PROVE  told'[c][n] = IF marker'[n] # Unclaimed /\ c \in marker'[n] THEN 1 ELSE 0
      BY DEF RemindedOnce
    <2>1. told[c][n] = IF marker[n] # Unclaimed /\ c \in marker[n] THEN 1 ELSE 0
      BY DEF ReminderInv, RemindedOnce
    <2>2. told'[c][n] = IF c \in camps /\ n = m THEN told[c][n] + 1 ELSE told[c][n]
      BY <1>1 DEF ReminderInv, ClaimAndSend, TellCamps
    <2>3. /\ marker[m] = Unclaimed
          /\ marker'[n] = IF n = m THEN camps ELSE marker[n]
      BY <1>1 DEF ReminderInv, ClaimAndSend, Claimable
    <2> QED BY <1>2, <2>1, <2>2, <2>3
  <1> QED BY <1>1, <1>3, <1>4 DEF ReminderInv, ClaimAndSend

\* Every other step of the reminders keeps their invariant.
LEMMA ReminderStepKeeps ==
  ASSUME ReminderInv,
         \/ \E r \in Runs : Gather(r) \/ ClaimAndSend(r) \/ RunEnds(r)
         \/ \E c \in Camps : Moves(c)
         \/ DayPasses
         \/ CloseMoves
  PROVE  ReminderInv'
  <1>1. ASSUME NEW r \in Runs, Gather(r)
        PROVE  ReminderInv'
    BY <1>1 DEF Gather, Due, ReminderInv, RemindedOnce, Sending
  <1>2. ASSUME NEW r \in Runs, RunEnds(r)
        PROVE  ReminderInv'
    BY <1>2 DEF RunEnds, ReminderInv, RemindedOnce
  <1>3. ASSUME NEW c \in Camps, Moves(c)
        PROVE  ReminderInv'
    BY <1>3 DEF Moves, ReminderInv, RemindedOnce
  <1>4. CASE DayPasses
    BY <1>4, BroadcastsAssumption DEF DayPasses, ReminderInv, RemindedOnce
  <1>5. CASE CloseMoves
    BY <1>5, BroadcastsAssumption DEF CloseMoves, ReminderInv, RemindedOnce
  <1> QED BY <1>1, <1>2, <1>3, <1>4, <1>5, ClaimKeeps

---------------------------------------------------------------------------
(* Theorems.                                                               *)

\* The bulletins and the reminders move apart.
THEOREM BroadcastsInvariance == BroadcastsSpec => [](StaffInv /\ ReminderInv)
  <1>1. BroadcastsInit => StaffInv /\ ReminderInv
    BY StaffInit, ReminderInit
  <1>2. StaffInv /\ ReminderInv /\ [BroadcastsNext]_broadcastVars => StaffInv' /\ ReminderInv'
    <2> SUFFICES ASSUME StaffInv, ReminderInv, [BroadcastsNext]_broadcastVars
                 PROVE  StaffInv' /\ ReminderInv'
      OBVIOUS
    <2>1. ASSUME UNCHANGED bulletinVars PROVE StaffInv'
      BY <2>1 DEF bulletinVars, StaffInv, StaffType, LocksAreHeld, WritesAreCurrent, PublishedIsSentOnce
    <2>2. ASSUME UNCHANGED reminderVars PROVE ReminderInv'
      BY <2>2 DEF reminderVars, ReminderInv, RemindedOnce
    <2>3. ASSUME NEW b \in Bulletins, NEW row \in Row, Create(b, row)
          PROVE  StaffInv' /\ ReminderInv'
      BY <2>2, <2>3, CreateKeeps DEF Create
    <2>4. ASSUME NEW p \in Editors, StaffStep(p)
          PROVE  StaffInv' /\ ReminderInv'
      BY <2>2, <2>4, StaffStepKeeps
         DEF StaffStep, SaveRead, PublishRead, StaffCommit, StaffDies
    <2>5. CASE \/ \E r \in Runs : Gather(r) \/ ClaimAndSend(r) \/ RunEnds(r)
               \/ \E c \in Camps : Moves(c)
               \/ DayPasses
               \/ CloseMoves
      <3>1. UNCHANGED bulletinVars
        BY <2>5 DEF Gather, ClaimAndSend, RunEnds, Moves, DayPasses, CloseMoves
      <3> QED BY <2>1, <2>5, <3>1, ReminderStepKeeps
    <2>6. CASE UNCHANGED broadcastVars
      BY <2>1, <2>2, <2>6 DEF broadcastVars
    <2> QED BY <2>3, <2>4, <2>5, <2>6 DEF BroadcastsNext
  <1> QED BY <1>1, <1>2, PTL DEF BroadcastsSpec

\* A bulletin is published if and only if it was sent, once, and as it reads since.
THEOREM PublicationIsOnce == BroadcastsSpec => []PublishedIsSentOnce
  <1>1. StaffInv /\ ReminderInv => PublishedIsSentOnce
    BY DEF StaffInv
  <1> QED BY <1>1, BroadcastsInvariance, PTL

\* A milestone's marker names exactly the camps that were reminded, each once.
THEOREM RemindersAreOnce == BroadcastsSpec => []RemindedOnce
  <1>1. StaffInv /\ ReminderInv => RemindedOnce
    BY DEF ReminderInv
  <1> QED BY <1>1, BroadcastsInvariance, PTL
================================================================================
