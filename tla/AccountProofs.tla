---------------------------- MODULE AccountProofs ----------------------------
(***************************************************************************)
(* Theorems about a person's account.  First BurnerBio, for every set of   *)
(* people, tabs, editions, notes and keys; then EmailChange, for every set *)
(* of addresses and any number of requests; last AccountDeletion, for      *)
(* every set of camps and of runs of the sweep, of any length.             *)
(***************************************************************************)
EXTENDS BurnerBio, EmailChange, AccountDeletion, FiniteSetTheorems, TLAPS

Text == Notes \cup {Blank}
Stored == Cipher \cup {Empty}
Bio == [exists : BOOLEAN, completed : BOOLEAN, notes : Stored]

TabType ==
  /\ DOMAIN tab = Tabs
  /\ \A t \in Tabs :
       /\ tab[t].op \in {"closed", "form", "save"}
       /\ tab[t].op # "closed" => tab[t].user \in Burners
       /\ tab[t].op = "save" => /\ tab[t].typed \in Text
                                /\ tab[t].edition \in Editions
                                /\ tab[t].final \in BOOLEAN
                                /\ tab[t].notes \in Stored

TypeInv ==
  /\ edition \in Editions
  /\ key \in Keys \cup {NoKey}
  /\ bio \in [Burners -> [Editions -> Bio]]
  /\ \A u \in Burners, e \in Editions : bio[u][e].notes # Empty => bio[u][e].exists
  /\ action \in [Burners -> [Editions -> {"none", "pending", "completed"}]]
  /\ erased \subseteq Burners
  /\ TabType

\* A request still in flight when its account was erased is marked as overtaken.
ErasureOvertakes ==
  \A t \in Tabs : tab[t].op = "save" /\ tab[t].user \in erased => <<t, "request">> \in overtaken

\* What a form can show of some notes, it shows.
Shows(shown, notes) == notes = Empty \/ notes.key # key \/ shown = notes.text

\* A form that nothing overtook shows the notes of its edition, or cannot.
FormsAreCurrent ==
  \A t \in Tabs : tab[t].op \in {"form", "save"} /\ <<t, "form">> \notin overtaken =>
    Shows(tab[t].shown, bio[tab[t].user][edition].notes)

\* NextNotes, with the key it depends on made explicit.
NotesUnder(k, typed, stored) ==
  CASE typed # Blank -> [key |-> k, text |-> typed]
    [] stored # Empty /\ stored.key # k -> stored
    [] OTHER -> Empty

\* A request of a form that nothing overtook computed what it writes from it.
RequestsAreCurrent ==
  \A t \in Tabs : tab[t].op = "save" /\ <<t, "form">> \notin overtaken =>
    /\ tab[t].edition = edition
    /\ tab[t].notes = NotesUnder(key, tab[t].typed, bio[tab[t].user][edition].notes)

Inv ==
  /\ TypeInv
  /\ ErasureOvertakes
  /\ FormsAreCurrent
  /\ RequestsAreCurrent
  /\ GateAgreesWithBio

---------------------------------------------------------------------------
(* The rules.                                                              *)

\* What is written can be stored.
LEMMA NextNotesType ==
  ASSUME TypeInv, NEW typed \in Text, NEW stored \in Stored,
         typed # Blank => key # NoKey
  PROVE  NextNotes(typed, stored) \in Stored
  BY DEF TypeInv, NextNotes, Stored, Cipher, Text, Empty, Unreadable

LEMMA NextNotesUnder ==
  ASSUME NEW typed, NEW stored
  PROVE  NextNotes(typed, stored) = NotesUnder(key, typed, stored)
  BY DEF NextNotes, NotesUnder, Unreadable

\* What is typed is stored as typed; nothing typed clears only what is readable.
LEMMA NextNotesFacts ==
  ASSUME NEW typed \in Text, NEW stored \in Stored
  PROVE  /\ Shows(typed, NextNotes(typed, stored))
         /\ NextNotes(typed, stored) = Empty => stored = Empty \/ stored.key = key
  BY BurnerBioAssumption DEF NextNotes, Shows, Unreadable, Stored, Cipher, Text, Empty

\* A form opens on this edition's notes where there are any that can be read.
LEMMA OpenedShows ==
  ASSUME TypeInv, NEW u \in Burners
  PROVE  Shows(Shown(Opened(u)), bio[u][edition].notes)
  <1> DEFINE stored == bio[u][edition].notes
             known == {e \in Editions : e <= edition /\ bio[u][e].exists}
  <1>1. CASE stored = Empty
    BY <1>1 DEF Shows
  <1>2. CASE stored # Empty
    <2>1. edition \in known /\ \A f \in known : f <= edition
      BY <1>2, BurnerBioAssumption DEF TypeInv
    <2>2. ASSUME NEW e \in known, \A f \in known : f <= e
          PROVE  e = edition
      <3>1. e \in Nat /\ edition \in Nat /\ e <= edition
        BY <2>1, BurnerBioAssumption
      <3>2. edition <= e
        BY <2>1, <2>2
      <3> QED BY <3>1, <3>2
    <2> DEFINE last == CHOOSE e \in known : \A f \in known : f <= e
    <2>3. last \in known /\ \A f \in known : f <= last
      <3>1. \E e \in known : \A f \in known : f <= e
        BY <2>1
      <3> HIDE DEF known
      <3> QED BY <3>1
    <2>4. Opened(u) = stored
      BY <2>1, <2>2, <2>3 DEF Opened
    <2> QED BY <2>4 DEF Shows, Shown, Unreadable
  <1> QED BY <1>1, <1>2
---------------------------------------------------------------------------
(* The actions.                                                            *)

\* The invariant holds at the start.
LEMMA InitInv == Init => Inv
  <1> SUFFICES ASSUME Init PROVE Inv
    OBVIOUS
  <1>1. edition \in Editions
    BY BurnerBioAssumption DEF Init
  <1>2. Empty \in Stored /\ NoBio \in Bio /\ NoBio.notes = Empty /\ ~NoBio.completed
    BY DEF NoBio, Bio, Stored
  <1>3. \A t \in Tabs : tab[t].op = "closed"
    BY DEF Init, Closed
  <1>4. \A u \in Burners, e \in Editions : bio[u][e] = NoBio /\ action[u][e] = "none"
    BY DEF Init
  <1>5. TypeInv
    BY <1>1, <1>2, <1>3, <1>4 DEF Init, TypeInv, TabType
  <1>6. GateAgreesWithBio
    BY <1>2, <1>4 DEF GateAgreesWithBio
  <1> QED BY <1>3, <1>5, <1>6
    DEF Inv, ErasureOvertakes, FormsAreCurrent, RequestsAreCurrent

\* Asking for the bio again changes no answer of the gate.
LEMMA EnsuredFacts ==
  ASSUME TypeInv, NEW u \in Burners
  PROVE  /\ Ensured(u) \in [Burners -> [Editions -> {"none", "pending", "completed"}]]
         /\ \A v \in Burners, e \in Editions :
              Ensured(u)[v][e] = "completed" <=> action[v][e] = "completed"
  BY DEF TypeInv, Ensured

\* Another tab's form that is open is overtaken by what this tab writes.
LEMMA OthersAreOvertaken ==
  ASSUME NEW t \in Tabs, NEW s \in Tabs \ {t}, Overtakes(t)
  PROVE  /\ tab[s].op \in {"form", "save"} => <<s, "form">> \in overtaken'
         /\ tab[s].op = "save" => <<s, "request">> \in overtaken'
  <1>1. tab[s].op \in {"form", "save"} => tab[s] # Closed
    BY DEF Closed
  <1> QED BY <1>1 DEF Overtakes, InProgress

\* Every form that is open, and every request, is overtaken by what no tab does.
LEMMA AllAreOvertaken ==
  ASSUME NEW s \in Tabs, Overtaken
  PROVE  /\ tab[s].op \in {"form", "save"} => <<s, "form">> \in overtaken'
         /\ tab[s].op = "save" => <<s, "request">> \in overtaken'
  <1>1. tab[s].op \in {"form", "save"} => tab[s] # Closed
    BY DEF Closed
  <1> QED BY <1>1 DEF Overtaken, InProgress

\* Opening the form.
LEMMA OpenFormKeeps ==
  ASSUME Inv, NEW t \in Tabs, NEW u \in Burners, OpenForm(t, u)
  PROVE  Inv'
  <1>1. /\ UNCHANGED <<edition, key, bio, erased, overtaken>>
        /\ tab'[t] = [op |-> "form", user |-> u, shown |-> Shown(Opened(u))]
        /\ \A s \in Tabs \ {t} : tab'[s] = tab[s]
        /\ action' = Ensured(u)
    BY DEF Inv, TypeInv, TabType, OpenForm
  <1>2. TypeInv'
    BY <1>1, EnsuredFacts DEF Inv, TypeInv, TabType, OpenForm
  <1>3. ErasureOvertakes'
    BY <1>1 DEF Inv, ErasureOvertakes
  <1>4. FormsAreCurrent'
    BY <1>1, OpenedShows DEF Inv, FormsAreCurrent, Shows
  <1>5. RequestsAreCurrent'
    BY <1>1 DEF Inv, RequestsAreCurrent
  <1>6. GateAgreesWithBio'
    BY <1>1, EnsuredFacts DEF Inv, GateAgreesWithBio
  <1> QED BY <1>2, <1>3, <1>4, <1>5, <1>6 DEF Inv

\* Sending the form: what it will write is computed from what is stored.
LEMMA PressKeeps ==
  ASSUME Inv, NEW t \in Tabs, NEW typed \in Text, NEW final \in BOOLEAN,
         Press(t, typed, final)
  PROVE  Inv'
  <1> DEFINE u == tab[t].user
  <1>1. /\ UNCHANGED <<edition, key, bio, erased>>
        /\ tab[t].op = "form" /\ u \in Burners /\ MayPress(u, typed)
        /\ tab'[t] = [op |-> "save", user |-> u, shown |-> tab[t].shown, typed |-> typed,
                      edition |-> edition, final |-> final,
                      notes |-> NextNotes(typed, bio[u][edition].notes)]
        /\ \A s \in Tabs \ {t} : tab'[s] = tab[s]
        /\ action' = Ensured(u)
        /\ overtaken' = overtaken \ {<<t, "request">>}
    BY DEF Inv, TypeInv, TabType, Press
  <1>2. NextNotes(typed, bio[u][edition].notes) \in Stored
    BY <1>1, NextNotesType DEF Inv, TypeInv, Bio, MayPress
  <1>3. TypeInv'
    <2>1. action' \in [Burners -> [Editions -> {"none", "pending", "completed"}]]
      BY <1>1, EnsuredFacts DEF Inv
    <2>2. DOMAIN tab' = Tabs
      BY DEF Inv, TypeInv, TabType, Press
    <2>3. edition \in Editions /\ TabType
      BY DEF Inv, TypeInv
    <2>4. TabType'
      BY <1>1, <1>2, <2>2, <2>3 DEF TabType
    <2> QED BY <1>1, <2>1, <2>4 DEF Inv, TypeInv
  <1>4. ErasureOvertakes'
    BY <1>1 DEF Inv, ErasureOvertakes, MayPress
  <1>5. FormsAreCurrent'
    <2> SUFFICES ASSUME NEW s \in Tabs, tab'[s].op \in {"form", "save"},
                        <<s, "form">> \notin overtaken'
                 PROVE  Shows(tab[s].shown, bio[tab[s].user][edition].notes)'
      BY DEF FormsAreCurrent
    <2>1. /\ tab'[s].shown = tab[s].shown /\ tab'[s].user = tab[s].user
          /\ tab[s].op \in {"form", "save"} /\ <<s, "form">> \notin overtaken
      BY <1>1
    <2>2. Shows(tab[s].shown, bio[tab[s].user][edition].notes)
      BY <2>1 DEF Inv, FormsAreCurrent
    <2> QED BY <1>1, <2>1, <2>2 DEF Shows
  <1>6. RequestsAreCurrent'
    <2> SUFFICES ASSUME NEW s \in Tabs, tab'[s].op = "save", <<s, "form">> \notin overtaken'
                 PROVE  /\ tab'[s].edition = edition'
                        /\ tab'[s].notes = NotesUnder(key', tab'[s].typed, bio'[tab'[s].user][edition'].notes)
      BY DEF RequestsAreCurrent
    <2>1. CASE s = t
      <3>1. tab'[t].edition = edition /\ tab'[t].typed = typed /\ tab'[t].user = u
        BY <1>1
      <3>2. tab'[t].notes = NotesUnder(key, typed, bio[u][edition].notes)
        BY <1>1, NextNotesUnder
      <3> QED BY <1>1, <2>1, <3>1, <3>2
    <2>2. CASE s # t
      <3>1. tab'[s] = tab[s] /\ <<s, "form">> \notin overtaken
        BY <1>1, <2>2
      <3>2. /\ tab[s].edition = edition
            /\ tab[s].notes = NotesUnder(key, tab[s].typed, bio[tab[s].user][edition].notes)
        BY <3>1 DEF Inv, RequestsAreCurrent
      <3> QED BY <1>1, <3>1, <3>2
    <2> QED BY <2>1, <2>2
  <1>7. GateAgreesWithBio'
    BY <1>1, EnsuredFacts DEF Inv, GateAgreesWithBio
  <1> QED BY <1>3, <1>4, <1>5, <1>6, <1>7 DEF Inv

\* What a save writes.
Saved(t) ==
  LET r == tab[t] IN
  /\ UNCHANGED <<edition, key, erased>>
  /\ r.op = "save" /\ r.user \in Burners /\ r.edition \in Editions
  /\ r.final \in BOOLEAN /\ r.typed \in Text /\ r.notes \in Stored
  /\ bio' \in [Burners -> [Editions -> Bio]]
  /\ bio'[r.user][r.edition] =
       [exists |-> TRUE, completed |-> bio[r.user][r.edition].completed \/ r.final,
        notes |-> r.notes]
  /\ \A v \in Burners, e \in Editions :
       v # r.user \/ e # r.edition => bio'[v][e] = bio[v][e]
  /\ tab'[t] = [op |-> "form", user |-> r.user, shown |-> r.typed]
  /\ \A s \in Tabs \ {t} : tab'[s] = tab[s]
  /\ DOMAIN tab' = Tabs
  /\ \A s \in Tabs \ {t} :
       /\ tab[s].op \in {"form", "save"} => <<s, "form">> \in overtaken'
       /\ tab[s].op = "save" => <<s, "request">> \in overtaken'
  /\ <<t, "form">> \in overtaken => <<t, "form">> \in overtaken'

LEMMA SaveFacts ==
  ASSUME Inv, NEW t \in Tabs, Save(t)
  PROVE  Saved(t)
  <1>1. /\ tab[t].op = "save" /\ tab[t].user \in Burners /\ tab[t].edition \in Editions
        /\ tab[t].final \in BOOLEAN /\ tab[t].typed \in Text /\ tab[t].notes \in Stored
    BY DEF Inv, TypeInv, TabType, Save
  <1>2. bio[tab[t].user][tab[t].edition] \in Bio
    BY <1>1 DEF Inv, TypeInv
  <1>3. [exists |-> TRUE,
         completed |-> bio[tab[t].user][tab[t].edition].completed \/ tab[t].final,
         notes |-> tab[t].notes] \in Bio
    BY <1>1, <1>2 DEF Bio
  <1>4. Overtakes(t)
    BY DEF Save
  <1>5. \A s \in Tabs \ {t} :
          /\ tab[s].op \in {"form", "save"} => <<s, "form">> \in overtaken'
          /\ tab[s].op = "save" => <<s, "request">> \in overtaken'
    BY <1>4, OthersAreOvertaken
  <1>6. overtaken \subseteq overtaken'
    BY <1>4 DEF Overtakes
  <1> QED BY <1>1, <1>3, <1>5, <1>6 DEF Inv, TypeInv, TabType, Save, Finished, Saved

\* The bio and its gate, in one transaction.
LEMMA SaveKeeps ==
  ASSUME Inv, NEW t \in Tabs, Save(t)
  PROVE  Inv'
  <1> DEFINE r == tab[t]
  <1>0. Saved(t)
    BY SaveFacts
  <1>1. r.final => action' = [action EXCEPT ![r.user][r.edition] = "completed"]
    BY DEF Save
  <1>2. ~r.final => action' = action
    BY DEF Save
  <1>3. TypeInv'
    <2>1. action' \in [Burners -> [Editions -> {"none", "pending", "completed"}]]
      <3>1. r.user \in Burners /\ r.edition \in Editions /\ r.final \in BOOLEAN
        BY <1>0 DEF Saved
      <3>2. action \in [Burners -> [Editions -> {"none", "pending", "completed"}]]
        BY DEF Inv, TypeInv
      <3> HIDE DEF r
      <3> QED BY <1>1, <1>2, <3>1, <3>2
    <2>2. TabType'
      <3>1. /\ r.user \in Burners /\ DOMAIN tab' = Tabs
            /\ tab'[t] = [op |-> "form", user |-> r.user, shown |-> r.typed]
            /\ \A s \in Tabs \ {t} : tab'[s] = tab[s]
        BY <1>0 DEF Saved
      <3>2. TabType
        BY DEF Inv, TypeInv
      <3> HIDE DEF r
      <3> QED BY <3>1, <3>2 DEF TabType
    <2>3. \A v \in Burners, e \in Editions : bio'[v][e].notes # Empty => bio'[v][e].exists
      <3> SUFFICES ASSUME NEW v \in Burners, NEW e \in Editions, bio'[v][e].notes # Empty
                   PROVE  bio'[v][e].exists
        OBVIOUS
      <3>1. CASE v = r.user /\ e = r.edition
        BY <1>0, <3>1 DEF Saved
      <3>2. CASE v # r.user \/ e # r.edition
        BY <1>0, <3>2 DEF Saved, Inv, TypeInv
      <3> QED BY <3>1, <3>2
    <2> QED BY <2>1, <2>2, <2>3, <1>0 DEF Saved, Inv, TypeInv
  <1>4. ErasureOvertakes'
    <2>1. ASSUME NEW s \in Tabs, tab'[s].op = "save"
          PROVE  <<s, "request">> \in overtaken'
      <3>1. tab'[t].op = "form"
        BY <1>0 DEF Saved
      <3>2. s \in Tabs \ {t}
        BY <2>1, <3>1
      <3>3. tab[s].op = "save"
        BY <1>0, <2>1, <3>2 DEF Saved
      <3> QED BY <1>0, <3>2, <3>3 DEF Saved
    <2> QED BY <2>1 DEF ErasureOvertakes
  <1>5. FormsAreCurrent'
    <2> SUFFICES ASSUME NEW s \in Tabs, tab'[s].op \in {"form", "save"},
                        <<s, "form">> \notin overtaken'
                 PROVE  Shows(tab[s].shown, bio[tab[s].user][edition].notes)'
      BY DEF FormsAreCurrent
    <2>1. s = t
      BY <1>0 DEF Saved
    <2>2. <<t, "form">> \notin overtaken
      BY <2>1, <1>0 DEF Saved
    <2>3. r.edition = edition /\ r.notes = NotesUnder(key, r.typed, bio[r.user][edition].notes)
      BY <2>2, <1>0 DEF Saved, Inv, RequestsAreCurrent
    <2>4. Shows(r.typed, r.notes)
      BY <2>3, <1>0, NextNotesFacts, NextNotesUnder DEF Saved, Inv, TypeInv, Bio
    <2>5. /\ tab'[t].shown = r.typed /\ tab'[t].user = r.user
          /\ bio'[r.user][r.edition].notes = r.notes
          /\ edition' = edition /\ key' = key
      BY <1>0 DEF Saved
    <2> HIDE DEF r
    <2> QED BY <2>1, <2>3, <2>4, <2>5 DEF Shows
  <1>6. RequestsAreCurrent'
    <2>1. ASSUME NEW s \in Tabs, tab'[s].op = "save"
          PROVE  <<s, "form">> \in overtaken'
      <3>1. tab'[t].op = "form"
        BY <1>0 DEF Saved
      <3>2. s \in Tabs \ {t}
        BY <2>1, <3>1
      <3>3. tab[s].op = "save"
        BY <1>0, <2>1, <3>2 DEF Saved
      <3> QED BY <1>0, <3>2, <3>3 DEF Saved
    <2> QED BY <2>1 DEF RequestsAreCurrent
  <1>7. GateAgreesWithBio'
    <2> SUFFICES ASSUME NEW v \in Burners, NEW e \in Editions
                 PROVE  bio'[v][e].completed <=> action'[v][e] = "completed"
      BY DEF GateAgreesWithBio
    <2>1. CASE v = r.user /\ e = r.edition
      <3>1. r.final \in BOOLEAN /\ bio'[v][e].completed = (bio[v][e].completed \/ r.final)
        BY <1>0, <2>1 DEF Saved
      <3>2. bio[v][e].completed <=> action[v][e] = "completed"
        BY DEF Inv, GateAgreesWithBio
      <3>3. CASE r.final
        <4>1. action'[v][e] = "completed"
          BY <1>1, <2>1, <3>3 DEF Inv, TypeInv
        <4> QED BY <3>1, <3>3, <4>1
      <3>4. CASE ~r.final
        BY <1>2, <3>1, <3>2, <3>4
      <3> QED BY <3>3, <3>4
    <2>2. CASE v # r.user \/ e # r.edition
      BY <1>1, <1>2, <2>2, <1>0 DEF Saved, Inv, TypeInv, GateAgreesWithBio
    <2> QED BY <2>1, <2>2
  <1> QED BY <1>3, <1>4, <1>5, <1>6, <1>7 DEF Inv

\* A request that came to nothing, and a tab that closes.
LEMMA FailKeeps ==
  ASSUME Inv, NEW t \in Tabs, Fail(t)
  PROVE  Inv'
  <1>1. /\ UNCHANGED <<edition, key, bio, action, erased, overtaken>>
        /\ tab[t].op = "save"
        /\ tab'[t] = [op |-> "form", user |-> tab[t].user, shown |-> tab[t].shown]
        /\ \A s \in Tabs \ {t} : tab'[s] = tab[s]
        /\ DOMAIN tab' = Tabs
    BY DEF Inv, TypeInv, TabType, Fail
  <1>2. TypeInv'
    BY <1>1 DEF Inv, TypeInv, TabType
  <1>3. ErasureOvertakes' /\ FormsAreCurrent' /\ GateAgreesWithBio'
    BY <1>1 DEF Inv, ErasureOvertakes, FormsAreCurrent, GateAgreesWithBio, Shows
  <1>4. RequestsAreCurrent'
    <2> SUFFICES ASSUME NEW s \in Tabs, tab'[s].op = "save", <<s, "form">> \notin overtaken'
                 PROVE  /\ tab'[s].edition = edition'
                        /\ tab'[s].notes = NotesUnder(key', tab'[s].typed, bio'[tab'[s].user][edition'].notes)
      BY DEF RequestsAreCurrent
    <2>1. tab'[s] = tab[s] /\ <<s, "form">> \notin overtaken
      BY <1>1
    <2>2. /\ tab[s].edition = edition
          /\ tab[s].notes = NotesUnder(key, tab[s].typed, bio[tab[s].user][edition].notes)
      BY <2>1 DEF Inv, RequestsAreCurrent
    <2> QED BY <1>1, <2>1, <2>2
  <1> QED BY <1>2, <1>3, <1>4 DEF Inv

LEMMA CloseKeeps ==
  ASSUME Inv, NEW t \in Tabs, Close(t)
  PROVE  Inv'
  <1>1. /\ UNCHANGED <<edition, key, bio, action, erased>>
        /\ tab'[t].op = "closed"
        /\ \A s \in Tabs \ {t} : tab'[s] = tab[s]
        /\ DOMAIN tab' = Tabs
        /\ overtaken' = {p \in overtaken : p[1] # t}
    BY DEF Inv, TypeInv, TabType, Close, Closed
  <1>2. TypeInv'
    BY <1>1 DEF Inv, TypeInv, TabType
  <1>3. ErasureOvertakes' /\ FormsAreCurrent' /\ GateAgreesWithBio'
    BY <1>1 DEF Inv, ErasureOvertakes, FormsAreCurrent, GateAgreesWithBio, Shows
  <1>4. RequestsAreCurrent'
    BY <1>1 DEF Inv, RequestsAreCurrent
  <1> QED BY <1>2, <1>3, <1>4 DEF Inv

\* What no tab does overtakes every tab that is open.
LEMMA OutsideKeeps ==
  ASSUME Inv, Overtaken, UNCHANGED <<action, tab>>,
         TypeInv', GateAgreesWithBio'
  PROVE  Inv'
  <1>1. ErasureOvertakes'
    BY AllAreOvertaken DEF ErasureOvertakes
  <1>2. FormsAreCurrent'
    BY AllAreOvertaken DEF FormsAreCurrent
  <1>3. RequestsAreCurrent'
    BY AllAreOvertaken DEF RequestsAreCurrent
  <1> QED BY <1>1, <1>2, <1>3 DEF Inv

LEMMA DeployKeeps ==
  ASSUME Inv, NEW k \in Keys \cup {NoKey}, Deploy(k)
  PROVE  Inv'
  <1>1. TypeInv' /\ GateAgreesWithBio'
    BY DEF Inv, TypeInv, TabType, GateAgreesWithBio, Deploy
  <1> QED BY <1>1, OutsideKeeps DEF Deploy

LEMMA NextEditionKeeps ==
  ASSUME Inv, NextEdition
  PROVE  Inv'
  <1>1. TypeInv' /\ GateAgreesWithBio'
    BY DEF Inv, TypeInv, TabType, GateAgreesWithBio, NextEdition
  <1> QED BY <1>1, OutsideKeeps DEF NextEdition

\* What erasure does to the bios.
LEMMA EraseFacts ==
  ASSUME Inv, NEW u \in Burners, Erase(u)
  PROVE  /\ bio' \in [Burners -> [Editions -> Bio]]
         /\ \A v \in Burners \ {u} : bio'[v] = bio[v]
         /\ \A e \in Editions : /\ bio'[u][e].completed = bio[u][e].completed
                                /\ bio'[u][e].notes = Empty
  <1>1. \A e \in Editions : [bio[u][e] EXCEPT !.notes = Empty] \in Bio
    <2>1. \A e \in Editions : bio[u][e] \in Bio
      BY DEF Inv, TypeInv
    <2>2. Empty \in Stored
      BY DEF Stored
    <2> QED BY <2>1, <2>2 DEF Bio
  <1>2. [e \in Editions |-> [bio[u][e] EXCEPT !.notes = Empty]] \in [Editions -> Bio]
    BY <1>1
  <1>3. bio' = [bio EXCEPT ![u] = [e \in Editions |-> [bio[u][e] EXCEPT !.notes = Empty]]]
    BY DEF Erase
  <1>4. bio'[u] = [e \in Editions |-> [bio[u][e] EXCEPT !.notes = Empty]]
    BY <1>3 DEF Inv, TypeInv
  <1>5. \A e \in Editions : /\ bio'[u][e].completed = bio[u][e].completed
                            /\ bio'[u][e].notes = Empty
    BY <1>4 DEF Inv, TypeInv, Bio
  <1> QED BY <1>2, <1>3, <1>5 DEF Inv, TypeInv

LEMMA EraseKeeps ==
  ASSUME Inv, NEW u \in Burners, Erase(u)
  PROVE  Inv'
  <1>1. UNCHANGED <<edition, key, action, tab>> /\ Overtaken
    BY DEF Erase
  <1>2. TypeInv'
    <2>1. /\ bio' \in [Burners -> [Editions -> Bio]]
          /\ \A v \in Burners \ {u} : bio'[v] = bio[v]
          /\ \A e \in Editions : bio'[u][e].notes = Empty
      BY EraseFacts
    <2>2. erased' \subseteq Burners
      BY DEF Inv, TypeInv, Erase
    <2> QED BY <1>1, <2>1, <2>2 DEF Inv, TypeInv, TabType
  <1>3. GateAgreesWithBio'
    BY <1>1, EraseFacts DEF Inv, GateAgreesWithBio
  <1> QED BY <1>1, <1>2, <1>3, OutsideKeeps

\* Every step keeps the invariant.
LEMMA NextKeeps == Inv /\ [Next]_vars => Inv'
  <1> SUFFICES ASSUME Inv, [Next]_vars PROVE Inv'
    OBVIOUS
  <1>1. ASSUME NEW t \in Tabs, NEW u \in Burners, OpenForm(t, u) PROVE Inv'
    BY <1>1, OpenFormKeeps
  <1>2. ASSUME NEW t \in Tabs, NEW typed \in Notes \cup {Blank}, NEW final \in BOOLEAN,
               Press(t, typed, final)
        PROVE  Inv'
    BY <1>2, PressKeeps DEF Text
  <1>3. ASSUME NEW t \in Tabs, Save(t) PROVE Inv'
    BY <1>3, SaveKeeps
  <1>4. ASSUME NEW t \in Tabs, Fail(t) \/ Close(t) PROVE Inv'
    BY <1>4, FailKeeps, CloseKeeps
  <1>5. ASSUME NEW k \in Keys \cup {NoKey}, Deploy(k) PROVE Inv'
    BY <1>5, DeployKeeps
  <1>6. CASE NextEdition
    BY <1>6, NextEditionKeeps
  <1>7. ASSUME NEW u \in Burners, Erase(u) PROVE Inv'
    BY <1>7, EraseKeeps
  <1>8. CASE UNCHANGED vars
    <2> USE <1>8 DEF vars
    <2>1. TypeInv'
      BY DEF Inv, TypeInv, TabType
    <2>2. ErasureOvertakes' /\ FormsAreCurrent' /\ GateAgreesWithBio'
      BY DEF Inv, ErasureOvertakes, FormsAreCurrent, Shows, GateAgreesWithBio
    <2>3. RequestsAreCurrent'
      BY DEF Inv, RequestsAreCurrent
    <2> QED BY <2>1, <2>2, <2>3 DEF Inv
  <1> QED BY <1>1, <1>2, <1>3, <1>4, <1>5, <1>6, <1>7, <1>8 DEF Next

---------------------------------------------------------------------------
(* Theorems.                                                               *)

\* The types of the bios, the gate and the forms, and how they belong together.
THEOREM BioInvariance == Spec => []Inv
  BY InitInv, NextKeeps, PTL DEF Spec

\* The gate and what is recorded as complete never part, for any number of tabs and
\* editions (saveBio, ensureRequiredAction).
THEOREM GateAndBioAgree == Spec => []GateAgreesWithBio
  <1>1. Inv => GateAgreesWithBio
    BY DEF Inv
  <1> QED BY <1>1, BioInvariance, PTL

\* Which step changes notes: a save of its user's, or an erasure.
LEMMA WhoWrites ==
  ASSUME Inv, [Next]_vars, NEW u \in Burners, NEW e \in Editions,
         bio'[u][e].notes # bio[u][e].notes
  PROVE  \/ \E t \in Tabs : Save(t) /\ tab[t].user = u /\ tab[t].edition = e
         \/ u \notin erased /\ u \in erased'
  <1>1. ASSUME NEW t \in Tabs, Save(t)
        PROVE  tab[t].user = u /\ tab[t].edition = e
    <2>1. Saved(t)
      BY <1>1, SaveFacts
    <2> QED BY <2>1 DEF Saved
  <1>2. ASSUME NEW v \in Burners, Erase(v)
        PROVE  u \notin erased /\ u \in erased'
    BY <1>2, EraseFacts DEF Erase
  <1>3. (\E t \in Tabs : Save(t)) \/ (\E v \in Burners : Erase(v))
    BY DEF Next, vars, OpenForm, Press, Fail, Close, Deploy, NextEdition
  <1> QED BY <1>1, <1>2, <1>3

\* Notes go only from a form that had shown them, or that something overtook, however
\* tabs, keys and editions interleave (saveBio's encryptOrPreserve).
THEOREM ClearingIsDeliberate == Spec => ClearedIsDeliberate
  <1> DEFINE Deliberate ==
        \A u \in Burners \ erased', e \in Editions :
          LET was == bio[u][e].notes IN
          was # Empty /\ bio'[u][e].notes = Empty =>
            \E t \in Tabs : /\ tab[t].op = "save" /\ tab[t].user = u
                            /\ tab[t].shown = was.text \/ <<t, "form">> \in overtaken
  <1>1. Inv /\ [Next]_vars => [Deliberate]_vars
    <2> SUFFICES ASSUME Inv, [Next]_vars, NEW u \in Burners \ erased', NEW e \in Editions,
                        bio[u][e].notes # Empty, bio'[u][e].notes = Empty
                 PROVE  \E t \in Tabs : /\ tab[t].op = "save" /\ tab[t].user = u
                                        /\ \/ tab[t].shown = bio[u][e].notes.text
                                           \/ <<t, "form">> \in overtaken
      OBVIOUS
    <2>1. PICK t \in Tabs : Save(t) /\ tab[t].user = u /\ tab[t].edition = e
      BY WhoWrites
    <2>2. tab[t].op = "save" /\ tab[t].typed \in Text /\ tab[t].notes = Empty
      <3>1. Saved(t)
        BY <2>1, SaveFacts
      <3> QED BY <2>1, <3>1 DEF Saved
    <2>3. CASE <<t, "form">> \notin overtaken
      <3>1. e = edition /\ NotesUnder(key, tab[t].typed, bio[u][e].notes) = Empty
        BY <2>1, <2>2, <2>3 DEF Inv, RequestsAreCurrent
      <3>2. bio[u][e].notes.key = key
        BY <2>2, <3>1, NextNotesFacts, NextNotesUnder DEF Inv, TypeInv, Bio
      <3> QED BY <2>1, <2>2, <2>3, <3>1, <3>2 DEF Inv, FormsAreCurrent, Shows
    <2> QED BY <2>1, <2>2, <2>3
  <1> QED BY <1>1, BioInvariance, PTL DEF Spec, ClearedIsDeliberate

\* What erasure removed stays removed, but for a request that was already in flight
\* (sanitizeAccount and the session's guard).
THEOREM ErasureIsFinal == Spec => ErasedStaysErased
  <1> DEFINE Stays ==
        \A u \in erased, e \in Editions :
          bio'[u][e].notes # bio[u][e].notes =>
            \E t \in Tabs : /\ tab[t].op = "save" /\ tab[t].user = u
                            /\ <<t, "request">> \in overtaken
  <1>1. Inv /\ [Next]_vars => [Stays]_vars
    <2> SUFFICES ASSUME Inv, [Next]_vars, NEW u \in erased,
                        NEW e \in Editions, bio'[u][e].notes # bio[u][e].notes
                 PROVE  \E t \in Tabs : /\ tab[t].op = "save" /\ tab[t].user = u
                                        /\ <<t, "request">> \in overtaken
      OBVIOUS
    <2>1. PICK t \in Tabs : Save(t) /\ tab[t].user = u
      <3>1. u \in Burners
        BY DEF Inv, TypeInv
      <3> QED BY <3>1, WhoWrites
    <2> QED BY <2>1, SaveFacts DEF Saved, Inv, ErasureOvertakes
  <1> QED BY <1>1, BioInvariance, PTL DEF Spec, ErasedStaysErased

---------------------------------------------------------------------------
(* The address an account signs in with.                                   *)

\* What a tab has read: a request it may make, or a row that exists, in a status
\* from which its link may be used.
EmailRequests == [op : {"request"}, user : Users, from : Emails, to : Emails]
EmailLinks == [op : {"confirm"}, user : Users, row : Nat, seen : {"pending"}]
              \cup [op : {"revoke"}, user : Users, row : Nat, seen : {"pending", "confirmed"}]

ReadBy(q, rows) ==
  \/ q.op = "idle"
  \/ q \in EmailRequests
  \/ q \in EmailLinks /\ q.row \in 1..Len(rows[q.user])

AddressesAreUnique == \A u, w \in Users : email[u] = email[w] => u = w

OnePendingChange ==
  \A u \in Users : \A i, j \in 1..Len(changes[u]) :
    changes[u][i].status = "pending" /\ changes[u][j].status = "pending" => i = j

EmailInv ==
  /\ email \in [Users -> Emails]
  /\ changes \in [Users -> Seq(EmailChangeRequest)]
  /\ emailTab = [t \in EmailTabs |-> emailTab[t]]
  /\ AddressesAreUnique
  /\ OnePendingChange
  /\ \A t \in EmailTabs : ReadBy(emailTab[t], changes)

LEMMA EmailFacts ==
  /\ \A q \in EmailRequests : q.op = "request" /\ q.user \in Users /\ q.from \in Emails /\ q.to \in Emails
  /\ \A q \in EmailLinks : /\ q.op \in {"confirm", "revoke"} /\ q.user \in Users /\ q.row \in Nat
                           /\ q.op = "confirm" => q.seen = "pending"
                           /\ q.op = "revoke" => q.seen \in {"pending", "confirmed"}
                           /\ q = [op |-> q.op, user |-> q.user, row |-> q.row, seen |-> q.seen]
  /\ IdleEmailTab.op = "idle"
  BY DEF EmailRequests, EmailLinks, IdleEmailTab

\* Writing one row of one user.
LEMMA ChangeWritten ==
  ASSUME EmailInv, NEW u \in Users, NEW i \in 1..Len(changes[u]), NEW row \in EmailChangeRequest,
         row.status = "pending" => changes[u][i].status = "pending",
         changes' = [changes EXCEPT ![u] = [changes[u] EXCEPT ![i] = row]]
  PROVE  /\ changes' \in [Users -> Seq(EmailChangeRequest)]
         /\ OnePendingChange'
         /\ \A w \in Users : Len(changes'[w]) = Len(changes[w])
         /\ changes'[u][i] = row
         /\ \A w \in Users : \A j \in 1..Len(changes[w]) :
              w # u \/ j # i => changes'[w][j] = changes[w][j]
  <1> DEFINE s == [changes[u] EXCEPT ![i] = row]
  <1>1. changes[u] \in Seq(EmailChangeRequest)
    BY DEF EmailInv
  <1>2. s \in Seq(EmailChangeRequest) /\ Len(s) = Len(changes[u])
    BY <1>1
  <1>3. \A j \in 1..Len(changes[u]) : s[j] = IF j = i THEN row ELSE changes[u][j]
    BY <1>1
  <1> HIDE DEF s
  <1>4. /\ changes' \in [Users -> Seq(EmailChangeRequest)]
        /\ \A w \in Users : changes'[w] = IF w = u THEN s ELSE changes[w]
    BY <1>2 DEF EmailInv, s
  <1>5. OnePendingChange'
    BY <1>2, <1>3, <1>4 DEF OnePendingChange, EmailInv
  <1> QED BY <1>2, <1>3, <1>4, <1>5

\* A tab that ends, where no user loses a row.
LEMMA EmailTabsEnd ==
  ASSUME EmailInv, NEW t \in EmailTabs, End(t),
         \A u \in Users : Len(changes'[u]) \in Nat /\ Len(changes'[u]) >= Len(changes[u])
  PROVE  /\ emailTab' = [s \in EmailTabs |-> emailTab'[s]]
         /\ \A s \in EmailTabs : ReadBy(emailTab'[s], changes')
  <1>1. \A u \in Users : Len(changes[u]) \in Nat
    BY DEF EmailInv
  <1>2. \A s \in EmailTabs : emailTab'[s] = IF s = t THEN IdleEmailTab ELSE emailTab[s]
    BY DEF EmailInv, End
  <1>3. \A s \in EmailTabs : ReadBy(emailTab[s], changes')
    BY <1>1, EmailFacts DEF EmailInv, ReadBy
  <1>4. ReadBy(IdleEmailTab, changes')
    BY EmailFacts DEF ReadBy
  <1> QED BY <1>2, <1>3, <1>4 DEF EmailInv, End

\* A tab that has read what it needs.
LEMMA EmailTabReads ==
  ASSUME EmailInv, NEW t \in EmailTabs, NEW q, ReadBy(q, changes), Begin(t, q),
         UNCHANGED <<email, changes>>
  PROVE  EmailInv'
  <1>1. \A s \in EmailTabs : emailTab'[s] = IF s = t THEN q ELSE emailTab[s]
    BY DEF EmailInv, Begin
  <1>2. \A s \in EmailTabs : ReadBy(emailTab'[s], changes')
    BY <1>1 DEF EmailInv
  <1> QED BY <1>2 DEF EmailInv, Begin, AddressesAreUnique, OnePendingChange

\* A change of address that no other user has keeps them unique.
LEMMA AddressMoves ==
  ASSUME EmailInv, NEW u \in Users, NEW new \in Emails, ~TakenByAnother(u, new),
         email' = [email EXCEPT ![u] = new]
  PROVE  email' \in [Users -> Emails] /\ AddressesAreUnique'
  BY DEF EmailInv, AddressesAreUnique, TakenByAnother

LEMMA EmailStarts == EmailInit => EmailInv
  BY EmailFacts, EmailAssumption DEF EmailInit, EmailInv, AddressesAreUnique,
     OnePendingChange, ReadBy

\* Whose link a tab holds, and for which row.
Holder(t) == emailTab[t].user
Link(t) == emailTab[t].row

Confirmed(row) == [row EXCEPT !.status = "confirmed", !.settled = FALSE]
Revoked(row) == [row EXCEPT !.status = "revoked"]

\* What a commit of a request, a confirmation or a revocation writes.
LEMMA RequestWrites ==
  ASSUME EmailInv, NEW t \in EmailTabs, RequestChangeCommit(t)
  PROVE  /\ changes' \in [Users -> Seq(EmailChangeRequest)]
         /\ OnePendingChange'
         /\ \A u \in Users : Len(changes'[u]) >= Len(changes[u])
         /\ \A u \in Users : \A i \in 1..Len(changes[u]) :
              changes[u][i].status # "pending" => changes'[u][i] = changes[u][i]
  <1> DEFINE u == emailTab[t].user
             n == Len(changes[u])
             new == [currentEmail |-> emailTab[t].from, newEmail |-> emailTab[t].to,
                     status |-> "pending", lapsed |-> FALSE, settled |-> FALSE]
             old == [i \in 1..n |-> Superseded(changes[u][i])]
  <1>1. emailTab[t] \in EmailRequests
    BY EmailFacts DEF EmailInv, ReadBy, RequestChangeCommit
  <1>2. u \in Users /\ changes[u] \in Seq(EmailChangeRequest) /\ n \in Nat
        /\ new \in EmailChangeRequest
    <2>1. u \in Users /\ emailTab[t].from \in Emails /\ emailTab[t].to \in Emails
      BY <1>1, EmailFacts
    <2>2. changes[u] \in Seq(EmailChangeRequest)
      BY <2>1 DEF EmailInv
    <2>3. new \in EmailChangeRequest
      BY <2>1 DEF EmailChangeRequest, Status
    <2> QED BY <2>1, <2>2, <2>3
  <1>3. changes' = [changes EXCEPT ![u] = Append(old, new)]
    BY DEF RequestChangeCommit, Indices
  <1>4. ASSUME NEW i \in 1..n
        PROVE  /\ Superseded(changes[u][i]) \in EmailChangeRequest
               /\ Superseded(changes[u][i]).status # "pending"
               /\ changes[u][i].status # "pending" => Superseded(changes[u][i]) = changes[u][i]
    <2>1. changes[u][i] \in EmailChangeRequest
      BY <1>2
    <2> QED BY <2>1 DEF Superseded, EmailChangeRequest, Status
  <1>5. old \in Seq(EmailChangeRequest) /\ Len(old) = n
    <2>1. old \in [1..n -> EmailChangeRequest]
      BY <1>4
    <2> HIDE DEF old
    <2> QED BY <1>2, <2>1
  <1>6. /\ Append(old, new) \in Seq(EmailChangeRequest)
        /\ Len(Append(old, new)) = n + 1
        /\ Append(old, new)[n + 1] = new
        /\ \A i \in 1..n : Append(old, new)[i] = Superseded(changes[u][i])
    <2>1. \A i \in 1..n : old[i] = Superseded(changes[u][i])
      OBVIOUS
    <2> HIDE DEF old, new
    <2> QED BY <1>2, <1>5, <2>1
  <1> DEFINE s == Append(old, new)
  <1> HIDE DEF old, new, s
  <1>7. /\ changes' \in [Users -> Seq(EmailChangeRequest)]
        /\ \A w \in Users : changes'[w] = IF w = u THEN s ELSE changes[w]
    BY <1>2, <1>3, <1>6 DEF EmailInv, s
  <1>8. /\ Len(s) = n + 1 /\ \A i \in 1..n : s[i].status # "pending"
        /\ \A i \in 1..n : changes[u][i].status # "pending" => s[i] = changes[u][i]
    BY <1>4, <1>6 DEF s
  <1> HIDE DEF u
  <1>9. OnePendingChange'
    <2> SUFFICES ASSUME NEW w \in Users, NEW i \in 1..Len(changes'[w]), NEW j \in 1..Len(changes'[w]),
                        changes'[w][i].status = "pending", changes'[w][j].status = "pending"
                 PROVE  i = j
      BY DEF OnePendingChange
    <2>1. CASE w = u
      <3>1. i = n + 1 /\ j = n + 1
        BY <1>2, <1>7, <1>8, <2>1
      <3> QED BY <3>1
    <2>2. CASE w # u
      BY <1>7, <2>2 DEF EmailInv, OnePendingChange
    <2> QED BY <2>1, <2>2
  <1>10. \A w \in Users : Len(changes[w]) \in Nat
    BY DEF EmailInv
  <1>11. \A w \in Users : Len(changes'[w]) >= Len(changes[w])
    BY <1>2, <1>7, <1>8, <1>10
  <1>12. \A w \in Users : \A i \in 1..Len(changes[w]) :
           changes[w][i].status # "pending" => changes'[w][i] = changes[w][i]
    BY <1>2, <1>7, <1>8
  <1> QED BY <1>7, <1>9, <1>11, <1>12

LEMMA ConfirmWrites ==
  ASSUME EmailInv, NEW t \in EmailTabs, ConfirmCommit(t)
  PROVE  /\ Holder(t) \in Users /\ Link(t) \in 1..Len(changes[Holder(t)]) /\ emailTab[t] \in EmailLinks
         /\ Confirmed(changes[Holder(t)][Link(t)]) \in EmailChangeRequest
         /\ Confirmed(changes[Holder(t)][Link(t)]).status = "confirmed"
         /\ changes' = [changes EXCEPT ![Holder(t)] =
                 [changes[Holder(t)] EXCEPT ![Link(t)] = Confirmed(changes[Holder(t)][Link(t)])]]
         /\ changes[Holder(t)][Link(t)].newEmail \in Emails
  <1>1. /\ Holder(t) \in Users /\ Link(t) \in 1..Len(changes[Holder(t)]) /\ emailTab[t] \in EmailLinks
    BY EmailFacts DEF EmailInv, ReadBy, Holder, Link, ConfirmCommit
  <1>2. changes[Holder(t)] \in Seq(EmailChangeRequest)
    BY <1>1 DEF EmailInv
  <1>3. changes[Holder(t)][Link(t)] \in EmailChangeRequest
    BY <1>1, <1>2
  <1>4. /\ Confirmed(changes[Holder(t)][Link(t)]) \in EmailChangeRequest
        /\ Confirmed(changes[Holder(t)][Link(t)]).status = "confirmed"
        /\ changes[Holder(t)][Link(t)].newEmail \in Emails
    BY <1>3 DEF EmailChangeRequest, Status, Confirmed
  <1>5. changes' = [changes EXCEPT ![Holder(t)] = [changes[Holder(t)] EXCEPT ![Link(t)] = Confirmed(changes[Holder(t)][Link(t)])]]
    BY <1>1, <1>2 DEF EmailInv, Holder, Link, ConfirmCommit, Confirmed
  <1> QED BY <1>1, <1>4, <1>5

LEMMA RevokeWrites ==
  ASSUME EmailInv, NEW t \in EmailTabs, RevokeCommit(t)
  PROVE  /\ Holder(t) \in Users /\ Link(t) \in 1..Len(changes[Holder(t)]) /\ emailTab[t] \in EmailLinks
         /\ Revoked(changes[Holder(t)][Link(t)]) \in EmailChangeRequest
         /\ Revoked(changes[Holder(t)][Link(t)]).status = "revoked"
         /\ changes' = [changes EXCEPT ![Holder(t)] =
                 [changes[Holder(t)] EXCEPT ![Link(t)] = Revoked(changes[Holder(t)][Link(t)])]]
         /\ changes[Holder(t)][Link(t)].status = emailTab[t].seen
         /\ emailTab[t].seen \in {"pending", "confirmed"}
         /\ changes[Holder(t)][Link(t)].currentEmail \in Emails
  <1>1. /\ Holder(t) \in Users /\ Link(t) \in 1..Len(changes[Holder(t)]) /\ emailTab[t] \in EmailLinks
        /\ emailTab[t].seen \in {"pending", "confirmed"}
    BY EmailFacts DEF EmailInv, ReadBy, Holder, Link, RevokeCommit
  <1>2. changes[Holder(t)] \in Seq(EmailChangeRequest)
    BY <1>1 DEF EmailInv
  <1>3. changes[Holder(t)][Link(t)] \in EmailChangeRequest
    BY <1>1, <1>2
  <1>4. /\ Revoked(changes[Holder(t)][Link(t)]) \in EmailChangeRequest
        /\ Revoked(changes[Holder(t)][Link(t)]).status = "revoked"
        /\ changes[Holder(t)][Link(t)].currentEmail \in Emails
    BY <1>3 DEF EmailChangeRequest, Status, Revoked
  <1>5. changes' = [changes EXCEPT ![Holder(t)] = [changes[Holder(t)] EXCEPT ![Link(t)] = Revoked(changes[Holder(t)][Link(t)])]]
    BY <1>1, <1>2 DEF EmailInv, Holder, Link, RevokeCommit, Revoked
  <1> QED BY <1>1, <1>4, <1>5 DEF Holder, Link, RevokeCommit, StillAsSeen

\* Time only sets the two marks of a row.
LEMMA TimePasses ==
  ASSUME EmailInv, NEW u \in Users, NEW i \in Indices(u), LinkLapses(u, i) \/ ChangeSettles(u, i)
  PROVE  \E row \in EmailChangeRequest :
           /\ row.status = changes[u][i].status
           /\ changes' = [changes EXCEPT ![u] = [changes[u] EXCEPT ![i] = row]]
  <1>1. changes[u] \in Seq(EmailChangeRequest) /\ changes[u][i] \in EmailChangeRequest
    BY DEF EmailInv, Indices
  <1>2. CASE LinkLapses(u, i)
    <2> DEFINE row == [changes[u][i] EXCEPT !.lapsed = TRUE]
    <2>1. row \in EmailChangeRequest /\ row.status = changes[u][i].status
      BY <1>1 DEF EmailChangeRequest
    <2>2. changes' = [changes EXCEPT ![u] = [changes[u] EXCEPT ![i] = row]]
      BY <1>2 DEF LinkLapses
    <2> QED BY <2>1, <2>2
  <1>3. CASE ChangeSettles(u, i)
    <2> DEFINE row == [changes[u][i] EXCEPT !.settled = TRUE]
    <2>1. row \in EmailChangeRequest /\ row.status = changes[u][i].status
      BY <1>1 DEF EmailChangeRequest
    <2>2. changes' = [changes EXCEPT ![u] = [changes[u] EXCEPT ![i] = row]]
      BY <1>3 DEF ChangeSettles
    <2> QED BY <2>1, <2>2
  <1> QED BY <1>2, <1>3

\* Every step keeps the invariant.
LEMMA EmailStep ==
  ASSUME EmailInv, [EmailNext]_emailVars
  PROVE  EmailInv'
  <1>0. \A u \in Users : changes[u] \in Seq(EmailChangeRequest) /\ Len(changes[u]) \in Nat
    BY DEF EmailInv
  <1>1. ASSUME NEW t \in EmailTabs, NEW u \in Users, NEW new \in Emails, RequestChangeRead(t, u, new)
        PROVE  EmailInv'
    <2> DEFINE q == [op |-> "request", user |-> u, from |-> email[u], to |-> new]
    <2>1. q \in EmailRequests
      BY DEF EmailInv, EmailRequests
    <2> HIDE DEF q
    <2>2. ReadBy(q, changes)
      BY <2>1 DEF ReadBy
    <2> QED BY <1>1, <2>2, EmailTabReads DEF q, RequestChangeRead
  <1>2. ASSUME NEW t \in EmailTabs, RequestChangeCommit(t)
        PROVE  EmailInv'
    <2>1. \A u \in Users : Len(changes'[u]) \in Nat /\ Len(changes'[u]) >= Len(changes[u])
      BY <1>2, RequestWrites
    <2>2. End(t) /\ email' = email
      BY <1>2 DEF RequestChangeCommit
    <2> QED BY <1>2, <2>1, <2>2, RequestWrites, EmailTabsEnd DEF EmailInv, AddressesAreUnique
  <1>3. ASSUME NEW t \in EmailTabs, NEW u \in Users, NEW i \in Indices(u), ConfirmRead(t, u, i)
        PROVE  EmailInv'
    <2> DEFINE q == [op |-> "confirm", user |-> u, row |-> i, seen |-> changes[u][i].status]
    <2>1. q \in EmailLinks /\ q.row = i /\ q.user = u
      BY <1>0, <1>3 DEF EmailLinks, ConfirmRead, CanConfirmEmailChange, Indices
    <2> HIDE DEF q
    <2>2. ReadBy(q, changes)
      BY <2>1 DEF ReadBy, Indices
    <2> QED BY <1>3, <2>2, EmailTabReads DEF q, ConfirmRead
  <1>4. ASSUME NEW t \in EmailTabs, ConfirmCommit(t)
        PROVE  EmailInv'
    <2> DEFINE u == Holder(t)
               i == Link(t)
               row == Confirmed(changes[u][i])
    <2>1. /\ u \in Users /\ i \in 1..Len(changes[u])
          /\ row \in EmailChangeRequest /\ row.status = "confirmed"
          /\ changes' = [changes EXCEPT ![u] = [changes[u] EXCEPT ![i] = row]]
          /\ changes[u][i].newEmail \in Emails
      BY <1>4, ConfirmWrites
    <2>2. /\ email' = [email EXCEPT ![u] = changes[u][i].newEmail] /\ End(t)
          /\ ~TakenByAnother(u, changes[u][i].newEmail)
      BY <1>4 DEF Holder, Link, ConfirmCommit
    <2> HIDE DEF u, i, row
    <2>3. /\ changes' \in [Users -> Seq(EmailChangeRequest)] /\ OnePendingChange'
          /\ \A w \in Users : Len(changes'[w]) = Len(changes[w])
      BY <2>1, ChangeWritten
    <2>4. email' \in [Users -> Emails] /\ AddressesAreUnique'
      BY <2>1, <2>2, AddressMoves
    <2> QED BY <1>0, <2>2, <2>3, <2>4, EmailTabsEnd DEF EmailInv
  <1>5. ASSUME NEW t \in EmailTabs, NEW u \in Users, NEW i \in Indices(u), RevokeRead(t, u, i)
        PROVE  EmailInv'
    <2> DEFINE q == [op |-> "revoke", user |-> u, row |-> i, seen |-> changes[u][i].status]
    <2>1. q \in EmailLinks /\ q.row = i /\ q.user = u
      BY <1>0, <1>5 DEF EmailLinks, RevokeRead, CanRevokeEmailChange, Indices
    <2> HIDE DEF q
    <2>2. ReadBy(q, changes)
      BY <2>1 DEF ReadBy, Indices
    <2> QED BY <1>5, <2>2, EmailTabReads DEF q, RevokeRead
  <1>6. ASSUME NEW t \in EmailTabs, RevokeCommit(t)
        PROVE  EmailInv'
    <2> DEFINE u == Holder(t)
               i == Link(t)
               row == Revoked(changes[u][i])
    <2>1. /\ u \in Users /\ i \in 1..Len(changes[u])
          /\ row \in EmailChangeRequest /\ row.status = "revoked"
          /\ changes' = [changes EXCEPT ![u] = [changes[u] EXCEPT ![i] = row]]
          /\ changes[u][i].currentEmail \in Emails
      BY <1>6, RevokeWrites
    <2>2. /\ \/ email' = email
             \/ /\ email' = [email EXCEPT ![u] = changes[u][i].currentEmail]
                /\ ~TakenByAnother(u, changes[u][i].currentEmail)
          /\ End(t)
      BY <1>6 DEF Holder, Link, RevokeCommit
    <2> HIDE DEF u, i, row
    <2>3. /\ changes' \in [Users -> Seq(EmailChangeRequest)] /\ OnePendingChange'
          /\ \A w \in Users : Len(changes'[w]) = Len(changes[w])
      BY <2>1, ChangeWritten
    <2>4. email' \in [Users -> Emails] /\ AddressesAreUnique'
      BY <2>1, <2>2, AddressMoves DEF EmailInv, AddressesAreUnique
    <2> QED BY <1>0, <2>2, <2>3, <2>4, EmailTabsEnd DEF EmailInv
  <1>7. ASSUME NEW t \in EmailTabs, EmailTabEnds(t)
        PROVE  EmailInv'
    <2>1. End(t) /\ email' = email /\ changes' = changes
      BY <1>7 DEF EmailTabEnds
    <2> QED BY <1>0, <2>1, EmailTabsEnd DEF EmailInv, AddressesAreUnique, OnePendingChange
  <1>8. ASSUME NEW u \in Users, NEW i \in Indices(u), LinkLapses(u, i) \/ ChangeSettles(u, i)
        PROVE  EmailInv'
    <2>1. PICK row \in EmailChangeRequest :
            /\ row.status = changes[u][i].status
            /\ changes' = [changes EXCEPT ![u] = [changes[u] EXCEPT ![i] = row]]
      BY <1>8, TimePasses
    <2>2. /\ changes' \in [Users -> Seq(EmailChangeRequest)] /\ OnePendingChange'
          /\ \A w \in Users : Len(changes'[w]) = Len(changes[w])
      BY <2>1, ChangeWritten DEF Indices
    <2>3. email' = email /\ emailTab' = emailTab
      BY <1>8 DEF LinkLapses, ChangeSettles
    <2>4. \A t \in EmailTabs : ReadBy(emailTab[t], changes')
      BY <2>2, EmailFacts DEF EmailInv, ReadBy
    <2> QED BY <2>2, <2>3, <2>4 DEF EmailInv, AddressesAreUnique
  <1>9. CASE UNCHANGED emailVars
    BY <1>9 DEF emailVars, EmailInv, AddressesAreUnique, OnePendingChange
  <1> QED
    BY <1>1, <1>2, <1>3, <1>4, <1>5, <1>6, <1>7, <1>8, <1>9 DEF EmailNext

\* Addresses stay unique, and a user has one pending change at most, a new request
\* superseding the last.
THEOREM EmailInvariance == EmailSpec => []EmailInv
  <1>1. EmailInit => EmailInv
    BY EmailStarts
  <1> QED BY <1>1, EmailStep, PTL DEF EmailSpec

\* A set of which any two members are the same has at most one.
LEMMA AtMostOne ==
  ASSUME NEW S, \A x, y \in S : x = y
  PROVE  Cardinality(S) <= 1
  <1>1. CASE S = {}
    BY <1>1, FS_EmptySet
  <1>2. CASE S # {}
    <2>1. PICK x : S = {x}
      BY <1>2
    <2> QED BY <2>1, FS_Singleton
  <1> QED BY <1>1, <1>2

\* Every address, row and tab of EmailChange keeps its type, no two users share an
\* address, and a user has at most one pending request (requestEmailChange supersedes).
THEOREM EmailTypeCorrect == EmailSpec => []EmailTypeOK
  <1>1. EmailInv => EmailTypeOK
    <2> SUFFICES ASSUME EmailInv PROVE EmailTypeOK
      OBVIOUS
    <2>1. ASSUME NEW u \in Users
          PROVE  /\ \A i \in Indices(u) : changes[u][i] \in EmailChangeRequest
                 /\ Cardinality({i \in Indices(u) : changes[u][i].status = "pending"}) <= 1
      <3>1. changes[u] \in Seq(EmailChangeRequest)
        BY DEF EmailInv
      <3>2. \A i, j \in {k \in Indices(u) : changes[u][k].status = "pending"} : i = j
        BY DEF EmailInv, OnePendingChange, Indices
      <3> QED BY <3>1, <3>2, AtMostOne DEF Indices
    <2>2. \A t \in EmailTabs : emailTab[t].op \in {"idle", "request", "confirm", "revoke"}
      BY EmailFacts DEF EmailInv, ReadBy
    <2> QED BY <2>1, <2>2 DEF EmailInv, EmailTypeOK, AddressesAreUnique
  <1> QED BY <1>1, EmailInvariance, PTL

\* The sign-in address moves only with the row that records it: a confirmation of a
\* pending request to its new address, a revocation back to the one it replaced.  A
\* used link moves nothing, except by a click that had read its request pending.
THEOREM MovesAreRecorded == EmailSpec => EveryMoveIsRecorded
  <1> DEFINE Recorded ==
    \A u \in Users : email'[u] # email[u] =>
       \E i \in Indices(u) :
         \/ /\ changes'[u][i].status = "confirmed"
            /\ email'[u] = changes[u][i].newEmail
            /\ \/ changes[u][i].status = "pending"
               \/ \E t \in EmailTabs : LateConfirmation(t, u, i)
         \/ /\ changes[u][i].status = "confirmed" /\ changes'[u][i].status = "revoked"
            /\ email'[u] = changes[u][i].currentEmail
  <1>1. EmailInv /\ [EmailNext]_emailVars => [Recorded]_emailVars
    <2> SUFFICES ASSUME EmailInv, [EmailNext]_emailVars, NEW u \in Users, email'[u] # email[u]
                 PROVE  \E i \in 1..Len(changes[u]) :
                          \/ /\ changes'[u][i].status = "confirmed"
                             /\ email'[u] = changes[u][i].newEmail
                             /\ \/ changes[u][i].status = "pending"
                                \/ \E t \in EmailTabs : LateConfirmation(t, u, i)
                          \/ /\ changes[u][i].status = "confirmed" /\ changes'[u][i].status = "revoked"
                             /\ email'[u] = changes[u][i].currentEmail
      BY DEF Indices
    <2>1. \E t \in EmailTabs : ConfirmCommit(t) \/ RevokeCommit(t)
      <3>1. ASSUME NEW t, NEW w, NEW i, NEW new,
                   \/ RequestChangeRead(t, w, new) \/ ConfirmRead(t, w, i)
                   \/ RevokeRead(t, w, i) \/ EmailTabEnds(t)
                   \/ LinkLapses(w, i) \/ ChangeSettles(w, i)
            PROVE  email' = email
        BY <3>1 DEF RequestChangeRead, ConfirmRead, RevokeRead, EmailTabEnds,
                    LinkLapses, ChangeSettles
      <3>2. ASSUME NEW t, RequestChangeCommit(t)
            PROVE  email' = email
        BY <3>2 DEF RequestChangeCommit
      <3> QED BY <3>1, <3>2 DEF EmailNext, emailVars
    <2>2. ASSUME NEW t \in EmailTabs, ConfirmCommit(t)
          PROVE  \E i \in 1..Len(changes[u]) :
                   /\ changes'[u][i].status = "confirmed"
                   /\ email'[u] = changes[u][i].newEmail
                   /\ \/ changes[u][i].status = "pending"
                      \/ LateConfirmation(t, u, i)
      <3> DEFINE w == Holder(t)
                 i == Link(t)
                 row == Confirmed(changes[w][i])
      <3>1. /\ w \in Users /\ i \in 1..Len(changes[w]) /\ emailTab[t] \in EmailLinks
            /\ row \in EmailChangeRequest /\ row.status = "confirmed"
            /\ changes' = [changes EXCEPT ![w] = [changes[w] EXCEPT ![i] = row]]
        BY <2>2, ConfirmWrites
      <3>2. email' = [email EXCEPT ![w] = changes[w][i].newEmail]
        BY <2>2 DEF Holder, Link, ConfirmCommit
      <3>3. emailTab[t].op = "confirm" /\ emailTab'[t] # emailTab[t]
        BY <2>2, EmailFacts DEF ConfirmCommit, End, EmailInv
      <3>4. emailTab[t] = [op |-> "confirm", user |-> w, row |-> i, seen |-> "pending"]
        BY <3>1, <3>3, EmailFacts DEF Holder, Link
      <3>5. changes[w][i].status = "pending" \/ LateConfirmation(t, w, i)
        BY <3>3, <3>4 DEF LateConfirmation
      <3> HIDE DEF w, i, row
      <3>6. changes'[w][i] = row
        BY <3>1 DEF EmailInv
      <3>7. w = u
        BY <3>1, <3>2 DEF EmailInv
      <3> QED BY <3>1, <3>2, <3>5, <3>6, <3>7 DEF EmailInv
    <2>3. ASSUME NEW t \in EmailTabs, RevokeCommit(t)
          PROVE  \E i \in 1..Len(changes[u]) :
                   /\ changes[u][i].status = "confirmed" /\ changes'[u][i].status = "revoked"
                   /\ email'[u] = changes[u][i].currentEmail
      <3> DEFINE w == Holder(t)
                 i == Link(t)
                 row == Revoked(changes[w][i])
      <3>1. /\ w \in Users /\ i \in 1..Len(changes[w]) /\ changes[w][i].status = emailTab[t].seen
            /\ row \in EmailChangeRequest /\ row.status = "revoked"
            /\ changes' = [changes EXCEPT ![w] = [changes[w] EXCEPT ![i] = row]]
        BY <2>3, RevokeWrites
      <3>2. email' = [email EXCEPT ![w] = changes[w][i].currentEmail] /\ emailTab[t].seen = "confirmed"
        BY <2>3 DEF Holder, Link, RevokeCommit
      <3> HIDE DEF w, i, row
      <3>3. changes'[w][i] = row
        BY <3>1 DEF EmailInv
      <3> QED BY <3>1, <3>2, <3>3 DEF EmailInv
    <2> QED BY <2>1, <2>2, <2>3
  <1> QED BY <1>1, EmailInvariance, PTL DEF EmailSpec, EveryMoveIsRecorded

\* A revoked or superseded request takes no effect any more, except by a
\* confirmation that had read it pending.
THEOREM StoppedStaysStopped == EmailSpec => StoppedIsFinal
  <1> DEFINE Final ==
    \A u \in Users : \A i \in Indices(u) :
       changes[u][i].status \in {"revoked", "cancelled"} =>
         \/ changes'[u][i].status = changes[u][i].status
         \/ \E t \in EmailTabs : LateConfirmation(t, u, i)
  <1>1. EmailInv /\ [EmailNext]_emailVars => [Final]_emailVars
    <2> SUFFICES ASSUME EmailInv, [EmailNext]_emailVars, NEW u \in Users,
                        NEW i \in 1..Len(changes[u]),
                        changes[u][i].status \in {"revoked", "cancelled"}
                 PROVE  \/ changes'[u][i].status = changes[u][i].status
                        \/ \E t \in EmailTabs : LateConfirmation(t, u, i)
      BY DEF Indices
    <2>1. ASSUME NEW t \in EmailTabs, RequestChangeCommit(t)
          PROVE  changes'[u][i].status = changes[u][i].status
      BY <2>1, RequestWrites
    <2>2. ASSUME NEW t \in EmailTabs, ConfirmCommit(t)
          PROVE  \/ changes'[u][i].status = changes[u][i].status
                 \/ LateConfirmation(t, u, i)
      <3> DEFINE w == Holder(t)
                 j == Link(t)
                 row == Confirmed(changes[w][j])
      <3>1. /\ w \in Users /\ j \in 1..Len(changes[w]) /\ emailTab[t] \in EmailLinks
            /\ row \in EmailChangeRequest /\ row.status = "confirmed"
            /\ changes' = [changes EXCEPT ![w] = [changes[w] EXCEPT ![j] = row]]
        BY <2>2, ConfirmWrites
      <3>2. emailTab[t].op = "confirm" /\ emailTab'[t] # emailTab[t]
        BY <2>2, EmailFacts DEF ConfirmCommit, End, EmailInv
      <3>3. emailTab[t] = [op |-> "confirm", user |-> w, row |-> j, seen |-> "pending"]
        BY <3>1, <3>2, EmailFacts DEF Holder, Link
      <3>4. CASE u = w /\ i = j
        BY <3>2, <3>3, <3>4 DEF LateConfirmation
      <3>5. CASE ~(u = w /\ i = j)
        <4> HIDE DEF w, j, row
        <4> QED BY <3>1, <3>5, ChangeWritten
      <3> QED BY <3>4, <3>5
    <2>3. ASSUME NEW t \in EmailTabs, RevokeCommit(t)
          PROVE  changes'[u][i].status = changes[u][i].status
      <3> DEFINE w == Holder(t)
                 j == Link(t)
                 row == Revoked(changes[w][j])
      <3>1. /\ w \in Users /\ j \in 1..Len(changes[w])
            /\ row \in EmailChangeRequest /\ row.status = "revoked"
            /\ changes' = [changes EXCEPT ![w] = [changes[w] EXCEPT ![j] = row]]
            /\ changes[w][j].status \in {"pending", "confirmed"}
        BY <2>3, RevokeWrites
      <3> HIDE DEF w, j, row
      <3> QED BY <3>1, ChangeWritten
    <2>4. ASSUME NEW w \in Users, NEW j \in Indices(w),
                 LinkLapses(w, j) \/ ChangeSettles(w, j)
          PROVE  changes'[u][i].status = changes[u][i].status
      <3>1. PICK row \in EmailChangeRequest :
              /\ row.status = changes[w][j].status
              /\ changes' = [changes EXCEPT ![w] = [changes[w] EXCEPT ![j] = row]]
        BY <2>4, TimePasses
      <3> QED BY <3>1, ChangeWritten DEF Indices
    <2>5. CASE changes' = changes
      BY <2>5
    <2> QED
      BY <2>1, <2>2, <2>3, <2>4, <2>5
         DEF EmailNext, emailVars, RequestChangeRead, ConfirmRead, RevokeRead, EmailTabEnds
  <1> QED BY <1>1, EmailInvariance, PTL DEF EmailSpec, StoppedIsFinal

---------------------------------------------------------------------------
(* The erasure of an account.                                              *)

DeletionTables ==
  /\ MaxRequests \in Nat /\ GodEmails \subseteq Accounts
  /\ god \subseteq Accounts /\ sanitized \subseteq Accounts
  /\ requests \in [Accounts -> Seq(Request)]
  /\ \A u \in Accounts : Len(requests[u]) <= MaxRequests

OnePendingDeletion ==
  \A u \in Accounts : \A i, j \in 1..Len(requests[u]) :
    requests[u][i].status = "pending" /\ requests[u][j].status = "pending" => i = j

\* The audit trail speaks of requests that were made.
TrailIsOfRequests ==
  \A u \in Accounts : \A i \in 1..MaxRequests :
    <<u, i, "sanitized">> \in audit => i <= Len(requests[u])

\* What a tab will write about, and what a sweep will: a row, which for an erasure
\* under way was due.
TabsKnow ==
  /\ deletionTab = [t \in DeletionTabs |-> deletionTab[t]]
  /\ \A t \in DeletionTabs : /\ deletionTab[t].op = "request" => deletionTab[t].id[1] \in Accounts
                             /\ deletionTab[t].op = "cancel" => deletionTab[t].id \in Rows

Sweep == [todo : SUBSET Rows, current : Rows \cup {NoRequest}]

SweepsKnow ==
  /\ sweep \in [Sweeps -> Sweep]
  /\ \A s \in Sweeps :
       sweep[s].current # NoRequest => Row(sweep[s].current).elapsed

DeletionInv ==
  /\ DeletionTables
  /\ OnePendingDeletion
  /\ TrailIsOfRequests
  /\ TrailMatchesRequests
  /\ TabsKnow
  /\ SweepsKnow

\* A row is named by its account and its place among the requests of it.
LEMMA RowNames ==
  ASSUME NEW id
  PROVE  /\ id \in Rows <=>
              \E u \in Accounts : \E i \in 1..Len(requests[u]) : id = <<u, i>>
         /\ (id \in Rows)' <=>
              \E u \in Accounts : \E i \in 1..Len(requests'[u]) : id = <<u, i>>
  BY DEF Rows

LEMMA RowParts ==
  ASSUME DeletionTables, NEW id \in Rows
  PROVE  /\ id[1] \in Accounts /\ id[2] \in 1..Len(requests[id[1]]) /\ id = <<id[1], id[2]>>
         /\ Row(id) = requests[id[1]][id[2]] /\ Row(id) \in Request
         /\ requests[id[1]] \in Seq(Request)
         /\ id[2] \in 1..MaxRequests
  <1>0. PICK u \in Accounts : \E i \in 1..Len(requests[u]) : id = <<u, i>>
    BY RowNames
  <1>1. PICK i \in 1..Len(requests[u]) : id = <<u, i>>
    BY <1>0
  <1>2. requests[u] \in Seq(Request) /\ Len(requests[u]) <= MaxRequests /\ MaxRequests \in Nat
    BY DEF DeletionTables
  <1> QED BY <1>1, <1>2 DEF Row

\* One row of one account is written.
Written(u, i, row) == requests' = [requests EXCEPT ![u] = [requests[u] EXCEPT ![i] = row]]

LEMMA DeletionWritten ==
  ASSUME DeletionInv, NEW u \in Accounts, NEW i \in 1..Len(requests[u]), NEW row \in Request,
         row.status = "pending" => requests[u][i].status = "pending",
         Written(u, i, row)
  PROVE  /\ requests' \in [Accounts -> Seq(Request)]
         /\ OnePendingDeletion'
         /\ \A w \in Accounts : Len(requests'[w]) = Len(requests[w])
         /\ requests'[u][i] = row
         /\ \A w \in Accounts : \A j \in 1..Len(requests[w]) :
              w # u \/ j # i => requests'[w][j] = requests[w][j]
  <1> DEFINE s == [requests[u] EXCEPT ![i] = row]
  <1>1. requests[u] \in Seq(Request)
    BY DEF DeletionInv, DeletionTables
  <1>2. s \in Seq(Request) /\ Len(s) = Len(requests[u])
    BY <1>1
  <1>3. \A j \in 1..Len(requests[u]) : s[j] = IF j = i THEN row ELSE requests[u][j]
    BY <1>1
  <1> HIDE DEF s
  <1>4. /\ requests' \in [Accounts -> Seq(Request)]
        /\ \A w \in Accounts : requests'[w] = IF w = u THEN s ELSE requests[w]
    BY <1>2 DEF DeletionInv, DeletionTables, Written, s
  <1>5. OnePendingDeletion'
    BY <1>2, <1>3, <1>4 DEF OnePendingDeletion, DeletionInv
  <1> QED BY <1>2, <1>3, <1>4, <1>5

\* What the tabs and the sweeps know stays so while requests are not removed and
\* grace does not come back.
Grows ==
  \A u \in Accounts : \A i \in 1..Len(requests[u]) :
    i \in 1..Len(requests'[u]) /\ (requests[u][i].elapsed => requests'[u][i].elapsed)

LEMMA RowsStay ==
  ASSUME DeletionTables, Grows, NEW id \in Rows
  PROVE  /\ (id \in Rows)'
         /\ Row(id).elapsed => requests'[id[1]][id[2]].elapsed
  <1>1. id[1] \in Accounts /\ id[2] \in 1..Len(requests[id[1]]) /\ id = <<id[1], id[2]>>
    BY RowParts
  <1> QED BY <1>1, RowNames DEF Grows, Row

LEMMA TabsStay ==
  ASSUME DeletionInv, Grows, deletionTab' = deletionTab
  PROVE  TabsKnow'
  BY RowsStay DEF DeletionInv, TabsKnow

LEMMA TabsEnd ==
  ASSUME DeletionInv, Grows, NEW t \in DeletionTabs,
         deletionTab' = [deletionTab EXCEPT ![t] = IdleTab]
  PROVE  TabsKnow'
  <1>1. IdleTab.op = "idle"
    BY DEF IdleTab
  <1>2. \A x \in DeletionTabs : deletionTab'[x] = IF x = t THEN IdleTab ELSE deletionTab[x]
    BY DEF DeletionInv, TabsKnow
  <1>3. \A x \in DeletionTabs : /\ deletionTab'[x].op = "request" => deletionTab'[x].id[1] \in Accounts
                                /\ deletionTab'[x].op = "cancel" => (deletionTab'[x].id \in Rows')
    BY <1>1, <1>2, RowsStay DEF DeletionInv, TabsKnow
  <1> QED BY <1>3 DEF DeletionInv, TabsKnow

LEMMA SweepsStay ==
  ASSUME DeletionInv, Grows, sweep' \in [Sweeps -> Sweep],
         \A s \in Sweeps : \/ sweep'[s].current \in {NoRequest, sweep[s].current}
                           \/ Row(sweep'[s].current).elapsed
  PROVE  SweepsKnow'
  <1>1. Sweep \subseteq Sweep'
    BY RowsStay DEF DeletionInv, Sweep, NoRequest
  <1>2. ASSUME NEW s \in Sweeps, sweep'[s].current # NoRequest
        PROVE  requests'[sweep'[s].current[1]][sweep'[s].current[2]].elapsed
    <2>1. sweep'[s].current \in Rows
      BY <1>2 DEF Sweep
    <2>2. Row(sweep'[s].current).elapsed
      BY <1>2 DEF DeletionInv, SweepsKnow
    <2> QED BY <2>1, <2>2, RowsStay DEF DeletionInv
  <1> QED BY <1>1, <1>2 DEF SweepsKnow, Row, NoRequest

\* A sweep's record, one field replaced.
LEMMA SweepFields ==
  ASSUME SweepsKnow, NEW s \in Sweeps, NEW todo, NEW current
  PROVE  /\ sweep[s].todo \in SUBSET Rows
         /\ sweep[s].current \in Rows \cup {NoRequest}
         /\ [sweep[s] EXCEPT !.todo = todo] = [todo |-> todo, current |-> sweep[s].current]
         /\ [sweep[s] EXCEPT !.current = current] = [todo |-> sweep[s].todo, current |-> current]
  BY DEF SweepsKnow, Sweep

\* A sweep that is given other work.
LEMMA SweepWorks ==
  ASSUME DeletionInv, Grows, NEW s \in Sweeps, NEW todo \in SUBSET Rows,
         NEW current \in Rows \cup {NoRequest},
         current \in {NoRequest, sweep[s].current} \/ Row(current).elapsed,
         sweep' = [sweep EXCEPT ![s] = [todo |-> todo, current |-> current]]
  PROVE  SweepsKnow'
  <1> DEFINE r == [todo |-> todo, current |-> current]
  <1>1. r \in Sweep /\ r.current = current
    BY DEF Sweep
  <1> HIDE DEF r
  <1>2. sweep' \in [Sweeps -> Sweep] /\ \A q \in Sweeps : sweep'[q] = IF q = s THEN r ELSE sweep[q]
    BY <1>1 DEF r, DeletionInv, SweepsKnow
  <1> QED BY <1>1, <1>2, SweepsStay

LEMMA DeletionStarts == DeletionInit => DeletionInv
  <1> SUFFICES ASSUME DeletionInit PROVE DeletionInv
    OBVIOUS
  <1> USE DEF DeletionInit
  <1>1. DeletionTables /\ OnePendingDeletion /\ TrailIsOfRequests
    BY DeletionAssumption DEF DeletionTables, OnePendingDeletion, TrailIsOfRequests
  <1>2. TrailMatchesRequests
    BY DEF TrailMatchesRequests
  <1>3. TabsKnow
    BY DEF TabsKnow, IdleTab
  <1>4. SweepsKnow
    BY DEF SweepsKnow, Sweep, IdleSweep
  <1> QED BY <1>1, <1>2, <1>3, <1>4 DEF DeletionInv

\* A step that writes no request, erases nobody and leaves no trail.
LEMMA TablesStay ==
  ASSUME DeletionInv, UNCHANGED <<sanitized, requests, audit>>, god' \subseteq Accounts,
         TabsKnow', SweepsKnow'
  PROVE  DeletionInv'
  BY DEF DeletionInv, DeletionTables, OnePendingDeletion, TrailIsOfRequests,
         TrailMatchesRequests, Row

LEMMA GrowsIfSame ==
  ASSUME DeletionTables, requests' = requests
  PROVE  Grows
  BY DEF Grows

\* A cancelled or completed row, as its commit writes it.
Stopped(row, status) == [row EXCEPT !.status = status]

LEMMA StoppedFacts ==
  ASSUME NEW row \in Request, NEW status \in {"cancelled", "completed"}
  PROVE  /\ Stopped(row, status) \in Request
         /\ Stopped(row, status).status = status
         /\ Stopped(row, status).elapsed = row.elapsed
  BY DEF Stopped, Request

\* What a request, a cancellation and an erasure write.
LEMMA AppendWrites ==
  ASSUME DeletionInv, NEW t \in DeletionTabs, RequestCommit(t)
  PROVE  LET u == deletionTab[t].id[1]
             n == Len(requests[u]) + 1 IN
         /\ u \in Accounts /\ n \in 1..MaxRequests
         /\ requests' \in [Accounts -> Seq(Request)]
         /\ \A w \in Accounts : Len(requests'[w]) = IF w = u THEN n ELSE Len(requests[w])
         /\ \A w \in Accounts : \A i \in 1..Len(requests[w]) : requests'[w][i] = requests[w][i]
         /\ requests'[u][n].status = "pending"
         /\ OnePendingDeletion'
  <1> DEFINE u == deletionTab[t].id[1]
             n == Len(requests[u]) + 1
             row == [status |-> "pending", elapsed |-> FALSE]
             s == Append(requests[u], row)
  <1>1. u \in Accounts
    BY DEF DeletionInv, TabsKnow, RequestCommit
  <1>2. requests[u] \in Seq(Request) /\ Len(requests[u]) \in Nat /\ row \in Request
    BY <1>1 DEF DeletionInv, DeletionTables, Request
  <1>3. /\ n \in 1..MaxRequests
        /\ PendingOf(u) = {}
        /\ requests' = [requests EXCEPT ![u] = s]
    BY <1>2 DEF DeletionInv, DeletionTables, RequestCommit, MayInsert
  <1>4. /\ s \in Seq(Request) /\ Len(s) = n /\ s[n] = row
        /\ \A i \in 1..Len(requests[u]) : s[i] = requests[u][i]
    <2> DEFINE q == requests[u]
    <2>1. q \in Seq(Request) /\ Len(q) \in Nat /\ row \in Request
      BY <1>2
    <2> HIDE DEF row, q
    <2>2. /\ Append(q, row) \in Seq(Request) /\ Len(Append(q, row)) = Len(q) + 1
          /\ Append(q, row)[Len(q) + 1] = row
          /\ \A i \in 1..Len(q) : Append(q, row)[i] = q[i]
      BY <2>1
    <2> QED BY <2>2 DEF q
  <1>5. \A i \in 1..Len(requests[u]) : requests[u][i].status # "pending"
    <2> SUFFICES ASSUME NEW i \in 1..Len(requests[u]), requests[u][i].status = "pending"
                 PROVE  FALSE
      OBVIOUS
    <2>1. <<u, i>> \in Rows
      BY <1>1, RowNames
    <2>2. <<u, i>> \in PendingOf(u)
      BY <2>1 DEF PendingOf, Pending, Row
    <2> QED BY <1>3, <2>2
  <1>6. row.status = "pending"
    OBVIOUS
  <1> HIDE DEF u, row, s
  <1>7. /\ requests' \in [Accounts -> Seq(Request)]
        /\ \A w \in Accounts : requests'[w] = IF w = u THEN s ELSE requests[w]
    BY <1>1, <1>3, <1>4 DEF DeletionInv, DeletionTables
  <1>8. OnePendingDeletion'
    <2> SUFFICES ASSUME NEW w \in Accounts, NEW i \in 1..Len(requests'[w]), NEW j \in 1..Len(requests'[w]),
                        requests'[w][i].status = "pending", requests'[w][j].status = "pending"
                 PROVE  i = j
      BY DEF OnePendingDeletion
    <2>1. CASE w = u
      <3>1. i = n /\ j = n
        BY <1>2, <1>4, <1>5, <1>7, <2>1
      <3> QED BY <3>1
    <2>2. CASE w # u
      BY <1>7, <2>2 DEF DeletionInv, OnePendingDeletion
    <2> QED BY <2>1, <2>2
  <1> QED BY <1>1, <1>3, <1>4, <1>6, <1>7, <1>8 DEF u, row, s

LEMMA CancelWrites ==
  ASSUME DeletionInv, NEW t \in DeletionTabs, CancelCommit(t)
  PROVE  LET id == deletionTab[t].id
             row == Stopped(requests[id[1]][id[2]], "cancelled") IN
         /\ id[1] \in Accounts /\ id[2] \in 1..Len(requests[id[1]]) /\ id \in Rows
         /\ requests[id[1]][id[2]] \in Request
         /\ requests[id[1]][id[2]].status = "pending"
         /\ Written(id[1], id[2], row)
  <1> DEFINE id == deletionTab[t].id
  <1>1. id \in Rows
    BY DEF DeletionInv, TabsKnow, CancelCommit
  <1>2. /\ id[1] \in Accounts /\ id[2] \in 1..Len(requests[id[1]])
        /\ Row(id) = requests[id[1]][id[2]] /\ Row(id) \in Request
    BY <1>1, RowParts DEF DeletionInv
  <1>3. requests[id[1]][id[2]].status = "pending"
    BY <1>2 DEF CancelCommit, CancelApplies, Pending
  <1>4. Written(id[1], id[2], Stopped(requests[id[1]][id[2]], "cancelled"))
    BY DEF CancelCommit, Stopped, Written
  <1> QED BY <1>1, <1>2, <1>3, <1>4

LEMMA SanitizeWrites ==
  ASSUME DeletionInv, NEW s \in Sweeps, SanitizeCommit(s)
  PROVE  LET id == sweep[s].current
             row == Stopped(requests[id[1]][id[2]], "completed") IN
         /\ id[1] \in Accounts /\ id[2] \in 1..Len(requests[id[1]]) /\ id \in Rows
         /\ requests[id[1]][id[2]] \in Request
         /\ requests[id[1]][id[2]].elapsed
         /\ Written(id[1], id[2], row)
  <1> DEFINE id == sweep[s].current
  <1>1. id \in Rows /\ Row(id).elapsed
    BY DEF DeletionInv, SweepsKnow, Sweep, SanitizeCommit
  <1>2. /\ id[1] \in Accounts /\ id[2] \in 1..Len(requests[id[1]])
        /\ Row(id) = requests[id[1]][id[2]] /\ Row(id) \in Request
    BY <1>1, RowParts DEF DeletionInv
  <1>3. Written(id[1], id[2], Stopped(requests[id[1]][id[2]], "completed"))
    BY DEF SanitizeCommit, Stopped, Written
  <1> QED BY <1>1, <1>2, <1>3

LEMMA GraceWrites ==
  ASSUME DeletionInv, NEW id \in Rows, GraceElapses(id)
  PROVE  LET row == [requests[id[1]][id[2]] EXCEPT !.elapsed = TRUE] IN
         /\ id[1] \in Accounts /\ id[2] \in 1..Len(requests[id[1]])
         /\ row \in Request /\ row.elapsed
         /\ row.status = requests[id[1]][id[2]].status
         /\ Written(id[1], id[2], row)
  <1>1. /\ id[1] \in Accounts /\ id[2] \in 1..Len(requests[id[1]])
        /\ Row(id) = requests[id[1]][id[2]] /\ Row(id) \in Request
    BY RowParts DEF DeletionInv
  <1>2. Written(id[1], id[2], [requests[id[1]][id[2]] EXCEPT !.elapsed = TRUE])
    BY DEF GraceElapses, Written
  <1> DEFINE row == [requests[id[1]][id[2]] EXCEPT !.elapsed = TRUE]
  <1>3. row \in Request /\ row.elapsed /\ row.status = requests[id[1]][id[2]].status
    BY <1>1 DEF Request
  <1> QED BY <1>1, <1>2, <1>3

\* The trail of a row that is cancelled, completed or neither.
LEMMA TrailKept ==
  ASSUME DeletionInv, NEW u \in Accounts, NEW i \in 1..Len(requests[u]),
         \A w \in Accounts : Len(requests'[w]) = Len(requests[w]),
         \A w \in Accounts : \A j \in 1..Len(requests[w]) :
           w # u \/ j # i => requests'[w][j] = requests[w][j],
         \/ /\ requests'[u][i].status = requests[u][i].status
            /\ UNCHANGED <<audit, sanitized>>
         \/ /\ requests[u][i].status # "completed" /\ requests'[u][i].status = "cancelled"
            /\ audit' = audit \cup {<<u, i, "cancelled">>} /\ sanitized' = sanitized
         \/ /\ requests'[u][i].status = "completed"
            /\ audit' = audit \cup {<<u, i, "sanitized">>} /\ sanitized' = sanitized \cup {u}
  PROVE  TrailIsOfRequests' /\ TrailMatchesRequests'
  <1>0. /\ MaxRequests \in Nat
        /\ \A w \in Accounts : Len(requests[w]) \in Nat /\ Len(requests[w]) <= MaxRequests
        /\ i \in 1..MaxRequests
    BY DEF DeletionInv, DeletionTables
  <1>1. TrailIsOfRequests'
    BY <1>0 DEF DeletionInv, TrailIsOfRequests
  <1>2. ASSUME NEW w \in Accounts, NEW j \in 1..MaxRequests
        PROVE  /\ j <= Len(requests'[w]) <=> <<w, j, "requested">> \in audit'
               /\ j <= Len(requests'[w]) =>
                    /\ requests'[w][j].status = "completed" <=> <<w, j, "sanitized">> \in audit'
                    /\ requests'[w][j].status = "cancelled" => <<w, j, "cancelled">> \in audit'
    <2>1. /\ j <= Len(requests[w]) <=> <<w, j, "requested">> \in audit
          /\ j <= Len(requests[w]) =>
               /\ requests[w][j].status = "completed" <=> <<w, j, "sanitized">> \in audit
               /\ requests[w][j].status = "cancelled" => <<w, j, "cancelled">> \in audit
      BY <1>2 DEF DeletionInv, TrailMatchesRequests, Row
    <2>2. CASE w = u /\ j = i
      BY <1>0, <2>1, <2>2
    <2>3. CASE ~(w = u /\ j = i)
      <3>1. j <= Len(requests[w]) => requests'[w][j] = requests[w][j]
        BY <1>0, <2>3
      <3>2. \A what \in {"requested", "sanitized", "cancelled"} :
              <<w, j, what>> \in audit' <=> <<w, j, what>> \in audit
        BY <2>3
      <3> QED BY <2>1, <3>1, <3>2
    <2> QED BY <2>2, <2>3
  <1>3. ASSUME NEW w \in Accounts
        PROVE  w \in sanitized' <=> \E j \in 1..Len(requests'[w]) : requests'[w][j].status = "completed"
    <2>1. w \in sanitized <=> \E j \in 1..Len(requests[w]) : requests[w][j].status = "completed"
      BY <1>3 DEF DeletionInv, TrailMatchesRequests, Row
    <2>2. CASE w # u
      BY <2>1, <2>2
    <2>3. CASE w = u
      BY <1>0, <2>1, <2>3
    <2> QED BY <2>2, <2>3
  <1> QED BY <1>1, <1>2, <1>3 DEF TrailMatchesRequests, Row

LEMMA TrailOfAppend ==
  ASSUME DeletionInv, NEW t \in DeletionTabs, RequestCommit(t)
  PROVE  TrailIsOfRequests' /\ TrailMatchesRequests'
  <1> DEFINE u == deletionTab[t].id[1]
             n == Len(requests[u]) + 1
  <1>1. /\ u \in Accounts /\ n \in 1..MaxRequests
        /\ \A w \in Accounts : Len(requests'[w]) = IF w = u THEN n ELSE Len(requests[w])
        /\ \A w \in Accounts : \A i \in 1..Len(requests[w]) : requests'[w][i] = requests[w][i]
        /\ requests'[u][n].status = "pending"
    BY AppendWrites
  <1>2. audit' = audit \cup {<<u, n, "requested">>} /\ sanitized' = sanitized
    BY DEF RequestCommit, postVars
  <1>3. \A w \in Accounts : Len(requests[w]) \in Nat /\ Len(requests[w]) <= MaxRequests
    BY DEF DeletionInv, DeletionTables
  <1> HIDE DEF u
  <1>4. TrailIsOfRequests'
    BY <1>1, <1>2, <1>3 DEF DeletionInv, TrailIsOfRequests
  <1>5. ASSUME NEW w \in Accounts, NEW j \in 1..MaxRequests
        PROVE  /\ j <= Len(requests'[w]) <=> <<w, j, "requested">> \in audit'
               /\ j <= Len(requests'[w]) =>
                    /\ requests'[w][j].status = "completed" <=> <<w, j, "sanitized">> \in audit'
                    /\ requests'[w][j].status = "cancelled" => <<w, j, "cancelled">> \in audit'
    <2>1. /\ j <= Len(requests[w]) <=> <<w, j, "requested">> \in audit
          /\ <<w, j, "sanitized">> \in audit => j <= Len(requests[w])
          /\ j <= Len(requests[w]) =>
               /\ requests[w][j].status = "completed" <=> <<w, j, "sanitized">> \in audit
               /\ requests[w][j].status = "cancelled" => <<w, j, "cancelled">> \in audit
      BY <1>5 DEF DeletionInv, TrailIsOfRequests, TrailMatchesRequests, Row
    <2>2. j <= Len(requests[w]) => requests'[w][j] = requests[w][j]
      BY <1>1, <1>3
    <2>3. CASE w = u /\ j = n
      BY <1>1, <1>2, <1>3, <2>1, <2>3
    <2>4. CASE ~(w = u /\ j = n)
      <3>1. j <= Len(requests'[w]) <=> j <= Len(requests[w])
        BY <1>1, <1>3, <2>4
      <3> QED BY <1>2, <2>1, <2>2, <2>4, <3>1
    <2> QED BY <2>3, <2>4
  <1>6. ASSUME NEW w \in Accounts
        PROVE  w \in sanitized' <=> \E j \in 1..Len(requests'[w]) : requests'[w][j].status = "completed"
    <2>1. w \in sanitized <=> \E j \in 1..Len(requests[w]) : requests[w][j].status = "completed"
      BY <1>6 DEF DeletionInv, TrailMatchesRequests, Row
    <2>2. CASE w # u
      BY <1>1, <1>2, <2>1, <2>2
    <2>3. CASE w = u
      <3>1. \A j \in 1..Len(requests'[w]) : j = n \/ j \in 1..Len(requests[w])
        BY <1>1, <1>3, <2>3
      <3>2. \A j \in 1..Len(requests[w]) : j \in 1..Len(requests'[w])
                                         /\ requests'[w][j] = requests[w][j]
        BY <1>1, <1>3, <2>3
      <3>3. requests'[w][n].status # "completed"
        BY <1>1, <2>3
      <3>4. (\E j \in 1..Len(requests'[w]) : requests'[w][j].status = "completed") <=>
              \E j \in 1..Len(requests[w]) : requests[w][j].status = "completed"
        BY <3>1, <3>2, <3>3
      <3> QED BY <1>2, <2>1, <3>4
    <2> QED BY <2>2, <2>3
  <1> QED BY <1>4, <1>5, <1>6 DEF TrailMatchesRequests, Row

\* Every step keeps the invariant.
LEMMA DeletionStep ==
  ASSUME DeletionInv, [DeletionNext]_deletionVars
  PROVE  DeletionInv'
  <1>0. /\ DeletionTables /\ TabsKnow /\ SweepsKnow
        /\ \A u \in Accounts : Len(requests[u]) \in Nat
    BY DEF DeletionInv, DeletionTables
  <1>1. ASSUME NEW t \in DeletionTabs, NEW a \in Accounts, RequestRead(t, a)
        PROVE  DeletionInv'
    <2>1. UNCHANGED <<god, sanitized, requests, audit, sweep>>
      BY <1>1 DEF RequestRead, postVars
    <2>2. deletionTab' = [deletionTab EXCEPT ![t] = [op |-> "request", id |-> <<a, 0>>]]
      BY <1>1 DEF RequestRead
    <2>3. \A x \in DeletionTabs : /\ deletionTab'[x].op = "request" => deletionTab'[x].id[1] \in Accounts
                                  /\ deletionTab'[x].op = "cancel" => deletionTab'[x].id \in Rows
      BY <1>0, <2>2 DEF TabsKnow
    <2>4. TabsKnow'
      BY <1>0, <2>1, <2>2, <2>3 DEF TabsKnow, Rows
    <2> QED BY <1>0, <2>1, <2>4, TablesStay DEF DeletionTables, SweepsKnow, Sweep, Rows, Row
  <1>2. ASSUME NEW t \in DeletionTabs, RequestCommit(t)
        PROVE  DeletionInv'
    <2>1. /\ requests' \in [Accounts -> Seq(Request)] /\ OnePendingDeletion'
          /\ \A w \in Accounts : Len(requests'[w]) <= MaxRequests
      <3> DEFINE u == deletionTab[t].id[1]
                 n == Len(requests[u]) + 1
      <3>1. /\ n \in 1..MaxRequests /\ OnePendingDeletion'
            /\ requests' \in [Accounts -> Seq(Request)]
            /\ \A w \in Accounts : Len(requests'[w]) = IF w = u THEN n ELSE Len(requests[w])
        BY <1>2, AppendWrites
      <3> HIDE DEF u, n
      <3> QED BY <1>0, <3>1 DEF DeletionTables
    <2>2. Grows
      BY <1>0, <1>2, AppendWrites DEF Grows
    <2>3. UNCHANGED <<god, sanitized, sweep>> /\ deletionTab' = [deletionTab EXCEPT ![t] = IdleTab]
      BY <1>2 DEF RequestCommit, postVars
    <2>4. TabsKnow' /\ SweepsKnow'
      BY <1>0, <2>2, <2>3, TabsEnd, SweepsStay DEF SweepsKnow
    <2> QED BY <1>0, <1>2, <2>1, <2>3, <2>4, TrailOfAppend DEF DeletionInv, DeletionTables
  <1>3. ASSUME NEW t \in DeletionTabs, NEW id \in Rows, CancelRead(t, id)
        PROVE  DeletionInv'
    <2>1. UNCHANGED <<god, sanitized, requests, audit, sweep>>
      BY <1>3 DEF CancelRead, postVars
    <2>2. deletionTab' = [deletionTab EXCEPT ![t] = [op |-> "cancel", id |-> id]]
      BY <1>3 DEF CancelRead
    <2>3. \A x \in DeletionTabs : /\ deletionTab'[x].op = "request" => deletionTab'[x].id[1] \in Accounts
                                  /\ deletionTab'[x].op = "cancel" => deletionTab'[x].id \in Rows
      BY <1>0, <2>2 DEF TabsKnow
    <2>4. TabsKnow'
      BY <1>0, <2>1, <2>2, <2>3 DEF TabsKnow, Rows
    <2> QED BY <1>0, <2>1, <2>4, TablesStay DEF DeletionTables, SweepsKnow, Sweep, Rows, Row
  <1>4. ASSUME NEW t \in DeletionTabs, CancelCommit(t)
        PROVE  DeletionInv'
    <2> DEFINE u == deletionTab[t].id[1]
               i == deletionTab[t].id[2]
               row == Stopped(requests[u][i], "cancelled")
    <2>1. /\ u \in Accounts /\ i \in 1..Len(requests[u])
          /\ requests[u][i].status = "pending"
          /\ Written(u, i, row)
          /\ row \in Request /\ row.status = "cancelled"
          /\ row.elapsed = requests[u][i].elapsed
      BY <1>4, CancelWrites, StoppedFacts
    <2>2. /\ audit' = audit \cup {<<u, i, "cancelled">>} /\ UNCHANGED <<god, sanitized, sweep>>
          /\ deletionTab' = [deletionTab EXCEPT ![t] = IdleTab]
      BY <1>4 DEF CancelCommit, postVars
    <2> HIDE DEF u, i, row
    <2>3. /\ requests' \in [Accounts -> Seq(Request)] /\ OnePendingDeletion'
          /\ \A w \in Accounts : Len(requests'[w]) = Len(requests[w])
          /\ requests'[u][i] = row
          /\ \A w \in Accounts : \A j \in 1..Len(requests[w]) :
               w # u \/ j # i => requests'[w][j] = requests[w][j]
      BY <2>1, DeletionWritten
    <2>4. Grows
      BY <1>0, <2>1, <2>3 DEF Grows
    <2>5. TabsKnow' /\ SweepsKnow'
      BY <1>0, <2>2, <2>4, TabsEnd, SweepsStay DEF SweepsKnow
    <2>6. TrailIsOfRequests' /\ TrailMatchesRequests'
      BY <2>1, <2>2, <2>3, TrailKept
    <2> QED BY <1>0, <2>2, <2>3, <2>5, <2>6 DEF DeletionInv, DeletionTables
  <1>5. ASSUME NEW t \in DeletionTabs, TabEnds(t)
        PROVE  DeletionInv'
    <2>1. UNCHANGED <<god, sanitized, requests, audit, sweep>>
          /\ deletionTab' = [deletionTab EXCEPT ![t] = IdleTab]
      BY <1>5 DEF TabEnds, postVars
    <2>2. Grows
      BY <1>0, <2>1, GrowsIfSame
    <2>3. TabsKnow' /\ SweepsKnow'
      BY <1>0, <2>1, <2>2, TabsEnd, SweepsStay DEF SweepsKnow
    <2> QED BY <1>0, <2>1, <2>3, TablesStay DEF DeletionTables
  <1>6. ASSUME NEW s \in Sweeps, \/ SweepStart(s) \/ SweepDies(s)
                                 \/ \E id \in RequestId :
                                      SanitizeRead(s, id) \/ SanitizeSkip(s, id)
        PROVE  DeletionInv'
    <2>1. UNCHANGED <<god, sanitized, requests, audit, deletionTab>>
      BY <1>6 DEF SweepStart, SweepDies, SanitizeRead,
                  SanitizeSkip, postVars
    <2>2. Grows
      BY <1>0, <2>1, GrowsIfSame
    <2>3. ASSUME SweepStart(s)
          PROVE  SweepsKnow'
      <3>1. PICK batch : batch \subseteq DueRequests /\ sweep' = [sweep EXCEPT ![s].todo = batch]
        BY <2>3 DEF SweepStart, kSubset
      <3>2. batch \in SUBSET Rows
        BY <3>1 DEF DueRequests
      <3>3. sweep' = [sweep EXCEPT ![s] = [todo |-> batch, current |-> sweep[s].current]]
        BY <1>0, <3>1, SweepFields
      <3>4. sweep[s].current \in Rows \cup {NoRequest}
        BY <1>0, SweepFields
      <3> QED BY <2>2, <3>2, <3>3, <3>4, SweepWorks
    <2>4. ASSUME SweepDies(s)
          PROVE  SweepsKnow'
      <3>1. sweep' = [sweep EXCEPT ![s] = [todo |-> {}, current |-> NoRequest]]
        BY <2>4 DEF SweepDies, IdleSweep
      <3>2. {} \in SUBSET Rows /\ NoRequest \in Rows \cup {NoRequest}
        OBVIOUS
      <3> QED BY <2>2, <3>1, <3>2, SweepWorks
    <2>5. ASSUME NEW id \in RequestId, SanitizeRead(s, id)
          PROVE  SweepsKnow'
      <3>1. /\ sweep' = [sweep EXCEPT ![s] = [todo |-> sweep[s].todo \ {id}, current |-> id]]
            /\ id \in sweep[s].todo /\ Row(id).elapsed
        BY <2>5 DEF SanitizeRead, SanitizeAllowed, Due
      <3>2. sweep[s].todo \ {id} \in SUBSET Rows /\ id \in Rows
        BY <1>0, <3>1 DEF SweepsKnow, Sweep
      <3> QED BY <2>2, <3>1, <3>2, SweepWorks
    <2>6. ASSUME NEW id \in RequestId, SanitizeSkip(s, id)
          PROVE  SweepsKnow'
      <3>1. sweep' = [sweep EXCEPT ![s] = [todo |-> sweep[s].todo \ {id}, current |-> sweep[s].current]]
        BY <1>0, <2>6, SweepFields DEF SanitizeSkip
      <3>2. /\ sweep[s].todo \ {id} \in SUBSET Rows
            /\ sweep[s].current \in Rows \cup {NoRequest}
        BY <1>0 DEF SweepsKnow, Sweep
      <3> QED BY <2>2, <3>1, <3>2, SweepWorks
    <2>7. TabsKnow' /\ SweepsKnow'
      BY <1>6, <2>1, <2>2, <2>3, <2>4, <2>5, <2>6, TabsStay
    <2> QED BY <1>0, <2>1, <2>7, TablesStay DEF DeletionTables
  <1>7. ASSUME NEW s \in Sweeps, SanitizeCommit(s)
        PROVE  DeletionInv'
    <2> DEFINE u == sweep[s].current[1]
               i == sweep[s].current[2]
               row == Stopped(requests[u][i], "completed")
    <2>1. /\ u \in Accounts /\ i \in 1..Len(requests[u])
          /\ Written(u, i, row)
          /\ row \in Request /\ row.status = "completed"
          /\ row.elapsed = requests[u][i].elapsed
      BY <1>7, SanitizeWrites, StoppedFacts
    <2>2. /\ audit' = audit \cup {<<u, i, "sanitized">>} /\ sanitized' = sanitized \cup {u}
          /\ god' \subseteq god /\ deletionTab' = deletionTab
          /\ sweep' = [sweep EXCEPT ![s] = [sweep[s] EXCEPT !.current = NoRequest]]
      BY <1>7 DEF SanitizeCommit
    <2> HIDE DEF u, i, row
    <2>3. /\ requests' \in [Accounts -> Seq(Request)] /\ OnePendingDeletion'
          /\ \A w \in Accounts : Len(requests'[w]) = Len(requests[w])
          /\ requests'[u][i] = row
          /\ \A w \in Accounts : \A j \in 1..Len(requests[w]) :
               w # u \/ j # i => requests'[w][j] = requests[w][j]
      BY <2>1, DeletionWritten
    <2>4. Grows
      BY <1>0, <2>1, <2>3 DEF Grows
    <2>5. TabsKnow' /\ SweepsKnow'
      <3>1. sweep' = [sweep EXCEPT ![s] = [todo |-> sweep[s].todo, current |-> NoRequest]]
        BY <1>0, <2>2, SweepFields
      <3>2. sweep[s].todo \in SUBSET Rows
        BY <1>0 DEF SweepsKnow, Sweep
      <3> QED BY <2>2, <2>4, <3>1, <3>2, TabsStay, SweepWorks
    <2>6. TrailIsOfRequests' /\ TrailMatchesRequests'
      BY <2>1, <2>2, <2>3, TrailKept
    <2> QED BY <1>0, <2>1, <2>2, <2>3, <2>5, <2>6 DEF DeletionInv, DeletionTables
  <1>8. ASSUME NEW id \in Rows, GraceElapses(id)
        PROVE  DeletionInv'
    <2> DEFINE u == id[1]
               i == id[2]
               row == [requests[u][i] EXCEPT !.elapsed = TRUE]
    <2>1. /\ u \in Accounts /\ i \in 1..Len(requests[u])
          /\ row \in Request /\ row.elapsed
          /\ row.status = requests[u][i].status
          /\ Written(u, i, row)
      BY <1>8, GraceWrites
    <2>2. UNCHANGED <<god, sanitized, audit, deletionTab, sweep>>
      BY <1>8 DEF GraceElapses, postVars
    <2> HIDE DEF u, i, row
    <2>3. /\ requests' \in [Accounts -> Seq(Request)] /\ OnePendingDeletion'
          /\ \A w \in Accounts : Len(requests'[w]) = Len(requests[w])
          /\ requests'[u][i] = row
          /\ \A w \in Accounts : \A j \in 1..Len(requests[w]) :
               w # u \/ j # i => requests'[w][j] = requests[w][j]
      BY <2>1, DeletionWritten
    <2>4. Grows
      BY <1>0, <2>1, <2>3 DEF Grows
    <2>5. TabsKnow' /\ SweepsKnow'
      BY <1>0, <2>2, <2>4, TabsStay, SweepsStay DEF SweepsKnow
    <2>6. TrailIsOfRequests' /\ TrailMatchesRequests'
      BY <2>1, <2>2, <2>3, TrailKept
    <2> QED BY <1>0, <2>2, <2>3, <2>5, <2>6 DEF DeletionInv, DeletionTables
  <1>9. CASE \/ \E a \in Accounts : BootstrapGod(a)
             \/ \E c \in Camps, a \in Accounts : TransferLead(c, a)
             \/ UNCHANGED deletionVars
    <2>1. UNCHANGED <<sanitized, requests, audit, deletionTab, sweep>> /\ god' \subseteq Accounts
      BY <1>0, <1>9 DEF BootstrapGod, TransferLead, deletionVars, DeletionTables
    <2>2. Grows
      BY <1>0, <2>1, GrowsIfSame
    <2>3. TabsKnow' /\ SweepsKnow'
      BY <1>0, <2>1, <2>2, TabsStay, SweepsStay DEF SweepsKnow
    <2> QED BY <2>1, <2>3, TablesStay
  <1> QED
    BY <1>1, <1>2, <1>3, <1>4, <1>5, <1>6, <1>7, <1>8, <1>9
       DEF DeletionNext, TabStep, SweepStep

\* However requests, sign-ins and sweeps overlap, rows, trail and tombstones agree, and
\* whatever a sweep is erasing was due when it was read.
THEOREM DeletionInvariance == DeletionSpec => []DeletionInv
  <1>1. DeletionInit => DeletionInv
    BY DeletionStarts
  <1> QED BY <1>1, DeletionStep, PTL DEF DeletionSpec

\* Every request, cancellation and erasure has its audit line and no other line is
\* written; an account is erased exactly when one of its requests is completed.
THEOREM TrailIsExact == DeletionSpec => []TrailMatchesRequests
  <1>1. DeletionInv => TrailMatchesRequests
    BY DEF DeletionInv
  <1> QED BY <1>1, DeletionInvariance, PTL

---------------------------------------------------------------------------
(* What a step may do to a request.                                        *)

\* A step that keeps every request's status, or grows an account's list, changes no
\* status; only a cancellation and an erasure do.
KeepsStatus ==
  \A u \in Accounts : \A i \in 1..Len(requests[u]) :
    requests'[u][i].status = requests[u][i].status

LEMMA StatusSteps ==
  ASSUME DeletionInv, [DeletionNext]_deletionVars
  PROVE  \/ KeepsStatus
         \/ \E t \in DeletionTabs : CancelCommit(t)
         \/ \E s \in Sweeps : SanitizeCommit(s)
  <1>1. ASSUME NEW t \in DeletionTabs, RequestCommit(t)
        PROVE  KeepsStatus
    BY <1>1, AppendWrites DEF KeepsStatus
  <1>2. ASSUME NEW id \in Rows, GraceElapses(id)
        PROVE  KeepsStatus
    <2> DEFINE u == id[1]
               i == id[2]
               row == [requests[u][i] EXCEPT !.elapsed = TRUE]
    <2>1. /\ u \in Accounts /\ i \in 1..Len(requests[u]) /\ row \in Request
          /\ row.status = requests[u][i].status /\ Written(u, i, row)
      BY <1>2, GraceWrites
    <2> HIDE DEF u, i, row
    <2>2. /\ requests'[u][i] = row
          /\ \A w \in Accounts : \A j \in 1..Len(requests[w]) :
               w # u \/ j # i => requests'[w][j] = requests[w][j]
      BY <2>1, DeletionWritten
    <2> QED BY <2>1, <2>2 DEF KeepsStatus
  <1>3. CASE requests' = requests
    BY <1>3 DEF KeepsStatus
  <1> QED
    BY <1>1, <1>2, <1>3
       DEF DeletionNext, TabStep, SweepStep, deletionVars, RequestRead,
           CancelRead, TabEnds, SweepStart, SanitizeRead,
           SanitizeSkip, SweepDies, BootstrapGod, TransferLead

\* One status is written: what ErasureIsDue says of every request follows from what
\* it says of that one.
LEMMA OneStatusWritten ==
  ASSUME DeletionInv, NEW u \in Accounts, NEW i \in 1..Len(requests[u]), NEW row \in Request,
         row.status = "pending" => requests[u][i].status = "pending",
         Written(u, i, row), NEW id \in Rows, id # <<u, i>>
  PROVE  Row(id)' = Row(id)
  <1>1. \A w \in Accounts : \A j \in 1..Len(requests[w]) :
          w # u \/ j # i => requests'[w][j] = requests[w][j]
    BY DeletionWritten
  <1>2. id[1] \in Accounts /\ id[2] \in 1..Len(requests[id[1]]) /\ id = <<id[1], id[2]>>
    BY RowParts DEF DeletionInv
  <1> QED BY <1>1, <1>2 DEF Row

\* Nobody is erased inside the grace period, a completed request stays completed, and
\* a cancelled one stays cancelled unless a sweep was already erasing its account.
THEOREM ErasuresAreDue == DeletionSpec => ErasureIsDue
  <1> DEFINE Fair == \A id \in Rows :
        /\ Row(id).status # "completed" /\ Row(id)'.status = "completed" =>
             Row(id).elapsed
        /\ Row(id).status = "completed" => Row(id)'.status = "completed"
        /\ Row(id).status = "cancelled" /\ Row(id)'.status # "cancelled" =>
             \E s \in Sweeps : sweep[s].current = id
  <1>1. ASSUME DeletionInv, [DeletionNext]_deletionVars
        PROVE  Fair
    <2> SUFFICES ASSUME NEW id \in Rows
        PROVE /\ Row(id).status # "completed" /\ Row(id)'.status = "completed" =>
                   Row(id).elapsed
              /\ Row(id).status = "completed" => Row(id)'.status = "completed"
              /\ Row(id).status = "cancelled" /\ Row(id)'.status # "cancelled" =>
                   \E s \in Sweeps : sweep[s].current = id
      OBVIOUS
    <2>1. /\ id[1] \in Accounts /\ id[2] \in 1..Len(requests[id[1]]) /\ id = <<id[1], id[2]>>
          /\ Row(id) = requests[id[1]][id[2]]
          /\ Row(id)' = requests'[id[1]][id[2]]
      BY <1>1, RowParts DEF DeletionInv, Row
    <2>2. CASE KeepsStatus
      BY <2>1, <2>2 DEF KeepsStatus
    <2>3. ASSUME NEW t \in DeletionTabs, CancelCommit(t)
          PROVE  \/ Row(id)' = Row(id)
                 \/ Row(id).status = "pending" /\ Row(id)'.status = "cancelled"
      <3> DEFINE u == deletionTab[t].id[1]
                 i == deletionTab[t].id[2]
                 row == Stopped(requests[u][i], "cancelled")
      <3>1. /\ u \in Accounts /\ i \in 1..Len(requests[u]) /\ requests[u][i].status = "pending"
            /\ Written(u, i, row) /\ row \in Request /\ row.status = "cancelled"
        BY <1>1, <2>3, CancelWrites, StoppedFacts
      <3> HIDE DEF u, i, row
      <3>2. requests'[u][i] = row
        BY <1>1, <3>1, DeletionWritten
      <3>3. CASE id = <<u, i>>
        BY <2>1, <3>1, <3>2, <3>3
      <3>4. CASE id # <<u, i>>
        BY <1>1, <3>1, <3>4, OneStatusWritten
      <3> QED BY <3>3, <3>4
    <2>4. ASSUME NEW s \in Sweeps, SanitizeCommit(s)
          PROVE  \/ Row(id)' = Row(id)
                 \/ /\ sweep[s].current = id /\ Row(id).elapsed
                    /\ Row(id)'.status = "completed"
      <3> DEFINE u == sweep[s].current[1]
                 i == sweep[s].current[2]
                 row == Stopped(requests[u][i], "completed")
      <3>1. /\ u \in Accounts /\ i \in 1..Len(requests[u]) /\ requests[u][i].elapsed
            /\ Written(u, i, row) /\ row \in Request /\ row.status = "completed"
            /\ sweep[s].current \in Rows
        BY <1>1, <2>4, SanitizeWrites, StoppedFacts
      <3>2. sweep[s].current = <<u, i>>
        BY <1>1, <3>1, RowParts DEF DeletionInv
      <3> HIDE DEF u, i, row
      <3>3. requests'[u][i] = row
        BY <1>1, <3>1, DeletionWritten
      <3>4. CASE id = <<u, i>>
        BY <2>1, <3>1, <3>2, <3>3, <3>4
      <3>5. CASE id # <<u, i>>
        BY <1>1, <3>1, <3>5, OneStatusWritten
      <3> QED BY <3>4, <3>5
    <2> QED BY <1>1, <2>2, <2>3, <2>4, StatusSteps
  <1>2. ASSUME DeletionInv, [DeletionNext]_deletionVars
        PROVE  [Fair]_deletionVars
    BY <1>1, <1>2
  <1> QED BY <1>2, DeletionInvariance, PTL DEF DeletionSpec, ErasureIsDue

---------------------------------------------------------------------------
(* The lockout the guard prevents.                                         *)

\* No two sweeps hold an open erasure at once: what the guard's second reading needs,
\* and what the daily schedule gives as long as no run outlives its day.
OneErases ==
  \A s, q \in Sweeps :
    sweep[s].current # NoRequest /\ sweep[q].current # NoRequest => s = q

\* There is a live System manager, and there still is one without the account a
\* sweep is erasing.
GodSurvives ==
  /\ god \cap Live # {}
  /\ \A s \in Sweeps : sweep[s].current # NoRequest =>
       (god \cap Live) \ {sweep[s].current[1]} # {}

LEMMA GodSurvivesSteps ==
  ASSUME DeletionInv, GodSurvives, OneErases, [DeletionNext]_deletionVars
  PROVE  GodSurvives'
  <1>0. god \subseteq Accounts /\ sanitized \subseteq Accounts /\ sweep \in [Sweeps -> Sweep]
    BY DEF DeletionInv, DeletionTables, SweepsKnow
  <1>1. CASE god \subseteq god' /\ sanitized' = sanitized /\ sweep' = sweep
    BY <1>1 DEF GodSurvives, Live
  <1>2. ASSUME NEW s \in Sweeps,
               UNCHANGED <<god, sanitized>>,
               \A q \in Sweeps : sweep'[q].current \in {sweep[q].current, NoRequest}
        PROVE  GodSurvives'
    BY <1>2 DEF GodSurvives, Live, NoRequest
  <1>3. ASSUME NEW s \in Sweeps, SweepStart(s) \/ SweepDies(s)
        PROVE  GodSurvives'
    <2>1. UNCHANGED <<god, sanitized>>
      BY <1>3 DEF SweepStart, SweepDies, postVars
    <2>2. \A q \in Sweeps : sweep'[q].current \in {sweep[q].current, NoRequest}
      BY <1>0, <1>3 DEF SweepStart, SweepDies, IdleSweep, Sweep
    <2> QED BY <1>2, <2>1, <2>2
  <1>4. ASSUME NEW s \in Sweeps, NEW id \in RequestId, SanitizeSkip(s, id)
        PROVE  GodSurvives'
    <2>1. UNCHANGED <<god, sanitized>>
      BY <1>4 DEF SanitizeSkip, postVars
    <2>2. \A q \in Sweeps : sweep'[q].current \in {sweep[q].current, NoRequest}
      BY <1>0, <1>4 DEF SanitizeSkip, Sweep
    <2> QED BY <1>2, <2>1, <2>2
  <1>5. ASSUME NEW s \in Sweeps, NEW id \in RequestId, SanitizeRead(s, id)
        PROVE  GodSurvives'
    <2>1. UNCHANGED <<god, sanitized>>
      BY <1>5 DEF SanitizeRead, postVars
    <2>2. \A q \in Sweeps : sweep'[q].current = IF q = s THEN id ELSE sweep[q].current
      BY <1>0, <1>5 DEF SanitizeRead, Sweep
    <2>3. ~Blocked(id[1])
      BY <1>5 DEF SanitizeRead, SanitizeAllowed
    <2>4. (god \cap Live) \ {id[1]} # {}
      BY <2>3 DEF GodSurvives, Blocked
    <2> QED BY <2>1, <2>2, <2>4 DEF GodSurvives, Live
  <1>6. ASSUME NEW s \in Sweeps, SanitizeCommit(s)
        PROVE  GodSurvives'
    <2> DEFINE u == sweep[s].current[1]
    <2>1. /\ sweep[s].current # NoRequest
          /\ god' = god \ {u} /\ sanitized' = sanitized \cup {u}
      BY <1>6 DEF SanitizeCommit
    <2>2. sweep' = [sweep EXCEPT ![s] = [sweep[s] EXCEPT !.current = NoRequest]]
      BY <1>6 DEF SanitizeCommit
    <2>3. \A q \in Sweeps : sweep'[q].current = NoRequest
      <3>1. \A q \in Sweeps : q # s => sweep[q].current = NoRequest
        BY <2>1 DEF OneErases
      <3> QED BY <1>0, <2>2, <3>1 DEF Sweep
    <2>4. (god \cap Live) \ {u} # {}
      BY <2>1 DEF GodSurvives
    <2>5. god' \cap (Accounts \ sanitized') # {}
      BY <2>1, <2>4 DEF Live
    <2> QED BY <2>3, <2>5 DEF GodSurvives, Live, NoRequest
  <1>7. CASE \/ \E t \in DeletionTabs : TabStep(t)
             \/ \E id \in Rows : GraceElapses(id)
             \/ \E a \in Accounts : BootstrapGod(a)
             \/ \E c \in Camps, a \in Accounts : TransferLead(c, a)
             \/ UNCHANGED deletionVars
    <2>1. god \subseteq god' /\ sanitized' = sanitized /\ sweep' = sweep
      BY <1>7 DEF TabStep, RequestRead, RequestCommit, CancelRead,
                  CancelCommit, TabEnds, GraceElapses, BootstrapGod,
                  TransferLead, deletionVars, postVars
    <2> QED BY <1>1, <2>1
  <1> QED BY <1>3, <1>4, <1>5, <1>6, <1>7 DEF DeletionNext, SweepStep

\* The organisation keeps a live System manager, however requests, sign-ins, sweeps
\* and transfers interleave, as long as no two runs of the sweep erase at once.
THEOREM GodSurvivesErasures ==
  DeletionSpec /\ []OneErases => []AlwaysALiveGod
  <1>1. ASSUME DeletionInit
        PROVE  GodSurvives
    <2>1. god # {} /\ god \subseteq Accounts /\ sanitized = {}
      BY <1>1, DeletionAssumption DEF DeletionInit
    <2>2. god \cap Live # {}
      BY <2>1 DEF Live
    <2>3. \A s \in Sweeps : sweep[s].current = NoRequest
      BY <1>1 DEF DeletionInit, IdleSweep
    <2> QED BY <2>2, <2>3 DEF GodSurvives
  <1>2. DeletionInv /\ GodSurvives /\ OneErases /\ [DeletionNext]_deletionVars => GodSurvives'
    BY GodSurvivesSteps
  <1>3. GodSurvives => AlwaysALiveGod
    BY DEF GodSurvives, AlwaysALiveGod
  <1>4. DeletionSpec => []DeletionInv
    BY DeletionInvariance
  <1> QED BY <1>1, <1>2, <1>3, <1>4, PTL DEF DeletionSpec

\* With one run of the sweep at a time, as the daily schedule intends, there is no
\* proviso on the behaviour.
THEOREM OneSweepKeepsAGod ==
  (\A s, q \in Sweeps : s = q) => (DeletionSpec => []AlwaysALiveGod)
  <1> SUFFICES ASSUME \A s, q \in Sweeps : s = q
               PROVE  DeletionSpec => []AlwaysALiveGod
    OBVIOUS
  <1>1. OneErases
    BY DEF OneErases
  <1> QED BY <1>1, GodSurvivesErasures, PTL

---------------------------------------------------------------------------
(* The types of the tables.                                                *)

\* What the other invariant has no use for.
LeadsAndTrail ==
  /\ leads \in [Camps -> SUBSET Accounts]
  /\ audit \subseteq Accounts \X (1..MaxRequests) \X {"requested", "cancelled", "sanitized"}
  /\ \A t \in DeletionTabs : deletionTab[t].op \in {"idle", "request", "cancel"}

LEMMA LeadsAndTrailStep ==
  ASSUME DeletionInv, LeadsAndTrail, [DeletionNext]_deletionVars
  PROVE  LeadsAndTrail'
  <1>1. leads' \in [Camps -> SUBSET Accounts]
    <2>1. CASE leads' = leads
      BY <2>1 DEF LeadsAndTrail
    <2>2. ASSUME NEW c \in Camps, NEW a \in Accounts, leads' = [leads EXCEPT ![c] = {a}]
          PROVE  leads' \in [Camps -> SUBSET Accounts]
      BY <2>2 DEF LeadsAndTrail
    <2> QED
      BY <2>1, <2>2
         DEF DeletionNext, TabStep, SweepStep, deletionVars, postVars,
             RequestRead, RequestCommit, CancelRead, CancelCommit,
             TabEnds, SweepStart, SanitizeRead, SanitizeSkip,
             SanitizeCommit, SweepDies, GraceElapses,
             BootstrapGod, TransferLead
  <1>2. audit' \subseteq Accounts \X (1..MaxRequests) \X {"requested", "cancelled", "sanitized"}
    <2>1. CASE audit' = audit
      BY <2>1 DEF LeadsAndTrail
    <2>2. ASSUME NEW u \in Accounts, NEW i \in 1..MaxRequests,
                 NEW what \in {"requested", "cancelled", "sanitized"},
                 audit' = audit \cup {<<u, i, what>>}
          PROVE  audit' \subseteq Accounts \X (1..MaxRequests) \X {"requested", "cancelled", "sanitized"}
      BY <2>2 DEF LeadsAndTrail
    <2>3. ASSUME NEW t \in DeletionTabs, RequestCommit(t)
          PROVE  \E u \in Accounts, i \in 1..MaxRequests : audit' = audit \cup {<<u, i, "requested">>}
      BY <2>3, AppendWrites DEF RequestCommit
    <2>4. ASSUME NEW t \in DeletionTabs, CancelCommit(t)
          PROVE  \E u \in Accounts, i \in 1..MaxRequests : audit' = audit \cup {<<u, i, "cancelled">>}
      <3>1. deletionTab[t].id \in Rows
        BY <2>4, CancelWrites
      <3> QED BY <2>4, <3>1, RowParts DEF DeletionInv, CancelCommit
    <2>5. ASSUME NEW s \in Sweeps, SanitizeCommit(s)
          PROVE  \E u \in Accounts, i \in 1..MaxRequests : audit' = audit \cup {<<u, i, "sanitized">>}
      <3>1. sweep[s].current \in Rows
        BY <2>5, SanitizeWrites
      <3> QED BY <2>5, <3>1, RowParts DEF DeletionInv, SanitizeCommit
    <2>6. \/ audit' = audit
          \/ \E t \in DeletionTabs : RequestCommit(t) \/ CancelCommit(t)
          \/ \E s \in Sweeps : SanitizeCommit(s)
      BY DEF DeletionNext, TabStep, SweepStep, deletionVars, RequestRead,
             CancelRead, TabEnds, SweepStart, SanitizeRead,
             SanitizeSkip, SweepDies, GraceElapses,
             BootstrapGod, TransferLead
    <2> QED BY <2>1, <2>2, <2>3, <2>4, <2>5, <2>6
  <1>3. \A t \in DeletionTabs : deletionTab'[t].op \in {"idle", "request", "cancel"}
    <2>1. CASE deletionTab' = deletionTab
      BY <2>1 DEF LeadsAndTrail
    <2>3. ASSUME NEW t \in DeletionTabs, TabStep(t)
          PROVE  \A x \in DeletionTabs : deletionTab'[x].op \in {"idle", "request", "cancel"}
      <3>1. CASE deletionTab' = [deletionTab EXCEPT ![t] = IdleTab]
        <4>1. IdleTab.op = "idle"
          BY DEF IdleTab
        <4> QED BY <3>1, <4>1 DEF LeadsAndTrail, DeletionInv, TabsKnow
      <3>2. ASSUME NEW a \in Accounts, RequestRead(t, a)
            PROVE  \A x \in DeletionTabs : deletionTab'[x].op \in {"idle", "request", "cancel"}
        <4> DEFINE q == [op |-> "request", id |-> <<a, 0>>]
        <4>1. q.op = "request" /\ deletionTab' = [deletionTab EXCEPT ![t] = q]
          BY <3>2 DEF RequestRead
        <4> HIDE DEF q
        <4> QED BY <4>1 DEF LeadsAndTrail, DeletionInv, TabsKnow
      <3>3. ASSUME NEW id \in Rows, CancelRead(t, id)
            PROVE  \A x \in DeletionTabs : deletionTab'[x].op \in {"idle", "request", "cancel"}
        <4> DEFINE q == [op |-> "cancel", id |-> id]
        <4>1. q.op = "cancel" /\ deletionTab' = [deletionTab EXCEPT ![t] = q]
          BY <3>3 DEF CancelRead
        <4> HIDE DEF q
        <4> QED BY <4>1 DEF LeadsAndTrail, DeletionInv, TabsKnow
      <3> QED
        BY <2>3, <3>1, <3>2, <3>3
           DEF TabStep, RequestCommit, CancelCommit, TabEnds
    <2>2. deletionTab' = deletionTab \/ \E t \in DeletionTabs : TabStep(t)
      BY DEF DeletionNext, SweepStep, deletionVars, SweepStart,
             SanitizeRead, SanitizeSkip, SanitizeCommit,
             SweepDies, GraceElapses, BootstrapGod, TransferLead
    <2> QED BY <2>1, <2>2, <2>3
  <1> QED BY <1>1, <1>2, <1>3 DEF LeadsAndTrail

\* Every table of AccountDeletion keeps its type, and no account has two pending
\* requests, which is what the partial unique index is for.
THEOREM DeletionTypeCorrect == DeletionSpec => []TypeOK
  <1>1. DeletionInit => LeadsAndTrail
    BY DeletionAssumption DEF DeletionInit, LeadsAndTrail, IdleTab
  <1>2. DeletionInv /\ LeadsAndTrail /\ [DeletionNext]_deletionVars => LeadsAndTrail'
    BY LeadsAndTrailStep
  <1>3. ASSUME DeletionInv, LeadsAndTrail
        PROVE  TypeOK
    <2>1. ASSUME NEW a \in Accounts
          PROVE  Cardinality(PendingOf(a)) <= 1
      <3>1. ASSUME NEW x \in PendingOf(a), NEW y \in PendingOf(a)
            PROVE  x = y
        <4>1. /\ x \in Rows /\ x[1] = a /\ Row(x).status = "pending"
              /\ y \in Rows /\ y[1] = a /\ Row(y).status = "pending"
          BY <3>1 DEF PendingOf, Pending
        <4>2. /\ x = <<a, x[2]>> /\ x[2] \in 1..Len(requests[a]) /\ requests[a][x[2]].status = "pending"
              /\ y = <<a, y[2]>> /\ y[2] \in 1..Len(requests[a]) /\ requests[a][y[2]].status = "pending"
          BY <1>3, <4>1, RowParts DEF DeletionInv
        <4>3. x[2] = y[2]
          BY <1>3, <4>2 DEF DeletionInv, OnePendingDeletion
        <4> QED BY <4>2, <4>3
      <3> QED BY <3>1, AtMostOne
    <2>2. \A s \in Sweeps :
            sweep[s].todo \cup ({sweep[s].current} \ {NoRequest}) \subseteq Rows
      BY <1>3, SweepFields DEF DeletionInv
    <2> QED BY <1>3, <2>1, <2>2 DEF TypeOK, DeletionInv, DeletionTables, LeadsAndTrail
  <1> QED BY <1>1, <1>2, <1>3, DeletionInvariance, PTL DEF DeletionSpec

---------------------------------------------------------------------------
(* The camp nobody leads.                                                  *)

\* Every camp has a live lead, and has one without the account a sweep is erasing.
CampsAreLed == \A c \in Camps : leads[c] \cap Live # {}

LeadsSurvive ==
  /\ CampsAreLed
  /\ \A s \in Sweeps, c \in Camps : sweep[s].current # NoRequest =>
       (leads[c] \cap Live) \ {sweep[s].current[1]} # {}

\* No lead is handed over between the guard's reading and the erasure.
NoTransferBetween ==
  leads' # leads => \A s \in Sweeps : sweep[s].current = NoRequest

\* Every step keeps the leads, under the two provisos.
LEMMA LeadsSurviveSteps ==
  ASSUME DeletionInv, LeadsAndTrail, LeadsSurvive, OneErases,
         [NoTransferBetween]_deletionVars, [DeletionNext]_deletionVars
  PROVE  LeadsSurvive'
  <1>0. /\ leads \in [Camps -> SUBSET Accounts] /\ sanitized \subseteq Accounts
        /\ sweep \in [Sweeps -> Sweep]
    BY DEF LeadsAndTrail, DeletionInv, DeletionTables, SweepsKnow
  <1>1. ASSUME UNCHANGED <<leads, sanitized>>,
               \A q \in Sweeps : sweep'[q].current \in {sweep[q].current, NoRequest}
        PROVE  LeadsSurvive'
    BY <1>1 DEF LeadsSurvive, CampsAreLed, Live, NoRequest
  <1>2. ASSUME NEW s \in Sweeps, SweepStart(s) \/ SweepDies(s)
        PROVE  LeadsSurvive'
    <2>1. UNCHANGED <<leads, sanitized>>
      BY <1>2 DEF SweepStart, SweepDies, postVars
    <2>2. \A q \in Sweeps : sweep'[q].current \in {sweep[q].current, NoRequest}
      BY <1>0, <1>2 DEF SweepStart, SweepDies, IdleSweep, Sweep
    <2> QED BY <1>1, <2>1, <2>2
  <1>3. ASSUME NEW s \in Sweeps, NEW id \in RequestId, SanitizeSkip(s, id)
        PROVE  LeadsSurvive'
    <2>1. UNCHANGED <<leads, sanitized>>
      BY <1>3 DEF SanitizeSkip, postVars
    <2>2. \A q \in Sweeps : sweep'[q].current \in {sweep[q].current, NoRequest}
      BY <1>0, <1>3 DEF SanitizeSkip, Sweep
    <2> QED BY <1>1, <2>1, <2>2
  <1>4. ASSUME NEW s \in Sweeps, NEW id \in RequestId, SanitizeRead(s, id)
        PROVE  LeadsSurvive'
    <2>1. UNCHANGED <<leads, sanitized>>
      BY <1>4 DEF SanitizeRead, postVars
    <2>2. \A q \in Sweeps : sweep'[q].current = IF q = s THEN id ELSE sweep[q].current
      BY <1>0, <1>4 DEF SanitizeRead, Sweep
    <2>3. ~Blocked(id[1])
      BY <1>4 DEF SanitizeRead, SanitizeAllowed
    <2>4. \A c \in Camps : (leads[c] \cap Live) \ {id[1]} # {}
      BY <2>3 DEF LeadsSurvive, CampsAreLed, Blocked
    <2> QED BY <2>1, <2>2, <2>4 DEF LeadsSurvive, CampsAreLed, Live
  <1>5. ASSUME NEW s \in Sweeps, SanitizeCommit(s)
        PROVE  LeadsSurvive'
    <2> DEFINE u == sweep[s].current[1]
    <2>1. /\ sweep[s].current # NoRequest
          /\ leads' = leads /\ sanitized' = sanitized \cup {u}
          /\ sweep' = [sweep EXCEPT ![s] = [sweep[s] EXCEPT !.current = NoRequest]]
      BY <1>5 DEF SanitizeCommit
    <2>2. \A q \in Sweeps : sweep'[q].current = NoRequest
      <3>1. \A q \in Sweeps : q # s => sweep[q].current = NoRequest
        BY <2>1 DEF OneErases
      <3> QED BY <1>0, <2>1, <3>1 DEF Sweep
    <2>3. \A c \in Camps : leads'[c] \cap (Accounts \ sanitized') # {}
      BY <2>1 DEF LeadsSurvive, Live
    <2> QED BY <2>2, <2>3 DEF LeadsSurvive, CampsAreLed, Live, NoRequest
  <1>6. ASSUME NEW c \in Camps, NEW a \in Accounts, TransferLead(c, a)
        PROVE  LeadsSurvive'
    <2>1. /\ a \in Live /\ a \notin leads[c] /\ leads' = [leads EXCEPT ![c] = {a}]
          /\ sanitized' = sanitized /\ sweep' = sweep
      BY <1>6 DEF TransferLead
    <2>2. leads'[c] = {a} /\ \A d \in Camps \ {c} : leads'[d] = leads[d]
      BY <1>0, <2>1
    <2>3. leads' # leads
      BY <2>1, <2>2
    <2>4. \A s \in Sweeps : sweep'[s].current = NoRequest
      BY <2>1, <2>3 DEF NoTransferBetween, deletionVars
    <2> QED BY <2>1, <2>2, <2>4 DEF LeadsSurvive, CampsAreLed, Live, NoRequest
  <1>7. CASE \/ \E t \in DeletionTabs : TabStep(t)
             \/ \E id \in Rows : GraceElapses(id)
             \/ \E a \in Accounts : BootstrapGod(a)
             \/ UNCHANGED deletionVars
    <2>1. UNCHANGED <<leads, sanitized, sweep>>
      BY <1>7 DEF TabStep, RequestRead, RequestCommit, CancelRead,
                  CancelCommit, TabEnds, GraceElapses, BootstrapGod,
                  deletionVars, postVars
    <2> QED BY <1>1, <2>1
  <1> QED BY <1>2, <1>3, <1>4, <1>5, <1>6, <1>7 DEF DeletionNext, SweepStep

\* No erasure leaves a camp without a live lead, as long as no two sweeps erase at
\* once and no lead is handed over to an account while a sweep is erasing one.  Each
\* proviso is a reading of the guard that the erasure's transaction does not repeat.
THEOREM CampsKeepALead ==
  DeletionSpec /\ []OneErases /\ [][NoTransferBetween]_deletionVars => []CampsAreLed
  <1>1. ASSUME DeletionInit
        PROVE  LeadsSurvive /\ LeadsAndTrail
    <2>1. \A c \in Camps : leads[c] \cap Live # {}
      BY <1>1, DeletionAssumption DEF DeletionInit, Live
    <2>2. \A s \in Sweeps : sweep[s].current = NoRequest
      BY <1>1 DEF DeletionInit, IdleSweep
    <2>3. LeadsAndTrail
      BY <1>1, DeletionAssumption DEF DeletionInit, LeadsAndTrail, IdleTab
    <2> QED BY <2>1, <2>2, <2>3 DEF LeadsSurvive, CampsAreLed
  <1>2. DeletionInv /\ LeadsAndTrail /\ [DeletionNext]_deletionVars => LeadsAndTrail'
    BY LeadsAndTrailStep
  <1>3. ASSUME DeletionInv, LeadsAndTrail, LeadsSurvive, OneErases,
               [NoTransferBetween]_deletionVars, [DeletionNext]_deletionVars
        PROVE  LeadsSurvive'
    BY <1>3, LeadsSurviveSteps
  <1>4. LeadsSurvive => CampsAreLed
    BY DEF LeadsSurvive
  <1>5. DeletionSpec => []DeletionInv
    BY DeletionInvariance
  <1> QED BY <1>1, <1>2, <1>3, <1>4, <1>5, PTL DEF DeletionSpec
================================================================================
