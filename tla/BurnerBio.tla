------------------------------- MODULE BurnerBio -------------------------------
(***************************************************************************)
(* The Burner Bio of each edition, the gate that stands until it is        *)
(* completed, and the medical notes in it, encrypted under a key that may  *)
(* be changed or missing.                                                  *)
(*                                                                         *)
(*   apps/web/lib/bio-store.ts, session.ts, required-actions.ts            *)
(*   apps/web/app/(app)/onboarding, profile; components/onboarding         *)
(*   apps/web/lib/account-sanitize.ts; packages/db/src/crypto.ts           *)
(*                                                                         *)
(* A tab opens the form on what it can read, and every press of its        *)
(* buttons saves the whole form: one request, which reads the stored       *)
(* ciphertext outside its transaction.  Several tabs may be open.  The     *)
(* notes are the medical notes.  The ID document is left out: two columns  *)
(* and a type, each column encrypted or kept like the notes, but the form  *)
(* takes the type from the column that is not empty, readable or not.      *)
(***************************************************************************)
EXTENDS Naturals, FiniteSets

CONSTANTS
  Burners,
  Tabs,
  Editions,  \* years, in the order they become active
  Notes,     \* what a person may write
  Keys,      \* values of PGCRYPTO_KEY
  NoKey,
  Blank

ASSUME BurnerBioAssumption ==
  /\ Editions \subseteq Nat
  /\ \E first \in Editions : \A e \in Editions : first <= e
  /\ Blank \notin Notes
  /\ NoKey \notin Keys

VARIABLES
  edition,   \* the active one
  key,       \* the key the running process has
  bio,       \* burner_bios of each user and edition, or NoBio
  action,    \* the required action of each user and edition
  erased,    \* users.sanitized_at
  tab,       \* the form each tab shows, or the request it has sent
  overtaken  \* history: what something else wrote during, a form or a request

vars == <<edition, key, bio, action, erased, tab, overtaken>>

Cipher == [key : Keys, text : Notes]
Empty == [key |-> NoKey, text |-> Blank]
NoBio == [exists |-> FALSE, completed |-> FALSE, notes |-> Empty]

Closed == [op |-> "closed"]

Init ==
  /\ edition = CHOOSE e \in Editions : \A f \in Editions : e <= f
  /\ key \in Keys \cup {NoKey}
  /\ bio = [u \in Burners |-> [e \in Editions |-> NoBio]]
  /\ action = [u \in Burners |-> [e \in Editions |-> "none"]]
  /\ erased = {}
  /\ tab = [t \in Tabs |-> Closed]
  /\ overtaken = {}

---------------------------------------------------------------------------
\* Everything in progress but what belongs to t is overtaken.
InProgress == {<<t, "form">> : t \in {x \in Tabs : tab[x] # Closed}}
                \cup {<<t, "request">> : t \in {x \in Tabs : tab[x].op = "save"}}
Overtakes(t) == overtaken' = overtaken \cup {p \in InProgress : p[1] # t}

\* decryptField: what is stored and cannot be decrypted is not empty.
Unreadable(c) == c # Empty /\ c.key # key

\* decryptOrNull: what the form is given to show.
Shown(c) == IF Unreadable(c) THEN Blank ELSE c.text

\* getBioForOnboarding: this edition's bio, or else the last one before it.
Opened(u) ==
  LET known == {e \in Editions : e <= edition /\ bio[u][e].exists} IN
  IF known = {} THEN Empty
  ELSE bio[u][CHOOSE e \in known : \A f \in known : f <= e].notes

\* ensureRequiredAction, on every request of a signed-in person.
Ensured(u) == [action EXCEPT ![u][edition] = IF @ = "none" THEN "pending" ELSE @]

OpenForm(t, u) ==
  /\ tab[t] = Closed
  /\ u \notin erased
  /\ action' = Ensured(u)
  /\ tab' = [tab EXCEPT ![t] = [op |-> "form", user |-> u, shown |-> Shown(Opened(u))]]
  /\ UNCHANGED <<edition, key, bio, erased, overtaken>>

MutNextNotes(typed, stored) == IF typed = Blank THEN Empty ELSE [key |-> key, text |-> typed]
\* encryptOrPreserve: nothing typed clears what was readable, and keeps what was not.
NextNotes(typed, stored) ==
  CASE typed # Blank      -> [key |-> key, text |-> typed]
    [] Unreadable(stored) -> stored
    [] OTHER              -> Empty

MutMayPress(u, typed) == typed # Blank => key # NoKey
\* A session is refused once the account is erased, and a save that carries notes
\* while they cannot be encrypted.
MayPress(u, typed) ==
  /\ u \notin erased
  /\ typed # Blank => key # NoKey

\* saveOnboardingBioAction, updateBioAction.  The session and the action each ask
\* for the edition; cache() makes it one reading for the whole request.
Press(t, typed, final) ==
  LET form == tab[t] IN
  /\ form.op = "form"
  /\ MayPress(form.user, typed)
  /\ action' = Ensured(form.user)
  /\ tab' = [tab EXCEPT ![t] =
       [op |-> "save", user |-> form.user, shown |-> form.shown, typed |-> typed,
        edition |-> edition, final |-> final,
        notes |-> NextNotes(typed, bio[form.user][edition].notes)]]
  /\ overtaken' = overtaken \ {<<t, "request">>}
  /\ UNCHANGED <<edition, key, bio, erased>>

MutFinished(was, final) == final
\* Only ever stamped, never taken back.
Finished(was, final) == was \/ final

\* saveBio's one transaction: the bio, and the gate when it is final.
Save(t) ==
  LET r == tab[t] IN
  /\ r.op = "save"
  /\ bio' = [bio EXCEPT ![r.user][r.edition] =
       [exists |-> TRUE, completed |-> Finished(@.completed, r.final), notes |-> r.notes]]
  /\ action' = IF r.final THEN [action EXCEPT ![r.user][r.edition] = "completed"] ELSE action
  /\ tab' = [tab EXCEPT ![t] = [op |-> "form", user |-> r.user, shown |-> r.typed]]
  /\ Overtakes(t)
  /\ UNCHANGED <<edition, key, erased>>

\* The request is refused or dies (a taken username rolls it back); the form stays.
Fail(t) ==
  /\ tab[t].op = "save"
  /\ tab' = [tab EXCEPT ![t] = [op |-> "form", user |-> @.user, shown |-> @.shown]]
  /\ UNCHANGED <<edition, key, bio, action, erased, overtaken>>

Close(t) ==
  /\ tab[t].op = "form"
  /\ tab' = [tab EXCEPT ![t] = Closed]
  /\ overtaken' = {p \in overtaken : p[1] # t}
  /\ UNCHANGED <<edition, key, bio, action, erased>>

---------------------------------------------------------------------------
Overtaken == overtaken' = overtaken \cup InProgress

\* A deployment with another key, or without one.
Deploy(k) ==
  /\ key # k
  /\ key' = k
  /\ Overtaken
  /\ UNCHANGED <<edition, bio, action, erased, tab>>

NextEdition ==
  /\ edition' \in {e \in Editions : e > edition}
  /\ Overtaken
  /\ UNCHANGED <<key, bio, action, erased, tab>>

\* sanitizeAccount: the rows stay, with what is personal in them set to null.
Erase(u) ==
  /\ u \notin erased
  /\ erased' = erased \cup {u}
  /\ bio' = [bio EXCEPT ![u] = [e \in Editions |-> [bio[u][e] EXCEPT !.notes = Empty]]]
  /\ Overtaken
  /\ UNCHANGED <<edition, key, action, tab>>

Next ==
  \/ \E t \in Tabs :
       \/ \E u \in Burners : OpenForm(t, u)
       \/ \E typed \in Notes \cup {Blank}, final \in BOOLEAN : Press(t, typed, final)
       \/ Save(t)
       \/ Fail(t)
       \/ Close(t)
  \/ \E k \in Keys \cup {NoKey} : Deploy(k)
  \/ NextEdition
  \/ \E u \in Burners : Erase(u)

Spec == Init /\ [][Next]_vars

---------------------------------------------------------------------------
(* Properties.                                                             *)

\* What is recorded as complete and what the gate reads never part, whatever tabs,
\* partial saves and editions come in between: else /onboarding sends its reader to
\* /profile and the gate sends them back, for ever (saveBio, ensureRequiredAction).
GateAgreesWithBio ==
  \A u \in Burners, e \in Editions :
    bio[u][e].completed <=> action[u][e] = "completed"

\* "An empty incoming value is a DELIBERATE CLEAR only when the form actually showed
\* the old value" (saveBio): notes go only when their form had shown them, unless
\* another tab, a new key or a new edition came between the form and its save.
ClearedIsDeliberate ==
  [][\A u \in Burners \ erased', e \in Editions :
       LET was == bio[u][e].notes IN
       was # Empty /\ bio'[u][e].notes = Empty =>
         \E t \in Tabs : /\ tab[t].op = "save" /\ tab[t].user = u
                         /\ tab[t].shown = was.text \/ <<t, "form">> \in overtaken]_vars

\* What erasure removed does not come back, except from a request that was in
\* flight when the account was erased (sanitizeAccount, ensureCampUser's guard).
ErasedStaysErased ==
  [][\A u \in erased, e \in Editions :
       bio'[u][e].notes # bio[u][e].notes =>
         \E t \in Tabs : /\ tab[t].op = "save" /\ tab[t].user = u
                         /\ <<t, "request">> \in overtaken]_vars
=================================================================================
