------------------------------- MODULE Broadcasts -------------------------------
(***************************************************************************)
(* What AfrikaBurn sends to many people at once and must send once: a      *)
(* bulletin, when it is published, and the deadline reminder, at each      *)
(* milestone before registration closes.                                   *)
(*                                                                         *)
(*   apps/org/lib/actions/bulletins.ts                                     *)
(*   apps/web/lib/deadline-reminders.ts, core registration-deadline.ts     *)
(*                                                                         *)
(* A staff request holds the bulletin's row lock from its read to its      *)
(* commit.  A run of the reminder job, which any scheduler may start again *)
(* or twice at once, gathers its recipients and only then claims the       *)
(* milestone.  Either may die before it commits.                           *)
(***************************************************************************)
EXTENDS Naturals, Sequences, FiniteSets

CONSTANTS
  Bulletins,   \* ids
  Titles, Audiences,
  Editors,     \* staff requests in flight
  People,      \* who an audience may resolve to
  Camps,       \* registrations of the active edition
  Runs,        \* runs of the reminder job in flight
  Milestones,  \* REMINDER_MILESTONES
  MaxDays      \* bound: the first day explored, in days before the close

ASSUME BroadcastsAssumption ==
  /\ MaxDays \in Nat
  /\ Milestones \subseteq Nat
  /\ "nobody" \notin Editors \cup Camps

VARIABLES
  bulletin,  \* bulletins, or Unwritten
  lock,      \* the request that holds each row FOR UPDATE, or Unlocked
  staff,     \* what each staff request will write
  sent,      \* the fan-outs of each bulletin: rows of notifications
  daysLeft,  \* daysUntil(closesAt, now)
  behind,    \* registrations in REMINDABLE_STATUSES
  run,       \* what each run has gathered
  marker,    \* each milestone's marker row, or Unclaimed; the row keeps their
             \* number alone, the properties ask which camps it was claimed for
  told       \* reminders each camp's leads have had of each milestone

bulletinVars == <<bulletin, lock, staff, sent>>
reminderVars == <<daysLeft, behind, run, marker, told>>
broadcastVars == <<bulletinVars, reminderVars>>

Unwritten == [published |-> FALSE]
Unlocked == "nobody"
Unclaimed == {"nobody"}
Unoccupied == [op |-> "idle"]

BroadcastsInit ==
  /\ bulletin = [b \in Bulletins |-> Unwritten]
  /\ lock = [b \in Bulletins |-> Unlocked]
  /\ staff = [p \in Editors |-> Unoccupied]
  /\ sent = [b \in Bulletins |-> <<>>]
  /\ daysLeft = MaxDays
  /\ behind \in SUBSET Camps
  /\ run = [r \in Runs |-> Unoccupied]
  /\ marker = [m \in Milestones |-> Unclaimed]
  /\ told = [c \in Camps |-> [m \in Milestones |-> 0]]

---------------------------------------------------------------------------
(* saveBulletin and publishBulletin.                                       *)

\* fanOut: one notification for each person the audience resolves to.
FanOut(b, row) ==
  \E people \in SUBSET People :
    sent' = [sent EXCEPT ![b] = Append(@, [title |-> row.title, audience |-> row.audience,
                                           people |-> people])]

Create(b, row) ==
  /\ bulletin[b] = Unwritten
  /\ bulletin' = [bulletin EXCEPT ![b] = row]
  /\ IF row.published THEN FanOut(b, row) ELSE UNCHANGED sent
  /\ UNCHANGED <<lock, staff, reminderVars>>

MutMayLock(b) == TRUE
\* SELECT ... FOR UPDATE waits for the lock, and reads the row as it is then.
MayLock(b) == lock[b] = Unlocked

\* What a published bulletin keeps: its title and audience.
Saves(b, row) ==
  bulletin[b].published => /\ row.title = bulletin[b].title
                           /\ row.audience = bulletin[b].audience

\* row.published asks for publication; a bulletin is never unpublished.
SaveRead(p, b, row) ==
  /\ staff[p] = Unoccupied
  /\ bulletin[b] # Unwritten
  /\ MayLock(b)
  /\ Saves(b, row)
  /\ lock' = [lock EXCEPT ![b] = p]
  /\ staff' = [staff EXCEPT ![p] =
       [op |-> "save", bulletin |-> b, fans |-> row.published /\ ~bulletin[b].published,
        row |-> [row EXCEPT !.published = @ \/ bulletin[b].published]]]
  /\ UNCHANGED <<bulletin, sent, reminderVars>>

\* Publishes the row as it stands.
PublishRead(p, b) ==
  /\ staff[p] = Unoccupied
  /\ bulletin[b] # Unwritten
  /\ MayLock(b)
  /\ ~bulletin[b].published
  /\ lock' = [lock EXCEPT ![b] = p]
  /\ staff' = [staff EXCEPT ![p] =
       [op |-> "save", bulletin |-> b, fans |-> TRUE,
        row |-> [bulletin[b] EXCEPT !.published = TRUE]]]
  /\ UNCHANGED <<bulletin, sent, reminderVars>>

Unlock(p) ==
  /\ staff' = [staff EXCEPT ![p] = Unoccupied]
  /\ lock' = [b \in Bulletins |-> IF lock[b] = p THEN Unlocked ELSE lock[b]]

\* The row, its fan-out and the audit row commit together.
StaffCommit(p) ==
  LET r == staff[p] IN
  /\ r.op = "save"
  /\ bulletin' = [bulletin EXCEPT ![r.bulletin] = r.row]
  /\ IF r.fans THEN FanOut(r.bulletin, r.row) ELSE UNCHANGED sent
  /\ Unlock(p)
  /\ UNCHANGED reminderVars

StaffDies(p) ==
  /\ staff[p] # Unoccupied
  /\ Unlock(p)
  /\ UNCHANGED <<bulletin, sent, reminderVars>>

---------------------------------------------------------------------------
(* runDeadlineReminders.                                                   *)

\* dueReminderMilestone: exactly on the day, so that a missed one stays missed.
Due == daysLeft \in Milestones

\* The camps behind, and their leads: read in no transaction.
Gather(r) ==
  /\ run[r] = Unoccupied
  /\ Due
  /\ run' = [run EXCEPT ![r] = [op |-> "send", milestone |-> daysLeft, camps |-> behind]]
  /\ UNCHANGED <<bulletinVars, daysLeft, behind, marker, told>>

MutClaimable(m) == TRUE
\* INSERT ... ON CONFLICT DO NOTHING on the marker's unique index.
Claimable(m) == marker[m] = Unclaimed

\* One notification for each lead and admin of each camp.
TellCamps(camps, m) ==
  [c \in Camps |-> IF c \in camps THEN [told[c] EXCEPT ![m] = @ + 1] ELSE told[c]]

\* The marker and the notifications are one transaction; whoever finds the marker
\* taken drops out.
ClaimAndSend(r) ==
  LET m == run[r].milestone IN
  /\ run[r].op = "send"
  /\ Claimable(m)
  /\ marker' = [marker EXCEPT ![m] = run[r].camps]
  /\ told' = TellCamps(run[r].camps, m)
  /\ run' = [run EXCEPT ![r] = Unoccupied]
  /\ UNCHANGED <<bulletinVars, daysLeft, behind>>

RunEnds(r) ==
  /\ run[r] # Unoccupied
  /\ run' = [run EXCEPT ![r] = Unoccupied]
  /\ UNCHANGED <<bulletinVars, daysLeft, behind, marker, told>>

\* A camp submits, or is sent back (Registration).
Moves(c) ==
  /\ behind' = IF c \in behind THEN behind \ {c} ELSE behind \cup {c}
  /\ UNCHANGED <<bulletinVars, daysLeft, run, marker, told>>

\* Midnight, UTC.
DayPasses ==
  /\ daysLeft > 0
  /\ daysLeft' = daysLeft - 1
  /\ UNCHANGED <<bulletinVars, behind, run, marker, told>>

\* A later close is set on the edition, and its days are lived again.
CloseMoves ==
  /\ daysLeft < MaxDays
  /\ daysLeft' = MaxDays
  /\ UNCHANGED <<bulletinVars, behind, run, marker, told>>

---------------------------------------------------------------------------
Row == [title : Titles, audience : Audiences, published : BOOLEAN]

StaffStep(p) ==
  \/ \E b \in Bulletins, row \in Row : SaveRead(p, b, row)
  \/ \E b \in Bulletins : PublishRead(p, b)
  \/ StaffCommit(p)
  \/ StaffDies(p)

BroadcastsNext ==
  \/ \E b \in Bulletins, row \in Row : Create(b, row)
  \/ \E p \in Editors : StaffStep(p)
  \/ \E r \in Runs : Gather(r) \/ ClaimAndSend(r) \/ RunEnds(r)
  \/ \E c \in Camps : Moves(c)
  \/ DayPasses
  \/ CloseMoves

BroadcastsSpec == BroadcastsInit /\ [][BroadcastsNext]_broadcastVars

---------------------------------------------------------------------------
(* Properties.                                                             *)

\* A bulletin is published if and only if it was sent, it was sent once, and what
\* it says of itself afterwards is what its recipients were sent, however saves
\* and publications overlap or die (saveBulletin, publishBulletin: FOR UPDATE).
PublishedIsSentOnce ==
  \A b \in Bulletins :
    IF bulletin[b].published
      THEN /\ Len(sent[b]) = 1
           /\ sent[b][1].title = bulletin[b].title
           /\ sent[b][1].audience = bulletin[b].audience
      ELSE sent[b] = <<>>

\* A milestone counts as done for exactly the camps that were told of it, and they
\* were told once: however often and however concurrently the job is started, and
\* wherever it dies, no camp hears twice of one milestone and no failure becomes
\* permanent silence (runDeadlineReminders: the marker's unique index, and its claim
\* in the transaction of the send).
RemindedOnce ==
  \A c \in Camps, m \in Milestones :
    told[c][m] = IF marker[m] # Unclaimed /\ c \in marker[m] THEN 1 ELSE 0
=================================================================================
