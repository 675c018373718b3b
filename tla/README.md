# Formal models of the AfrikaBurn theme-camp platform

TLA+ models of the platform's write paths and of the rules behind them, the TLC
instances that check them, and machine-checked proofs (TLAPS) of every safety
property that is checked. Paths below are relative to the repository root (`src/`).

## 1. The system

Three Next.js applications share one Postgres database: the participants' app
(`apps/web`), the organisers' console (`apps/org`), the suppliers' portal
(`apps/suppliers`). The rules live in `packages/core` (pure
functions), the tables in `packages/db/src/schema.ts`.

There are no long-lived processes. Every operation is a server action: a
short-lived function that reads rows over single statements (the HTTP driver),
decides with a pure function of `packages/core`, and writes in a later statement
or in one READ COMMITTED transaction (`withTransaction`), usually with its
`audit_events` row, and then perhaps sends a notification. Two jobs run over
routes of their own: the deletion sweep, which `apps/web/vercel.json` starts once
a day, and the deadline reminders, whose route the repository schedules nowhere.
Everything that is hard about this system follows from that shape:

* a decision is taken on a row that another request may move before the write;
* a write is safe only if it repeats what was decided on (a compare-and-set in
  its WHERE, a row lock, a unique index, a foreign key), and some do not;
* a function may die between two statements, and a browser may send twice;
* what happens after the commit (notification, mail) may be lost;
* one rule is often written twice, for a guard and for the screen that explains
  the guard, and the two have to agree.

### Inventory

| Component | State | Operations | What makes it correct | Hard part | Module |
|---|---|---|---|---|---|
| Registration and review | `registrations` (status, answers, `completed_sections`, `decision_reason`), audit rows | autosave, submit, resubmit, withdraw, reopen; start review, approve, request changes, reject; notify | the status follows the state machine; row and trail agree; answers under review stand still; refusals carry reasons | camp and reviewers race on one row; notification after commit | Registration |
| Carry-forward | the same row, `carried_forward_at` | fill the blanks from last year | at most once, and stamped | reads a form that autosaves: what was typed since is replaced (section 5) | Registration |
| Creative projects | the same row, `questionnaire_responses` | create, edit, file; the same reviews; and a camp's autosave, submit, withdraw and reopen, which check no kind | row and answer record agree; filed answers locked | UPDATE keyed without the status; a second set of actions that knows no answer record | ProjectRegistration |
| Camps, invites, roster | `groups`, `memberships` (role, `ref_code`), `invites` | mint, revoke, redeem (join or lead transfer), leave | one redemption per invite; unique codes; one lead | claims, retries on a unique index, transfers crossing | CampMembership |
| Camp roles, officers | `project_roles`, `member_role_assignments` (consent, edition) | create and remove a role, change its permissions, assign, name an officer, respond | nobody elevates themselves; contacts are disclosed by their owner only; a cap | checks on roles that change before the write | CampRoles |
| Account deletion | `account_deletion_requests`, `users.sanitized_at`, org role | request, cancel by signing in, sweep, sanitize | never in the grace period; never the last god; eventually done | guard at request and again at erasure; sweep crashes | AccountDeletion |
| Email change | `email_change_requests`, `user.email`, `users.email` | request, confirm, revoke | unique addresses; a stopped change stays stopped | two links clicked in any order | EmailChange |
| Burner bio | `burner_bios` (encrypted notes), the gate's required action | open, partial and final save, new edition, key change, erasure | gate and bio agree; what could not be shown is not cleared; erased stays erased | whole-form saves from stale forms | BurnerBio |
| Org access | `memberships` of the org group, `org_role_assignments` | elevate, demote, set roles, bootstrap | gods untouchable; a revoke revokes; exact role sets | several writers of one row, cascades | OrgAccess |
| Permission resolution | none: rank, roles, ownership of domains | may this actor do this, here? which screens? why not? | guard, summary and refusal agree; a department confines | four sources, two paths | OrgPermissions |
| Supplier onboarding | `supplier_onboarding.steps` (one JSON map), `supplier_documents`, `supplier_document_acks` | tick a step, save the profile, acknowledge; confirm, publish, rebind and withdraw documents, reconcile | only AfrikaBurn confirms what is its to confirm; a gated step follows its signatures; map and trail agree | one map with five whole-map writers, some under a row lock | SupplierOnboarding |
| Supplier listings | `suppliers` (owner, standing, name), declarations | register, claim by email, rename, add, set standing, delete; declare; erasure | one owner, one listing; no second listing under a suspended name; deletion strands nobody | checks without an index | SupplierListing |
| Questionnaires | activations, `questionnaire_responses`, `required_actions` | send, answer, complete, recall | nobody is done without an answer; a gate opens; a recall releases | two statements without a transaction | Questionnaires |
| Questionnaire form | the definition's JSON | accept a definition; walk; validate a submission | walks end; what is skipped is dropped; resubmitting changes nothing | a branching walk inside a validator | QuestionnaireForm |
| Bulletins, reminders | `bulletins`, `notifications`, marker audit rows | save, publish and fan out; remind | exactly once | a lock; a marker as a lock | Broadcasts |
| Placement codes, wranglers, categories, rate limit | single rows | one statement each | a unique index, a row lock | little | — |
| Medical access, status board, reporter, exports, payment references, UI | append-only or none | read, format | — | — | — |

Interactions: a lead transfer (CampMembership) and a bootstrap (OrgAccess) move
the posts that the erasure guard (AccountDeletion) counts; an erasure empties a
membership that OrgAccess governs, a listing that SupplierListing governs and the
notes of BurnerBio, where it is one step; leaving a camp (CampMembership) takes
the role assignments of CampRoles along; both kinds of registration share the
review console, and their states decide who Broadcasts reminds. OrgAccess hands
out the ranks and roles that OrgPermissions resolves. The supplier app and the
console meet in the checklist of SupplierOnboarding, which models both sides.

## 2. How the code is modelled

* A **request is a process**. What the handler read lives in a record (`req`,
  `request`, `edit`, `tab`, `sweep`, `run`, `process`); its *Read* action carries
  the code's checks and early returns as guards, its *Commit* action the WHERE
  clauses and the assignments of the transaction. A refused read changes nothing
  and is no step; a commit that matches no row, a constraint violation, a crash
  and a timeout are one action that drops the request (`Abandon`, `RequestDies`,
  `TabEnds`, `EditDies`, `SweepDies`, `Drop`, `Fail`, ...).
* **READ COMMITTED** is modelled statement by statement where the transaction
  decides on something it read (redemption's list of leads, the delete of a role
  set, carry-forward); a transaction that only writes is one step, and so is one
  that holds a lock on all it decides on.
* **Unique indexes and foreign keys** are guards of the commit, because that is
  all that stops it; a cascade is part of the step that deletes.
* **Data** is reduced to what a property tells apart: an answer is blank,
  last year's or typed; a reason is there or not; a role, a rank and a status
  keep the code's names; a note keeps the key it is encrypted under.
* **Time** is an event: an invite expires, a grace period elapses, a link
  lapses, once per row; a day passes; an edition begins.
* SupplierListing and BurnerBio carry one **history variable**, `overtaken`: the
  requests (and open forms) during which somebody else wrote. Nothing depends on
  it; the properties use it to say "unless another request wrote in between".

| Module | Stands for |
|---|---|
| `RegistrationStates` | the state machine of `packages/core/src/registration-state.ts` and the review actions of `apps/org/lib/org-logic.ts` |
| `RegistrationLifecycle` | the abstract specification: one registration moved by atomic, legal, audited steps |
| `Registration` | `registration-store.ts`, the registration actions of the camp, `decideRegistration` and its notification |
| `ProjectRegistration` | `project-registration-store.ts`, and of `registration-store.ts` the camp actions, which reach a project's row as well; reviews are the abstract steps of `RegistrationLifecycle`, which `Registration` is proved to implement |
| `CampMembership` | `invites-store.ts`, the roster half of `groups-store.ts`, the invite actions |
| `CampRoles` | `roles-store.ts`, the role and officer actions of a camp, what the console shows of an officer |
| `AccountDeletion` | `requestAccountDeletion`, `cancelPendingDeletion`, `sweepDueDeletions`, `sanitizeAccount` and its guard |
| `EmailChange` | `requestEmailChange`, `confirmEmailChange`, `revokeEmailChange` |
| `BurnerBio` | `bio-store.ts`, the onboarding and profile forms and the gate, the field encryption of `packages/db/src/crypto.ts` |
| `OrgPermissions` | `packages/core/src/org-permissions.ts`, `org-domains.ts`, `requireOrgSession` |
| `OrgAccess` | `setOrgStaffRole`, `setAccountOrgRoles`, both god bootstraps, the erasure of a member; its notion of who enters is `OrgPermissions`' |
| `SupplierOnboarding` | the supplier's `onboarding.ts`, `documents.ts` and `register.ts` actions, the console's `suppliers.ts` and `supplier-documents.ts`, `supplier-step-reconcile.ts`, and the rules of `supplier-onboarding.ts` and `supplier-documents.ts` in `packages/core` |
| `SupplierListing` | the portal's `session.ts` and `register.ts`, the console's `suppliers.ts`, the camps' supplier declarations, the release of a listing by erasure |
| `QuestionnaireForm` | `packages/core/src/questionnaire-definition.ts` and `questionnaire-runtime.ts` |
| `Questionnaires` | the console's questionnaire actions, `questionnaire-store.ts`, `required-actions.ts` and a camp's questionnaire actions |
| `Broadcasts` | `apps/org/lib/actions/bulletins.ts`, `apps/web/lib/deadline-reminders.ts` and core's `registration-deadline.ts` |
| `RegistrationProofs`, `ProjectRegistrationProofs`, `OrgAccessProofs`, `SupplierOnboardingProofs`, `SupplierListingProofs` | the theorems about the module of that name (OrgAccessProofs: also about `OrgPermissions`) |
| `CampProofs` | the theorems about the two modules of a camp, `CampRoles` and `CampMembership` |
| `AccountProofs` | the theorems about the three modules of an account, `BurnerBio`, `EmailChange` and `AccountDeletion` |
| `MessagesProofs` | the theorems about the two modules of what AfrikaBurn sends, `Questionnaires` and `Broadcasts` |
| `MC*` | model values, symmetry and the enumerated inputs of the pure rules for TLC |

`PROJECT.json` maps every definition to its lines. Operators named `Mut...` are
plausible bugs of the operator that follows them; each property is shown to be
broken by one of them. They are no part of any specification. Modules that share a
proof module name their specifications apart (`Spec`, `RosterSpec`; `EmailSpec`,
`DeletionSpec`; `BroadcastsSpec`), because the proof module extends them all.

## 3. The runs

All bounds are constants of the cfg. `CHECK_DEADLOCK FALSE` everywhere: a
rejected registration, a bounded number of requests or an erased account are
legitimate ends.

| Run | Instance | Shows |
|---|---|---|
| MCRegistration | 2 camp requests, 2 reviewers, 1 section, 2 decisions | `DecisionIsAudited`, `NotificationsAreCommitted`, `CarriedOnce`, `AnswersLockedOrStale`, and the refinement `ImplementsLifecycle`. Two of each actor is what a lost compare-and-set takes; two decisions make a history; one section suffices because these properties only distinguish complete from incomplete |
| MCProjectRegistration | 2 requests, 1 reviewer, 3 reviews, 2 answers of the project's form and 2 of the camp wizard, of which one completes it | `OnlyTheWizardDivides`; `EditsRespectStateMachine`. Two requests overlap an edit, an autosave or a camp move with any other; three reviews are a round that sends the project back and the start of the next |
| MCCampMembership | 3 burners, 2 invites, 2 requests, 2 code attempts | `RefCodesIdentify`, `InviteSpentOnce`, `ClaimYieldsRole`, `TransferLeavesOneLead`, `LeadOrStale`. Two requests and two invites cover every pair of redemptions, transfers, revocations and departures; two attempts (the code has five) reach the retry. Their exhaustion is not reached: two invites are two joins, of which one retries once |
| MCCampRoles | 1 lead, 1 member, the captain, the baseline, 1 officer role and 2 roles of the camp's own, 2 requests, cap 4, 2 editions | `DisclosedByOneself`, `ElevationIsSanctioned`, `CapOverrunIsBounded`. One room below the cap and two requests reach the overrun; two editions separate a consent from last year's; the baseline may let everybody assign roles, which is what an escalation takes |
| MCAccountDeletion | 2 accounts, both god addresses, 1 camp, 2 tabs, 1 sweep of at most 2, 2 requests each | `AlwaysALiveGod`, `TrailMatchesRequests`, `ErasureIsDue` and, under `FairSpec`, `DueIsErased`. Two gods are what "last god" needs, two requests show a cancelled one followed by a new one |
| MCEmailChange | 2 users, 3 addresses, 2 tabs, 3 requests in all | `EveryMoveIsRecorded`, `StoppedIsFinal`. Three requests allow a superseded one between two others and both users wanting one address |
| MCOrgAccess | 1 account at a god address, 1 role beside the seeded ones, 2 requests, 3 rows ever inserted | `NothingReattaches`, `GodUntouched`, `PanelDoesWhatItSays`. Accounts share no row, and one that never signs in stays as one whose address is not listed; three rows allow a membership deleted and granted again, twice. TLC first evaluates the assumption `PermissionRules`: the three rules of `OrgPermissions` for 1728 actors, over 2 departments and 2 domains |
| MCSupplierOnboarding | 1 supplier and edition, 2 tabs, 2 organisers, 2 documents, 3 steps (one of each kind), 4 requests | `SupplierNeverConfirms`, `OneWayToComplete`, `SignedIsCompleted`, `AuditedOrStale`. The rules distinguish steps by kind only; two documents separate "some" from "all" signed; four requests allow publish, sign, withdraw and one that overlaps them, or all four of the actors at once; the proofs are for any number. Moving a document between two steps of the supplier's own is left to the proofs |
| MCSupplierListing | 2 accounts, 2 names, 2 listings, 2 portal requests, 1 console request, 1 camp | `OnlyHoldersAct`, `RegistersOnce`, `DeleteStrandsNobody`, `ErasedHoldsNothing`. Two portal requests of one account or of two, against a deletion, a declaration and an erasure |
| MCQuestionnaires | 1 member of staff, 2 sends of any kind, 1 author | `CompletedIsAnswered`, `RecallIsComplete` and, under `FairSpec`, `GateOpens`. One recipient is enough: recipients do not read one another's rows (the proofs are for any number). Two sends of one definition share an answer, which is what "answered before it was asked" needs. TLC first evaluates the assumption `FormRules`: the four rules of `QuestionnaireForm` for some 1400 definitions of three pages, with jumps on, back, to the same page and nowhere, and all their payloads |
| MCBroadcasts | 1 bulletin, 2 titles, 2 audiences, 2 staff requests; 2 camps, 2 runs of the job, milestones 1 and 2, at most 2 days to the close | `PublishedIsSentOnce`, `RemindedOnce`. The close may move back, so milestones are met again; bulletins and reminders share no row and are checked in one module because they are the same promise |
| MCBurnerBio | 1 person, 2 tabs, 2 editions, 2 notes, 2 keys and none | `GateAgreesWithBio`, `ClearedIsDeliberate`, `ErasedStaysErased`. Two tabs are a stale form and the save that outdates it; two keys, since a note under the old one is stored but not readable |

Symmetry is used only over requests, reviewers, invites, documents, roles, notes
and people without a special part, and never in a run with a liveness property.

**Provisos.** Several promises of the code's comments hold only if nothing moved
between a read and the write that relied on it: the write does not repeat the
check. Such a property names that case explicitly (`AnswersLockedOrStale`,
`LeadOrStale`, `StaleEdit`, `UpToDate`, `LateConfirmation`, `StaleConsole`,
`Undisturbed`, `sweep[s].current = id`, `req[t].docs # docs`,
`req[r].role = role[b]`, `req[r].saw = Leads`) and is checked with full
interleaving, so that it says that this is the *only* way past the check. It does
not say that the check cannot be passed: for the hazards that `PROJECT.json` lists
with a note, the note names the interleaving that is excepted. `overtaken`
(SupplierListing, BurnerBio) is the widest of them: it excepts a request during
which anybody wrote anything, so what its properties say of two requests that
overlap is only what the ones without it say (that claims have one winner, that
notes are kept, that gate and record agree). Section 5
lists what goes through these holes. `AuditedOrStale` also lets the first step be
completed by registering and by saving the profile, which write audit rows of
their own (`Reaffirmed`). Two overlaps are outside MCAccountDeletion's bounds: two
sweeps at once, and a `Limit` smaller than the number of refused requests (section
5 again), so `DueIsErased` does not exercise a sweep that is cut short.

**Fairness.** `FairSpec` of AccountDeletion: the cron starts a sweep every day
(weak fairness of `SweepStart`), a sweep that has an account to look at looks at
it, and the platform does not kill the function at the same account every single
night (strong fairness of reading and erasing). Nothing is assumed of people:
no tab ever has to act. `DueIsErased` excepts accounts the guard keeps.

`FairSpec` of Questionnaires: a person whom a gate stops keeps trying to answer
(`TriesAgain`: the gate shows nothing else), and a submission that is tried again
and again gets through some time, each of its two statements included. Strong
fairness, because every try may die and another author may close the send in
between. Authors owe nothing. What makes this more than a restatement is the
retry: after a crash between the answer and the completion the person has to be
let through the same form again.

## 4. The proofs

Eight modules hold theorems; each is for every value of the constants under the
module's named assumption, and every invariant and every action property of the
runs is one of them. `PROJECT.json` lists the theorems; this is the argument of
each. All have one shape: the property is not inductive, because the write trusts
what a request in flight has read, so the invariant says what such a request still
knows although others have written since.

**RegistrationProofs** — the properties of MCRegistration, two invariants that no
run needs to repeat (`TrailIsAHistory`: the audit rows are a legal history;
`RefusalHasReason`), and the refinement. A commit is guarded only by "the status
is the one I read", so the induction has to know that what was validated at the
read is still true *of the status read*: `RequestsAreLegal` says so of every
request in flight. With it, the compare-and-set turns into "the move is legal from
the current status". `RejectionIsLast` says that a trail ending in a rejection
belongs to a rejected row, which is why no later audit row can follow one;
`NotifiersCommitted` says that a request about to notify has its decision in the
trail. The argument runs in three layers: facts about the finite state machine,
lemmas that keep types and requests, and `RowSteps`, which shows that every step
leaves status, reason and trail alone or is one of three moves. The remaining
invariants and the refinement argue about three moves instead of twelve actions.
`AnswersLockedOrStale` needs that a save in flight read an editable status
(`WritersReadEditable`): then one that writes under review is a stale one.

**ProjectRegistrationProofs** — `OnlyTheWizardDivides` and
`EditsRespectStateMachine`. The two halves of a project's registration, the row and
the answer record, do part: the actions of a camp move the one without the other.
The theorem is that nothing else parts them. `RequestsAreLegal` carries each
request's check from its reading to its commit: an edit read an editable status and
will leave it or file it, so that its commit writes status, columns, answers and
stamp as one; an autosave read an editable status; a camp move is legal from the
status it read, which the compare-and-set makes the current one. Reviews are the
abstract steps of `RegistrationLifecycle`, which the refinement justifies.

**CampProofs**, CampRoles — types, the three properties of MCCampRoles. The
invariant adds `ConsentIsPast` (no consent is for an edition to come, so a new
edition discloses nobody) and `RequestsWereChecked` (what a request in flight may
still hand out or set was within its caller's rights when it looked, from the
creation of a role to the permissions set by the same request). For
`ElevationIsSanctioned` every step is one that only empties rows, or one of four
commits; `RisesByARole` says that whoever comes to manage has a role to thank that
they did not hold or that has been raised, and `SettingPermissions` that only a
manager's request raises one. The bound on the
roles is inductive by itself once the sets are finite: a role in the table and a
creation in flight are counted together, so that a commit moves one from the
second to the first.

**CampProofs**, CampMembership — the five properties of MCCampMembership. `Informed`
says what a request holds: an invite that was minted, of its kind; a sequence that
is not 0; for a lead about to leave, a company of nobody else. `RefCodesIdentify`
also needs that the next sequence is new, which is a statement about the maximum of
the codes: `MaximumExists`, by well-founded induction on the subsets of a finite
set, and the reason why the burners are assumed finite.

**AccountProofs**, BurnerBio — the properties of MCBurnerBio. What a request has
read is what is stored, *unless it is in* `overtaken` (`FormsAreCurrent`,
`RequestsAreCurrent`), and an erasure overtakes whatever its account has in flight
(`ErasureOvertakes`).

**AccountProofs**, EmailChange — both properties, from unique addresses, at most
one pending change per user (`OnePendingChange`) and what a tab has read (`ReadBy`:
a row that exists, in a status from which its link may be used). A confirmation
commits whatever has become of its row, which is why `EveryMoveIsRecorded` has a
case for late ones. That addresses are
unique is in no run and a theorem (`EmailTypeCorrect`).

**AccountProofs**, AccountDeletion — the safety properties of MCAccountDeletion and
one more. Rows, trail and tombstones agree (`TrailMatchesRequests`,
`TrailIsOfRequests`, `OnePendingDeletion`), tabs and sweeps hold rows that exist
(`TabsKnow`), and the row of an erasure under way was due (`SweepsKnow`); rows are
never removed and grace does not come back (`Grows`), so what was read stays true.
`AlwaysALiveGod` is proved twice, without a proviso where there is one sweep
(`OneSweepKeepsAGod`, the instance that is checked) and, for any number of sweeps,
of the behaviours in which no two of them erase at once (`GodSurvivesErasures`):
while an account is being erased another god is alive. The repository does not
rule such an overlap out, so the proviso is the statement, not a convenience.
`CampsKeepALead` says the same of the leads of a camp, and needs besides that no
lead is handed over between the guard and the erasure (`NoTransferBetween`): the
transaction does not look again.

**OrgAccessProofs** — of the rules, three theorems about every actor: the summary
lists exactly what the guards admit (`SummariesAreExact`), the reason of a refusal
is true (`RefusalsAreTrue`), and roles of one department reach the domains it owns
and nowhere else (`DepartmentsConfine`). Of the behaviour, the three properties of
MCOrgAccess: no two memberships share an id and none has one that is still to be
given out (`IdsIdentify`), which is why a role set can never land on a later row,
and a panel action in flight passed its guard (`GuardsPassed`).

**SupplierOnboardingProofs** — the type invariant and the four action properties of
MCSupplierOnboarding. `TypeOK` is not inductive. That no acknowledgement outlives
its document rests on row locks, so the induction needs `PendingAcksRefer`: a
document somebody is about to sign is listed and not being withdrawn. That a
supplier without a row has nothing done rests on `TabsAreOpen` and
`UnopenedIsBlank`, which speak of what requests in flight have read. `TicksAreFree`
carries a tick's check for documents from its read to its commit. `ReconciledFacts`
says what a reconciliation does to one step, to one that awaits a confirmation in
particular: it finds a move it may not make, and skips it. It is all the theorems
use of a reconciliation; `CommitterMoves` gives the action
properties their actor.

**SupplierListingProofs** — the properties of its run, along the lines of BurnerBio:
a request holds what is stored unless it is in `overtaken`, and the properties
follow from the second half of each step.

**MessagesProofs**, Questionnaires — types, `CompletedIsAnswered`,
`RecallIsComplete`. The invariant adds that requests speak of sends that were made
(`TabsWereSent`), that only a camp's send is recalled in the way that expires
actions (`ClosersMeanCamps`), and that a tab about to complete an action has stored
its answer (`CompletersAnswered`).

**MessagesProofs**, Broadcasts — both properties. The row lock makes
`PublishedIsSentOnce` nearly inductive: what a publication has read is what is
stored while it holds the lock. `RemindedOnce` is an invariant of the claim alone,
because the marker and the sends commit together, whatever a run gathered before.

**Only model-checked**: `GateOpens` and `DueIsErased`, since liveness under fairness
is out of the prover's reach, and the rules of `QuestionnaireForm`, whose walk is a
recursion over data.

## 5. Where the code falls short of its words

The provisos of section 3 are not formalities: TLC reaches every one of them. What
follows are the runs of events behind them, and a few things the models show
beside them.

* **An autosave that read an editable status rewrites answers under review**
  (`apps/web/lib/registration-store.ts`, `saveRegistrationDraft`): the status is
  checked outside the transaction and the update is by id. A save that empties an
  answer between the completeness check of a submission and its commit files an
  incomplete form; and a carry-forward presses last year's text over what an
  autosave stored since its reading, although the comment on its transaction says
  that a lost race writes nothing: its compare-and-set asks for status and stamp,
  which an autosave does not move, and its read takes no lock. A submission whose
  gate looked before a carry-forward emptied `completed_sections` may still commit
  after it. The same shape lets an edit of a creative project reopen what a
  reviewer has just decided; such a project, sent back and filed again, keeps the
  reason of the round before, which a camp's registration drops.
* **A project's row can be moved behind its answer record**: the actions of a
  camp's registration (`apps/web/app/(app)/camps/[slug]/registration/actions.ts`)
  ask for the slug and the lead, not for the kind, and only
  `camps/[slug]/page.tsx:439-445` hides the link. A lead who follows it can
  withdraw and reopen a filed project (a draft whose record stays completed), fill
  the wizard and submit (filed without the record's stamp), or autosave camp answers
  over the columns that mirror the record. The next save of the project's own form
  brings the two together.
* **Two leads can remain** when two lead transfers cross: each demotes the leads its
  own statement sees. **An invite can be spent with no role granted**: the redeemer
  leaves between the claim and the grant, and the grant matches no row.
* **A stopped change of address can be applied, and one link can move an address
  twice**: `confirmEmailChange` updates the row it read by id, without asking for
  its status again. A confirmation that read before a stop commits after it; and of
  two clicks of one link that both read before either commits, the second moves the
  address once more, even after the first was reversed.
* **A save of the bio in flight at an erasure writes special personal data back**:
  the session is checked when the request begins.
* **A System manager can be demoted by an elevation that read the account before its
  bootstrap** (`apps/org/lib/actions/accounts.ts`, whose comment says that no screen
  can touch one); and a demotion whose conditional delete matches no row reports
  success.
* **A camp can lose its lead**: `leaveCamp` checks that a lead is alone, or a leaver
  not the lead, and then deletes without looking again. An invite that outlives the
  last member lets somebody join an empty camp that then has no lead.
* **A cancelled deletion can be carried out**: the erasure completes the request by
  id, so a sign-in between the sweep's read and its transaction is overridden, where
  `account-sanitize.ts:69-73` says that a cancelled request is never processed. Two
  sweeps at once may each find another god alive and erase both, and a camp whose
  lead is handed to an account that is just being erased is left without one: the
  guard is not repeated in the transaction. A sweep's limit has no ORDER BY, so refused requests can fill it every night.
* **The console writes a step map it read without the lock** that the supplier's
  side takes (`apps/org/lib/actions/suppliers.ts`, `supplier-step-reconcile.ts`): a
  step that moved in between goes back with no audit row, where the comment says
  that map and trail can never disagree. Two acknowledgements that complete a step
  together, each in its own transaction, do not see one another and leave it
  pending. `registerSupplier` completes the first step although a document may gate
  it already, and a tick or a profile save completes a step that a document was bound
  to after the request had looked: the transaction does not lock the documents,
  although `onboarding.ts:54-56` says that the binding cannot change between the
  check and the write.
* **The console can set a step of the supplier's own to await a confirmation**
  (`setSupplierOnboardingStep` takes all three statuses, and the rules let AfrikaBurn
  make any move). The supplier has no move out of there and a reconciliation skips
  the step, signed or not, until the console moves it again.
* **Whoever loses the race to claim a listing is shown it all the same**, and a
  profile save made in that session rewrites the winner's listing. Two businesses
  can register under one name at once, and a claim or a declaration between the check
  of `deleteSupplier` and its delete goes with the listing. A profile save on a
  listing deleted meanwhile matches no row and reports success.
* **A camp passes the cap on its roles** when creations are counted together; and an
  officer role held from an earlier edition still counts for permissions, although
  the contact is no longer disclosed.
* **A milestone is done for good**: when the close is moved to a later day, camps
  that became due since are not reminded at a milestone whose marker exists. Nothing
  in the repository schedules the job.
* **A questionnaire definition is accepted with sections nobody reaches**: the check
  follows a page's *next* although a required question on it may branch on every
  option. Nothing is lost but the section.
* **The console checks a questionnaire's answers without its branches**: its action
  (apps/org/lib/questionnaires/actions.ts:615) validates every question, also those of
  pages the branch taken in its runner skipped. The gate stays passable: a refusal
  walks the reader to the page that owns the failing question (runner.tsx:147-155).
* **An ID document can reopen under the wrong type** (outside the model, seen beside
  it): the form takes the type from the column that is not empty, so an unreadable SA
  ID that was kept beside a passport number typed in later is shown as an SA ID.
* **The access panel selects its target by id alone** and can elevate an erased
  account.

## 6. Not modelled

* Authentication, sessions, passwords and second factors: the third-party library
  behind `packages/auth`; a signed-in caller is assumed.
* Rendering, the questionnaire and role builders, the wording and layout of forms,
  mail delivery, exports: most of the repository's lines are React components whose
  rules are enforced by the actions modelled here.
* Single-statement writers that decide on nothing they read: wranglers and per-section
  review marks (upserts on a unique index), placement codes (a partial unique
  index), camp categories, the rate limiter (one statement under a row lock; its
  outcome is an early refusal, which every module allows at any read).
* The edits of departments, domains and the console's role catalogue
  (`apps/org/lib/actions/org-roles.ts`): OrgAccess takes the roles as given,
  OrgPermissions every possible catalogue. `setDepartmentDomains` has the shape that
  OrgAccess models for a person's roles: two whole-set writes at once may leave the
  union of both sets.
* A creative project in an edition after the one it was created in: its row there
  could only come from the camp actions of section 5. The bio's ID document.
* Supplier codes, the bulk import and contact lines; several suppliers in one
  reconciliation, whose maps are independent of one another; the audience of a
  questionnaire (any set of people here) and the kinds of question that do not branch.
* Medical read-receipts, the status board, the reporter, payment references, GIS and
  TMI research: append-only, or no state, or none that two requests share.

## 7. What is left

1. *Proofs*: the safety of every run is proved. What is open are statements that
   span components: that the erasure AccountDeletion commits is the one that
   OrgAccess, SupplierListing and BurnerBio take for a single step, and that a
   member who leaves in CampMembership is the one CampRoles removes.
2. *Models*: the catalogue of departments and roles beside OrgAccess; placement of
   several suppliers' checklists under one reconciliation; the bulk import of
   suppliers.
