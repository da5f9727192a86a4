# Verification of the Aureus responsibility core

TLA+ models of the parts of the Aureus API (`src/apps/api/src`, NestJS over
Prisma and PostgreSQL) that keep its promises to members and businesses: the
Responsibility rows, the append-only ledger of their events, the services that
move them, the obligations, evidence and permissions that hang on them, and the
services that decide who belongs to an organization. TLC checks the modules on
small instances; for every instance TLAPS proves every safety property that a
passing run checks, action properties and refinements included.

## 1. The system

The API is a set of NestJS services over one PostgreSQL database. Every HTTP
request is an asynchronous function that may be suspended at each `await`; any
number of requests run at once, on several processes. What is shared is the
database. Interactive transactions run at READ COMMITTED, Prisma's default on
PostgreSQL: a plain read takes no lock and may be stale at the next statement.
One job of these services is scheduled, the follow-through sweep; there is no
message queue and no distributed protocol. The hard behaviour is requests that
interleave between a read and a write, requests that are retried, and requests
that die half-way.

| component | state | operations | interacts with | what makes it correct |
|---|---|---|---|---|
| **Responsibility ledger** `responsibilities/repositories` | `Responsibility`, `ResponsibilityEvent`, two CHECKs, partial unique indexes | createAccepted, markWaitingOnUser, markWaitingOnThirdParty, resumeFromWaitingOnUser, completeWithEvidence, responsiblyExhaustWithEvidence | called by every service that carries work | one open row per member, kind and origin; ledger and row agree; closed once, with evidence, for good |
| **Personal responsibilities** `responsibilities.service` | the newest row of a conversation, the decision about an opportunity | acceptPersonalNeedResolution, accept, reconcile, complete | ledger, saved opportunities | the answer belongs to the need asked for; only the newest row is open |
| **People resolutions** `people-resolutions.service`, `needs` | outcome reports, offers, escalations, the no-route record | accept, continue, respondToResource, reportOutcome, requestHumanSteward; acknowledge, resolve | ledger, City Sheet, stewards | completed only on the member's report; exhausted only after a confirmed no-route state |
| **People help** `people-help.service`, `ai/application-guide`, `opportunities/saved` | guide sessions with their consent, the saved opportunity | start, pause, complete, setConsent, endSession; save, update, remove | ledger | consent ends with its session; the session is over and the outcome saved before the work moves; a session moves only its own work |
| **Follow-through** `people-follow-through.service` | the obligation contract inside a responsibility's row, `dueAt`, `ACTION_EVIDENCED` events | create, recordAttempt, reportDueChange, verifyDue, reportSatisfied, verifySatisfied; sweep every five minutes | ledger rows, notifications | contract, history and ledger tell one story; verified truth stands; what is overdue is announced |
| **Evidence** `evidence.service` | requirements, items, verifications, sufficiency | createRequirement, waiveRequirement, submitItem, verifyItem | authority, ledger | the ledger tells a lawful course; adequate only by somebody else's verification, whoever may verify; nothing after the end |
| **Authority** `authority.service` | requests, grants, suspended capabilities | createRequest, approve, deny, revoke, suspend, resume, evaluate | evidence, legal matters | no grant outlives a change of hands unnoticed; a revocation takes back all; suspension and grants are independent |
| **Business responsibilities** | rows of kind BUSINESS_PROMISE | create, markNeedsYou, resume, complete, cancel | members, organization (row locks), communications | authority at the commit, idempotent creation, no lost update |
| **Business communications** | `Notification` | publish, notify | called after the commit | true, notified and mailed once, and never part of the work |
| **Organization members** `organization-members.service` | memberships with their roles, the audit trail | add, updateRole, remove, transferOwnership | business responsibilities, invitations | at most one owner, the one the audit trail names; the title passes from owner to owner |
| **Organization invitations** `organizations/invitations` | invitation rows, one pending per address; audit entries | invite, accept, decline, revoke, listMine; expiry | members | one pending invitation; what the audit says happened, happened, once |
| Auth, guests, legal matters, households, stewardship, City Sheet, opportunities, academy, pods, goals, AI, public ward, platform, web | | | | listed with their reasons in section 5 and under `components` in `PROJECT.json` |

The hazards of this code are listed with their lines in `PROJECT.json`. The
recurring pattern is *read, decide, then write under a weaker guard than the
decision*: the repository guards its updates by a set of statuses and not by
the status read, the people service acts on reports and escalations read several
awaits ago, the sweep works through a snapshot, notifications are sent to the
managers found after the commit.

## 2. The modules

    CarriedPromise  <== refines ==  ResponsibilityLedger  <--- ResponsibilityLedgerProofs
                                      ^       ^       ^
                     == refines ==    |       |       |    == refines ==
                        NeedAcceptance  PeopleResolution  ApplicationHelp
                                      ^       ^       ^
                          LedgerTables        LedgerServicesProofs

    FollowThrough  <--- FollowThroughProofs          Evidence  <--- EvidenceProofs
    PermissionGate  <== refines ==  Authority  <--- AuthorityProofs

    BusinessPromise <== refines ==  BusinessResponsibility  <--  BusinessCommunications
                                      ^                            ^
                                               BusinessProofs

    OrganizationMembers  <--- OrganizationMembersProofs
    OrganizationInvitations  <--- OrganizationInvitationsProofs

The three modules over the ledger INSTANCE it, each with its own origins and
records, call its actions in theirs, and are checked and proved to implement its
specification (`ImplementsLedger`), so what holds of the tables holds under every
service that drives them. They EXTEND `LedgerTables`, the tables and calls they
share, so that one proof module can speak of all three; where their names would
meet, those of NeedAcceptance begin with `Need` and those of ApplicationHelp with
`Help`. `BusinessCommunications` EXTENDS `BusinessResponsibility`, runs its actions
together with the news they send (`NewsNext`), and the run checks the properties of
both. `PROJECT.json` maps each
definition to the lines it stands for.

**ResponsibilityLedger.** `row` and `ledger` are the two tables, `tx` the
transaction each call has open, `reply` how its last method ended. A status
change is two actions, because another transaction may commit between its
unlocked read and its update: `<Op>Read` is everything up to the early returns,
`<Op>Write` is update, events and commit, which the row lock makes one step.
`GuardedUpdate` has three outcomes: the update counts no row; it counts one and
the events are written; it counts one, a CHECK constraint refuses an event, and
everything is rolled back. `createAccepted` is three actions: lookup, insert or
P2002, lookup of the winner. `Abandon` is a process that dies, a connection that
drops or a transaction that times out, at any point. A member, a kind and an
origin are one *slot*, the key of a partial unique index; what the row is
accepted for is its *provenance*. The ledger is in commit order.

**CarriedPromise** is what a member is promised, without transactions: per
slot at most one row is carried; a carried row is kept or ended, with the record
that says why; nothing else ever happens to it.

**NeedAcceptance** adds the service's decision on the newest row of the
conversation, the separate `createAccepted`, and the comparison of the answer
with the need; the decision about an opportunity (`AcceptDecision`) and its
reconciliation with what the member tracks, which reads the row, reads the saved
opportunity and moves the row in three steps (`Reconcile*`), while the member
goes on tracking (`Track`). `born` is `createdAt` order.

**PeopleResolution** models each `await` of `continue` and of the member's
operations as a step; `svc` is where a call stands and what it has read. Reports,
offers, answers, escalations and the no-route record of the need are one
`journal` in time order, so "created after" is a comparison of indexes. Resources
and stewards come and go (`RoutesChange`). The text and the layout of the
projection returned to the page are left out.

**ApplicationHelp** is People help over the guide sessions, the saved
opportunity and the ledger. Nothing there is a transaction but the ledger's
methods: start, pause and complete are their reads and writes in turn, and `Fail`
may end them between any two. A session remembers the Responsibility it was
opened for, or none; `HelpWork` finds the work of a session. `updatedSaved` is the row
the outcome was written to, as `complete` keeps it for the evidence it will cite.

**FollowThrough** keeps one `contract` per row, its date in the `dueAt` column and
the levels of its evidence events. A request reads (`<Op>Read`) and later writes
where neither `updatedAt` nor the revision has changed (`UnchangedSince`; `fresh`
stands for the comparison of `updatedAt`). The sweep is its awaits: select the
batch (`Selected` says of a list of rows that it is what ORDER BY and LIMIT return),
remind, read an overdue row again, mark it, announce it, ask for review.
`order` is the rows by `updatedAt`. Other services touch and close the same rows.
There is one pass at a time. The code has no guard against a pass that takes longer
than the five minutes to the next; a second one would write as the requests do, where
`UnchangedSince` holds, and its notices have the same keys as those of the first.

**Evidence.** A request passes its checks (`<Op>Begin`) and later writes in one
transaction that locks the Responsibility, and so is one step. The authority a
steward acts under is evaluated before that transaction and not again; the model
lets a steward's request be refused or go on at any time, so nothing checked here
rests on it. Roles are arbitrary: `Steward` and `Admin` hold who has them at times, the
Subject may be of both, and each request says in which role it acts (`MayVerify`,
`MayWaive`, branch by branch as the service asks). The latest verdict of an item is the last one committed:
`performedAt` is taken when the verdict is inserted, after the lock.

**Authority** is requests with their grants and events, the capabilities that are
suspended, the owner of the organization, or none, and the clock. Approving and
resuming lock the organization, ask who owns it and write, in steps of their own
(`ApproveCheck`, `Approve`; `ResumeCheck`, `Resume`). A transfer waits for that lock
(`Locked`); `LoseOwner` does not: it is what updateRole and remove may do to an OWNER's
row (see MembersTransferRace), so an approver may be unseated between check and grant.
**PermissionGate** is what the services that call `evaluate` are promised: a set of
granted permissions and a set of suspended ones, each changed by steps of their own.

**BusinessResponsibility** has the locks: an open transaction shares the lock of
its organization and membership rows until it ends, so `ChangeRole` and
`CloseOrganization` wait; the advisory lock on a request key makes a second
creation wait. The update compares with the status read. **BusinessPromise** is
the same without transactions: each move takes effect at once, by a user whose
role allows it then. **BusinessCommunications** adds what happens after the
commit: the recipients are read later, and `stage` is where the notify of each stands:
it looks for a notification with the dedupe key (`NotifyFind`), creates one unless the
unique index finds another there by then (`NotifyCreate`), and mails what it has created
(`NotifyMail`); each may fail, be opted out of, or be lost with the process. `about`
remembers how much of the ledger the news was made from, `mails` counts e-mails.

**OrganizationMembers.** `role` is the membership table, `trail` the audit
entries, `svc` where each request stands and what it read. Each of add, updateRole
and remove is its reads, its write and its audit entry, every one a step; the write
names the member and looks at nothing that was read. transferOwnership is the only
transaction: `Lock` is its FOR UPDATE on the organization, which nothing else
takes. `Crash` leaves a written membership without its entry.

**OrganizationInvitations.** `invitation` is the table in order of creation,
`stale` an invitation whose fourteen days have passed, `ask` where each request
stands. Accepting and replacing a stale invitation are transactions: the row they
update first is in `LockedFor` the others until the commit, and a request that
needs it waits. The partial unique index on pending invitations is part of
`InviteCreate` and `ReplaceStale`. Roles change underneath (`ChangeRole`), as the
members' service may change them.

Definitions marked *Mutant* are plausible bugs, kept beside the operator they
vary: each property of a passing run fails with one of them in place.

## 3. What the runs show

| run | instance | states | shows |
|---|---|---|---|
| LedgerTwoCalls | 2 calls, 2 rows, a slot of each of 3 kinds, 5 events per row | 185,422 | every ledger property under two overlapping transactions, and the refinement of CarriedPromise |
| NeedTwoCalls | 2 calls, 2 rows, 2 needs of one conversation and a decision, 5 events | 63,566 | answers belong to their needs; only the newest row is open; refinement of the ledger |
| PeopleTwoCalls | 2 calls, 1 resource, 2 journal entries | 938,420 | completion and exhaustion rest on the right records under stale reads and failures between any two awaits; refinement of the ledger |
| PeopleRoutes | 1 call, 1 resource, 4 journal entries | | **violated**: the ledger accepts the move the service chose |
| HelpTwoCalls | 2 calls, 2 rows, 1 conversation, 2 sessions, 2 tracking statuses, 4 events | 947,364 | consent; session ended and outcome saved before the work moves; a session's own work; refinement of the ledger |
| FollowThroughSweep | a member, a steward and the sweep, 1 row, dates 0 and 1, 3 revisions, 2 disturbances | 429,810 | the contract's properties, and that what stays overdue is announced |
| EvidenceTwoCalls | 2 calls, the member and another person, both stewards and administrators at times, 1 requirement, 2 items with a verdict each | 838,468 | the ledger of the evidence, earned sufficiency, nothing after the end |
| AuthorityTwoCalls | 2 calls, 2 persons, a permission of each owner, 2 requests, 2 instants | 1,613,968 | no approval across a change of hands, complete revocation, recorded decisions, refinement of PermissionGate |
| NewsTwoCalls | 2 calls, 2 users, 2 rows, 1 key, 2 roles, 4 events, 1 notification | 405,180 | one promise per key, the ledger is a chain, authority at commit, refinement of BusinessPromise; news is true, notified once and mailed at most once |
| MembersTwoCalls | 2 calls, 3 users (founder, one, a moderator), 3 roles, 2 audit entries | 1,232,488 | nobody is OWNER but the one the trail names, and each transfer is made by the owner the one before it made |
| MembersTransferRace | the same | | **violated**: the organization's sole owner is neither demoted nor removed |
| InvitationsTwoCalls | 2 calls, founder and one invited user, 2 roles, 2 invitations | 4,111,716 | only the newest is pending; audit and row agree |

**Fairness.** Requests are driven by their clients and may stop anywhere: no
fairness is assumed of them. The sweep is started by its scheduler every five
minutes (`@Cron`), and a pass that nothing disturbs works through its awaits to
the end; that is `WF_vars(Sweep)`, on the pass alone. Under it `OverdueIsAnnounced`
holds: what stays overdue is announced, though passes fail, lose their race
against a request, or die between marking a row and announcing it.
`MaxDisturbances` bounds the failures and the writes of other services: a sweep
disturbed for ever need not get anywhere. In that run the clock and the revisions
are bounded and the responsibility may be closed, after which nothing is left to
do, so it does not check deadlock; every other run does. The liveness
property is checked without symmetry.

**Bounds.** `MaxEvents` bounds the ledger of a row, `MaxJournal` the records of a
need, `MaxSessions`, `MaxRequests`, `MaxItems`, `MaxVerdicts`, `MaxInvitations`,
`MaxTrail`, `MaxNotices` and `MaxRevision` the tables they name, `MaxTime` the clock; all stand
in the guards and cut off longer histories. Two calls are enough for a race of a
read with another call's whole transaction, or of two look-ups before a creation;
two rows of one slot are a closed one and its successor. Five events hold acceptance (2), two moves and a completion's
first event, or a move and a completion (2); an exhaustion (3) fits after
acceptance. Two journal entries are what an exhaustion needs (no-route record, later
report) and what an accepted offer needs; a handoff that is resolved and
followed by a report and an exhaustion is longer than that. Two
sessions are one and its replacement. Three revisions are the recording of an
obligation and two changes that race. Two items are one and its replacement. Two
requests for a permission are a permission granted twice, what a revocation must
find. Two audit entries are two transfers, what a stale owner needs to hand the
title on a second time; two invitations are a stale one and its replacement, or
the two of two requests that invite at once. One notification is what two
requests can race for; those of two recipients or of two kinds have nothing to do with
each other (with two of them, 1,731,512 states show the same). In the business
modules the two roles are one that manages and one that only works; having neither
is a user without a role.
OWNER and MANAGER behave as ADMIN everywhere in the modelled code, VIEWER and
MEMBER as no role. Symmetry is used over calls, rows, users, needs,
resources and records, which no definition tells apart.

**Violations.** Two runs show a disagreement of the code with what the
repository says of it; the quotations are under `findings`.

1. *PeopleRoutes.* The shape CHECK of migration `or002` admits `COMPLETED` from
   ACTIVE and WAITING_ON_USER only, and `USER_INPUT_REQUIRED` from ACTIVE only. The
   repository completes from five statuses and pauses from four. A need that waits
   on a third party cannot be completed by the member's report, nor moved to
   another route: the transaction is rolled back. Unit tests mock the repository,
   so none meets the constraint.
2. *MembersTransferRace.* updateRole and remove check their target several awaits
   before a write that names the target only, and take no lock on the organization;
   a transfer in between makes the target the owner, who is then demoted or removed.
   Nobody owns the organization then, and only an owner can transfer it.

**Other disagreements**, met while modelling and visible in the models, which no
run is kept for:

- Only the newest row of a conversation is compared with the need that is accepted
  (`responsibilities.service.ts:187`), so the retry of an older, finished need, after
  another need of the conversation was carried and finished, makes a second promise;
  `src/docs/work-orders/AUREUS-PEOPLE-STEP1-CONSTRUCTOR-EVIDENCE.md:28` says "repeated
  acceptance of the same canonical StatedNeed returns the same Responsibility even after
  terminal state".
- The dedupe key of `needs_you` (`business-responsibility-communications.service.ts:124`)
  has no part that tells two pauses of one responsibility apart: the second pause notifies nobody, though
  `src/docs/work-orders/AUREUS-BUSINESS-STEP4-COMMUNICATION-EVIDENCE.md:53` calls it "the
  primary attention event".
- `people-help.service.ts:193` says "A completed Responsibility must never leave
  screen-consent authority active". The session that completes is ended; another active
  session of the same work, in another conversation, keeps its consent.
- `evidence.controller.ts:93` says of the independent verifier "never the subject themselves",
  and `evidence.service.ts:906-911` refuses the subject; but an administrator is let
  through before (871-884) and only asked whether the item is theirs. An administrator who
  is the member may verify what somebody else submitted for them.
  `SufficiencyIsEarned` therefore keeps to what the code gives: the verifier is
  never who provided the item, and not the subject where a steward decides.
- `authority.service.ts:129-134` says "Authority must still belong to this approver at the
  exact moment the grant is created", and locks the organization for it. updateRole and
  remove (`organization-members.service.ts:127,168`) write an OWNER's row without that lock: the
  approver may have lost the organization, to nobody, between the check and the grant. It can
  not have passed to somebody else, which is what `ApprovalIsCurrent` says.

**Sharp edges**, which nothing in the repository rules out: a pass of the sweep takes
the 500 open rows updated longest ago by their status only, and does not update
the rows it passes over, so rows that carry no obligation can fill every batch and
keep an overdue one from being reached (with a batch of one and two rows TLC finds it);
an error that is not a conflict ends the pass for all rows after it; two overlapping
continuations of a need may offer a resource twice; reportDueChange moves the date of an
obligation that is already satisfied.

## 4. What is proved

Eight modules hold the theorems, for any sets the constants stand for and any
bounds. The assumptions are the named ones of the modules: a bound is a natural
number, NULL is not a record, the founder is a user, the roles in use are roles.

| module | theorems |
|---|---|
| ResponsibilityLedgerProofs | everything LedgerTwoCalls checks: `OneOpen`, `LedgerAgrees`, `ClosedOnce`, `Alternation`, `FromStatusHeld`, `TerminalFinal`, `Implementation` (of CarriedPromise); `TypeCorrect` |
| OrganizationMembersProofs | everything MembersTwoCalls checks: `OwnerTitled`, `TitlePasses`; `TypeCorrect` |
| AuthorityProofs | everything AuthorityTwoCalls checks: `DecisionsRecorded`, `RevocationIsComplete`, `ApprovalsAreCurrent`, `Implementation` (of PermissionGate); `TypeCorrect` |
| FollowThroughProofs | everything FollowThroughSweep checks but the liveness: `StoryIsOne`, `NoticesAreFounded`, `VerificationStands`, `Finality`, `TypeCorrect` |
| OrganizationInvitationsProofs | everything InvitationsTwoCalls checks: `NewestPends`, `AuditTells`; `TypeCorrect` |
| EvidenceProofs | everything EvidenceTwoCalls checks: `LedgerTold`, `SufficiencyEarned`, `ClosedFinal`; `TypeCorrect` |
| BusinessProofs | of the promises alone `OnePromise`, `LedgerChained`, `AuthorityHolds`, `Implementation` (of BusinessPromise), `TypeCorrect`; `Composition`: with the news the requests are a behaviour of BusinessResponsibility; everything NewsTwoCalls checks: `OnePromiseWithNews`, `LedgerChainedWithNews`, `AuthorityHoldsWithNews`, `ImplementationWithNews`, `NewsTrue`, `NotifiedOnceEver` |
| LedgerServicesProofs | everything PeopleTwoCalls, NeedTwoCalls and HelpTwoCalls check: `NeedCompletedByReport`, `NeedExhaustedAfterConfirmation`, `AnswerIsForItsNeed`, `NewestDecides`, `ConsentEnds`, `PrivacyComesFirst`, `SessionsMoveTheirWork`, and `PeopleImplementsLedger`, `NeedsImplementLedger`, `ApplicationsImplementLedger`; of each service's rows the ledger's invariants, `TerminalIsFinal` and the refinement of CarriedPromise: `NeedsAreCarried`, `AcceptedAreCarried`, `ApplicationsAreCarried` |

Hardly any of the properties is inductive alone. Each module has an invariant `Inv` (`IInv` in the
ledger's and in those of the services over it) that adds what a suspended request
still knows; a lemma per action says that the action keeps it, `NextInv` puts them
together. Where a history tells a row, a second layer stands on the first
(`Stories`, `AllRecorded`), so that the first says what a step writes and the second
only what that does to the history.

**The ledger.** "Pauses alternate" is preserved by an append only if one knows the
last status of the ledger, and that is known because the ledger agrees with the
row; the guard of the update is a condition on the row. `LedgerInv(l, st)`
therefore says of one ledger that its last status is `st`, that it alternates,
closes at most once and at the end, that its `from`s were held and that it is free
of evidence while `st` is open. The event a transaction appends names the
status it *read*, so the invariant also needs `SeenInv`: the status an open
transaction has seen is one the row's ledger holds. Ledgers only grow, which
keeps that true whatever commits in between. Lemmas about one ledger
(`CreatedLedger`, `MovedLedger`, `ClosedLedger`) say what appending does to
`LedgerInv`; `MovedRowInv` lifts them to the tables, `GuardedUpdateInv` to the
three outcomes of an update. For the refinement, `StepShape` reduces each step
to one of three shapes (the tables are untouched, a row is accepted, an open row
moves), each a step of the promise or a stutter.

**The services over the ledger.** The three services use one instance of
`ResponsibilityLedgerProofs` each. Its assumptions are proved of what the service puts
in (`PeopleLedgerAssumptions` and its like), every step of the service is a step of
the ledger or none (`StepsOfPeople`, `StepsOfNeeds`, `StepsOfHelp`), so the ledger's
invariant comes with the refinement, and with it all that follows from it:
`NeedsAreCarried` and the two like it compose the two refinements, from the service
through the tables to CarriedPromise. On top stands what the service itself knows.

- *People resolutions* (`PeopleIInv`): what a call rests its next step on is in the
  journal (`RestsOn`): the report it routes by, the record it will cite. The journal only
  grows, so it stays there while other calls and stewards work; `ClosedWith` is then
  what a completion or an exhaustion leaves in the ledger. That the no-route record is older
  than the report that confirms it is part of `RestsOn`, for both are read several awaits
  before the move that cites them.
- *Acceptances* (`NeedIInv`): a service may rely on two things of the repository. A row
  that was accepted stays, with what it was accepted for, and is not opened again
  (`RowsStay`); a method that answers with a row answers with one in the table
  (`RepliesInv`). The first keeps an answer right after it was given
  (`AnsweredForItsNeed`). The second, with `OneOpenPerSlot`, keeps the newest row the only
  open one: an insertion succeeds only while none is open.
- *Applications* (`HelpIInv`): `Stands` is what each await of a pause, a completion or a
  start knows of its session and its transaction. Consent may be set again by another
  request after a pause has read it, but only on a session that is active, and a session
  that has ended stays so; that is why the order of the writes is enough. `Written`
  says that a call past its update of the saved opportunity has kept the outcome it
  will cite, so the evidence tells what was written and not what the request hoped for.

**The members.** A transfer commits in the name of the owner who asked for it,
several awaits earlier. That this is still the owner the trail names needs
`OneTransfers`, at most one transfer is open (the lock), and `TitledTransfers`,
its requester is the one the trail names. A demotion or a removal of the owner in
between does not disturb them, because the title is a matter of the trail and not
of the table; that is also why `OwnerIsTitled` is an implication, and why
`OwnerRemains` fails.

**Authority.** A revocation reads its row, finds the active grants and only then
updates them. `Finds` and `HasFound` say, for each of these moments, that what was
active when it began has been found or is revoked already; they are kept because no
step takes a permission, a grant or a revocation from a row (`RowsKept`). With
`GrantedOnApproval` this gives each step as a step of the gate or a stutter. The events
of a request begin with those of its decision and go on with revocations (`BeginWith`,
`Recorded`): a decision is appended only to the events of a pending request, a
revocation only to those of an approved one, and `HasFound` is what says so of a
revocation that updates rows it found earlier. `Holding` is what the lock on the
organization gives a call that holds it: who was found to own the organization still
does, or nobody does. A transfer would have to wait, and a demotion or a removal seats nobody.

**Follow-through.** `fresh` stands for the comparison of `updatedAt`. While it
holds, what a transaction or the pass read is what the row still has, and what it
is about to write is `Lawful` against that: one entry and one revision more, and a
verified date moved only by a verification (`TxKnows`, `PassKnows`). The write
checks `fresh`, so it is lawful against the row it replaces, and `ColumnsAgree`
follows with it. `Stories` says that the evidence events are those of the history:
each entry of the history has one if it is a report or a verification (`Grows`), and is
appended with it. `ToldInv` is the sweep's: what it is about to announce is marked in
the history (`Marked`), and the history only grows, so the notice is founded though the
row be satisfied or rescheduled meanwhile; a contract that says MISSED was marked so on the date it
still has (`MissedTold`), which is what a pass relies on that finds a row marked by an
earlier one. The code's batch is 500 rows; the proofs need only that it is not empty.

**Invitations.** `Knows` says that a locked row is pending and that a closing about
to be audited has taken effect; `Exclusive`, that a row is locked once. Without
the second, two acceptances could both find their row pending.

**Evidence.** Of the items of a requirement the last is the one current, so the
sufficiency recomputed from all of them is the `Worth` of the last (`LastCounts`);
`WorthKept` allows for an item that expired after the computation. What a request
read may be replaced before it writes, but rows and items stay, with their
providers (`Knows`): that is all a verifier's independence rests on. `SubmitRow` and
`VerifyRow` say what the two transactions write, an item or a verdict more (`ItemMore`,
`VerdictMore`) and the event of it. `Story` is what the events tell of a requirement:
the decision that gives its status, the submission of the last item, the verdicts of each
item at increasing positions, each event in course when it was appended. Its parts name the
last decision and the last submission instead of choosing them (`IsLast`), so that an
append can be followed; `LatestIs` turns them into the operators of the property.

**Business responsibilities.** `Knows` is what the locks guarantee while a
transaction is open: its user's role allows the operation, no row has the key it is
creating, the status it saw is one the operation moves from. `KeyLocked` is the
advisory lock. The update compares with the status seen, so an event continues the
chain at its end (`EndsIn`), and a row that is not complete has no attestation.

**Business news.** `StepsOfBusiness` shows that every step with the news is a step
of the responsibilities or a stutter; `Composition` is that as a theorem about
behaviours, and carries the theorems and the invariant of the promises over. On top of it, what a
row shows its ledger tells (`Shown`), and events stay where they are (`Grown`), so
what was true when the row was read (`True`) stays so however late it is sent. That a notice
is mailed once is a matter of who mails it (`Sole`): a call about to mail is the
one whose creation succeeded, no other is (`Mailing`), and the notice has not been mailed. A
second call that looked before that creation finds the index in its way, one that
looks after it finds the notification.

*Only model-checked.* `OverdueIsAnnounced`, the one liveness property: liveness under
fairness and ENABLED are out of the prover's reach. So are an induction over data and what
a recursive definition computes for every input; the properties are therefore
stated by positions in a history (`Tells`, `VerdictsTold`, `DecisionsAreRecorded`) and
not by filtering it. The two violations are counterexamples, found by TLC.

## 5. Not modelled, and why

*Of the modelled services*: wording, projections, input validation and reads; the
analysis of a screen frame, which calls a vision model and keeps nothing; e-mail
delivery attempts; event stamps (`occurredAt`), for which commit order stands.

*Services over the responsibility core that only add single-row writes*: legal
matters, households, stewardship, organizations' profiles and publication, City
Sheet administration. What they change of modelled rows is in the models as an
action of the environment (`RoutesChange`, `Touch`, `Close`, `ChangeRole`,
`CloseOrganization`).

*Independent of it*: authentication, sessions and guests (they decide who the caller
is, nothing more), announcements and messaging, public ward and leads, academy, pods,
goals, tasks, journeys, community.

*Input and output*: AI prompting and streaming, voice, harvest and ingestion of
external listings, telephony and e-mail adapters, throttling, health, and the web
application, whose state is a view of the API's.
