# A verification development of ai-erp

ai-erp is a collaboration server (Spring Boot, PostgreSQL) with a React client. Groups own
projects; projects have members, schedules and a plan; schedules are exported to a Google
calendar and people send mail from their own Google account. This directory models the
parts of it whose correctness depends on the order in which transactions, provider calls,
retries, crashes, screens and late answers act: in TLA+, checked by TLC on small instances,
and proved with TLAPS for instances of every size where the prover reaches.

All paths below are relative to the repository; `J/` stands for
`src/backend/src/main/java/com/aierp/`, `F/` for `src/frontend/src/`.

Contents

1. Inventory of the system
2. Modules, and how they correspond to the code
3. What the runs check
4. Fairness
5. What is proved
6. Disagreements between the code and its documents
7. What is not modelled
8. Plan

## 1. Inventory of the system

The backend is a modular monolith: every module owns tables, calls others through `api`
classes, and learns of business changes through an event journal. Every process runs
request threads and two scheduled jobs (the outbox, and the calendar's back-fill and
dispatch); two processes overlap while a deployment replaces one by the other. The client
is one page per tab: screens that come and go over a query cache (TanStack Query) and over
module state that outlives them.

| Component | State | Operations | What makes it hard | What must hold |
|---|---|---|---|---|
| **Google authorization** `J/identity/api/GoogleAuthorizationService.java` | one row per user: tokens, scopes, generation, refresh claim and lease | status, credential (claim, refresh at Google, complete or fail), connect, disconnect | the token endpoint is called outside any transaction; a disconnect, consent or other thread may commit meanwhile; the claimant may die | a late answer never undoes what happened since; a dead claimant does not wedge the grant |
| **Mail sending** `J/googleworkspace/GmailService.java` | a row per request id: SENDING, SENT, UNKNOWN, FAILED | send, receipt | retries in parallel with the first attempt, lost answers of Gmail, death after the post, the age-out racing the late owner | at most one message, receipts that never lie or change, every send settles |
| **Calendar dispatch** `J/calendarintegration/CalendarDispatchWorker.java`, `GoogleCalendarAdapter.java`, `CalendarService.java`, `CalendarEventConsumer.java` | binding row with a generation, a projection row per schedule (status, claim, lease, audit window), back-fill cursor; events at Google | bind, disconnect, retry, consume, back-fill, claim, look up, conditional write, complete, audit | workers outlive leases; requests time out and land later; bindings, roles, grants and schedules change at every point | SYNCED means delivered, Google never goes back a revision, deleted events do not return for good, no row starves |
| **Event journal and relay** `J/platform/events/` | publications; database connections | record, relay after commit, scheduled relay, consume | two relays of one event, crashes between commit and relay, consumers that fail, a second connection taken while holding one | once-only effect, truthful answers, progress |
| **Consumers** `J/notification/`, `J/audit/`, `CalendarEventConsumer` | their own rows, written in the relay's transaction | consume | redelivery | effects commit with the publication |
| **Schedules** `J/schedule/ScheduleService.java` | row with status, `rowVersion`, business revision; participants; acknowledgements | create, update, confirm, cancel, acknowledge | clients act on old copies, transactions overlap under `@Version` without a lock | no lost update, revisions identify announcements, acknowledgements are of what was seen |
| **Schedule workspace** `J/schedule/ScheduleWorkspaceService.java` | custom properties, values, views, each with a version | edits, record writes that span a schedule and its values | one version for a schedule and all its values, written by three editors | as the server of those editors; definitions of properties and views are not modelled |
| **Membership** `J/project/api/ProjectController.java`, `J/project/InvitationService.java`, `J/project/ProjectShareInvitationService.java` | roles, invitations, one share code | create, change role, invite, accept, reject, rotate, revoke, join | requests read a token or code before they wait for the project lock | a manager remains, one answer per invitation, only what is valid now admits |
| **Project creation** `J/project/api/ProjectController.java`, `src/frontend/src/screens/ProjectStart.tsx`, `src/frontend/src/state.ts` | creation requests by request id; the dialog's attempt | POST, replay, check again | lost answers, repeats that overlap the original, page reloads | one project per intent, refusals are true, repeats agree |
| **Project plan** `J/projectplan/ProjectPlanService.java` | items in a hierarchy with dependencies and versions; target dates | create, update, target, snapshot, cycle search | a long series of legal writes, snapshots in several queries | a forest without circular waits, versions that stand for content, coherent snapshots |
| **OIDC and identity** `J/identity/` | sessions, connect flows, accounts, profiles | login, connect callback, logout | concurrent first logins, flows left open | connect flows: in GoogleGrant; the rest not modelled |
| **Drive references** `J/googleworkspace/DriveService.java` | references to files | attach, list | provider call between two permission checks | not modelled: one insert |
| **Browser session** `F/session.ts`, `F/api/client.ts`, `F/App.tsx`, `F/screens/Account.tsx` | session generation, query client, requests in flight, a remembered invitation | read, write with its CSRF lookup, sign out, sign in, removal of protected data, remount | a request outlives its session and its App; the cookie changes under it | a write keeps its session, nothing of an ended session comes back, only its own 401 ends a session |
| **Access denials** `F/state.ts` | per key: denied, its version, the revision of the read that may clear it | record, begin and complete a read, clear | reads that began before the denial | a denial outlives older reads |
| **Account screens** `F/screens/Account.tsx` | share dialog with attempt and recovery, page of a share link, page of an e-mail invitation | issue, rotate, revoke, recover; join; accept, reject | answers lost, reads overtaken by changes, screens closed and opened meanwhile | never show or offer what is known to be gone |
| **Schedule calendar** `F/screens/Schedules.tsx`, `F/schedule-time-mutation.ts`, `F/time.ts`, `F/screens/calendar-direct-manipulation.ts` | interaction token, pending write, overrides, locked rows, retry | drag, dialog, write, reads after an unknown outcome, retry | the outcome of a write is unknown and each of three reads may fail; daylight saving | no write on an unknown outcome, success is true, exact arithmetic |
| **Editors of a schedule** `F/screens/ScheduleForm.tsx`, `ScheduleWorkspace.tsx`, `Detail.tsx` | draft, its base version, a conflict | edit, save, keep mine, apply latest, reload | the base moves on under the draft | nothing unseen is replaced |
| **Google screens** `F/google-return-context.ts`, `F/screens/GoogleWorkspace.tsx` | the way back in the tab's storage; the last mail's request id and status | leave, return, connect; compose, send, read the receipt | other tabs sign in, reloads, lost answers | the way back is one's own, SENT is of the last mail |
| **Deployment** `src/scripts/` | versions, backups, schema | deploy, roll back, back up | failure of any step | not modelled: one operator, one step at a time |
| Dashboard, web platform, token vault, other screens, harness, vendored files | none of their own | reads, configuration, rendering | none | not modelled |

Interaction. A user command changes rows of its module and records an event in the same
transaction. After the commit the relay hands the event to every consumer; the calendar
consumer queues a projection row, which the dispatch worker delivers with a credential of
the binding's owner. Mail asks the same authorization for credentials. Every write in a
project first checks the role of its actor with the membership module. A screen reads
through the query cache, writes through `mutate` of `F/api/client.ts`, and keeps in module
state what must outlive it: the session generation, the denials, the attempts.

## 2. Modules, and how they correspond to the code

| Module | Models | Composition |
|---|---|---|
| `GoogleGrant` | the grant row, the threads in `credential()`, the consents in browsers, the token endpoint | |
| `MailSend` | `send`, `claim`, `finish`, `receipt`, Gmail | EXTENDS `GoogleGrant`: a send runs the grant's own credential steps, and all other grant steps interleave |
| `CalendarDispatch` | worker, adapter, binding, consumer, back-fill, retry, Google's calendar | consumes the life cycle of schedules (`ScheduleLifecycle`'s Confirm, Change, Cancel) and relies on the revision order it guarantees |
| `ReliableEvents` | abstract: a recorded event takes effect at most once, and only after it was recorded | |
| `EventOutbox` | journal, relay, scheduler, row locks, connection pool, crashes | implements `ReliableEvents` by a refinement mapping |
| `ScheduleLifecycle` | abstract: draft, confirmed as revision 1, revised one by one, cancelled for good | |
| `ScheduleService` | the five commands, read/flush/commit with `@Version`, clients with copies of any age | implements `ScheduleLifecycle` |
| `ProjectMembership` | roles, invitations, share code, requests that wait for the project lock | |
| `ProjectCreation` | the POST with its advisory lock, and the dialog that sends, repeats and forgets it | client and server in one module, joined by the POSTs |
| `PlanStructure` | the hierarchy and dependencies, and the validation of a write | |
| `PlanCycleSearch` | the depth-first search, a step per turn of a loop | EXTENDS `PlanStructure`, whose `Acyclic` it decides |
| `ProjectPlan` | item and target versions, clients, two-query snapshots | EXTENDS `PlanStructure`; its steps are `PlanStructure` steps on `plan` |
| `AccessRecovery` | the denial record of one key, as operators | used by three of the modules below |
| `BrowserSession` | session, requests, App, sign-in and sign-out, one denied key | EXTENDS `AccessRecovery` |
| `ShareInvitation` | the share dialog with the server of the code | EXTENDS `AccessRecovery` |
| `JoinPreview` | the page of a share link | its query has no access key |
| `EmailInvitation` | the page of an e-mail invitation | EXTENDS `AccessRecovery` |
| `ScheduleDirectEdit` | changing a time in the calendar, its recovery | client and server in one module |
| `ScheduleForm`, `ScheduleValues`, `ScheduleTimeDialog` | the form, the editors of values, the time dialog of the list | each with the version check of the server it calls |
| `CalendarArithmetic` | local times, days, windows, drops and lanes, with their reference definitions | functions; its steps choose a zone and enumerate events |
| `GoogleReturn` | the way back over the consent at Google, tabs and time | |
| `MailCompose` | writing and sending a mail, the receipt | the server's part of a send is `MailSend` |

`MC*` modules give instances. A `*_proofs` module holds the theorems about its component and
about those it builds on or serves: MailSend_proofs those of GoogleGrant, ProjectWork_proofs
those of ProjectPlan, PlanStructure, PlanCycleSearch and ProjectCreation, ScheduleService_proofs those of the editors of a schedule,
ProjectMembership_proofs those of the share, join and invitation pages, BrowserSession_proofs
those of the direct edits and of the Google screens.

Conventions. A transaction that holds a lock from its first read to its commit is one
action. One that reads without a lock, or calls a provider between two transactions, is
split at those points, and what it remembered in between is in the state of its thread
(`callers`, `threads`, `workers`, `posts`, `waiting`). A crash drops that state and
nothing else. Time is a flag that may turn at any moment (`leased`, `expired`, `aged`,
`lapsed`, `lease`), so no timing is assumed; only the six-hour audit window of the
calendar is counted, in ticks. Tokens, payloads, contents, codes and calendars are opaque.
An operator commented "Mutant" is a plausible bug in the operator below it; nothing
refers to it. Of the client, every read, answer and callback is a step of its own, an answer
may be lost or late at any point, and what runs between two awaits is one step. CalTypeOK and
ScheduleTypeOK are theorems; no run repeats them.

### GoogleGrant
`credential()` becomes RequestCredential (the unlocked read), BeginRefresh or
RefuseRefresh (the claim under the row lock), ProviderGrants, ProviderRejects or
ProviderUnavailable (the token endpoint), and CompleteRefresh, RefreshIsStale or
FailRefresh (the second transaction). `phase` is the thread's place in it. Connect is the
transaction of the OAuth callback, with the generation the flow remembered; every callback
that changes nothing is DenyConsent. `rejected` and `overtaken` are history variables.

### MailSend
`threads[c].pc` is the place in `send()`: the row is inserted (Claim), the credential
asked for (AskCredential and the grant's steps), checked (CheckCredential), the message
posted (Post), the answer received and classified (AnswerAccepted, AnswerRefused,
AnswerUncertain), checked against the grant (AnswerChecked), recorded (Finish,
FinishThrows). GmailAccepts is Gmail taking a message it was sent, whether or not the
answer arrives. A Crash may leave a message in flight. Receive is `receipt()`, which
also ages a row out.

### CalendarDispatch
Claim is one transaction of the worker; Attach stores the credential generation; Look is
the GET with its ownership check; Send the conditional POST, PATCH or DELETE; Land is
Google applying or refusing it, possibly after TimesOut; Complete is the fenced second
transaction. Stale is the barrier check before each provider call. A request nobody waits
for is abandoned by the end of the window it was sent in: the model bounds a lost request
by the window the code gives it, so a window that is already running and is reused for a
new write is trusted to be long enough (`CalendarDispatchWorker.java:305-319`; the window
is six hours, a request lives seconds).

### EventOutbox
The thread of a command keeps its connection while its after-commit listener asks for
another one; this is what CommandConnections and RelayConnections count. A relay locks the
publication, runs all consumers, marks it published, in one transaction; a failing
consumer rolls all of it back. Poison events fail for ever.

### ScheduleService
A write has a read (Start, with the client's version compared by `check`), a Flush whose
UPDATE compares the version the transaction read and waits for the row, and a Commit.
Every user works on a copy loaded at any time. ACKNOWLEDGED events carry the revision they
acknowledge and are not announcements of it.

### ProjectMembership
Every command is one step under the project lock, except that answers and joins find their
token or code before they wait for it (FindToken, FindCode, then Resolve or Join, or the
conflict). That two commands on one project never overlap is thus the lock's doing and taken
from the code; ManagerRemains is about what a series of them can reach.

### ProjectCreation
A POST is sent, takes the lock of its request id, looks for an earlier creation, then
replays or creates. The dialog keeps one attempt per session: pending, uncertain (no
answer, or one that may hide a success), refused, opening. `intent` ties together the
POSTs for one thing a user set out to create, over repeats of the check.

### PlanStructure, PlanCycleSearch, ProjectPlan
`Valid` is the validation of a command. In it `Acyclic`, "among any tasks one waits for
none of them", stands for the result of the search; `SearchIsExact` says that the search of
the code gives just that. In PlanCycleSearch `path` is the stack of `cycle()`, each call with
what its loop has left; the loop of `hasCycle()` is the first. Skip, MeetVisiting and Descend
are what a call does with the next item (done, on the path, neither), Leave its end, Finish
that of `hasCycle()`. The graph is any, as each command brings another. Milestones are validated as tasks are.
ProjectPlan adds the versions, clients that edit from any earlier snapshot and the two
queries of a snapshot, which both see the database as it was when the transaction began.

### AccessRecovery, BrowserSession
`accessRead` and the functions it calls return the next denial record. A request of
BrowserSession passes the phases of `parse` and `mutate`: csrf, token, sent, answer, body,
callback; ReceiveToken, ReceiveHeaders, ReceiveRead, ReceiveMe, ReceiveWrite and FinishWrite
are the code after each of its awaits. ServeToken and Serve are the server under the cookie the
request carries (`J/platform/web/SecurityConfiguration.java:18-26`): anybody may look a CSRF
token up, it is good for the session it was made for only, and a write with another one is
refused before anything else is asked. SignIn is the sign-in of this page, which mounts the App
again. SignInElsewhere is one in another tab: it replaces the cookie at any moment and the page,
whose generation it leaves alone, does not learn of it. `began`, `cookie` and `token` of a request
name sessions of the server, `elsewhere` remembers which of them were opened in another tab.
MountApp is the initialiser of the query client (run twice under StrictMode),
clearProtectedQueryData the effect that empties it. `evidence` and `fresh` are history.

### ShareInvitation, JoinPreview, EmailInvitation
The query of TanStack is its value, its status and the one read it waits for; a cancelled
read is still answered. BeginChange is `onMutate`, CompleteChange the end of `mutationFn`,
FinishChange and FailChange the callbacks, Recover and FinishRecovery `recover`. In
JoinPreview the look after a 409 is ConflictEffect and LookAfterConflict; in EmailInvitation
the read and the answer have a key each, and RecoverInvitation follows a refusal of either.
`floor`, `looked` and `resolved` remember what the page should know. JoinPreview and
EmailInvitation are of one visit of their page: somebody who leaves and comes back is first shown
what the query client kept (`F/screens/Account.tsx:790-794`, 919-922, where it is taken to be fresh
for 15 seconds), and a read under way may end without the page. Neither is modelled.

### ScheduleDirectEdit
`begin`, `clear` and `finish` are those of CalendarEvent; saveChange sends; ServeSave is
`ScheduleService.update`; ReadAfterSave the three reads of executeScheduleTimeMutation with
an outcome each; Saved, Rejected, Locked and Recovered its results in `Schedules`; recover,
ReadForRetry and recheckAccess the two retries. A project read that fails, the role read of a
write or a retry (`readFreshRole`) among them, is TakeDown, and so is leaving the page: the
screen shows an error in place of the calendar (`F/screens/ScheduleWorkspace.tsx:231`,
`F/screens/Schedules.tsx:493`), the state of the component is lost with its locks and overrides,
the list of the query client stays as it was. Mount is the next calendar. `unsure` is history: the
rows whose last write has an unknown outcome, kept over TakeDown; `dropped` are those of them that
a calendar left behind, for which no lock exists any more (section 7). Simplifications: the reads
of one recheck are one step; the end of the session is not modelled here (BrowserSession). Seen in the code and kept in the model: a dialog's token
stays behind when the role is lost under it, an override may show an older time than the list
until the list catches up, and the feedback of another row hides the retry button.

### ScheduleForm, ScheduleValues, ScheduleTimeDialog
Each has a draft, the version it started from, a save in flight and a row with one entry per
version; OtherMemberSaves (OtherWrite, OtherTime) adds one at any time. Typing during a save
that succeeds is dropped, as in the code. In ScheduleTimeDialog an instant counts half
minutes, so that the inputs round; the role that is read is any; what is typed between the
answer of a conflict and the callback may be overwritten by the latest row, which loses the
draft but no saved time. The save button of the section in `Detail.tsx` is offered a little
more often in the model.

### CalendarArithmetic
A day has four quarters of Quarter minutes; the sampling step of localDateTimeToUtc (six
hours) is one of them. A zone has an offset and one season with another one, forward or
backward. `ArithmeticConstants` and `Zones` say what the code needs of a zone: no offset longer
than a day, no change of it larger than six hours, and no two changes closer than that; with
closer ones the search for offsets would miss one. A move over the date line (24 hours, once
in the life of a few zones) is therefore not modelled. The year is one whose months have the
lengths of `MonthStarts`, beginning on any weekday. The bisection of `civilDateBoundary` and the
loop over a day's occurrences are functions of the number of turns; occurrences that begin and
end alike may come in any order, the code's by title and id being one. SetZone is the reader's
choice of a zone; no page is open under NoZone.
`civilDateBoundary` bisects over dates and says that "civil dates remain ordered"
(`F/time.ts:50`); CivilDatesAreOrdered is that assumption, and DaysPartitionTime is stated
under it. Where the clock changes at midnight an end dropped on a day may land on the first
instant of it and is shown on the day before; the property leaves that corner out. Seconds,
and lanes in zones that change their clock, are left out.

### GoogleReturn, MailCompose
EnterFromProject stores the way back, ReturnFromConsent and MountSettings take it up,
IdentityChanges is the effect on another account, Tick and ContextExpires the ten minutes.
MailCompose numbers request ids by mail; SendSucceeds and SendFails are the callbacks,
ReadReceipt the query by the id in the tab's storage. `overtaken` marks the one case the
property leaves out: the callback of an earlier mail puts its id back
(`F/screens/GoogleWorkspace.tsx:329`), and the page may then say SENT of it while nothing is
known of the later mail. `src/docs/ux/2026-09-07-google-workspace-plan.md:58` does not say which
mail it means.

## 3. What the runs check

| Run | Instance | Shows |
|---|---|---|
| `grant` | 2 threads, 1 consent, 3 generations, 4 tokens | the credential in hand is the stored one (CurrentCredentialIsStored); no consent that was open at a disconnect brings access back (ConsentNeverUndoesDisconnect); an expired token gets refreshed although claimants die (RefreshCompletes) |
| `mail` | 2 threads, 1 request id with 2 payloads, 2 consents, 3 generations | AtMostOneMessage, DefinitiveReceiptIsTrue, SentUnderTheSameGrant, EverySendSettles |
| `mail_credential_failure` | the same with 1 consent and 2 generations | a violation: section 6 |
| `calendar_race` | 2 workers, 1 schedule, expired leases, 2 requests under way, a window of one tick | ProviderNeverRegresses, UncertainWriteIsAudited |
| `calendar_rebind` | 1 worker, 2 schedules, pages of one, 2 calendars, 3 bindings or disconnections, demotions | SyncedIsDelivered over the back-fill and over rebinding |
| `calendar_rotation` | 1 worker, 2 schedules, pages of one, 2 bindings or disconnections | NoRowStarves |
| `calendar_live` | 1 worker, 1 schedule, 2 requests under way, a change of the grant | CancelledEventGoes |
| `outbox` | 2 commands, 2 pollers, 2 events (the older is poison), 2 connections, 2 crashes | ImplementsReliableEvents, EveryEventTakesEffect, NobodyWaitsForEver |
| `membership` | members: 3 users (1 unverified), 2 invitations, 2 codes, 2 waiting requests; share: 2 reads, 2 changes of the code; join; invite: 3 reads, 2 refusals | ManagerRemains, EveryAdmissionIsCovered; ShownIsNoOlderThanOwnChange; AnotherJoinNeedsAnotherLook; AnsweredInvitationIsNotOffered |
| `work` | creation: 3 POSTs, 2 request ids of the page and 1 of a script, 2 sessions; schedule: 2 users who are both editors and participants, 2 overlapping transactions; plan: 2 items of any kind, a client, one update of each row; search: every graph of 3 tasks, in every order of the sets; form, values, dialog: a row of 3 versions with 2 times and 2 values, 2 properties, or 3 instants | OneProjectPerIntent; NoLostUpdate, AcknowledgedAsSeen, ImplementsLifecycle; NoItemIsItsOwnAncestor, SomeTaskCanStart, SearchIsExact, SnapshotsAreCoherent; OnlyShownSchedulesAreReplaced, NoUnseenValueIsReplaced, NoUnseenTimeIsReplaced |
| `screens` | session: 2 requests, 2 logins of this page or another tab, 3 generations; invitation: the same with 1 request at a time and the page going to an invitation and back; calendar: 1 event, 2 times, 2 versions; arithmetic: days of 8 minutes, zones that change by 3 or 6 hours within the first day, up to 3 events; Google: 2 accounts, 1 page, 4 ticks; mail: 2 mails, 2 visits | WriteKeepsItsSession, EndedSessionStaysEmpty, OnlyItsOwnAnswerEndsASession, DenialOutlivesOlderReads; NoWriteOnAnUnknownOutcome, SuccessIsTrue; ArithmeticIsExact; WayBackIsOwnAndRecent; SentIsOfTheLastMail |
| `schedule_form_reload` | the form alone, 3 versions | a violation: section 6 |

`membership`, `work` and `screens` hold several parts each. A behaviour belongs to one part,
chosen by the initial state (`part`, `screen`); the variables of the others stay as they
begin. This is no restriction: each part has its own variables, with the server as that part
sees it (another member's writes included), so a property of one part is about the steps of
that part alone, and a behaviour of all of them interleaved shows each part one of its own.

Why these bounds are enough for what the runs ask.

- Two threads (workers, pollers, transactions, requests) are a former and a present owner
  of a claim, or a first attempt and its retry. Nothing in the code relates three.
- Three generations of the grant are a connect, a refresh and a disconnect, each overtaking
  another. Four tokens let every one of them bring a rotated refresh token.
- One consent and one feature in `grant`: RefreshCompletes is about threads that ask for a
  feature the grant has. The second consent, which replaces tokens under a refresh, is in
  `mail`. The safety properties are proved for any number of both (section 5).
- One request id suffices for mail: rows of different ids share only the grant.
- Revision 2 of a schedule is enough for a confirmation and a change or cancellation, the
  older content overtaking the newer; two calendars and three binding changes are a move from
  one to the other, and a binding of the first one again.
- Two schedules and pages of one put a schedule on each side of the back-fill's cursor, and
  make the queue rotate.
- One tick of the audit window: a late request either comes within the window it was sent in
  or not at all, and windows opened before and after a tick differ. Two ticks with two
  workers are beyond five minutes of TLC; `calendar_live` and `calendar_rotation` have two,
  without the passage of hours.
- Two connections held by two commands are the smallest full pool in which both want a
  second one. Two crashes let a retry die too.
- A request of the session before and one of the session now are the two the browser can
  confuse; the theorems of BrowserSession_proofs are for any number. Two reads are the one
  under way and the one begun after it; the third of EmailInvitation is that of the recovery.
- Two logins are the session the page begins in and one more, opened by the page or in another
  tab while a write is between its click, its token and its cookie. Sessions that follow each
  other in both ways are left to WritesKeepTheirSession.
- Three versions of a row are the one a draft starts from, the one a conflict shows and one
  that comes after it. Two properties are one that is typed in and one that is not.
- One event on display in `calendar`: the token, the write, the retry and the access check are
  one each for the page, the locks and overrides are per row.
- Two items can contain each other and wait for each other. Longer circles are covered by
  the theorems about PlanStructure. A circle of three, two ways that meet, and an edge to a
  task finished under an earlier root need graphs of three tasks; SearchFindsCircles is about
  all others.
- Zones that change by three and by six hours, forward and back, at every minute of a day, have
  days that begin late, hours that are skipped and shown twice, and, when the clock is put back
  across midnight, dates that are out of order. Three events need three lanes, or two of which
  one is used again. CalendarIsExact is about all other zones, dates, points and events.

The instances of the calendar differ because one that has everything (two workers, two
schedules, two calendars, time) has too many states; each has what its question is about.
CHECK_DEADLOCK is FALSE where users may stop and every counter is bounded. Where symmetry
is declared no liveness property is checked.

## 4. Fairness

- `GrantFairness`: users and schedulers come back, so a thread keeps asking; a lease ends
  (15 seconds); an exchange tried again and again is granted some time, and a thread that
  gets as far as completing again and again some time survives it. Strong fairness is used
  where a crash or another thread may disable the step in between. Consents and disconnects
  owe nothing.
- `MailLiveSpec`: the client polls its receipt and time passes. Nothing is assumed of the
  thread that sends.
- `SchedulerFairness` (calendar): back-fill and dispatch run at a fixed delay
  (`@Scheduled`), leases and audit times arrive, events are relayed (which `outbox` shows),
  requests under way end. `GoogleFairness` adds that a worker that tries again and again
  gets its credential, its answer and its completion some time. Crashes, users and demotions
  owe nothing. `CalRotationSpec` excludes that managers press "retry" for ever, as a retry
  sends a row to the end of the queue.
- `OutboxFairSpec`: commands end, pollers poll and attempt what they read, a wait for a
  connection ends in a connection or a time-out, the database hands a row lock on, and an
  event that no consumer refuses for ever is delivered after failing now and then. A poll
  takes at most Batch publications; with as many poison events as that, younger events
  would depend on the thread of their own command alone. The run has fewer.

The screens have no fairness: a reader may close any of them, and their properties are safety
properties.

## 5. What is proved

TLAPS checks every proof. The theorems hold for all values of the constants that satisfy
the assumptions named in the modules (`GrantAssumption`, `MailAssumption`,
`CalAssumption`, `OutboxAssumption`, `ScheduleAssumption`, `MembershipAssumption`,
`CreationAssumption`, `StructureAssumption`, `PlanAssumption`, `SearchAssumption`, and of the pages
`BrowserConstants`, `ShareConstants`, `EmailInvitationConstants`, `FormConstants`,
`ValuesConstants`, `DialogConstants`, `DirectEditConstants`, `ReturnConstants`,
`ComposeConstants`, `ArithmeticConstants`): that null values are not real ones, that some sets are finite or not
empty, that who may write may also acknowledge, that bounds are numbers, and of the zones what section 2
says under CalendarArithmetic. TLC evaluates each
of them on the instances of section 3.

**MailSend_proofs**, the grant first. GrantTypeCorrect, CurrentCredential, ReauthIsJustified,
DisconnectWins, AccessReturnsByConsent. The inductive invariant `GrantInv` adds to the
properties what a thread or consent in hand knows (ThreadsAgree, ConsentsAgree): its
generation is not ahead of the row's; if it equals the row's, so do the tokens it read. So
an action that compares generations acts on what it has seen, and one that changes a token
moves the generation and leaves everybody else behind. Then the mail. MailImplementsGrant: a
behaviour of MailSpec is one of GrantSpec, so the grant theorems carry over (a crash or the
end of a call maps to the step of the thread that lets go). MailTypeCorrect, AtMostOnce,
DefinitiveReceipts, DefinitiveAnswers, TerminalIsFinal, SentUnderGrant from `MailInv`: a
request has one owner at most (OneOwner), a thread's place says whether its message may have
left (SendsAgree), and the row agrees with both (RowsAgree).

**CalendarDispatch_proofs.** CalTypeCorrect, CopiesNeverGoBack (ProviderNeverRegresses),
UncertainWritesAreAudited (UncertainWriteIsAudited) and SyncedTellsTheTruth
(SyncedIsDelivered), for any number of schedules, calendars and workers, any page size and
any window. They share one invariant, `CalInv`:
- *Barriers.* A claim carries a revision its schedule has had, and knows of a cancellation
  if its revision is the present one (ClaimsKnow). An etag that is still the event's was
  read, or sent, for a claim at least as new as the event: so a conditional call that the
  provider accepts takes it forward (LooksVouch for a claim that has looked, RequestsVouch
  for a call under way, also one whose worker is gone). A call somebody waits for is the one
  its claim sent, and nobody else waits for it (RequestsAreAwaited).
- *EventsAnnounce, RowsFollow.* Neither an event nor a row is ahead of its schedule.
- *WindowsCover.* A call that left when its audit window opened ends before the window, and
  the SYNCED row of a cancelled schedule keeps an audit ahead while the window is open.
- *SuccessesAreThere.* A success that is still what is wanted is in the claim's calendar, and
  a SYNCED row for which nothing is left to announce or to back-fill is in the bound one.

That the page of a back-fill leaves no gap needs the greatest exportable schedule of a page;
that a finite set of numbers has a least and a greatest element (LeastElement,
GreatestElement) is proved from the well-foundedness of strict inclusion among finite sets,
because the library's induction theorems are out of reach.

**EventOutbox_proofs.** OutboxTypeCorrect, EventsPublishedOnce, AnswersAreTrue, and
OutboxKeepsPromise: the outbox implements ReliableEvents. `OutboxInv` adds that a row lock
belongs to a thread that delivers a pending event, and what an open or relayed command has
and has not done. The refinement follows step by step: only Commit records, only the first
Deliver takes effect, all others stutter.

**ScheduleService_proofs.** The service: ScheduleTypeCorrect, NoUpdateIsLost (NoLostUpdate),
AcknowledgementsAreOfWhatWasSeen (AcknowledgedAsSeen), EveryRevisionIsAnnounced
(RevisionsAnnounced), and SchedulesLiveTheirLife: the service implements ScheduleLifecycle.
`ScheduleInv` says of every copy of the row, a client's or a transaction's, that it is the
row if it has its version and shows its content if it has its revision; that a transaction's
next row follows from the copy it works on; and that between its flush and its commit the
copy is the row (WritesFollow). The `@Version` check therefore compares contents. The editors:
OnlyShownVersionsAreReplaced (the form), OnlyTypedValuesAreWritten (the values),
OnlyTypedTimesAreWritten (the time dialog). Each needs the base of the draft: what the reader
did not touch is what the version named in the save contains (`FormInv`, `ValuesInv`,
`TimeInv`).

**ProjectMembership_proofs.** MembershipTypeCorrect, AManagerRemains, InvitationsAnsweredOnce,
AddressesHaveOnePending, AdmissionsAreCovered, RolesKept (JoiningKeepsTheRole: no answer
and no join changes the role of a member). The state properties are inductive together; the
count of managers is used through AnotherManager, the one fact about cardinality. The pages
that lead into a project: AnsweredInvitationsAreClosed (AnsweredInvitationIsNotOffered) from
`InvitationInv`, that no look still wanted after an answer shows a pending invitation;
JoinsFollowALook (AnotherJoinNeedsAnotherLook) from `JoinInv`, that a conflict is shown until
a look that began after it succeeds; SharedCodesAreRecent (ShownIsNoOlderThanOwnChange) from
`ShareInv`, that every answer the dialog may still take, the query's or the one recovery's it
waits for, is no older than its last change, and that the lock is lifted only by such data.

**ProjectWork_proofs**, the structure of a plan first. PlanTypeCorrect, PlanIsAForest,
PlanNeverWaitsForItself, DependenciesJoinTasks. The forest follows from ranks (every parent is
of a higher kind), the absence of circular waits from `NoCircularWaits` over all items, open
or not: the search does not see an item that is being created, and none of those it sees can
wait for it yet. Then what clients edit: PlanKeepsItsShape (the plan implements
PlanStructure), ClientsPlanTypeCorrect, VersionsStandForContents, SnapshotsCoherent, from
`PlanInv`: a snapshot is no newer than the database, and shows a row as it is if it has its
version.

The search: SearchFindsCircles (SearchIsExact) for every finite graph and every order of the
sets. `SearchInv` says that the calls of the stack are the items being visited, each once
(PathIsVisiting); that a loop has left some of its items, and the others are done but for the one
whose call it is in (LoopsAreInOrder); and that what is done waits only for what is done, and not
in a circle (DoneIsSound). So an edge to an item of the stack closes a circle along the stack;
and when `hasCycle()` ends every item is done.
SearchTurnsCount (EveryTurnCounts): each turn or return takes up a dependency or finishes an item
and gives none back; as there are finitely many, the search ends.

Project creation: CreationTypeCorrect, OneProject, RefusalsAreTrue, AnswersMatch,
RepeatsAlwaysAgree. `ServerInv`: who is past the lock holds it, and while somebody creates
nothing exists under his request id. `PageInv`: an intent has one request id and one name,
and a request id of the page one name. The two halves meet in the POSTs.

**CalendarArithmetic_proofs.** CalendarIsExact: ArithmeticIsExact, and ExactEverywhere, the same
for every local time, date, dropped-on day and minute, and set of events. The invariant,
`CalendarInv`, only says that the zone is one of Zones (ZoneFacts) and the rows are finitely many;
the work is in the functions.
- *Local times* (ExactInstants). A local time is accepted iff one instant has it: the samples
  are six hours apart and reach further than any offset, so no season falls between two of them
  (OffsetIsSampled).
- *Dates* (DatesExist, DaysHold). The bisection keeps two instants of which one has an earlier
  date and the other has not (Encloses), and each turn brings them closer; the crossing it ends at is
  the first instant of the date, as the clock goes forward by no more than six hours. Where dates
  are in order there is one crossing for each.
- *Windows* (WindowsHold). Six weeks from the last Monday that is not after its first day hold any month.
- *Drops* (DropsHold). A drop that resolves has one instant for its local time, found by the
  above; for the end of an event, the last minute has to be on the day dropped on, which fails
  only where the clock is put back at that midnight (PassedOnce, PutBackShowsTwice).
- *Lanes* (LanesHold). The occurrences of a day can be sorted (ArrangementExists). Placing them in
  that order keeps the ends of the lanes and a time at which every lane is in use (LanesFollow,
  Busy), so no fewer would do.

Induction over the numbers and over finite sets is used here in a first-order form: a set of
numbers with 0 and every successor is Nat (SetInduction), from the least element of a finite
set, and that from the well-foundedness of strict inclusion.

**BrowserSession_proofs.** SessionTypes, WritesKeepTheirSession, EndedSessionsStayEmpty,
SessionsEndByTheirOwn, DenialsAreOfTheirSession, DenialsOutliveOlderReads, for any number of
requests and logins. `SessionInv` says that the end of a session is shown until the next
mount (EndIsShown), that only the data of an ended session was removed (OnlyEndedIsCleared),
that the page shows the newest client (ClientIsMounted), and that since a request of the present
generation began the only sessions opened are those of another tab (RequestsOfSessions): the check
of the generation after each await is a check of the sign-ins of this page and of its cache, and
of nothing more. What it cannot see is left to the token: `WritesOfSessions` says that a token is
of the session the write began in or of none, so that a write sent with another cookie is refused.
WritesKeepTheirSession joins the two: no sign-in of the page between click and cookie, and no
success but under the session of the click. `DenialInv`: a read
carries no version the key has not had (ReadsAreOfVersions), and a completed read that may
clear the denial began after it (CompletionIsEvidence). Three more pages: WayBackIsOfThisReader
(WayBackIsOwnAndRecent) from `ReturnInv`, that what the storage and the page hold was left by an
entry from a project; SaidToBeSentWasSent (SentIsOfTheLastMail) from `ComposeInv`, that, while no answer was
overtaken, the ids in use are of the last mail, and that nothing held says of a mail that it
was sent before its receipt does; SuccessWasStored (SuccessIsTrue)
and UnknownOutcomesAreReadFirst (NoWriteOnAnUnknownOutcome) from `DEInv`: a save and its
reads are tied to the row's versions (SaveIsOfRow, RetryIsOfRow), an event whose last
write has an unknown outcome, and that no calendar left behind since, is locked or is being read
or the workspace is blocked (UnsureIsLocked), and without a calendar nothing is under way
(DownIsQuiet). The theorem is about the second write of one calendar; that a lock does not outlive
its calendar is in the model, in the property (`dropped`) and in section 7.

Some theorems state properties that no run repeats, because they are proved and others say
more about the hazards: CalTypeCorrect, ScheduleTypeCorrect, EveryRevisionIsAnnounced,
AccessReturnsByConsent, ReauthIsJustified, DefinitiveAnswers, TerminalIsFinal,
AnswersAreTrue, InvitationsAnsweredOnce, AddressesHaveOnePending, RefusalsAreTrue,
AnswersMatch, RepeatsAlwaysAgree, VersionsStandForContents, DenialsAreOfTheirSession,
SearchTurnsCount.

Every invariant that a passing run checks is thus a theorem. Only model-checked are:
- the liveness properties (RefreshCompletes, EverySendSettles, NoRowStarves,
  CancelledEventGoes, EveryEventTakesEffect, NobodyWaitsForEver): fairness and ENABLED are
  beyond the prover;
- the two properties that a run shows violated (section 6), of which there is nothing to
  prove.

## 6. Disagreements between the code and its documents

`mail_credential_failure`. `send()` records a temporary credential failure as UNKNOWN
(`GmailService.java:132-135`), although such a failure (another refresh in progress, the
token endpoint away) comes before anything is posted. The comment in `finish()`
(`GmailService.java:175-178`) says of failures before any provider attempt that they "must
remain the definitive FAILED receipt". CredentialFailureIsDefinitive states the comment; the
run shows a thread that reaches the end of `send()` with a failed credential and UNKNOWN. The
consequence is an overly cautious receipt, never an untrue one: DefinitiveReceiptIsTrue
holds.

`schedule_form_reload`. After a 409 the form of a schedule offers "apply latest"
(`F/screens/ScheduleForm.tsx:271`). It takes over the fields of the schedule that was read
again and its version, but not the property values, which come from another query
(152-155), while the next save sends both under that version (186). Line 36 of
`src/docs/ux/schedule-views-functional-plan.md` asks for "Reload latest or intentional
re-entry". AppliedFormIsLatest states that a form to which the latest was applied, and that
nobody touched since, holds what the server has; the run ends in a form whose next save puts
a value of another member back. OnlyShownSchedulesAreReplaced, about the schedule itself,
holds.

## 7. What is not modelled

- Contents: MIME, subjects, dates, encryption, wording of problems; who may read what.
- The schedulers' periods and the database's own locks beyond what is named above. Isolation
  is what the code asks for: row locks, `@Version`, REPEATABLE READ for snapshots, unique
  keys.
- The role of the writer being revoked between its check and the commit (milliseconds, no
  lock on the membership): the code makes no promise.
- A calendar event that a late write leaves in a calendar that is bound no more: the code
  keeps no record of former calendars, and CancelledEventGoes is about the bound one.
- A project's group: no operation changes it after the creation.
- The reads of mailboxes, dashboards and lists.
- What the properties do not promise, because the code does not:
  - A click made after somebody signed in in another tab acts in the session of the new account:
    the page compares generations, not accounts, and learns of the other one at its next read of
    the identity. WriteKeepsItsSession is about a change of session between the click and the
    write.
  - The lock of a row whose write has an unknown outcome goes with its calendar, when the project
    cannot be read (`F/screens/ScheduleWorkspace.tsx:231`, `F/screens/Schedules.tsx:493`; that
    includes the role read at lines 382-386) or the page is left. The next calendar offers the row
    as the query client kept it, and a second write may start from it unread.
    `src/docs/planning/unified-project-ux/correction-contract-r3.md:17` "forbids re-saving
    stale/unknown state until explicit fresh re-entry"; whether a calendar mounted again is such a
    re-entry it does not say, so no run claims a violation. The version check of the server refuses
    the second write if the first one was stored; if it was not, the second is what the user
    asks for now, and the first may still arrive and be refused in its turn. NoWriteOnAnUnknownOutcome
    is about the calendar that sent the write.
  - A denial of access does not outlive the App: a mount starts without any (`resetAccessState`).
    DenialOutlivesOlderReads is about one mount.
  - A hundred events that fail for ever keep the scheduled relay from the younger ones
    (`OutboxWorker.java:14`). The run of the outbox has fewer than Batch, so it says nothing of that
    limit.
- The pages of a share link and of an invitation over more than one visit (section 2).
- Of the client: the settings of views (`F/screens/ScheduleWorkspace.tsx:53-89`), the dialogs
  that define properties, the members page, the lists of mails and files, the guard of unsaved
  changes, the plan's screens, creating a schedule, the other buttons of a schedule. Each sends
  one request of a command that is modelled on the server, or edits a definition under its own
  version.
- The definitions of properties and views on the server: each is a row with its own version,
  checked as that of a schedule is.
- Identity provisioning and Drive references: one insert each under a unique key.
- The deployment scripts, run by one operator; the harness; pure configuration.

## 8. Plan

Done, in this order: (1) GoogleGrant and MailSend, with proofs; (2) CalendarDispatch;
(3) ReliableEvents and EventOutbox, with proofs, ScheduleLifecycle and ScheduleService;
(4) ProjectMembership, ProjectCreation, PlanStructure, PlanCycleSearch and ProjectPlan, with
proofs; (5) AccessRecovery and BrowserSession, with proofs, and the account screens;
(6) ScheduleDirectEdit, CalendarArithmetic and the editors of a schedule; (7) the Google
screens; (8) the remaining safety properties as theorems: CalendarDispatch, ScheduleService
and its refinement, the editors and the other pages; (9) the cycle search as a step machine and
the arithmetic of the calendar, with proofs.

Next:

10. The settings of a view: the page that saves them is not keyed by the view
    (`F/screens/ScheduleWorkspace.tsx:53-89`), so a change of the address while a save is
    pending has to be followed through.
11. The creation request of plan items (`ProjectPlanService.create` with its request id), by
    the pattern of ProjectCreation.
