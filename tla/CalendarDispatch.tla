--------------------------- MODULE CalendarDispatch ---------------------------
(***************************************************************************)
(* One project's schedules exported to one bound Google calendar.  Events  *)
(* and the back-fill of a new binding queue projection rows; the dispatch  *)
(* workers (one per application instance, two while a deployment overlaps) *)
(* claim a row under a lease, deliver the schedule with conditional        *)
(* requests, and complete the claim.  Every barrier is fenced: the claim   *)
(* token, the binding generation, the owner's role, the schedule revision  *)
(* and the credential generation.                                          *)
(***************************************************************************)
EXTENDS Integers, FiniteSets

CONSTANTS
  N,            \* schedules are 1 .. N, in the order of their UUIDs
  Workers,
  NoWorker,
  Calendars,    \* external calendars
  NoCalendar,
  PageSize,     \* schedules per back-fill page (100 in the code)
  Window,       \* the six-hour audit window, in ticks
  MaxRev,       \* bound on a schedule's revision
  MaxBinding,   \* bound on bindings and disconnections
  MaxCred,      \* bound on credential generations
  MaxInFlight,  \* bound on requests under way
  Demotions,    \* whether the owner's role may change
  TimePasses    \* whether hours may pass

ASSUME CalAssumption ==
  /\ N \in Nat \ {0} /\ PageSize \in Nat \ {0} /\ Window \in Nat \ {0}
  /\ MaxRev \in Nat /\ MaxBinding \in Nat /\ MaxCred \in Nat
  /\ NoWorker \notin Workers /\ NoCalendar \notin Calendars
  /\ Demotions \in BOOLEAN /\ TimePasses \in BOOLEAN

VARIABLES
  schedules,  \* status and business revision of each schedule
  published,  \* SCHEDULE_* events with a revision that are not delivered yet
  calendar,   \* the project_calendar row
  manager,    \* whether the binding's owner is a MANAGER of the project
  cred,       \* the owner's Google grant, as far as the worker looks at it
  rows,       \* the calendar_projection rows
  rank,       \* their order by updatedAt
  workers,    \* the dispatch workers and the claims they carry
  inFlight,   \* requests that Google may still apply
  provider    \* the revision of each event in each calendar, 0: no event

localVars == <<schedules, published, calendar, manager, cred>>
vars == <<localVars, rows, rank, workers, inFlight, provider>>

Schedules == 1 .. N
Rev == 0 .. MaxRev
Status == {"PENDING", "SYNCED", "FAILED", "REAUTH_REQUIRED"}

Row == [status : Status \cup {"ABSENT"},
        rev    : Rev,
        token  : Workers \cup {NoWorker},   \* claimToken
        lease  : {"none", "held", "expired"},
        until  : 0 .. Window,               \* reconcileUntil; 0: null or past
        next   : {"none", "later", "due"}]  \* nextReconcileAt

\* result is the status the outcome gives an ordinary claim: SYNCED a success,
\* REAUTH_REQUIRED a 401, FAILED a 403, another 4xx or a failed precondition,
\* PENDING a transient failure, a stale claim or a missing configuration.
Worker == [pc        : {"idle", "claimed", "attached", "conflicted", "found", "sent", "done"},
           s         : 0 .. N,
           target    : Calendars \cup {NoCalendar},
           binding   : 0 .. MaxBinding,
           cred      : 0 .. MaxCred,
           rev       : Rev,
           cancelled : BOOLEAN,
           audit     : BOOLEAN,
           call      : {"GET", "POST", "PATCH", "DELETE"},
           matches   : BOOLEAN,  \* the etag seen is the event's current one
           result    : Status]

Request == [by      : Workers \cup {NoWorker},  \* NoWorker: nobody waits for it
            call    : {"POST", "PATCH", "DELETE"},
            s       : Schedules,
            target  : Calendars,
            rev     : Rev,
            matches : BOOLEAN,
            life    : 0 .. Window - 1,  \* ticks until Google has surely dropped it
            fresh   : BOOLEAN]          \* sent under a window opened in this tick

NoRow == [status |-> "ABSENT", rev |-> 0, token |-> NoWorker, lease |-> "none",
          until |-> 0, next |-> "none"]
Idle == [pc |-> "idle", s |-> 0, target |-> NoCalendar, binding |-> 0, cred |-> 0,
         rev |-> 0, cancelled |-> FALSE, audit |-> FALSE, call |-> "GET",
         matches |-> FALSE, result |-> "PENDING"]

CalTypeOK ==
  /\ schedules \in [Schedules -> [status : {"DRAFT", "CONFIRMED", "CANCELLED"}, rev : Rev]]
  /\ published \in SUBSET (Schedules \X Rev)
  /\ calendar \in [target : Calendars \cup {NoCalendar}, binding : 0 .. MaxBinding,
                   backfill : BOOLEAN, cursor : 0 .. N]
  /\ manager \in BOOLEAN
  /\ cred \in [connected : BOOLEAN, gen : 0 .. MaxCred]
  /\ rows \in [Schedules -> Row]
  /\ rank \in [Schedules -> Schedules]
  /\ workers \in [Workers -> Worker]
  /\ inFlight \in SUBSET Request
  /\ provider \in [Calendars -> [Schedules -> Rev]]

CalInit ==
  /\ schedules = [s \in Schedules |-> [status |-> "DRAFT", rev |-> 0]]
  /\ published = {}
  /\ calendar = [target |-> NoCalendar, binding |-> 0, backfill |-> FALSE, cursor |-> 0]
  /\ manager = TRUE
  /\ cred = [connected |-> TRUE, gen |-> 0]
  /\ rows = [s \in Schedules |-> NoRow]
  /\ rank = [s \in Schedules |-> s]
  /\ workers = [w \in Workers |-> Idle]
  /\ inFlight = {}
  /\ provider = [c \in Calendars |-> [s \in Schedules |-> 0]]

Cancelled(s) == schedules[s].status = "CANCELLED"

(* updatedAt = now: the row goes to the end of the queue.                  *)
(* Mutant: an attempt leaves updatedAt alone.                              *)
Untouched(s) == rank' = rank

Touch(s) ==
  rank' = [t \in Schedules |->
             IF t = s THEN N ELSE IF rank[t] > rank[s] THEN rank[t] - 1 ELSE rank[t]]

----------------------------------------------------------------------------
(* Schedules change; the event commits with the change.                    *)

Change(s, status) ==
  LET rev == schedules[s].rev + 1
  IN /\ rev <= MaxRev
     /\ schedules' = [schedules EXCEPT ![s] = [status |-> status, rev |-> rev]]
     /\ published' = published \cup {<<s, rev>>}
     /\ UNCHANGED <<calendar, manager, cred, rows, rank, workers, inFlight, provider>>

Confirm(s) == schedules[s].status = "DRAFT" /\ Change(s, "CONFIRMED")
Update(s) == schedules[s].status = "CONFIRMED" /\ Change(s, "CONFIRMED")
Cancel(s) == schedules[s].status = "CONFIRMED" /\ Change(s, "CANCELLED")

Queued(s, rev) == [rows EXCEPT ![s] = [@ EXCEPT !.status = "PENDING", !.rev = rev]]

(* CalendarEventConsumer: events arrive in any order, each takes effect    *)
(* once.                                                                   *)
Overdue(s, rev) == rev >= rows[s].rev

Consume(s, rev) ==
  /\ <<s, rev>> \in published
  /\ published' = published \ {<<s, rev>>}
  /\ IF Overdue(s, rev) THEN rows' = Queued(s, rev) /\ Touch(s)
                        ELSE UNCHANGED <<rows, rank>>
  /\ UNCHANGED <<schedules, calendar, manager, cred, workers, inFlight, provider>>

(* A manager asks for another attempt; a claim under way keeps its token.  *)
Retry(s) ==
  /\ rows[s].status # "ABSENT"
  /\ rows' = Queued(s, rows[s].rev)
  /\ Touch(s)
  /\ UNCHANGED <<localVars, workers, inFlight, provider>>

----------------------------------------------------------------------------
(* The binding, its owner and the owner's grant.                           *)

Bound(c) ==
  [target |-> c, binding |-> calendar.binding + 1, backfill |-> TRUE, cursor |-> 0]

Bind(c) ==
  /\ calendar.target = NoCalendar
  /\ calendar.binding < MaxBinding
  /\ manager
  /\ calendar' = Bound(c)
  /\ UNCHANGED <<schedules, published, manager, cred, rows, rank, workers, inFlight, provider>>

Disconnect ==
  /\ calendar.binding < MaxBinding
  /\ calendar' = [target |-> NoCalendar, binding |-> calendar.binding + 1,
                  backfill |-> FALSE, cursor |-> 0]
  /\ rows' = [s \in Schedules |-> [rows[s] EXCEPT !.token = NoWorker, !.lease = "none"]]
  /\ UNCHANGED <<schedules, published, manager, cred, rank, workers, inFlight, provider>>

(* Another manager demotes the owner, or promotes the owner again.         *)
ChangeRole ==
  /\ Demotions
  /\ manager' = ~manager
  /\ UNCHANGED <<schedules, published, calendar, cred, rows, rank, workers, inFlight, provider>>

(* The owner's grant is refreshed, disconnected or connected again.        *)
ChangeGrant(connected) ==
  /\ cred.gen < MaxCred
  /\ cred' = [connected |-> connected, gen |-> cred.gen + 1]
  /\ UNCHANGED <<schedules, published, calendar, manager, rows, rank, workers, inFlight, provider>>

(* One page of the back-fill, in UUID order from the cursor.               *)
Exportable(s) == schedules[s].rev > 0

(* Mutant: the cursor is taken for the first row of the page.              *)
PageFromNext ==
  {s \in Schedules : /\ s > calendar.cursor + 1 /\ Exportable(s)
                     /\ Cardinality({t \in calendar.cursor + 2 .. s : Exportable(t)}) <= PageSize}

Page ==
  {s \in Schedules : /\ s > calendar.cursor /\ Exportable(s)
                     /\ Cardinality({t \in calendar.cursor + 1 .. s : Exportable(t)}) <= PageSize}

Backfill ==
  /\ calendar.backfill
  /\ LET full == Cardinality(Page) = PageSize
     IN /\ calendar' = [calendar EXCEPT
             !.backfill = full,
             !.cursor = IF full THEN CHOOSE s \in Page : \A t \in Page : t <= s ELSE 0]
        /\ rows' = [s \in Schedules |->
             IF s \in Page /\ Overdue(s, schedules[s].rev)
             THEN [rows[s] EXCEPT !.status = "PENDING", !.rev = schedules[s].rev]
             ELSE rows[s]]
  /\ rank' \in {r \in [Schedules -> Schedules] :  \* the page goes last, in UUID order
       \A s, t \in Schedules : s # t =>
         (r[s] < r[t] <=> IF s \in Page /\ t \in Page THEN s < t
                          ELSE IF s \notin Page /\ t \notin Page THEN rank[s] < rank[t]
                          ELSE t \in Page)}
  /\ UNCHANGED <<schedules, published, manager, cred, workers, inFlight, provider>>

----------------------------------------------------------------------------
(* Claiming: the claimable query and claimInTransaction.                   *)

Deliverable == calendar.target # NoCalendar /\ manager /\ cred.connected

Claimable(s) ==
  /\ \/ rows[s].status = "PENDING"
     \/ rows[s].status = "SYNCED" /\ rows[s].until > 0 /\ rows[s].next = "due"
  /\ rows[s].lease # "held"

Oldest(s) == Claimable(s) /\ \A t \in Schedules : Claimable(t) => rank[s] <= rank[t]

IsAudit(s) ==
  rows[s].status = "SYNCED" /\ Cancelled(s) /\ rows[s].until > 0 /\ rows[s].next = "due"

(* extendUncertainty after a lease that expired, then ensureUncertainty: a *)
(* window that is still open is reused.                                    *)
WindowAtClaim(s) ==
  IF rows[s].lease = "expired" \/ rows[s].until = 0 THEN Window ELSE rows[s].until

ClaimedRow(w, s) ==
  IF IsAudit(s)
  THEN [rows[s] EXCEPT !.token = w, !.lease = "held", !.rev = schedules[s].rev]
  ELSE [status |-> "PENDING", rev |-> schedules[s].rev, token |-> w, lease |-> "held",
        until |-> WindowAtClaim(s), next |-> IF Cancelled(s) THEN "due" ELSE "none"]

Claim(w, s) ==
  /\ workers[w].pc = "idle"
  /\ Oldest(s) /\ Deliverable
  /\ rows' = [rows EXCEPT ![s] = ClaimedRow(w, s)]
  /\ Touch(s)
  /\ workers' = [workers EXCEPT ![w] =
       [Idle EXCEPT !.pc = "claimed", !.s = s, !.target = calendar.target,
                    !.binding = calendar.binding, !.rev = schedules[s].rev,
                    !.cancelled = Cancelled(s), !.audit = IsAudit(s)]]
  /\ UNCHANGED <<localVars, inFlight, provider>>

(* Nothing can be delivered now: the row only moves to the end.            *)
Postpone(w, s) ==
  /\ workers[w].pc = "idle"
  /\ Oldest(s) /\ ~Deliverable
  /\ Touch(s)
  /\ UNCHANGED <<localVars, rows, workers, inFlight, provider>>

----------------------------------------------------------------------------
(* The credential, outside the claim's transaction.                        *)

Holds(w) == rows[workers[w].s].token = w

Freed(row) == [row EXCEPT !.token = NoWorker, !.lease = "none"]

(* preserveAuditFailureWindow                                              *)
Preserved(row) == [row EXCEPT !.next = IF row.until > 0 THEN "later" ELSE "none"]

(* release() *)
Released(w, row) ==
  IF workers[w].audit /\ row.status # "PENDING"
  THEN Preserved([Freed(row) EXCEPT !.status = "SYNCED"]) ELSE Freed(row)

Forget(w) == workers' = [workers EXCEPT ![w] = Idle]

CredentialFails(w) ==
  /\ workers[w].pc = "claimed"
  /\ LET s == workers[w].s
     IN IF Holds(w) THEN rows' = [rows EXCEPT ![s] = Released(w, @)] /\ Touch(s)
                    ELSE UNCHANGED <<rows, rank>>
  /\ Forget(w)
  /\ UNCHANGED <<localVars, inFlight, provider>>

SameBinding(w) ==
  calendar.target = workers[w].target /\ calendar.binding = workers[w].binding

Attach(w) ==
  /\ workers[w].pc = "claimed"
  /\ cred.connected
  /\ workers' = [workers EXCEPT ![w] =
       IF Holds(w) /\ SameBinding(w) THEN [@ EXCEPT !.pc = "attached", !.cred = cred.gen] ELSE Idle]
  /\ UNCHANGED <<localVars, rows, rank, inFlight, provider>>

----------------------------------------------------------------------------
(* GoogleCalendarAdapter.deliver: every request follows a look at the      *)
(* barriers.                                                               *)

Desired(w) ==
  LET s == workers[w].s
  IN schedules[s].rev = workers[w].rev /\ Cancelled(s) = workers[w].cancelled

CredentialCurrent(w) == cred.connected /\ cred.gen = workers[w].cred

IsCurrent(w) ==
  Holds(w) /\ SameBinding(w) /\ manager /\ Desired(w) /\ CredentialCurrent(w)

\* what the worker saw matters no more
Concluded(worker, result) ==
  [worker EXCEPT !.pc = "done", !.result = result, !.call = "GET", !.matches = FALSE]

Conclude(w, result) == workers' = [workers EXCEPT ![w] = Concluded(@, result)]

(* A barrier moved, or the grant no longer serves the request.             *)
Stale(w) ==
  /\ workers[w].pc \in {"attached", "conflicted", "found"}
  /\ ~IsCurrent(w)
  /\ Conclude(w, "PENDING")
  /\ UNCHANGED <<localVars, rows, rank, inFlight, provider>>

(* verifyOwned: the copy must not be newer than the claim.                 *)
Owned(w, copy) == copy <= workers[w].rev

CallFor(w, copy) ==
  IF workers[w].cancelled THEN "DELETE" ELSE IF copy = 0 THEN "POST" ELSE "PATCH"

Look(w) ==
  LET copy == provider[workers[w].target][workers[w].s]
  IN /\ workers[w].pc \in {"attached", "conflicted"}
     /\ IsCurrent(w)
     /\ IF copy = 0 /\ workers[w].cancelled THEN Conclude(w, "SYNCED")
        ELSE IF copy = 0 /\ workers[w].pc = "conflicted" THEN Conclude(w, "PENDING")
        ELSE IF ~Owned(w, copy) THEN Conclude(w, "FAILED")
        ELSE workers' = [workers EXCEPT ![w] =
               [@ EXCEPT !.pc = "found", !.call = CallFor(w, copy), !.matches = copy # 0]]
     /\ UNCHANGED <<localVars, rows, rank, inFlight, provider>>

LookFails(w, result) ==
  /\ workers[w].pc \in {"attached", "conflicted"}
  /\ IsCurrent(w)
  /\ Conclude(w, result)
  /\ UNCHANGED <<localVars, rows, rank, inFlight, provider>>

RequestOf(w) ==
  [by |-> w, call |-> workers[w].call, s |-> workers[w].s, target |-> workers[w].target,
   rev |-> workers[w].rev, matches |-> workers[w].matches, life |-> Window - 1,
   fresh |-> rows[workers[w].s].until = Window]

Send(w) ==
  /\ workers[w].pc = "found"
  /\ IsCurrent(w)
  /\ Cardinality(inFlight) < MaxInFlight
  /\ inFlight' = inFlight \cup {RequestOf(w)}
  /\ workers' = [workers EXCEPT ![w] =
       [@ EXCEPT !.pc = "sent", !.call = "GET", !.matches = FALSE]]
  /\ UNCHANGED <<localVars, rows, rank, provider>>

(* Google applies a POST to an identifier without an event, a PATCH or     *)
(* DELETE to the event whose etag the If-Match names.                      *)
(* Mutant: If-Match is not sent.                                           *)
AppliesUnconditionally(x) ==
  IF x.call = "POST" THEN provider[x.target][x.s] = 0 ELSE provider[x.target][x.s] # 0

Applies(x) ==
  IF x.call = "POST" THEN provider[x.target][x.s] = 0
  ELSE provider[x.target][x.s] # 0 /\ x.matches

(* The answer, as the worker that waits for it takes it: a POST conflict   *)
(* makes it look again; an event that is gone satisfies a DELETE, fails a  *)
(* PATCH transiently; a failed precondition is permanent.                  *)
Answered(worker, x) ==
  IF Applies(x) THEN Concluded(worker, "SYNCED")
  ELSE IF x.call = "POST" THEN [worker EXCEPT !.pc = "conflicted"]
  ELSE Concluded(worker, IF provider[x.target][x.s] # 0 THEN "FAILED"
                         ELSE IF x.call = "DELETE" THEN "SYNCED" ELSE "PENDING")

(* A request Google applies outdates every other etag of the event.        *)
Outdated(y, x) ==
  IF Applies(x) /\ y.s = x.s /\ y.target = x.target THEN [y EXCEPT !.matches = FALSE] ELSE y

Land(x) ==
  /\ x \in inFlight
  /\ provider' = IF Applies(x)
       THEN [provider EXCEPT ![x.target] =
               [@ EXCEPT ![x.s] = IF x.call = "DELETE" THEN 0 ELSE x.rev]]
       ELSE provider
  /\ inFlight' = {Outdated(y, x) : y \in inFlight \ {x}}
  /\ workers' = [w \in Workers |->
       IF x.by = w THEN Answered(workers[w], x) ELSE Outdated(workers[w], x)]
  /\ UNCHANGED <<localVars, rows, rank>>

(* 401, 403, another 4xx: refused and never applied.                       *)
Refused(x, result) ==
  /\ x \in inFlight /\ x.by # NoWorker
  /\ inFlight' = inFlight \ {x}
  /\ Conclude(x.by, result)
  /\ UNCHANGED <<localVars, rows, rank, provider>>

Abandoned(w) == {IF x.by = w THEN [x EXCEPT !.by = NoWorker] ELSE x : x \in inFlight}

(* The deadline passes, or a 429 or 5xx answers: the request may yet land. *)
TimesOut(w) ==
  /\ workers[w].pc = "sent"
  /\ inFlight' = Abandoned(w)
  /\ Conclude(w, "PENDING")
  /\ UNCHANGED <<localVars, rows, rank, provider>>

(* A request nobody waits for never takes effect.                          *)
Vanishes(x) ==
  /\ x \in inFlight /\ x.by = NoWorker
  /\ inFlight' = inFlight \ {x}
  /\ UNCHANGED <<localVars, rows, rank, workers, provider>>

----------------------------------------------------------------------------
(* completeInTransaction                                                   *)

(* The binding, the credential and the desired state the claim was for.    *)
Stands(w) == SameBinding(w) /\ manager /\ CredentialCurrent(w) /\ Desired(w)

(* A cancellation overtook the claim: what was sent is to be audited.      *)
Uncertain(row) ==
  [row EXCEPT !.until = IF @ = 0 THEN Window ELSE @, !.next = "due"]

Superseded(w, row) ==
  LET cancelled == Cancelled(workers[w].s)
      freed == Freed(row)
  IN IF workers[w].audit
     THEN IF cancelled THEN Preserved([freed EXCEPT !.status = "SYNCED"])
          ELSE [freed EXCEPT !.status = "PENDING", !.until = 0, !.next = "none"]
     ELSE IF cancelled /\ ~workers[w].cancelled
          THEN Uncertain([freed EXCEPT !.status = "PENDING"])
          ELSE [freed EXCEPT !.status = "PENDING"]

(* Mutant: a confirmed absence ends the audit at once.                     *)
DeliveredOnce(w, row) == [Freed(row) EXCEPT !.status = "SYNCED", !.next = "none"]

Delivered(w, row) ==
  [Freed(row) EXCEPT !.status = "SYNCED",
                     !.next = IF workers[w].cancelled /\ row.until > 0 THEN "later" ELSE "none"]

Failed(w, row) ==
  IF workers[w].audit THEN Preserved([Freed(row) EXCEPT !.status = "SYNCED"])
  ELSE [Freed(row) EXCEPT !.status = workers[w].result]

(* An audit that finds its row queued again only gives the claim back.     *)
Completed(w, row) ==
  IF workers[w].audit /\ row.status = "PENDING" THEN Freed(row)
  ELSE IF ~Stands(w) THEN Superseded(w, row)
  ELSE IF workers[w].result = "SYNCED" THEN Delivered(w, row)
  ELSE Failed(w, row)

Complete(w) ==
  /\ workers[w].pc = "done"
  /\ LET s == workers[w].s
     IN IF Holds(w) THEN rows' = [rows EXCEPT ![s] = Completed(w, @)] /\ Touch(s)
                          ELSE UNCHANGED <<rows, rank>>
  /\ Forget(w)
  /\ UNCHANGED <<localVars, inFlight, provider>>

----------------------------------------------------------------------------
(* The process stops; time passes.                                         *)

Crash(w) ==
  /\ workers[w].pc # "idle"
  /\ inFlight' = Abandoned(w)
  /\ Forget(w)
  /\ UNCHANGED <<localVars, rows, rank, provider>>

LeaseExpires(s) ==
  /\ rows[s].lease = "held"
  /\ rows' = [rows EXCEPT ![s] = [@ EXCEPT !.lease = "expired"]]
  /\ UNCHANGED <<localVars, rank, workers, inFlight, provider>>

AuditDue(s) ==
  /\ rows[s].next = "later"
  /\ rows' = [rows EXCEPT ![s] = [@ EXCEPT !.next = "due"]]
  /\ UNCHANGED <<localVars, rank, workers, inFlight, provider>>

(* One Window-th of the six hours.  No request is awaited that long, and   *)
(* Google drops one before its window ends.                                *)
Tick ==
  /\ TimePasses
  /\ \A x \in inFlight : x.by = NoWorker
  /\ rows' = [s \in Schedules |->
       [rows[s] EXCEPT !.lease = IF @ = "held" THEN "expired" ELSE @,
                       !.until = IF @ > 0 THEN @ - 1 ELSE 0,
                       !.next = IF @ = "later" THEN "due" ELSE @]]
  /\ inFlight' = {[x EXCEPT !.life = @ - 1] : x \in {y \in inFlight : y.life > 0}}
  /\ UNCHANGED <<localVars, rank, workers, provider>>

----------------------------------------------------------------------------
UserStep ==
  \/ \E s \in Schedules : Confirm(s) \/ Update(s) \/ Cancel(s) \/ Retry(s)
  \/ \E c \in Calendars : Bind(c)
  \/ Disconnect
  \/ ChangeRole
  \/ \E connected \in BOOLEAN : ChangeGrant(connected)

Failures == Status \ {"SYNCED"}

WorkerStep(w) ==
  \/ \E s \in Schedules : Claim(w, s) \/ Postpone(w, s)
  \/ CredentialFails(w)
  \/ Attach(w)
  \/ Stale(w)
  \/ Look(w)
  \/ \E result \in Failures : LookFails(w, result)
  \/ Send(w)
  \/ TimesOut(w)
  \/ Complete(w)
  \/ Crash(w)

GoogleStep ==
  \E x \in inFlight : Land(x) \/ Vanishes(x) \/ \E result \in Failures : Refused(x, result)

CalNext ==
  \/ UserStep
  \/ \E s \in Schedules : LeaseExpires(s) \/ AuditDue(s) \/ \E r \in Rev : Consume(s, r)
  \/ Backfill
  \/ \E w \in Workers : WorkerStep(w)
  \/ GoogleStep
  \/ Tick

CalSpec == CalInit /\ [][CalNext]_vars

(* Fairness: the schedulers of the application go on, and Google, asked    *)
(* again and again, answers some time.  Users and crashes owe nothing.     *)
SchedulerFairness ==
  /\ WF_vars(Backfill)
  /\ WF_vars(\E x \in inFlight : x.by = NoWorker /\ (Land(x) \/ Vanishes(x)))
  /\ \A s \in Schedules :
       /\ WF_vars(LeaseExpires(s)) /\ WF_vars(AuditDue(s))
       /\ WF_vars(\E r \in Rev : Consume(s, r))
  /\ \A w \in Workers :
       /\ WF_vars(\E s \in Schedules : Claim(w, s) \/ Postpone(w, s))
       /\ WF_vars(CredentialFails(w) \/ Attach(w))
       /\ WF_vars(Stale(w))
       /\ WF_vars(Look(w) \/ \E result \in Failures : LookFails(w, result))
       /\ WF_vars(Send(w)) /\ WF_vars(TimesOut(w)) /\ WF_vars(Complete(w))

GoogleFairness ==
  /\ \A w \in Workers :
       /\ SF_vars(Attach(w)) /\ SF_vars(Look(w)) /\ SF_vars(Send(w))
       /\ SF_vars(\E x \in inFlight : x.by = w /\ Land(x))
       /\ SF_vars(Complete(w))

\* a retry sends the row to the end of the queue, like a postponement: nobody
\* retries for ever
CalRotationSpec ==
  CalSpec /\ SchedulerFairness /\ \A s \in Schedules : <>[][~Retry(s)]_vars

CalLiveSpec == CalSpec /\ SchedulerFairness /\ GoogleFairness
----------------------------------------------------------------------------
Backfilled(s) == calendar.target # NoCalendar /\ (calendar.backfill => s <= calendar.cursor)

(* SYNCED tells the truth: once a schedule's events are delivered and the  *)
(* back-fill of the binding has passed it, a SYNCED row means that the     *)
(* bound calendar holds the schedule's present revision, whatever late     *)
(* completions, rebinding, expired leases and late requests did before.    *)
SyncedIsDelivered ==
  \A s \in Schedules :
    /\ rows[s].status = "SYNCED" /\ Backfilled(s) /\ ~Cancelled(s)
    /\ \A r \in Rev : <<s, r>> \notin published
    => provider[calendar.target][s] = schedules[s].rev

(* A request sent under a window opened in the same tick may outlive the   *)
(* cancellation that follows it.  While Google may still apply it, the row *)
(* of the cancelled schedule, once SYNCED, is due for an audit.            *)
UncertainWriteIsAudited ==
  \A x \in inFlight :
    LET row == rows[x.s]
    IN x.fresh /\ Cancelled(x.s) /\ row.status = "SYNCED" /\ row.rev = schedules[x.s].rev
         => row.until > x.life /\ row.next # "none"

(* No step replaces an event in Google by an older revision, not even a    *)
(* request that a former owner of the claim sent before its lease ended.   *)
ProviderNeverRegresses ==
  [][\A c \in Calendars, s \in Schedules :
       provider'[c][s] # 0 => provider'[c][s] >= provider[c][s]]_vars

(* A row in the queue is claimed, however many rows fail before it and     *)
(* come back, unless the binding cannot deliver.                           *)
NoRowStarves ==
  \A s \in Schedules :
    rows[s].status = "PENDING" /\ rows[s].token = NoWorker
      ~> rows[s].status # "PENDING" \/ rows[s].token # NoWorker \/ ~Deliverable

(* The event of a cancelled schedule disappears from the bound calendar,   *)
(* also when a late request recreates it, or a failure is shown to the     *)
(* managers.                                                               *)
CancelledEventGoes ==
  \A s \in Schedules, c \in Calendars :
    Cancelled(s) /\ calendar.target = c /\ provider[c][s] # 0
      ~> \/ provider[c][s] = 0
         \/ rows[s].status \in {"FAILED", "REAUTH_REQUIRED"}
         \/ calendar.target # c \/ ~Deliverable
=============================================================================
