------------------------ MODULE CalendarDispatch_proofs ------------------------
(***************************************************************************)
(* Theorems about CalendarDispatch for any number of schedules, calendars  *)
(* and workers, any page size and any window.  One inductive invariant, in *)
(* five parts: the types, what a claim knows of its schedule, what an etag *)
(* and a request under way vouch for, what a row's window covers, and what *)
(* a success proves of the calendar.                                       *)
(***************************************************************************)
EXTENDS CalendarDispatch, FiniteSetTheorems, TLAPS

----------------------------------------------------------------------------
(* The inductive invariant.                                                *)

Busy(w) == workers[w].pc # "idle"

ClaimTyped(c) ==
  /\ c \in Worker
  /\ c.pc # "idle" => c.s \in Schedules /\ c.target \in Calendars
  /\ c.pc = "found" => c.call # "GET"

WorkersTyped == \A w \in Workers : ClaimTyped(workers[w])

CalTypes == CalTypeOK /\ WorkersTyped

\* A claim carries a revision its schedule had, and what it knows of a
\* cancellation is right as long as the revision is the present one.
ClaimKnows(w) ==
  LET c == workers[w]
  IN /\ schedules[c.s].rev # 0
     /\ c.rev <= schedules[c.s].rev
     /\ c.rev = schedules[c.s].rev => (c.cancelled <=> Cancelled(c.s))
     /\ c.cancelled => Cancelled(c.s)
     /\ c.audit => c.cancelled

ClaimsKnow == \A w \in Workers : Busy(w) => ClaimKnows(w)

\* An etag that is still the event's was read, or sent, for a claim at least as
\* new as the event.
EtagVouches(matches, rev, target, s) == matches => provider[target][s] <= rev

LooksVouch ==
  \A w \in Workers :
    LET c == workers[w]
    IN /\ c.matches => c.pc = "found"
       /\ c.pc = "found" => /\ c.call = "DELETE" <=> c.cancelled
                            /\ EtagVouches(c.matches, c.rev, c.target, c.s)

RequestVouches(x) ==
  /\ x.rev <= schedules[x.s].rev
  /\ x.call = "DELETE" => Cancelled(x.s)
  /\ EtagVouches(x.matches, x.rev, x.target, x.s)

RequestsVouch == \A x \in inFlight : RequestVouches(x)

\* A request somebody waits for is the one its claim sent.
RequestIsOf(x, w) ==
  LET c == workers[w]
  IN /\ c.pc = "sent"
     /\ x.s = c.s /\ x.target = c.target /\ x.rev = c.rev
     /\ x.call = "DELETE" <=> c.cancelled

RequestsAreAwaited ==
  /\ \A x \in inFlight : x.by # NoWorker => RequestIsOf(x, x.by)
  /\ \A x, y \in inFlight : x.by = y.by /\ x.by # NoWorker => x = y

\* An event under way announces a revision its schedule has had.
EventsAnnounce ==
  \A s \in Schedules, r \in Rev :
    <<s, r>> \in published => r # 0 /\ r <= schedules[s].rev

\* A row asks for no revision its schedule has not, and no draft has a row.
RowsFollow ==
  \A s \in Schedules :
    /\ rows[s].rev <= schedules[s].rev
    /\ rows[s].status # "ABSENT" => schedules[s].rev # 0

\* A request sent in the tick its window opened ends before the window does, and the
\* SYNCED row of a cancelled schedule has an audit ahead as long as its window is open.
WindowsCover ==
  /\ \A x \in inFlight : x.fresh => rows[x.s].until > x.life
  /\ \A s \in Schedules :
       /\ Cancelled(s) /\ rows[s].status = "SYNCED"
       /\ rows[s].rev = schedules[s].rev /\ rows[s].until > 0
       => rows[s].next # "none"

\* A success that is still the desired state is in the claim's calendar.
SuccessIsThere(w) ==
  LET c == workers[w]
  IN /\ c.pc = "done" /\ c.result = "SYNCED" /\ ~c.cancelled
     /\ c.rev = schedules[c.s].rev
     => provider[c.target][c.s] = c.rev

\* A SYNCED row whose schedule has nothing left to announce is in the bound calendar.
SyncedIsThere(s) ==
  /\ rows[s].status = "SYNCED" /\ Backfilled(s) /\ ~Cancelled(s)
  /\ <<s, schedules[s].rev>> \notin published
  => provider[calendar.target][s] = schedules[s].rev

SuccessesAreThere ==
  /\ \A w \in Workers : SuccessIsThere(w)
  /\ \A s \in Schedules : SyncedIsThere(s)

\* What a claim, its looks and its requests know between one barrier and the next.
Barriers == ClaimsKnow /\ LooksVouch /\ RequestsVouch /\ RequestsAreAwaited

CalInv ==
  CalTypes /\ Barriers /\ EventsAnnounce /\ RowsFollow /\ WindowsCover /\ SuccessesAreThere
----------------------------------------------------------------------------
(* Extremal elements of finite sets, and the pages of the back-fill.       *)

\* A finite set of integers that is not empty has a least element: the sets of
\* elements up to one of them are well-founded under inclusion.
LEMMA LeastElement ==
  ASSUME NEW T \in SUBSET Int, IsFiniteSet(T), T # {}
  PROVE  \E x \in T : \A y \in T : x <= y
<1> DEFINE UpTo(x) == {y \in T : y <= x}
           C == {UpTo(x) : x \in T}
<1>1. IsWellFoundedOn(StrictSubsetOrdering(T), SUBSET T)
  BY FS_StrictSubsetOrderingWellFounded, FS_FiniteSubsetsOfFinite
<1>2. C \subseteq SUBSET T /\ C # {}
  OBVIOUS
<1>3. PICK U \in C : \A V \in C : <<V, U>> \notin StrictSubsetOrdering(T)
  <2> HIDE DEF C
  <2> QED  BY <1>1, <1>2, WFMin
<1>4. PICK x \in T : U = UpTo(x)
  BY <1>3
<1>5. ASSUME NEW y \in T, y < x  PROVE  FALSE
  <2>1. x \in Int /\ y \in Int /\ \A z \in T : z \in Int /\ (z <= y => z <= x)
    BY <1>5
  <2>2. UpTo(y) \subseteq UpTo(x)
    BY <2>1
  <2>3. x \in UpTo(x) /\ x \notin UpTo(y)
    BY <1>5, <2>1
  <2>4. <<UpTo(y), U>> \in StrictSubsetOrdering(T)
    BY <1>4, <2>2, <2>3 DEF StrictSubsetOrdering
  <2> QED  BY <1>3, <2>4
<1> QED  BY <1>5

\* It has a greatest element too.
LEMMA GreatestElement ==
  ASSUME NEW T \in SUBSET Int, IsFiniteSet(T), T # {}
  PROVE  \E x \in T : \A y \in T : y <= x
<1> DEFINE UpFrom(x) == {y \in T : x <= y}
           C == {UpFrom(x) : x \in T}
<1>1. IsWellFoundedOn(StrictSubsetOrdering(T), SUBSET T)
  BY FS_StrictSubsetOrderingWellFounded, FS_FiniteSubsetsOfFinite
<1>2. C \subseteq SUBSET T /\ C # {}
  OBVIOUS
<1>3. PICK U \in C : \A V \in C : <<V, U>> \notin StrictSubsetOrdering(T)
  <2> HIDE DEF C
  <2> QED  BY <1>1, <1>2, WFMin
<1>4. PICK x \in T : U = UpFrom(x)
  BY <1>3
<1>5. ASSUME NEW y \in T, x < y  PROVE  FALSE
  <2>1. x \in Int /\ y \in Int /\ \A z \in T : z \in Int /\ (y <= z => x <= z)
    BY <1>5
  <2>2. UpFrom(y) \subseteq UpFrom(x)
    BY <2>1
  <2>3. x \in UpFrom(x) /\ x \notin UpFrom(y)
    BY <1>5, <2>1
  <2>4. <<UpFrom(y), U>> \in StrictSubsetOrdering(T)
    BY <1>4, <2>2, <2>3 DEF StrictSubsetOrdering
  <2> QED  BY <1>3, <2>4
<1> QED  BY <1>5

\* The exportable schedules from the cursor to s.  Page holds the s whose segment has
\* at most PageSize members.
Segment(s) == {t \in calendar.cursor + 1 .. s : Exportable(t)}

LEMMA SegmentsAreFinite ==
  ASSUME calendar.cursor \in Nat, NEW s \in Schedules
  PROVE  /\ IsFiniteSet(Segment(s))
         /\ Cardinality(Segment(s)) \in Nat
         /\ Segment(s) \in SUBSET Int
<1>1. IsFiniteSet(calendar.cursor + 1 .. s)
  BY CalAssumption, FS_Interval DEF Schedules
<1>2. IsFiniteSet(Segment(s))
  BY <1>1, FS_Subset DEF Segment
<1> QED  BY <1>2, FS_CardinalityType DEF Segment

LEMMA PageIsFinite ==
  IsFiniteSet(Page) /\ Page \in SUBSET Int /\ Cardinality(Page) \in Nat
<1>1. IsFiniteSet(Schedules) /\ Page \in SUBSET Schedules
  BY CalAssumption, FS_Interval DEF Schedules, Page
<1>2. IsFiniteSet(Page)
  BY <1>1, FS_Subset
<1>3. Page \in SUBSET Int
  BY <1>1 DEF Schedules
<1> QED  BY <1>2, <1>3, FS_CardinalityType

\* The last schedule of a full page exists.
LEMMA FullPageEnds ==
  ASSUME Cardinality(Page) = PageSize
  PROVE  LET last == CHOOSE s \in Page : \A t \in Page : t <= s
         IN last \in Page /\ \A t \in Page : t <= last
<1>1. Page # {}
  BY CalAssumption, FS_EmptySet
<1>2. \E s \in Page : \A t \in Page : t <= s
  BY <1>1, PageIsFinite, GreatestElement
<1> QED  BY <1>2

\* A page holds everything exportable from the cursor to its last schedule.
LEMMA PageHasNoGaps ==
  ASSUME calendar.cursor \in Nat, NEW last \in Page, NEW s \in Schedules,
         Exportable(s), calendar.cursor < s, s <= last
  PROVE  s \in Page
<1>1. last \in Schedules /\ Cardinality(Segment(last)) <= PageSize
  BY DEF Page, Segment
<1>2. Segment(s) \in SUBSET Segment(last)
  BY <1>1 DEF Segment, Schedules
<1>3. Cardinality(Segment(s)) <= Cardinality(Segment(last))
  BY <1>1, <1>2, SegmentsAreFinite, FS_Subset
<1>4. Cardinality(Segment(s)) <= PageSize
  BY <1>1, <1>3, SegmentsAreFinite, CalAssumption
<1> QED  BY <1>4 DEF Page, Segment

\* A page that is not full holds everything exportable after the cursor: the first
\* schedule that did not fit would follow PageSize others that did.
LEMMA ShortPageIsTheLast ==
  ASSUME calendar.cursor \in Nat, NEW s \in Schedules,
         Cardinality(Page) # PageSize, Exportable(s), calendar.cursor < s
  PROVE  s \in Page
<1> DEFINE Left == {t \in Schedules : /\ Exportable(t) /\ calendar.cursor < t
                                      /\ t \notin Page}
<1> SUFFICES ASSUME Left # {}  PROVE FALSE
  OBVIOUS
<1>1. Left \in SUBSET Int /\ IsFiniteSet(Left)
  <2>1. IsFiniteSet(Schedules) /\ Left \in SUBSET Schedules
    BY CalAssumption, FS_Interval DEF Schedules
  <2>2. IsFiniteSet(Left)
    BY <2>1, FS_Subset
  <2>3. Left \in SUBSET Int
    BY DEF Schedules
  <2> QED  BY <2>2, <2>3
<1>2. PICK first \in Left : \A t \in Left : first <= t
  <2> HIDE DEF Left
  <2> QED  BY <1>1, LeastElement
<1>3. first \in Schedules /\ first \in Segment(first)
      /\ Cardinality(Segment(first)) > PageSize
  BY SegmentsAreFinite, CalAssumption DEF Page, Segment, Schedules
<1> DEFINE Before == Segment(first) \ {first}
<1>4. IsFiniteSet(Before) /\ Cardinality(Before) = Cardinality(Segment(first)) - 1
  BY <1>3, SegmentsAreFinite, FS_RemoveElement
<1>5. ASSUME NEW t \in Before  PROVE t \in Page
  <2>1. t \in Schedules /\ Exportable(t) /\ calendar.cursor < t /\ t < first
    BY <1>3, CalAssumption DEF Segment, Schedules
  <2>2. t \notin Left
    BY <1>2, <1>3, <2>1 DEF Schedules
  <2> QED  BY <2>1, <2>2
<1>6. Cardinality(Before) <= Cardinality(Page)
  BY <1>5, PageIsFinite, FS_Subset
<1>7. Cardinality(Page) > PageSize
  BY <1>3, <1>4, <1>6, SegmentsAreFinite, PageIsFinite, CalAssumption
<1>8. Page # {}
  BY <1>7, FS_EmptySet, CalAssumption
<1>9. PICK last \in Page : \A t \in Page : t <= last
  BY <1>8, PageIsFinite, GreatestElement
<1>10. last \in Schedules /\ Cardinality(Segment(last)) <= PageSize
  BY DEF Page, Segment
<1>11. Page \in SUBSET Segment(last)
  BY <1>9, <1>10 DEF Page, Segment, Schedules
<1>12. Cardinality(Page) <= Cardinality(Segment(last))
  BY <1>10, <1>11, SegmentsAreFinite, FS_Subset
<1> QED  BY <1>7, <1>10, <1>12, SegmentsAreFinite, PageIsFinite, CalAssumption
----------------------------------------------------------------------------
(* The types.                                                              *)

LEMMA RowsTyped ==
  ASSUME CalTypes, NEW w \in Workers, NEW row \in Row
  PROVE  /\ Freed(row) \in Row /\ Preserved(row) \in Row /\ Uncertain(row) \in Row
         /\ Released(w, row) \in Row /\ Completed(w, row) \in Row
<1>1. ASSUME NEW r \in Row  PROVE Freed(r) \in Row
  BY DEF Freed, Row
<1>2. ASSUME NEW r \in Row  PROVE Preserved(r) \in Row
  BY DEF Preserved, Row
<1>3. ASSUME NEW r \in Row  PROVE Uncertain(r) \in Row
  <2>1. (IF r.until = 0 THEN Window ELSE r.until) \in 0 .. Window
    BY CalAssumption DEF Row
  <2>2. \A n \in 0 .. Window : [r EXCEPT !.until = n, !.next = "due"] \in Row
    BY DEF Row
  <2> QED  BY <2>1, <2>2 DEF Uncertain
<1>4. ASSUME NEW r \in Row, NEW status \in Status
      PROVE  [r EXCEPT !.status = status] \in Row
  BY DEF Row
<1>5. "SYNCED" \in Status /\ "PENDING" \in Status
  BY DEF Status
<1>6. Preserved([Freed(row) EXCEPT !.status = "SYNCED"]) \in Row
  BY <1>1, <1>2, <1>4, <1>5
<1>7. Released(w, row) \in Row
  BY <1>1, <1>6 DEF Released
<1>8. Superseded(w, row) \in Row
  <2>1. [Freed(row) EXCEPT !.status = "PENDING", !.until = 0, !.next = "none"] \in Row
    <3>1. 0 \in 0 .. Window
      BY CalAssumption
    <3>2. \A n \in 0 .. Window, r \in Row :
            [r EXCEPT !.status = "PENDING", !.until = n, !.next = "none"] \in Row
      BY <1>5 DEF Row
    <3> QED  BY <1>1, <3>1, <3>2
  <2> QED  BY <1>1, <1>3, <1>4, <1>5, <1>6, <2>1 DEF Superseded
<1>9. Delivered(w, row) \in Row
  BY <1>1, <1>5 DEF Delivered, Row
<1>10. Failed(w, row) \in Row
  <2>1. workers[w].result \in Status
    BY DEF CalTypes, CalTypeOK, Worker
  <2> QED  BY <1>1, <1>4, <1>6, <2>1 DEF Failed
<1>11. Completed(w, row) \in Row
  BY <1>1, <1>8, <1>9, <1>10 DEF Completed
<1> QED  BY <1>1, <1>2, <1>3, <1>7, <1>11

LEMMA ClaimedRowTyped ==
  ASSUME CalTypes, NEW w \in Workers, NEW s \in Schedules
  PROVE  ClaimedRow(w, s) \in Row
<1>1. rows[s] \in Row /\ schedules[s].rev \in Rev
  BY DEF CalTypes, CalTypeOK
<1>2. WindowAtClaim(s) \in 0 .. Window
  BY <1>1, CalAssumption DEF WindowAtClaim, Row
<1> QED  BY <1>1, <1>2 DEF ClaimedRow, Row, Status

LEMMA ConcludedTyped ==
  ASSUME NEW c, ClaimTyped(c), c.pc # "idle", NEW result \in Status
  PROVE  ClaimTyped(Concluded(c, result))
BY DEF ClaimTyped, Concluded, Worker

LEMMA IdleTyped == ClaimTyped(Idle)
BY CalAssumption DEF ClaimTyped, Idle, Worker, Rev, Status

LEMMA OneWorkerTyped ==
  ASSUME CalTypes, NEW w \in Workers, NEW c, ClaimTyped(c),
         workers' = [workers EXCEPT ![w] = c]
  PROVE  workers' \in [Workers -> Worker] /\ WorkersTyped'
BY DEF CalTypes, CalTypeOK, WorkersTyped, ClaimTyped

LEMMA TouchTyped ==
  ASSUME CalTypes, NEW s \in Schedules, Touch(s)
  PROVE  rank' \in [Schedules -> Schedules]
<1>1. rank \in [Schedules -> 1 .. N] /\ N \in Nat \ {0}
  BY CalAssumption DEF CalTypes, CalTypeOK, Schedules
<1>2. ASSUME NEW t \in Schedules
      PROVE  (IF t = s THEN N ELSE IF rank[t] > rank[s] THEN rank[t] - 1 ELSE rank[t])
               \in Schedules
  <2>1. rank[t] \in 1 .. N /\ rank[s] \in 1 .. N
    BY <1>1 DEF Schedules
  <2>2. rank[t] > rank[s] => rank[t] - 1 \in 1 .. N
    <3>1. \A i, j \in 1 .. N : i > j => i - 1 \in 1 .. N
      BY <1>1
    <3> QED  BY <2>1, <3>1
  <2>3. N \in 1 .. N
    BY <1>1
  <2> QED  BY <2>1, <2>2, <2>3 DEF Schedules
<1> QED  BY <1>2 DEF Touch

LEMMA AbandonedTyped ==
  ASSUME CalTypes, NEW w \in Workers
  PROVE  Abandoned(w) \in SUBSET Request
<1>1. ASSUME NEW x \in inFlight
      PROVE  (IF x.by = w THEN [x EXCEPT !.by = NoWorker] ELSE x) \in Request
  <2>1. \A y \in Request : [y EXCEPT !.by = NoWorker] \in Request
    BY DEF Request
  <2> QED  BY <2>1 DEF CalTypes, CalTypeOK
<1> QED  BY <1>1 DEF Abandoned

LEMMA InitTyped == CalInit => CalTypes
<1> SUFFICES ASSUME CalInit  PROVE CalTypes
  OBVIOUS
<1>1. NoRow \in Row
  BY CalAssumption DEF NoRow, Row, Rev
<1>2. CalTypeOK
  BY <1>1, IdleTyped, CalAssumption DEF CalInit, CalTypeOK, Rev, ClaimTyped
<1> QED  BY <1>2, IdleTyped DEF CalInit, CalTypes, WorkersTyped
\* Confirm, Update and Cancel are changes of a schedule's status.
ScheduleChanges ==
  \E s \in Schedules :
    \/ schedules[s].status = "DRAFT" /\ Change(s, "CONFIRMED")
    \/ schedules[s].status = "CONFIRMED" /\ Change(s, "CONFIRMED")
    \/ schedules[s].status = "CONFIRMED" /\ Change(s, "CANCELLED")

LEMMA TypesUnderUsers ==
  ASSUME CalTypes, UserStep
  PROVE  CalTypes'
<1> USE DEF CalTypes, CalTypeOK, WorkersTyped
<1>1. CASE ScheduleChanges
  <2>1. PICK s \in Schedules, status \in {"CONFIRMED", "CANCELLED"} : Change(s, status)
    BY <1>1 DEF ScheduleChanges
  <2>2. schedules[s].rev + 1 \in Rev
    BY <2>1, CalAssumption DEF Change, Rev
  <2>3. schedules' \in [Schedules -> [status : {"DRAFT", "CONFIRMED", "CANCELLED"}, rev : Rev]]
    BY <2>1, <2>2 DEF Change
  <2>4. published' \in SUBSET (Schedules \X Rev)
    BY <2>1, <2>2 DEF Change
  <2> QED  BY <2>1, <2>3, <2>4 DEF Change
<1>2. ASSUME NEW s \in Schedules, Retry(s)  PROVE CalTypes'
  <2>1. \A r \in Row : [r EXCEPT !.status = "PENDING", !.rev = rows[s].rev] \in Row
    BY DEF Row, Status
  <2>2. rows' \in [Schedules -> Row]
    BY <1>2, <2>1 DEF Retry, Queued
  <2>3. rank' \in [Schedules -> Schedules]
    BY <1>2, TouchTyped DEF Retry
  <2> QED  BY <1>2, <2>2, <2>3 DEF Retry, localVars
<1>3. ASSUME NEW c \in Calendars, Bind(c)  PROVE CalTypes'
  <2>1. calendar.binding + 1 \in 0 .. MaxBinding /\ 0 \in 0 .. N
    BY <1>3, CalAssumption DEF Bind
  <2>2. calendar' \in [target : Calendars \cup {NoCalendar}, binding : 0 .. MaxBinding,
                       backfill : BOOLEAN, cursor : 0 .. N]
    BY <1>3, <2>1 DEF Bind, Bound
  <2> QED  BY <1>3, <2>2 DEF Bind
<1>4. CASE Disconnect
  <2>1. calendar.binding + 1 \in 0 .. MaxBinding /\ 0 \in 0 .. N
    <3>1. calendar.binding \in 0 .. MaxBinding /\ calendar.binding < MaxBinding
      BY <1>4 DEF Disconnect
    <3> QED  BY <3>1, CalAssumption
  <2>2. calendar' \in [target : Calendars \cup {NoCalendar}, binding : 0 .. MaxBinding,
                       backfill : BOOLEAN, cursor : 0 .. N]
    BY <1>4, <2>1 DEF Disconnect
  <2>3. \A r \in Row : [r EXCEPT !.token = NoWorker, !.lease = "none"] \in Row
    BY DEF Row
  <2>4. rows' \in [Schedules -> Row]
    BY <1>4, <2>3 DEF Disconnect
  <2> QED  BY <1>4, <2>2, <2>4 DEF Disconnect
<1>5. CASE ChangeRole
  BY <1>5 DEF ChangeRole
<1>6. ASSUME NEW connected \in BOOLEAN, ChangeGrant(connected)  PROVE CalTypes'
  <2>1. cred.gen + 1 \in 0 .. MaxCred
    BY <1>6, CalAssumption DEF ChangeGrant
  <2> QED  BY <1>6, <2>1 DEF ChangeGrant
<1> QED
  BY <1>1, <1>2, <1>3, <1>4, <1>5, <1>6
     DEF UserStep, Confirm, Update, Cancel, ScheduleChanges

LEMMA TypesUnderSchedulers ==
  ASSUME CalTypes,
         \/ \E s \in Schedules :
              LeaseExpires(s) \/ AuditDue(s) \/ \E r \in Rev : Consume(s, r)
         \/ Backfill \/ Tick
  PROVE  CalTypes'
<1> USE DEF CalTypes, CalTypeOK, WorkersTyped
<1>1. ASSUME NEW s \in Schedules, LeaseExpires(s)  PROVE CalTypes'
  <2>1. \A r \in Row : [r EXCEPT !.lease = "expired"] \in Row
    BY DEF Row
  <2> QED  BY <1>1, <2>1 DEF LeaseExpires, localVars
<1>2. ASSUME NEW s \in Schedules, AuditDue(s)  PROVE CalTypes'
  <2>1. \A r \in Row : [r EXCEPT !.next = "due"] \in Row
    BY DEF Row
  <2> QED  BY <1>2, <2>1 DEF AuditDue, localVars
<1>3. ASSUME NEW s \in Schedules, NEW r \in Rev, Consume(s, r)  PROVE CalTypes'
  <2>1. \A row \in Row : [row EXCEPT !.status = "PENDING", !.rev = r] \in Row
    BY DEF Row, Status
  <2>2. Queued(s, r) \in [Schedules -> Row]
    BY <2>1 DEF Queued
  <2>3. rows' \in [Schedules -> Row]
    BY <1>3, <2>2 DEF Consume
  <2>4. rank' \in [Schedules -> Schedules]
    BY <1>3, TouchTyped DEF Consume
  <2> QED  BY <1>3, <2>3, <2>4 DEF Consume
<1>4. CASE Backfill
  <2>1. (IF Cardinality(Page) = PageSize
         THEN CHOOSE s \in Page : \A t \in Page : t <= s ELSE 0) \in 0 .. N
    <3>1. Page \subseteq 0 .. N /\ 0 \in 0 .. N
      BY CalAssumption DEF Page, Schedules
    <3> QED  BY <3>1, FullPageEnds
  <2>2. calendar' \in [target : Calendars \cup {NoCalendar}, binding : 0 .. MaxBinding,
                       backfill : BOOLEAN, cursor : 0 .. N]
    BY <1>4, <2>1 DEF Backfill
  <2>3. \A row \in Row, r \in Rev : [row EXCEPT !.status = "PENDING", !.rev = r] \in Row
    BY DEF Row, Status
  <2>4. rows' \in [Schedules -> Row]
    BY <1>4, <2>3 DEF Backfill
  <2>5. rank' \in [Schedules -> Schedules]
    BY <1>4 DEF Backfill
  <2> QED  BY <1>4, <2>2, <2>4, <2>5 DEF Backfill
<1>5. CASE Tick
  <2>1. ASSUME NEW row \in Row
        PROVE  [row EXCEPT !.lease = IF @ = "held" THEN "expired" ELSE @,
                           !.until = IF @ > 0 THEN @ - 1 ELSE 0,
                           !.next = IF @ = "later" THEN "due" ELSE @] \in Row
    <3>1. (IF row.until > 0 THEN row.until - 1 ELSE 0) \in 0 .. Window
      BY CalAssumption DEF Row
    <3>2. \A n \in 0 .. Window :
            [row EXCEPT !.lease = IF @ = "held" THEN "expired" ELSE @, !.until = n,
                        !.next = IF @ = "later" THEN "due" ELSE @] \in Row
      BY DEF Row
    <3> QED  BY <3>1, <3>2
  <2>2. rows' \in [Schedules -> Row]
    BY <1>5, <2>1 DEF Tick
  <2>3. ASSUME NEW x \in Request, x.life > 0
        PROVE  [x EXCEPT !.life = @ - 1] \in Request
    <3>1. x.life - 1 \in 0 .. Window - 1
      BY <2>3, CalAssumption DEF Request
    <3>2. \A n \in 0 .. Window - 1 : [x EXCEPT !.life = n] \in Request
      BY DEF Request
    <3> QED  BY <3>1, <3>2
  <2>4. inFlight' \in SUBSET Request
    <3>1. inFlight' = {[x EXCEPT !.life = @ - 1] : x \in {y \in inFlight : y.life > 0}}
      BY <1>5 DEF Tick
    <3>2. \A x \in {y \in inFlight : y.life > 0} : x \in Request /\ x.life > 0
      OBVIOUS
    <3> QED  BY <2>3, <3>1, <3>2
  <2> QED  BY <1>5, <2>2, <2>4 DEF Tick, localVars
<1> QED
  BY <1>1, <1>2, <1>3, <1>4, <1>5
LEMMA TypesUnderWorkers ==
  ASSUME CalTypes, NEW w \in Workers, WorkerStep(w)
  PROVE  CalTypes'
<1> USE DEF CalTypes, CalTypeOK
<1> DEFINE c == workers[w]
<1>0. ClaimTyped(c) /\ (Busy(w) => c.s \in Schedules /\ c.target \in Calendars)
  BY DEF WorkersTyped, ClaimTyped, Busy
<1>1. ASSUME NEW s \in Schedules, Claim(w, s)  PROVE CalTypes'
  <2>1. rows' \in [Schedules -> Row]
    BY <1>1, ClaimedRowTyped DEF Claim
  <2>2. rank' \in [Schedules -> Schedules]
    BY <1>1, TouchTyped DEF Claim
  <2> DEFINE new == [Idle EXCEPT !.pc = "claimed", !.s = s, !.target = calendar.target,
                         !.binding = calendar.binding, !.rev = schedules[s].rev,
                         !.cancelled = Cancelled(s), !.audit = IsAudit(s)]
  <2>3. Cancelled(s) \in BOOLEAN /\ IsAudit(s) \in BOOLEAN
    BY DEF Cancelled, IsAudit
  <2>4. calendar.target \in Calendars
    BY <1>1 DEF Claim, Deliverable
  <2>5. ClaimTyped(new)
    <3>1. s \in 0 .. N /\ 0 \in 0 .. MaxCred /\ calendar.binding \in 0 .. MaxBinding
      BY CalAssumption DEF Schedules
    <3>2. schedules[s].rev \in Rev
      OBVIOUS
    <3> QED  BY <2>3, <2>4, <3>1, <3>2 DEF ClaimTyped, Worker, Idle, Status
  <2>6. workers' = [workers EXCEPT ![w] = new]
    BY <1>1 DEF Claim
  <2>7. workers' \in [Workers -> Worker] /\ WorkersTyped'
    BY <2>5, <2>6, OneWorkerTyped
  <2> QED  BY <1>1, <2>1, <2>2, <2>7 DEF Claim, localVars
<1>2. ASSUME NEW s \in Schedules, Postpone(w, s)  PROVE CalTypes'
  <2>1. rank' \in [Schedules -> Schedules]
    BY <1>2, TouchTyped DEF Postpone
  <2> QED  BY <1>2, <2>1 DEF Postpone, localVars, WorkersTyped
<1>3. ASSUME Forget(w)
      PROVE  workers' \in [Workers -> Worker] /\ WorkersTyped'
  BY <1>3, IdleTyped, OneWorkerTyped DEF Forget
<1>4. ASSUME NEW result \in Status, Busy(w), Conclude(w, result)
      PROVE  workers' \in [Workers -> Worker] /\ WorkersTyped'
  <2>1. ClaimTyped(Concluded(c, result))
    BY <1>0, <1>4, ConcludedTyped DEF Busy
  <2> QED  BY <1>4, <2>1, OneWorkerTyped DEF Conclude
<1>5. CASE CredentialFails(w)
  <2>1. c.s \in Schedules
    BY <1>0, <1>5 DEF CredentialFails, Busy
  <2>2. rows' \in [Schedules -> Row]
    BY <1>5, <2>1, RowsTyped DEF CredentialFails
  <2>3. rank' \in [Schedules -> Schedules]
    BY <1>5, <2>1, TouchTyped DEF CredentialFails
  <2> QED  BY <1>3, <1>5, <2>2, <2>3 DEF CredentialFails, localVars
<1>6. CASE Attach(w)
  <2>1. ClaimTyped([c EXCEPT !.pc = "attached", !.cred = cred.gen])
    BY <1>0, <1>6 DEF Attach, ClaimTyped, Worker
  <2>2. workers' \in [Workers -> Worker] /\ WorkersTyped'
    BY <1>6, <2>1, IdleTyped, OneWorkerTyped DEF Attach
  <2> QED  BY <1>6, <2>2 DEF Attach, localVars
<1>7. CASE Stale(w)
  <2>1. "PENDING" \in Status /\ Busy(w) /\ Conclude(w, "PENDING")
    BY <1>7 DEF Stale, Status, Busy
  <2> QED  BY <1>4, <1>7, <2>1 DEF Stale, localVars
<1>8. CASE Look(w)
  <2> DEFINE copy == provider[c.target][c.s]
             new == [c EXCEPT !.pc = "found", !.call = CallFor(w, copy), !.matches = copy # 0]
  <2>1. Busy(w)
    BY <1>8 DEF Look, Busy
  <2>2. CallFor(w, copy) \in {"DELETE", "POST", "PATCH"} /\ (copy # 0) \in BOOLEAN
    BY DEF CallFor
  <2>3. ClaimTyped(new)
    <3> HIDE DEF copy
    <3> QED  BY <1>0, <2>1, <2>2 DEF ClaimTyped, Worker, Busy
  <2>4. \/ \E result \in Status : Conclude(w, result)
        \/ workers' = [workers EXCEPT ![w] = new]
    BY <1>8 DEF Look, Status
  <2>5. workers' \in [Workers -> Worker] /\ WorkersTyped'
    BY <1>4, <2>1, <2>3, <2>4, OneWorkerTyped
  <2> QED  BY <1>8, <2>5 DEF Look, localVars
<1>9. ASSUME NEW result \in Failures, LookFails(w, result)  PROVE CalTypes'
  <2>1. result \in Status /\ Busy(w) /\ Conclude(w, result)
    BY <1>9 DEF LookFails, Failures, Busy
  <2> QED  BY <1>4, <1>9, <2>1 DEF LookFails, localVars
<1>10. CASE Send(w)
  <2>1. c.s \in Schedules /\ c.target \in Calendars /\ c.call # "GET" /\ c \in Worker
    BY <1>0, <1>10 DEF Send, Busy, ClaimTyped
  <2>2. RequestOf(w) \in Request
    BY <2>1, CalAssumption DEF RequestOf, Request, Worker
  <2>3. ClaimTyped([c EXCEPT !.pc = "sent", !.call = "GET", !.matches = FALSE])
    BY <1>0, <1>10 DEF Send, ClaimTyped, Worker
  <2>4. workers' \in [Workers -> Worker] /\ WorkersTyped'
    BY <1>10, <2>3, OneWorkerTyped DEF Send
  <2> QED  BY <1>10, <2>2, <2>4 DEF Send, localVars
<1>11. CASE TimesOut(w)
  <2>1. "PENDING" \in Status /\ Busy(w) /\ Conclude(w, "PENDING")
    BY <1>11 DEF TimesOut, Status, Busy
  <2> QED  BY <1>4, <1>11, <2>1, AbandonedTyped DEF TimesOut, localVars
<1>12. CASE Complete(w)
  <2>1. c.s \in Schedules
    BY <1>0, <1>12 DEF Complete, Busy
  <2>2. rows' \in [Schedules -> Row]
    BY <1>12, <2>1, RowsTyped DEF Complete
  <2>3. rank' \in [Schedules -> Schedules]
    BY <1>12, <2>1, TouchTyped DEF Complete
  <2> QED  BY <1>3, <1>12, <2>2, <2>3 DEF Complete, localVars
<1>13. CASE Crash(w)
  BY <1>3, <1>13, AbandonedTyped DEF Crash, localVars
<1> QED
  BY <1>1, <1>2, <1>5, <1>6, <1>7, <1>8, <1>9, <1>10, <1>11, <1>12, <1>13 DEF WorkerStep

LEMMA TypesUnderGoogle ==
  ASSUME CalTypes, RequestsAreAwaited, GoogleStep
  PROVE  CalTypes'
<1> USE DEF CalTypes, CalTypeOK
<1>1. PICK x \in inFlight :
        Land(x) \/ Vanishes(x) \/ \E result \in Failures : Refused(x, result)
  BY DEF GoogleStep
<1>2. x \in Request /\ inFlight \ {x} \in SUBSET Request
  OBVIOUS
<1>3. CASE Land(x)
  <2>1. ASSUME NEW y \in Request  PROVE Outdated(y, x) \in Request
    BY DEF Outdated, Request
  <2>2. inFlight' \in SUBSET Request
    BY <1>2, <1>3, <2>1 DEF Land
  <2>3. provider' \in [Calendars -> [Schedules -> Rev]]
    BY <1>2, <1>3, CalAssumption DEF Land, Request, Rev
  <2>4. ASSUME NEW w \in Workers  PROVE ClaimTyped(workers'[w])
    <3>1. ClaimTyped(workers[w])
      BY DEF WorkersTyped
    <3>2. CASE x.by = w
      <4>1. workers[w].pc = "sent"
        BY <3>2, CalAssumption DEF RequestsAreAwaited, RequestIsOf
      <4>2. \A result \in Status : ClaimTyped(Concluded(workers[w], result))
        BY <3>1, <4>1, ConcludedTyped
      <4>3. ClaimTyped([workers[w] EXCEPT !.pc = "conflicted"])
        BY <3>1, <4>1 DEF ClaimTyped, Worker
      <4>4. ClaimTyped(Answered(workers[w], x))
        BY <4>2, <4>3 DEF Answered, Status
      <4> QED  BY <1>3, <3>2, <4>4 DEF Land
    <3>3. CASE x.by # w
      <4>1. ClaimTyped(Outdated(workers[w], x))
        BY <3>1 DEF ClaimTyped, Worker, Outdated
      <4> QED  BY <1>3, <3>3, <4>1 DEF Land
    <3> QED  BY <3>2, <3>3
  <2>5. workers' \in [Workers -> Worker]
    <3>1. workers' = [w \in Workers |-> workers'[w]]
      BY <1>3 DEF Land
    <3> QED  BY <2>4, <3>1 DEF ClaimTyped
  <2> QED  BY <1>3, <2>2, <2>3, <2>4, <2>5 DEF Land, localVars, WorkersTyped
<1>4. CASE Vanishes(x)
  BY <1>2, <1>4 DEF Vanishes, localVars, WorkersTyped
<1>5. ASSUME NEW result \in Failures, Refused(x, result)  PROVE CalTypes'
  <2>1. x.by \in Workers /\ x.by # NoWorker
    BY <1>2, <1>5 DEF Refused, Request
  <2>2. ClaimTyped(workers[x.by]) /\ workers[x.by].pc = "sent"
    BY <2>1 DEF WorkersTyped, RequestsAreAwaited, RequestIsOf
  <2>3. ClaimTyped(Concluded(workers[x.by], result))
    BY <2>2, ConcludedTyped DEF Failures
  <2>4. workers' \in [Workers -> Worker] /\ WorkersTyped'
    BY <1>5, <2>1, <2>3, OneWorkerTyped DEF Refused, Conclude
  <2> QED  BY <1>2, <1>5, <2>4 DEF Refused, localVars
<1> QED  BY <1>1, <1>3, <1>4, <1>5

LEMMA TypesStep ==
  CalTypes /\ RequestsAreAwaited /\ [CalNext]_vars => CalTypes'
<1> SUFFICES ASSUME CalTypes, RequestsAreAwaited, [CalNext]_vars  PROVE CalTypes'
  OBVIOUS
<1>1. CASE UNCHANGED vars
  BY <1>1 DEF vars, localVars, CalTypes, CalTypeOK, WorkersTyped
<1>2. CASE CalNext
  BY <1>2, TypesUnderUsers, TypesUnderSchedulers, TypesUnderWorkers, TypesUnderGoogle
     DEF CalNext
<1> QED  BY <1>1, <1>2
----------------------------------------------------------------------------
(* What the steps have in common.                                          *)

\* Users, schedulers and the postponement of a row touch no claim and no request.
Quiet == UNCHANGED <<workers, inFlight, provider>>

LEMMA QuietSteps ==
  ASSUME \/ UserStep
         \/ \E s \in Schedules :
              LeaseExpires(s) \/ AuditDue(s) \/ \E r \in Rev : Consume(s, r)
         \/ Backfill
         \/ \E s \in Schedules, w \in Workers : Postpone(w, s)
  PROVE  Quiet
BY DEF UserStep, Confirm, Update, Cancel, Change, Retry, Bind, Disconnect, ChangeRole,
       ChangeGrant, LeaseExpires, AuditDue, Consume, Backfill, Postpone, Quiet

\* A worker moves neither the schedules nor the calendars nor another worker.
LEMMA WorkersStepAlone ==
  ASSUME CalTypes, NEW w \in Workers, WorkerStep(w)
  PROVE  /\ UNCHANGED <<localVars, provider>>
         /\ workers' = [workers EXCEPT ![w] = workers'[w]]
<1>1. workers \in [Workers -> Worker]
  BY DEF CalTypes, CalTypeOK
<1>2. UNCHANGED <<localVars, provider>>
  BY DEF WorkerStep, Claim, Postpone, CredentialFails, Attach, Stale, Look, LookFails,
         Send, TimesOut, Complete, Crash
<1>3. \/ workers' = workers
      \/ \E c : workers' = [workers EXCEPT ![w] = c]
  BY DEF WorkerStep, Claim, Postpone, CredentialFails, Attach, Stale, Look, LookFails,
         Send, TimesOut, Complete, Crash, Forget, Conclude
<1> QED  BY <1>1, <1>2, <1>3

LEMMA GoogleChangesNoSchedule ==
  ASSUME GoogleStep \/ Tick
  PROVE  UNCHANGED <<localVars, rank>>
BY DEF GoogleStep, Land, Vanishes, Refused, Tick

\* A schedule only gets newer, and stays cancelled.
LEMMA SchedulesGrow ==
  ASSUME CalTypes, [CalNext]_vars, NEW s \in Schedules
  PROVE  /\ Cancelled(s) => Cancelled(s)'
         /\ \/ schedules'[s] = schedules[s]
            \/ schedules'[s].rev = schedules[s].rev + 1
<1>1. CASE ScheduleChanges
  <2>1. PICK t \in Schedules :
          \/ schedules[t].status = "DRAFT" /\ Change(t, "CONFIRMED")
          \/ schedules[t].status = "CONFIRMED" /\ Change(t, "CONFIRMED")
          \/ schedules[t].status = "CONFIRMED" /\ Change(t, "CANCELLED")
    BY <1>1 DEF ScheduleChanges
  <2>2. CASE s = t
    BY <2>1, <2>2 DEF Change, Cancelled, CalTypes, CalTypeOK
  <2>3. CASE s # t
    BY <2>1, <2>3 DEF Change, Cancelled, CalTypes, CalTypeOK
  <2> QED  BY <2>2, <2>3
<1>2. CASE schedules' = schedules
  BY <1>2 DEF Cancelled
<1>3. ScheduleChanges \/ schedules' = schedules
  <2>1. UserStep => ScheduleChanges \/ schedules' = schedules
    BY DEF UserStep, ScheduleChanges, Confirm, Update, Cancel, Retry, Bind, Disconnect,
           ChangeRole, ChangeGrant, localVars
  <2>2. \A w \in Workers : WorkerStep(w) => schedules' = schedules
    BY WorkersStepAlone DEF localVars
  <2> QED
    BY <2>1, <2>2, GoogleChangesNoSchedule
       DEF CalNext, vars, localVars, LeaseExpires, AuditDue, Consume, Backfill
<1> QED  BY <1>1, <1>2, <1>3

\* A claim goes on as the same claim until its worker forgets it.
SameClaim(c, d) ==
  /\ c.pc # "idle"
  /\ d.s = c.s /\ d.target = c.target /\ d.rev = c.rev
  /\ d.cancelled = c.cancelled /\ d.audit = c.audit

LEMMA ClaimsGoOn ==
  ASSUME CalTypes, RequestsAreAwaited, [CalNext]_vars, NEW w \in Workers
  PROVE  \/ workers'[w].pc = "idle"
         \/ SameClaim(workers[w], workers'[w])
         \/ \E s \in Schedules : Claim(w, s)
<1> DEFINE c == workers[w]
           Goes == \/ workers'[w].pc = "idle"
                   \/ SameClaim(c, workers'[w])
                   \/ \E s \in Schedules : Claim(w, s)
<1>0. c \in Worker /\ workers \in [Workers -> Worker]
  BY DEF CalTypes, CalTypeOK
<1>1. workers'[w] = c => Goes
  BY DEF SameClaim
<1>2. ASSUME NEW result \in Status, c.pc # "idle"
      PROVE  SameClaim(c, Concluded(c, result))
  BY <1>0, <1>2 DEF SameClaim, Concluded, Worker
<1>3. Idle.pc = "idle"
  BY DEF Idle
<1>4. ASSUME NEW v \in Workers, WorkerStep(v)  PROVE Goes
  <2>1. CASE v # w
    BY <1>0, <1>1, <1>4, <2>1, WorkersStepAlone
  <2>2. CASE v = w
    <3>1. CASE Forget(w)
      BY <1>0, <1>3, <3>1 DEF Forget
    <3>2. ASSUME NEW result \in Status, c.pc # "idle", Conclude(w, result)  PROVE Goes
      BY <1>0, <1>2, <3>2 DEF Conclude
    <3>3. CASE Attach(w)
      BY <1>0, <1>3, <3>3 DEF Attach, SameClaim, Worker
    <3>4. CASE Look(w)
      <4>1. \/ \E result \in Status : Conclude(w, result)
            \/ \E call, matches : workers' = [workers EXCEPT ![w] =
                 [c EXCEPT !.pc = "found", !.call = call, !.matches = matches]]
        BY <3>4 DEF Look, Status
      <4>2. c.pc # "idle"
        BY <3>4 DEF Look
      <4>3. ASSUME NEW call, NEW matches, workers' = [workers EXCEPT ![w] =
                 [c EXCEPT !.pc = "found", !.call = call, !.matches = matches]]
            PROVE  Goes
        <5>1. workers'[w] = [c EXCEPT !.pc = "found", !.call = call, !.matches = matches]
          BY <1>0, <4>3
        <5>2. SameClaim(c, workers'[w])
          BY <1>0, <4>2, <5>1 DEF SameClaim, Worker
        <5> QED  BY <5>2
      <4> QED  BY <3>2, <4>1, <4>2, <4>3
    <3>5. CASE Send(w)
      BY <1>0, <3>5 DEF Send, SameClaim, Worker
    <3>6. "PENDING" \in Status /\ Failures \subseteq Status
      BY DEF Status, Failures
    <3> QED
      BY <1>1, <1>4, <2>2, <3>1, <3>2, <3>3, <3>4, <3>5, <3>6
         DEF WorkerStep, Postpone, CredentialFails, Stale, LookFails, TimesOut, Complete, Crash
  <2> QED  BY <2>1, <2>2
<1>5. ASSUME GoogleStep  PROVE Goes
  <2>1. PICK x \in inFlight :
          Land(x) \/ Vanishes(x) \/ \E result \in Failures : Refused(x, result)
    BY <1>5 DEF GoogleStep
  <2>2. x.by = w => c.pc = "sent"
    BY CalAssumption DEF RequestsAreAwaited, RequestIsOf
  <2>3. CASE Land(x)
    <3>1. CASE x.by = w
      <4>1. SameClaim(c, Answered(c, x))
        BY <1>0, <1>2, <2>2, <3>1 DEF Answered, SameClaim, Worker, Status
      <4> QED  BY <2>3, <3>1, <4>1 DEF Land
    <3>2. CASE x.by # w
      <4>1. c.pc # "idle" => SameClaim(c, Outdated(c, x))
        BY <1>0 DEF Outdated, SameClaim, Worker
      <4>2. c.pc = "idle" => Outdated(c, x).pc = "idle"
        BY <1>0 DEF Outdated, Worker
      <4> QED  BY <2>3, <3>2, <4>1, <4>2 DEF Land
    <3> QED  BY <3>1, <3>2
  <2>4. CASE Vanishes(x)
    BY <1>1, <2>4 DEF Vanishes
  <2>5. ASSUME NEW result \in Failures, Refused(x, result)  PROVE Goes
    <3>1. CASE x.by = w
      BY <1>0, <1>2, <2>2, <2>5, <3>1 DEF Refused, Conclude, Failures
    <3>2. CASE x.by # w
      BY <1>0, <1>1, <2>5, <3>2 DEF Refused, Conclude
    <3> QED  BY <3>1, <3>2
  <2> QED  BY <2>1, <2>3, <2>4, <2>5
<1>6. CASE UNCHANGED vars \/ Tick
  BY <1>1, <1>6 DEF vars, Tick
<1> QED
  BY <1>1, <1>4, <1>5, <1>6, QuietSteps DEF CalNext, Quiet

LEMMA ClaimsKnowStep ==
  CalTypes /\ RowsFollow /\ RequestsAreAwaited /\ ClaimsKnow /\ [CalNext]_vars => ClaimsKnow'
<1> SUFFICES ASSUME CalTypes, RowsFollow, RequestsAreAwaited, ClaimsKnow, [CalNext]_vars,
                    NEW w \in Workers, Busy(w)'
             PROVE  ClaimKnows(w)'
  BY DEF ClaimsKnow
<1>0. CalTypes'
  BY TypesStep
<1>1. ASSUME NEW s \in Schedules, Claim(w, s)  PROVE ClaimKnows(w)'
  <2>1. schedules' = schedules /\ rows[s].status # "ABSENT"
    BY <1>1 DEF Claim, localVars, Oldest, Claimable
  <2>2. schedules[s].rev # 0 /\ schedules[s].rev \in Nat
    BY <2>1 DEF RowsFollow, CalTypes, CalTypeOK, Rev
  <2>3. workers'[w] = [Idle EXCEPT !.pc = "claimed", !.s = s, !.target = calendar.target,
                         !.binding = calendar.binding, !.rev = schedules[s].rev,
                         !.cancelled = Cancelled(s), !.audit = IsAudit(s)]
    BY <1>1 DEF Claim, CalTypes, CalTypeOK
  <2>4. /\ workers'[w].s = s /\ workers'[w].rev = schedules[s].rev
        /\ workers'[w].cancelled <=> Cancelled(s)
        /\ workers'[w].audit <=> IsAudit(s)
    BY <2>3 DEF Idle
  <2>5. IsAudit(s) => Cancelled(s)
    BY DEF IsAudit
  <2>6. Cancelled(workers[w].s)' <=> Cancelled(s)
    BY <2>1, <2>4 DEF Cancelled
  <2>7. schedules'[workers'[w].s].rev = schedules[s].rev
    BY <2>1, <2>4
  <2> QED  BY <2>2, <2>4, <2>5, <2>6, <2>7 DEF ClaimKnows
<1>2. CASE SameClaim(workers[w], workers'[w])
  <2>0. PICK s \in Schedules : s = workers[w].s
    BY <1>2 DEF SameClaim, CalTypes, WorkersTyped, ClaimTyped
  <2>1. Busy(w) /\ ClaimKnows(w)
    BY <1>2 DEF SameClaim, Busy, ClaimsKnow, CalTypes, WorkersTyped, ClaimTyped
  <2>2. /\ workers'[w].s = s /\ workers'[w].rev = workers[w].rev
        /\ workers'[w].cancelled = workers[w].cancelled
        /\ workers'[w].audit = workers[w].audit
    BY <1>2, <2>0 DEF SameClaim
  <2>3. schedules[s].rev \in Nat /\ workers[w].rev \in Nat
    BY <2>1 DEF CalTypes, CalTypeOK, Rev, Worker
  <2>4. /\ Cancelled(s) => Cancelled(s)'
        /\ schedules'[s] = schedules[s] \/ schedules'[s].rev = schedules[s].rev + 1
    BY SchedulesGrow
  <2>5. CASE schedules'[s] = schedules[s]
    BY <2>0, <2>1, <2>2, <2>5 DEF ClaimKnows, Cancelled
  <2>6. CASE schedules'[s].rev = schedules[s].rev + 1
    BY <2>0, <2>1, <2>2, <2>3, <2>4, <2>6 DEF ClaimKnows, Cancelled
  <2> QED  BY <2>4, <2>5, <2>6
<1> QED  BY <1>1, <1>2, ClaimsGoOn DEF Busy
\* A request goes on as the same request until it lands, is refused or vanishes.
SameRequest(x, y) ==
  /\ y.s = x.s /\ y.target = x.target /\ y.rev = x.rev /\ y.call = x.call
  /\ y.fresh = x.fresh
  /\ y.by = x.by \/ y.by = NoWorker
  /\ y.matches =>
       x.matches /\ provider'[x.target][x.s] = provider[x.target][x.s]

SameAge(x, y) == y.life = x.life \/ Tick

LEMMA RequestsGoOn ==
  ASSUME CalTypes, [CalNext]_vars, NEW y \in inFlight'
  PROVE  \/ \E x \in inFlight : SameRequest(x, y) /\ SameAge(x, y)
         \/ \E w \in Workers : Send(w) /\ y = RequestOf(w)
<1> DEFINE Goes == \/ \E x \in inFlight : SameRequest(x, y) /\ SameAge(x, y)
                   \/ \E w \in Workers : Send(w) /\ y = RequestOf(w)
<1>0. inFlight \in SUBSET Request /\ provider \in [Calendars -> [Schedules -> Rev]]
  BY DEF CalTypes, CalTypeOK
<1>1. ASSUME inFlight' \subseteq inFlight, provider' = provider  PROVE Goes
  BY <1>1 DEF SameRequest, SameAge
<1>2. ASSUME NEW w \in Workers, WorkerStep(w)  PROVE Goes
  <2>1. provider' = provider
    BY <1>2, WorkersStepAlone
  <2>2. CASE inFlight' = inFlight
    BY <1>1, <2>1, <2>2
  <2>3. CASE Send(w)
    <3>1. inFlight' = inFlight \cup {RequestOf(w)}
      BY <2>3 DEF Send
    <3>2. CASE y \in inFlight
      BY <2>1, <3>2 DEF SameRequest, SameAge
    <3> QED  BY <2>3, <3>1, <3>2
  <2>4. CASE inFlight' = Abandoned(w)
    <3>1. PICK x \in inFlight : y = IF x.by = w THEN [x EXCEPT !.by = NoWorker] ELSE x
      BY <2>4 DEF Abandoned
    <3>2. SameRequest(x, y) /\ y.life = x.life
      BY <1>0, <2>1, <3>1 DEF SameRequest, Request
    <3> QED  BY <3>2 DEF SameAge
  <2> QED
    BY <1>2, <2>2, <2>3, <2>4
       DEF WorkerStep, Claim, Postpone, CredentialFails, Attach, Stale, Look, LookFails,
           TimesOut, Complete, Crash, localVars
<1>3. ASSUME GoogleStep  PROVE Goes
  <2>1. PICK z \in inFlight :
          Land(z) \/ Vanishes(z) \/ \E result \in Failures : Refused(z, result)
    BY <1>3 DEF GoogleStep
  <2>2. CASE Land(z)
    <3>1. PICK x \in inFlight : y = Outdated(x, z)
      BY <2>2 DEF Land
    <3>2. x \in Request /\ z \in Request
      BY <1>0
    <3>3. /\ y.s = x.s /\ y.target = x.target /\ y.rev = x.rev /\ y.call = x.call
          /\ y.fresh = x.fresh /\ y.by = x.by /\ y.life = x.life
          /\ y.matches => x.matches
      BY <3>1, <3>2 DEF Outdated, Request
    <3>4. y.matches => ~Applies(z) \/ x.s # z.s \/ x.target # z.target
      BY <3>1, <3>2 DEF Outdated, Request
    <3>5. y.matches => provider'[x.target][x.s] = provider[x.target][x.s]
      <4>1. CASE ~Applies(z)
        BY <2>2, <4>1 DEF Land
      <4>2. CASE Applies(z)
        <5>1. \E r : provider' = [provider EXCEPT ![z.target] = [@ EXCEPT ![z.s] = r]]
          BY <2>2, <4>2 DEF Land
        <5> QED  BY <1>0, <3>2, <3>4, <4>2, <5>1 DEF Request
      <4> QED  BY <4>1, <4>2
    <3> QED  BY <3>3, <3>5 DEF SameRequest, SameAge
  <2>3. CASE Vanishes(z) \/ \E result \in Failures : Refused(z, result)
    BY <1>1, <2>3 DEF Vanishes, Refused
  <2> QED  BY <2>1, <2>2, <2>3
<1>4. CASE Tick
  <2>1. PICK x \in inFlight : y = [x EXCEPT !.life = @ - 1]
    BY <1>4 DEF Tick
  <2>2. SameRequest(x, y)
    BY <1>0, <1>4, <2>1 DEF SameRequest, Request, Tick
  <2> QED  BY <1>4, <2>2 DEF SameAge
<1>5. CASE UNCHANGED vars
  BY <1>1, <1>5 DEF vars
<1>6. CASE Quiet
  BY <1>1, <1>6 DEF Quiet
<1> QED  BY <1>2, <1>3, <1>4, <1>5, <1>6, QuietSteps DEF CalNext

LEMMA RequestsVouchStep ==
  CalTypes /\ Barriers /\ [CalNext]_vars => RequestsVouch'
<1> SUFFICES ASSUME CalTypes, Barriers, [CalNext]_vars, NEW y \in inFlight'
             PROVE  RequestVouches(y)'
  BY DEF RequestsVouch
<1> USE DEF Barriers
<1>0. CalTypes'
  BY TypesStep
<1>1. ASSUME NEW x \in inFlight, SameRequest(x, y)  PROVE RequestVouches(y)'
  <2>1. RequestVouches(x) /\ x \in Request
    BY DEF RequestsVouch, CalTypes, CalTypeOK
  <2>2. PICK s \in Schedules : s = x.s
    BY <2>1 DEF Request
  <2>3. schedules[s].rev \in Nat /\ x.rev \in Nat
    BY <2>1, <2>2 DEF CalTypes, CalTypeOK, Rev, Request
  <2>4. x.rev <= schedules'[s].rev
    BY <2>1, <2>2, <2>3, SchedulesGrow DEF RequestVouches
  <2>5. x.call = "DELETE" => Cancelled(s)'
    BY <2>1, <2>2, SchedulesGrow DEF RequestVouches
  <2>6. y.matches => provider'[x.target][s] <= x.rev
    BY <1>1, <2>1, <2>2 DEF RequestVouches, EtagVouches, SameRequest
  <2> QED
    BY <1>1, <2>2, <2>4, <2>5, <2>6 DEF RequestVouches, EtagVouches, SameRequest, Cancelled
<1>2. ASSUME NEW w \in Workers, Send(w), y = RequestOf(w)  PROVE RequestVouches(y)'
  <2>1. UNCHANGED <<schedules, provider>> /\ workers[w].pc = "found"
    BY <1>2 DEF Send, localVars
  <2>2. ClaimKnows(w)
    BY <2>1 DEF ClaimsKnow, Busy
  <2>3. /\ workers[w].call = "DELETE" <=> workers[w].cancelled
        /\ EtagVouches(workers[w].matches, workers[w].rev, workers[w].target, workers[w].s)
    BY <2>1 DEF LooksVouch
  <2>4. /\ y.s = workers[w].s /\ y.target = workers[w].target /\ y.rev = workers[w].rev
        /\ y.call = workers[w].call /\ y.matches = workers[w].matches
    BY <1>2 DEF RequestOf
  <2>5. RequestVouches(y)
    BY <2>2, <2>3, <2>4 DEF RequestVouches, EtagVouches, ClaimKnows
  <2> QED  BY <2>1, <2>5 DEF RequestVouches, EtagVouches, Cancelled
<1> QED  BY <1>1, <1>2, RequestsGoOn
LEMMA RequestsAreAwaitedStep ==
  CalTypes /\ Barriers /\ [CalNext]_vars => RequestsAreAwaited'
<1> SUFFICES ASSUME CalTypes, Barriers, [CalNext]_vars  PROVE RequestsAreAwaited'
  OBVIOUS
<1> USE DEF Barriers
<1>0. inFlight \in SUBSET Request /\ workers \in [Workers -> Worker]
  BY DEF CalTypes, CalTypeOK
<1>1. CASE UNCHANGED <<workers, inFlight>>
  BY <1>1 DEF RequestsAreAwaited, RequestIsOf
<1>2. ASSUME NEW w \in Workers, WorkerStep(w)  PROVE RequestsAreAwaited'
  <2>0. w # NoWorker /\ \A v \in Workers : v # w => workers'[v] = workers[v]
    BY <1>0, <1>2, WorkersStepAlone, CalAssumption
  <2>1. CASE inFlight' = inFlight /\ workers[w].pc # "sent"
    BY <2>0, <2>1, <1>0 DEF RequestsAreAwaited, RequestIsOf, Request
  <2>2. CASE inFlight' = Abandoned(w)
    <3>1. ASSUME NEW x \in inFlight', x.by # NoWorker
          PROVE  x \in inFlight /\ x.by # w
      BY <1>0, <2>0, <2>2, <3>1 DEF Abandoned, Request
    <3> QED  BY <1>0, <2>0, <3>1 DEF RequestsAreAwaited, RequestIsOf, Request
  <2>3. CASE Send(w)
    <3>1. /\ workers[w].pc = "found" /\ inFlight' = inFlight \cup {RequestOf(w)}
          /\ workers'[w] = [workers[w] EXCEPT !.pc = "sent", !.call = "GET",
                                              !.matches = FALSE]
      BY <1>0, <2>3 DEF Send
    <3>2. \A x \in inFlight : x.by # w
      BY <2>0, <3>1 DEF RequestsAreAwaited, RequestIsOf
    <3>3. RequestOf(w).by = w
      BY DEF RequestOf
    <3>4. ASSUME NEW x, x = RequestOf(w)  PROVE RequestIsOf(x, w)'
      <4>1. workers[w].call = "DELETE" <=> workers[w].cancelled
        BY <3>1 DEF LooksVouch
      <4>2. /\ workers'[w].pc = "sent" /\ workers'[w].s = workers[w].s
            /\ workers'[w].target = workers[w].target /\ workers'[w].rev = workers[w].rev
            /\ workers'[w].cancelled = workers[w].cancelled
        BY <1>0, <3>1 DEF Worker
      <4> QED  BY <3>4, <4>1, <4>2 DEF RequestIsOf, RequestOf
    <3>5. ASSUME NEW x \in inFlight, x.by # NoWorker
          PROVE  RequestIsOf(x, x.by)'
      BY <1>0, <2>0, <3>2, <3>5 DEF RequestsAreAwaited, RequestIsOf, Request
    <3>6. ASSUME NEW x \in inFlight', x.by # NoWorker  PROVE RequestIsOf(x, x.by)'
      BY <3>1, <3>3, <3>4, <3>5, <3>6
    <3>7. ASSUME NEW x \in inFlight', NEW y \in inFlight', x.by = y.by, x.by # NoWorker
          PROVE  x = y
      BY <3>1, <3>2, <3>3, <3>7 DEF RequestsAreAwaited
    <3> QED  BY <3>6, <3>7 DEF RequestsAreAwaited
  <2> QED
    BY <1>1, <1>2, <2>1, <2>2, <2>3
       DEF WorkerStep, Claim, Postpone, CredentialFails, Attach, Stale, Look, LookFails,
           TimesOut, Complete, Crash, localVars
<1>3. ASSUME NEW z \in inFlight, Land(z)  PROVE RequestsAreAwaited'
  <2>1. \A y \in inFlight' : \E x \in inFlight \ {z} : y = Outdated(x, z)
    BY <1>3 DEF Land
  <2>2. ASSUME NEW x \in inFlight
        PROVE  /\ Outdated(x, z).by = x.by /\ Outdated(x, z).s = x.s
               /\ Outdated(x, z).target = x.target /\ Outdated(x, z).rev = x.rev
               /\ Outdated(x, z).call = x.call
    BY <1>0 DEF Outdated, Request
  <2>3. ASSUME NEW x \in inFlight \ {z}, x.by # NoWorker
        PROVE  /\ workers'[x.by].pc = workers[x.by].pc
               /\ workers'[x.by].s = workers[x.by].s
               /\ workers'[x.by].target = workers[x.by].target
               /\ workers'[x.by].rev = workers[x.by].rev
               /\ workers'[x.by].cancelled = workers[x.by].cancelled
    <3>1. x.by \in Workers /\ z.by # x.by
      BY <1>0, <2>3 DEF RequestsAreAwaited, Request
    <3>2. workers'[x.by] = Outdated(workers[x.by], z)
      BY <1>3, <3>1 DEF Land
    <3> QED  BY <1>0, <3>1, <3>2 DEF Outdated, Worker
  <2>4. ASSUME NEW y \in inFlight', y.by # NoWorker  PROVE RequestIsOf(y, y.by)'
    <3>1. PICK x \in inFlight \ {z} : y = Outdated(x, z)
      BY <2>1
    <3>2. RequestIsOf(x, x.by) /\ x.by = y.by
      BY <2>2, <2>4, <3>1 DEF RequestsAreAwaited
    <3> QED  BY <2>2, <2>3, <2>4, <3>1, <3>2 DEF RequestIsOf
  <2>5. ASSUME NEW y \in inFlight', NEW v \in inFlight', v.by = y.by, y.by # NoWorker
        PROVE  v = y
    BY <2>1, <2>2, <2>5 DEF RequestsAreAwaited
  <2> QED  BY <2>4, <2>5 DEF RequestsAreAwaited
<1>4. ASSUME NEW z \in inFlight, Vanishes(z)  PROVE RequestsAreAwaited'
  BY <1>4 DEF Vanishes, RequestsAreAwaited, RequestIsOf
<1>5. ASSUME NEW z \in inFlight, NEW result \in Failures, Refused(z, result)
      PROVE  RequestsAreAwaited'
  <2>1. inFlight' = inFlight \ {z} /\ z.by # NoWorker
    BY <1>5 DEF Refused
  <2>2. ASSUME NEW x \in inFlight', x.by # NoWorker
        PROVE  x.by \in Workers /\ workers'[x.by] = workers[x.by]
    <3>1. x.by \in Workers /\ x.by # z.by
      BY <1>0, <2>1, <2>2 DEF RequestsAreAwaited, Request
    <3> QED  BY <1>0, <1>5, <3>1 DEF Refused, Conclude
  <2> QED  BY <2>1, <2>2 DEF RequestsAreAwaited, RequestIsOf
<1>6. CASE Tick
  <2>1. \A y \in inFlight' : y.by = NoWorker
    BY <1>0, <1>6 DEF Tick, Request
  <2> QED  BY <2>1 DEF RequestsAreAwaited
<1> QED
  BY <1>1, <1>2, <1>3, <1>4, <1>5, <1>6, QuietSteps
     DEF CalNext, GoogleStep, Quiet, vars

LEMMA LooksVouchStep ==
  CalTypes /\ Barriers /\ [CalNext]_vars => LooksVouch'
<1> SUFFICES ASSUME CalTypes, Barriers, [CalNext]_vars, NEW w \in Workers
             PROVE  LET c == workers'[w]
                    IN /\ c.matches => c.pc = "found"
                       /\ c.pc = "found" =>
                            /\ c.call = "DELETE" <=> c.cancelled
                            /\ c.matches => provider'[c.target][c.s] <= c.rev
  BY DEF LooksVouch, EtagVouches
<1> USE DEF Barriers
<1> DEFINE c == workers[w]
           Vouches(d) == /\ d.matches => d.pc = "found"
                         /\ d.pc = "found" =>
                              /\ d.call = "DELETE" <=> d.cancelled
                              /\ d.matches => provider'[d.target][d.s] <= d.rev
<1> SUFFICES Vouches(workers'[w])
  OBVIOUS
<1>0. c \in Worker /\ ClaimTyped(c) /\ workers \in [Workers -> Worker]
  BY DEF CalTypes, CalTypeOK, WorkersTyped
<1>1. provider' = provider => Vouches(c)
  BY DEF LooksVouch, EtagVouches
<1>2. \A d : d.pc # "found" /\ d.matches = FALSE => Vouches(d)
  OBVIOUS
<1>3. \A result : Vouches(Concluded(c, result)) /\ Vouches(Idle)
  BY <1>0 DEF Concluded, Idle, Worker
<1>4. CASE UNCHANGED <<workers, provider>>
  BY <1>1, <1>4
<1>5. ASSUME NEW v \in Workers, WorkerStep(v)  PROVE Vouches(workers'[w])
  <2>1. provider' = provider
    BY <1>5, WorkersStepAlone
  <2>2. CASE v # w
    BY <1>0, <1>1, <1>5, <2>1, <2>2, WorkersStepAlone
  <2>3. CASE v = w
    <3>1. CASE Forget(w) \/ \E result : Conclude(w, result)
      BY <1>0, <1>3, <3>1 DEF Forget, Conclude
    <3>2. CASE Attach(w)
      <4>1. ~c.matches
        BY <3>2 DEF Attach, LooksVouch
      <4> QED  BY <1>0, <1>3, <3>2, <4>1 DEF Attach, Worker
    <3>3. CASE Look(w)
      <4> DEFINE copy == provider[c.target][c.s]
                 call == CallFor(w, copy)
      <4>1. \/ \E result : Conclude(w, result)
            \/ Owned(w, copy) /\ workers' = [workers EXCEPT ![w] =
                 [c EXCEPT !.pc = "found", !.call = call, !.matches = copy # 0]]
        BY <3>3 DEF Look
      <4>2. call = "DELETE" <=> c.cancelled
        BY DEF CallFor
      <4>3. ASSUME NEW matches \in BOOLEAN, Owned(w, copy)
            PROVE  Vouches([c EXCEPT !.pc = "found", !.call = call, !.matches = matches])
        BY <1>0, <2>1, <4>2, <4>3 DEF Owned, Worker
      <4>4. (copy # 0) \in BOOLEAN
        OBVIOUS
      <4> HIDE DEF copy, call
      <4> QED  BY <1>0, <3>1, <4>1, <4>3, <4>4
    <3>4. CASE Send(w)
      BY <1>0, <3>4 DEF Send, Worker
    <3>5. CASE \E s \in Schedules : Claim(w, s)
      BY <1>0, <3>5 DEF Claim, Idle
    <3> QED
      BY <1>4, <1>5, <2>1, <2>3, <3>1, <3>2, <3>3, <3>4, <3>5
         DEF WorkerStep, Postpone, CredentialFails, Stale, LookFails, TimesOut, Complete, Crash
  <2> QED  BY <2>2, <2>3
<1>6. ASSUME NEW x \in inFlight, Land(x)  PROVE Vouches(workers'[w])
  <2>0. x \in Request /\ provider \in [Calendars -> [Schedules -> Rev]]
    BY DEF CalTypes, CalTypeOK
  <2>1. CASE x.by = w
    <3>1. c.pc = "sent" /\ ~c.matches
      BY <2>1, CalAssumption DEF RequestsAreAwaited, RequestIsOf, LooksVouch
    <3>2. Vouches([c EXCEPT !.pc = "conflicted"])
      BY <1>0, <3>1 DEF Worker
    <3> QED  BY <1>3, <1>6, <2>1, <3>2 DEF Land, Answered
  <2>2. CASE x.by # w
    <3>1. workers'[w] = Outdated(c, x)
      BY <1>6, <2>2 DEF Land
    <3>2. CASE Outdated(c, x) # c \/ c.pc # "found" \/ ~c.matches
      BY <1>0, <3>1, <3>2 DEF Outdated, Worker, LooksVouch
    <3>3. CASE Outdated(c, x) = c /\ c.pc = "found" /\ c.matches
      <4>1. ~Applies(x) \/ c.s # x.s \/ c.target # x.target
        BY <1>0, <3>3 DEF Outdated, Worker
      <4>2. c.s \in Schedules /\ c.target \in Calendars
        BY <1>0, <3>3 DEF ClaimTyped
      <4>3. provider'[c.target][c.s] = provider[c.target][c.s]
        <5>1. CASE ~Applies(x)
          BY <1>6, <5>1 DEF Land
        <5>2. CASE Applies(x)
          <6>1. \E r : provider' = [provider EXCEPT ![x.target] = [@ EXCEPT ![x.s] = r]]
            BY <1>6, <5>2 DEF Land
          <6> QED  BY <2>0, <4>1, <4>2, <5>2, <6>1 DEF Request
        <5> QED  BY <5>1, <5>2
      <4> QED  BY <3>1, <3>3, <4>3 DEF LooksVouch, EtagVouches
    <3> QED  BY <3>2, <3>3
  <2> QED  BY <2>1, <2>2
<1>7. ASSUME NEW x \in inFlight, NEW result \in Failures, Refused(x, result)
      PROVE  Vouches(workers'[w])
  BY <1>0, <1>1, <1>3, <1>7 DEF Refused, Conclude
<1> QED
  BY <1>4, <1>5, <1>6, <1>7, QuietSteps DEF CalNext, GoogleStep, Quiet, vars, Vanishes, Tick
----------------------------------------------------------------------------
(* What the steps make of a row.                                           *)

\* A row that stays or becomes SYNCED was so before, is audited for a cancelled
\* schedule, or is completed by a claim whose barriers stand.
BecomesSynced(s, new) ==
  \/ /\ rows[s].status = "SYNCED" /\ new.rev = rows[s].rev
     /\ new.until > 0 => rows[s].until > 0
     /\ rows[s].next # "none" => new.next # "none"
  \/ Cancelled(s) /\ (new.until > 0 => new.next # "none")
  \/ \E w \in Workers :
       /\ Complete(w) /\ workers[w].s = s /\ workers[w].result = "SYNCED" /\ Stands(w)
       /\ workers[w].cancelled /\ new.until > 0 => new.next # "none"

RowMoves(s, new) ==
  /\ \/ new.rev = rows[s].rev
     \/ new.rev = schedules[s].rev
     \/ <<s, new.rev>> \in published
  /\ new.status # "ABSENT" => rows[s].status # "ABSENT" \/ schedules[s].rev # 0
  /\ new.until >= rows[s].until \/ Tick
  /\ new.status = "SYNCED" => BecomesSynced(s, new)

\* A row that changes only in its claim, or moves on to its next audit.
LEMMA SameRowMoves ==
  ASSUME CalTypes, NEW s \in Schedules, NEW new \in Row,
         new.status = rows[s].status, new.rev = rows[s].rev, new.until = rows[s].until,
         rows[s].next # "none" => new.next # "none"
  PROVE  RowMoves(s, new)
<1>1. rows[s].until \in Nat
  BY CalAssumption DEF CalTypes, CalTypeOK, Row
<1> QED  BY <1>1 DEF RowMoves, BecomesSynced

\* A row that is queued again, or shows a failure.
LEMMA UnsyncedRowMoves ==
  ASSUME CalTypes, NEW s \in Schedules, NEW new \in Row,
         new.status # "SYNCED",
         rows[s].status # "ABSENT" \/ schedules[s].rev # 0,
         new.rev = rows[s].rev \/ new.rev = schedules[s].rev \/ <<s, new.rev>> \in published,
         new.until = rows[s].until \/ new.until = Window
  PROVE  RowMoves(s, new)
<1>1. rows[s].until \in 0 .. Window /\ Window \in Nat
  BY CalAssumption DEF CalTypes, CalTypeOK, Row
<1> QED  BY <1>1 DEF RowMoves

\* An audit that keeps or restores the row of a cancelled schedule.
LEMMA AuditedRowMoves ==
  ASSUME CalTypes, NEW s \in Schedules, NEW row \in Row, Cancelled(s), schedules[s].rev # 0,
         row.rev = rows[s].rev, row.until = rows[s].until
  PROVE  RowMoves(s, Preserved([row EXCEPT !.status = "SYNCED"]))
<1> DEFINE new == Preserved([row EXCEPT !.status = "SYNCED"])
<1>1. /\ new.rev = rows[s].rev /\ new.until = rows[s].until
      /\ new.until > 0 => new.next = "later"
  BY DEF Preserved, Row
<1>2. rows[s].until \in Nat
  BY CalAssumption DEF CalTypes, CalTypeOK, Row
<1> HIDE DEF new
<1>3. BecomesSynced(s, new)
  BY <1>1 DEF BecomesSynced
<1>4. RowMoves(s, new)
  BY <1>1, <1>2, <1>3 DEF RowMoves
<1> QED  BY <1>4 DEF new

LEMMA ReleasedRowMoves ==
  ASSUME CalTypes, ClaimsKnow, NEW w \in Workers, Busy(w)
  PROVE  RowMoves(workers[w].s, Released(w, rows[workers[w].s]))
<1>1. PICK s \in Schedules : s = workers[w].s
  BY DEF CalTypes, WorkersTyped, ClaimTyped, Busy
<1>2. ClaimKnows(w) /\ rows[s] \in Row
  BY DEF ClaimsKnow, CalTypes, CalTypeOK
<1>3. /\ Freed(rows[s]) \in Row /\ Freed(rows[s]).status = rows[s].status
      /\ Freed(rows[s]).rev = rows[s].rev /\ Freed(rows[s]).until = rows[s].until
      /\ Freed(rows[s]).next = rows[s].next
  BY <1>2, RowsTyped DEF Freed, Row
<1>4. RowMoves(s, Freed(rows[s]))
  BY <1>3, SameRowMoves
<1>5. workers[w].audit =>
        RowMoves(s, Preserved([Freed(rows[s]) EXCEPT !.status = "SYNCED"]))
  BY <1>1, <1>2, <1>3, AuditedRowMoves DEF ClaimKnows
<1> QED  BY <1>1, <1>4, <1>5 DEF Released

LEMMA CompletedRowMoves ==
  ASSUME CalTypes, ClaimsKnow, NEW w \in Workers, Complete(w)
  PROVE  RowMoves(workers[w].s, Completed(w, rows[workers[w].s]))
<1>0. workers[w].pc = "done" /\ Busy(w)
  BY DEF Complete, Busy
<1>1. PICK s \in Schedules : s = workers[w].s
  BY <1>0 DEF CalTypes, WorkersTyped, ClaimTyped
<1> DEFINE row == Freed(rows[s])
<1>2. ClaimKnows(w) /\ rows[s] \in Row
  BY <1>0 DEF ClaimsKnow, CalTypes, CalTypeOK
<1>3. /\ row \in Row /\ row.status = rows[s].status /\ row.rev = rows[s].rev
      /\ row.until = rows[s].until /\ row.next = rows[s].next
  BY <1>2, RowsTyped DEF Freed, Row
<1>4. schedules[s].rev # 0 /\ (workers[w].audit => Cancelled(s))
  BY <1>1, <1>2 DEF ClaimKnows
<1> HIDE DEF row
<1>5. RowMoves(s, row)
  BY <1>3, SameRowMoves
<1>6. workers[w].audit => RowMoves(s, Preserved([row EXCEPT !.status = "SYNCED"]))
  BY <1>3, <1>4, AuditedRowMoves
<1>7. RowMoves(s, Superseded(w, rows[s]))
  <2>1. RowMoves(s, [row EXCEPT !.status = "PENDING"])
    <3>1. [row EXCEPT !.status = "PENDING"] \in Row
      BY <1>3 DEF Row, Status
    <3> QED  BY <1>3, <1>4, <3>1, UnsyncedRowMoves DEF Row
  <2>2. RowMoves(s, Uncertain([row EXCEPT !.status = "PENDING"]))
    <3> DEFINE queued == [row EXCEPT !.status = "PENDING"]
    <3>1. /\ queued \in Row /\ queued.status = "PENDING" /\ queued.rev = rows[s].rev
          /\ queued.until = rows[s].until
      BY <1>3 DEF Row, Status
    <3> HIDE DEF queued
    <3>2. Uncertain(queued) \in Row
      BY <3>1, RowsTyped
    <3>3. /\ Uncertain(queued).status = "PENDING" /\ Uncertain(queued).rev = rows[s].rev
          /\ \/ Uncertain(queued).until = rows[s].until
             \/ Uncertain(queued).until = Window
      BY <3>1 DEF Uncertain, Row
    <3>4. RowMoves(s, Uncertain(queued))
      BY <1>4, <3>2, <3>3, UnsyncedRowMoves
    <3> QED  BY <3>4 DEF queued
  <2> QED  BY <1>1, <1>4, <1>6, <2>1, <2>2 DEF Superseded, row
<1>8. Stands(w) /\ workers[w].result = "SYNCED" => RowMoves(s, Delivered(w, rows[s]))
  <2> DEFINE new == Delivered(w, rows[s])
  <2>1. /\ new.rev = rows[s].rev /\ new.until = rows[s].until
        /\ workers[w].cancelled /\ new.until > 0 => new.next = "later"
    BY <1>3 DEF Delivered, row, Row
  <2>2. rows[s].until \in Nat
    BY <1>2, CalAssumption DEF Row
  <2> HIDE DEF new
  <2> QED  BY <1>1, <1>4, <2>1, <2>2 DEF RowMoves, BecomesSynced, new
<1>9. workers[w].result # "SYNCED" => RowMoves(s, Failed(w, rows[s]))
  <2>1. workers[w].result # "SYNCED" => RowMoves(s, [row EXCEPT !.status = workers[w].result])
    <3>1. workers[w].result \in Status
      BY DEF CalTypes, CalTypeOK, Worker
    <3>2. [row EXCEPT !.status = workers[w].result] \in Row
      BY <1>3, <3>1 DEF Row
    <3> QED  BY <1>3, <1>4, <3>2, UnsyncedRowMoves DEF Row
  <2> QED  BY <1>6, <2>1 DEF Failed, row
<1>10. RowMoves(s, Completed(w, rows[s]))
  BY <1>5, <1>7, <1>8, <1>9 DEF Completed, row
<1> QED  BY <1>1, <1>10
LEMMA RowsMove ==
  ASSUME CalTypes, Barriers, EventsAnnounce, [CalNext]_vars, NEW s \in Schedules
  PROVE  RowMoves(s, rows'[s])
<1> DEFINE Moves == RowMoves(s, rows'[s])
<1>0. rows \in [Schedules -> Row] /\ rows[s] \in Row /\ rows'[s] \in Row
  BY TypesStep DEF Barriers, CalTypes, CalTypeOK
<1>1. rows'[s] = rows[s] => Moves
  BY <1>0, SameRowMoves
<1>2. ASSUME NEW t \in Schedules, Retry(t)  PROVE Moves
  <2>1. CASE s = t
    BY <1>0, <1>2, <2>1, UnsyncedRowMoves DEF Retry, Queued, Row
  <2> QED  BY <1>0, <1>1, <1>2, <2>1 DEF Retry, Queued
<1>3. ASSUME NEW t \in Schedules, NEW r \in Rev, Consume(t, r)  PROVE Moves
  <2>1. CASE s = t /\ Overdue(t, r)
    <3>1. rows'[s].status = "PENDING" /\ rows'[s].rev = r /\ rows'[s].until = rows[s].until
      <4>1. rows'[s] = [rows[s] EXCEPT !.status = "PENDING", !.rev = r]
        BY <1>0, <1>3, <2>1 DEF Consume, Queued
      <4> QED  BY <1>0, <4>1 DEF Row
    <3>2. <<s, r>> \in published /\ schedules[s].rev # 0
      <4>1. <<s, r>> \in published /\ r # 0 /\ r <= schedules[s].rev
        BY <1>3, <2>1 DEF Consume, EventsAnnounce
      <4> QED  BY <4>1 DEF CalTypes, CalTypeOK, Rev
    <3> QED  BY <1>0, <3>1, <3>2, UnsyncedRowMoves
  <2> QED  BY <1>0, <1>1, <1>3, <2>1 DEF Consume, Queued
<1>4. CASE Disconnect
  <2>1. /\ rows'[s].status = rows[s].status /\ rows'[s].rev = rows[s].rev
        /\ rows'[s].until = rows[s].until /\ rows'[s].next = rows[s].next
    BY <1>0, <1>4 DEF Disconnect, Row
  <2> QED  BY <1>0, <2>1, SameRowMoves
<1>5. CASE Backfill
  <2>1. CASE s \in Page /\ Overdue(s, schedules[s].rev)
    <3>1. /\ rows'[s].status = "PENDING" /\ rows'[s].rev = schedules[s].rev
          /\ rows'[s].until = rows[s].until
      BY <1>0, <1>5, <2>1 DEF Backfill, Row
    <3>2. schedules[s].rev # 0
      BY <2>1 DEF Page, Exportable, CalTypes, CalTypeOK, Rev
    <3> QED  BY <1>0, <3>1, <3>2, UnsyncedRowMoves
  <2> QED  BY <1>1, <1>5, <2>1 DEF Backfill
<1>6. ASSUME NEW w \in Workers, NEW t \in Schedules, Claim(w, t)  PROVE Moves
  <2>1. CASE s = t /\ IsAudit(s)
    <3>1. /\ rows'[s].rev = schedules[s].rev /\ rows'[s].until = rows[s].until
          /\ rows'[s].next = rows[s].next /\ rows'[s].status = "SYNCED"
      BY <1>0, <1>6, <2>1 DEF Claim, ClaimedRow, IsAudit, Row
    <3>2. rows[s].status = "SYNCED" /\ Cancelled(s) /\ rows[s].next = "due"
      BY <2>1 DEF IsAudit
    <3>3. rows[s].until \in Nat
      BY <1>0, CalAssumption DEF Row
    <3> QED  BY <3>1, <3>2, <3>3 DEF RowMoves, BecomesSynced
  <2>2. CASE s = t /\ ~IsAudit(s)
    <3>1. /\ rows'[s].status = "PENDING" /\ rows'[s].rev = schedules[s].rev
          /\ rows'[s].until = WindowAtClaim(s)
      BY <1>0, <1>6, <2>2 DEF Claim, ClaimedRow
    <3>2. rows[s].status # "ABSENT"
      BY <1>6, <2>2 DEF Claim, Oldest, Claimable
    <3> QED  BY <1>0, <3>1, <3>2, UnsyncedRowMoves DEF WindowAtClaim
  <2> QED  BY <1>0, <1>1, <1>6, <2>1, <2>2 DEF Claim
<1>7. ASSUME NEW w \in Workers, CredentialFails(w)  PROVE Moves
  <2>1. Busy(w)
    BY <1>7 DEF CredentialFails, Busy
  <2>2. RowMoves(workers[w].s, Released(w, rows[workers[w].s]))
    BY <2>1, ReleasedRowMoves DEF Barriers
  <2> QED  BY <1>0, <1>1, <1>7, <2>2 DEF CredentialFails
<1>8. ASSUME NEW w \in Workers, Complete(w)  PROVE Moves
  <2>1. RowMoves(workers[w].s, Completed(w, rows[workers[w].s]))
    BY <1>8, CompletedRowMoves DEF Barriers
  <2> QED  BY <1>0, <1>1, <1>8, <2>1 DEF Complete
<1>9. ASSUME NEW t \in Schedules, LeaseExpires(t) \/ AuditDue(t)  PROVE Moves
  <2>1. /\ rows'[s].status = rows[s].status /\ rows'[s].rev = rows[s].rev
        /\ rows'[s].until = rows[s].until
        /\ rows[s].next # "none" => rows'[s].next # "none"
    BY <1>0, <1>9 DEF LeaseExpires, AuditDue, Row
  <2> QED  BY <1>0, <2>1, SameRowMoves
<1>10. CASE Tick
  <2>1. /\ rows'[s].status = rows[s].status /\ rows'[s].rev = rows[s].rev
        /\ rows'[s].until > 0 => rows[s].until > 0
        /\ rows[s].next # "none" => rows'[s].next # "none"
    <3>1. rows'[s] = [rows[s] EXCEPT !.lease = IF @ = "held" THEN "expired" ELSE @,
                                     !.until = IF @ > 0 THEN @ - 1 ELSE 0,
                                     !.next = IF @ = "later" THEN "due" ELSE @]
      BY <1>10 DEF Tick
    <3> QED  BY <1>0, <3>1 DEF Row
  <2> QED  BY <1>10, <2>1 DEF RowMoves, BecomesSynced
<1>11. CASE rows' = rows
  BY <1>1, <1>11
<1> QED
  <2>1. UserStep => Moves
    BY <1>2, <1>4, <1>11 DEF UserStep, Confirm, Update, Cancel, Change, Bind, ChangeRole, ChangeGrant
  <2>2. ASSUME NEW w \in Workers, WorkerStep(w)  PROVE Moves
    BY <1>6, <1>7, <1>8, <1>11, <2>2
       DEF WorkerStep, Postpone, Attach, Stale, Look, LookFails, Send, TimesOut, Crash
  <2>3. GoogleStep => Moves
    BY <1>11 DEF GoogleStep, Land, Vanishes, Refused
  <2> QED
    BY <1>3, <1>5, <1>9, <1>10, <1>11, <2>1, <2>2, <2>3 DEF CalNext, vars

----------------------------------------------------------------------------
(* Rows, events and windows.                                               *)

LEMMA EventsAnnounceStep ==
  CalTypes /\ EventsAnnounce /\ [CalNext]_vars => EventsAnnounce'
<1> SUFFICES ASSUME CalTypes, EventsAnnounce, [CalNext]_vars,
                    NEW s \in Schedules, NEW r \in Rev, <<s, r>> \in published'
             PROVE  r # 0 /\ r <= schedules'[s].rev
  BY DEF EventsAnnounce
<1>0. r \in Nat /\ schedules[s].rev \in Nat
  BY DEF CalTypes, CalTypeOK, Rev
<1>1. CASE <<s, r>> \in published
  BY <1>0, <1>1, SchedulesGrow DEF EventsAnnounce
<1>2. CASE <<s, r>> \notin published
  <2>1. ScheduleChanges
    <3>1. UserStep => ScheduleChanges \/ published' = published
      BY DEF UserStep, ScheduleChanges, Confirm, Update, Cancel, Retry, Bind, Disconnect,
             ChangeRole, ChangeGrant, localVars
    <3>2. \A w \in Workers : WorkerStep(w) => published' = published
      BY WorkersStepAlone DEF localVars
    <3> QED
      BY <1>2, <3>1, <3>2, GoogleChangesNoSchedule
         DEF CalNext, vars, localVars, LeaseExpires, AuditDue, Consume, Backfill
  <2>2. r = schedules[s].rev + 1 /\ schedules'[s].rev = r
    BY <1>2, <2>1 DEF ScheduleChanges, Change, CalTypes, CalTypeOK
  <2> QED  BY <1>0, <2>2
<1> QED  BY <1>1, <1>2

LEMMA RowsFollowStep ==
  CalTypes /\ Barriers /\ EventsAnnounce /\ RowsFollow /\ [CalNext]_vars => RowsFollow'
<1> SUFFICES ASSUME CalTypes, Barriers, EventsAnnounce, RowsFollow, [CalNext]_vars,
                    NEW s \in Schedules
             PROVE  /\ rows'[s].rev <= schedules'[s].rev
                    /\ rows'[s].status # "ABSENT" => schedules'[s].rev # 0
  BY DEF RowsFollow
<1>1. RowMoves(s, rows'[s]) /\ rows'[s].rev \in Rev
  BY RowsMove, TypesStep DEF Barriers, CalTypes, CalTypeOK, Row
<1>2. schedules[s].rev \in Nat /\ rows[s].rev \in Nat /\ rows'[s].rev \in Nat
  BY <1>1 DEF CalTypes, CalTypeOK, Row, Rev
<1>3. rows'[s].rev <= schedules[s].rev
  BY <1>1, <1>2 DEF RowMoves, RowsFollow, EventsAnnounce
<1>4. rows'[s].status # "ABSENT" => schedules[s].rev # 0
  BY <1>1 DEF RowMoves, RowsFollow
<1> QED  BY <1>2, <1>3, <1>4, SchedulesGrow

LEMMA WindowsCoverStep ==
  CalTypes /\ Barriers /\ EventsAnnounce /\ RowsFollow /\ WindowsCover /\ [CalNext]_vars
    => WindowsCover'
<1> SUFFICES ASSUME CalTypes, Barriers, EventsAnnounce, RowsFollow, WindowsCover,
                    [CalNext]_vars
             PROVE  WindowsCover'
  OBVIOUS
<1>0. rows \in [Schedules -> Row] /\ inFlight \in SUBSET Request
  BY DEF CalTypes, CalTypeOK
<1>1. ASSUME NEW y \in inFlight', y.fresh  PROVE rows'[y.s].until > y.life
  <2>1. CASE Tick
    <3>1. PICK x \in inFlight : x.life > 0 /\ y = [x EXCEPT !.life = @ - 1]
      BY <2>1 DEF Tick
    <3>2. /\ x \in Request /\ y.s = x.s /\ y.life = x.life - 1 /\ y.fresh = x.fresh
          /\ x.s \in Schedules /\ x.life \in Nat
      BY <1>0, <3>1, CalAssumption DEF Request
    <3>3. rows[x.s].until > x.life /\ rows[x.s].until \in Nat
      BY <1>0, <1>1, <3>2, CalAssumption DEF WindowsCover, Row
    <3>4. rows'[x.s].until = rows[x.s].until - 1
      <4>1. rows'[x.s].until = IF rows[x.s].until > 0 THEN rows[x.s].until - 1 ELSE 0
        BY <1>0, <2>1, <3>2 DEF Tick, Row
      <4> QED  BY <3>2, <3>3, <4>1
    <3> QED  BY <3>2, <3>3, <3>4
  <2>2. ASSUME ~Tick, NEW x \in inFlight, SameRequest(x, y), SameAge(x, y)
        PROVE  rows'[y.s].until > y.life
    <3>1. x \in Request /\ y.s = x.s /\ y.life = x.life /\ x.fresh /\ x.s \in Schedules
      BY <1>0, <1>1, <2>2 DEF SameRequest, SameAge, Request
    <3>2. rows[x.s].until > x.life
      BY <3>1 DEF WindowsCover
    <3>3. rows'[x.s].until >= rows[x.s].until
      BY <2>2, <3>1, RowsMove DEF RowMoves
    <3>4. rows[x.s].until \in Nat /\ rows'[x.s].until \in Nat /\ x.life \in Nat
      BY <1>0, <3>1, TypesStep, CalAssumption DEF Barriers, CalTypes, CalTypeOK, Row, Request
    <3> QED  BY <3>1, <3>2, <3>3, <3>4
  <2>3. ASSUME NEW w \in Workers, Send(w), y = RequestOf(w)
        PROVE  rows'[y.s].until > y.life
    <3>1. rows' = rows /\ y.s = workers[w].s /\ y.life = Window - 1
          /\ rows[workers[w].s].until = Window
      BY <1>1, <2>3 DEF Send, RequestOf
    <3> QED  BY <3>1, CalAssumption
  <2> QED  BY <2>1, <2>2, <2>3, RequestsGoOn
<1>2. ASSUME NEW s \in Schedules, Cancelled(s)', rows'[s].status = "SYNCED",
             rows'[s].rev = schedules'[s].rev, rows'[s].until > 0
      PROVE  rows'[s].next # "none"
  <2>1. BecomesSynced(s, rows'[s])
    BY <1>2, RowsMove DEF RowMoves
  <2>2. ASSUME rows[s].status = "SYNCED", rows'[s].rev = rows[s].rev,
               rows'[s].until > 0 => rows[s].until > 0,
               rows[s].next # "none" => rows'[s].next # "none"
        PROVE  rows'[s].next # "none"
    <3>1. rows[s].rev <= schedules[s].rev /\ rows[s].rev \in Nat /\ schedules[s].rev \in Nat
      BY <1>0 DEF RowsFollow, CalTypes, CalTypeOK, Row, Rev
    <3>2. schedules'[s] = schedules[s]
      <4>1. rows[s].rev = schedules'[s].rev
        BY <1>2, <2>2
      <4>2. schedules'[s].rev # schedules[s].rev + 1
        BY <3>1, <4>1
      <4> QED  BY <4>2, SchedulesGrow
    <3>3. Cancelled(s)
      BY <1>2, <3>2 DEF Cancelled
    <3> QED  BY <1>2, <2>2, <3>2, <3>3 DEF WindowsCover
  <2>3. ASSUME NEW w \in Workers, Complete(w), workers[w].s = s, Stands(w),
               workers[w].cancelled => rows'[s].next # "none"
        PROVE  rows'[s].next # "none"
    <3>1. schedules' = schedules
      BY <2>3 DEF Complete, localVars
    <3>2. Cancelled(s) = workers[w].cancelled
      BY <2>3 DEF Stands, Desired
    <3> QED  BY <1>2, <2>3, <3>1, <3>2 DEF Cancelled
  <2> QED  BY <1>2, <2>1, <2>2, <2>3 DEF BecomesSynced
<1> QED  BY <1>1, <1>2 DEF WindowsCover
----------------------------------------------------------------------------
(* The calendars.                                                          *)

\* Only a request that lands changes a calendar, at its own event.
LEMMA OnlyLandingsWrite ==
  ASSUME CalTypes, [CalNext]_vars, NEW c \in Calendars, NEW s \in Schedules,
         provider'[c][s] # provider[c][s]
  PROVE  \E x \in inFlight :
           /\ Land(x) /\ Applies(x) /\ x.target = c /\ x.s = s
           /\ provider'[c][s] = IF x.call = "DELETE" THEN 0 ELSE x.rev
<1>0. /\ provider \in [Calendars -> [Schedules -> Rev]] /\ inFlight \in SUBSET Request
  BY DEF CalTypes, CalTypeOK
<1>1. PICK x \in inFlight : Land(x)
  <2>1. \A w \in Workers : WorkerStep(w) => provider' = provider
    BY WorkersStepAlone
  <2> QED
    BY <2>1, QuietSteps DEF CalNext, GoogleStep, Vanishes, Refused, Tick, Quiet, vars
<1>2. Applies(x) /\ x \in Request
  BY <1>0, <1>1 DEF Land
<1>3. provider' = [provider EXCEPT ![x.target] =
                     [@ EXCEPT ![x.s] = IF x.call = "DELETE" THEN 0 ELSE x.rev]]
  BY <1>1, <1>2 DEF Land
<1>4. x.target \in Calendars /\ x.s \in Schedules
  BY <1>2 DEF Request
<1>5. x.target = c /\ x.s = s
  BY <1>0, <1>3, <1>4
<1>6. provider'[c][s] = IF x.call = "DELETE" THEN 0 ELSE x.rev
  BY <1>0, <1>3, <1>4, <1>5
<1> QED  BY <1>1, <1>2, <1>5, <1>6

LEMMA NeverOlder ==
  ASSUME CalTypes, RequestsVouch, [CalNext]_vars, NEW c \in Calendars, NEW s \in Schedules,
         provider'[c][s] # 0
  PROVE  provider'[c][s] >= provider[c][s]
<1>0. provider[c][s] \in Nat
  BY DEF CalTypes, CalTypeOK, Rev
<1>1. CASE provider'[c][s] = provider[c][s]
  BY <1>0, <1>1
<1>2. CASE provider'[c][s] # provider[c][s]
  <2>1. PICK x \in inFlight :
          /\ Applies(x) /\ x.target = c /\ x.s = s
          /\ provider'[c][s] = IF x.call = "DELETE" THEN 0 ELSE x.rev
    BY <1>2, OnlyLandingsWrite
  <2>2. provider'[c][s] = x.rev /\ x.rev \in Nat
    BY <2>1 DEF CalTypes, CalTypeOK, Request, Rev
  <2>3. provider[c][s] = 0 \/ provider[c][s] <= x.rev
    BY <2>1 DEF Applies, RequestsVouch, RequestVouches, EtagVouches
  <2> QED  BY <1>0, <2>2, <2>3
<1> QED  BY <1>1, <1>2

\* A calendar that holds the present revision of a schedule that is not cancelled
\* keeps it: what may still land is as new, and deletes nothing.
LEMMA PresentStays ==
  ASSUME CalTypes, RequestsVouch, [CalNext]_vars, NEW c \in Calendars, NEW s \in Schedules,
         ~Cancelled(s), provider[c][s] = schedules[s].rev
  PROVE  provider'[c][s] = provider[c][s]
<1> SUFFICES ASSUME provider'[c][s] # provider[c][s]  PROVE FALSE
  OBVIOUS
<1>1. PICK x \in inFlight :
        /\ Applies(x) /\ x.target = c /\ x.s = s
        /\ provider'[c][s] = IF x.call = "DELETE" THEN 0 ELSE x.rev
  BY OnlyLandingsWrite
<1>2. x.rev <= schedules[s].rev /\ x.call # "DELETE" /\ provider'[c][s] = x.rev
  BY <1>1 DEF RequestsVouch, RequestVouches
<1>3. x.rev \in Nat /\ schedules[s].rev \in Nat
  BY <1>1 DEF CalTypes, CalTypeOK, Request, Rev
<1>4. provider[c][s] = 0 \/ provider[c][s] <= x.rev
  BY <1>1, <1>2 DEF Applies, RequestsVouch, RequestVouches, EtagVouches
<1> QED  BY <1>2, <1>3, <1>4

\* How a claim comes to its success.
LEMMA SuccessesCome ==
  ASSUME CalTypes, Barriers, [CalNext]_vars, NEW w \in Workers,
         workers'[w].pc = "done", workers'[w].result = "SYNCED", ~workers'[w].cancelled
  PROVE  /\ SameClaim(workers[w], workers'[w])
         /\ \/ workers[w].pc = "done" /\ workers[w].result = "SYNCED"
            \/ \E x \in inFlight : x.by = w /\ Land(x) /\ Applies(x)
<1> USE DEF Barriers
<1> DEFINE c == workers[w]
           Comes == \/ c.pc = "done" /\ c.result = "SYNCED"
                    \/ \E x \in inFlight : x.by = w /\ Land(x) /\ Applies(x)
<1>0. c \in Worker /\ workers \in [Workers -> Worker] /\ "PENDING" # "SYNCED"
  BY DEF CalTypes, CalTypeOK
<1>1. workers'[w] = c => Comes
  OBVIOUS
<1>2. SameClaim(c, workers'[w])
  <2>1. ASSUME NEW s \in Schedules, Claim(w, s)  PROVE FALSE
    BY <1>0, <2>1 DEF Claim, Idle
  <2> QED  BY <2>1, ClaimsGoOn
<1>3. ASSUME NEW v \in Workers, WorkerStep(v)  PROVE Comes
  <2>1. CASE v # w
    BY <1>0, <1>1, <1>3, <2>1, WorkersStepAlone
  <2>2. CASE v = w
    <3>1. ASSUME NEW result, Conclude(w, result)  PROVE result = "SYNCED"
      BY <1>0, <3>1 DEF Conclude, Concluded, Worker
    <3>2. ~Forget(w)
      BY <1>0 DEF Forget, Idle
    <3>3. ASSUME NEW d, workers' = [workers EXCEPT ![w] = d]  PROVE d.pc = "done"
      BY <1>0, <3>3
    <3>4. ASSUME Attach(w) \/ Send(w)  PROVE FALSE
      <4>1. ASSUME NEW d, d.pc # "done"  PROVE workers' # [workers EXCEPT ![w] = d]
        BY <3>3, <4>1
      <4>2. /\ [c EXCEPT !.pc = "attached", !.cred = cred.gen].pc = "attached"
            /\ [c EXCEPT !.pc = "sent", !.call = "GET", !.matches = FALSE].pc = "sent"
            /\ Idle.pc = "idle"
        BY <1>0 DEF Worker, Idle
      <4> QED  BY <3>4, <4>1, <4>2 DEF Attach, Send
    <3>5. ASSUME Look(w)  PROVE FALSE
      <4> DEFINE copy == provider[c.target][c.s]
                 new == [c EXCEPT !.pc = "found", !.call = CallFor(w, copy),
                                  !.matches = copy # 0]
      <4>1. ~c.cancelled
        BY <1>2 DEF SameClaim
      <4>2. \/ Conclude(w, "PENDING") \/ Conclude(w, "FAILED")
            \/ workers' = [workers EXCEPT ![w] = new]
        BY <3>5, <4>1 DEF Look
      <4>3. new.pc = "found"
        BY <1>0 DEF Worker
      <4> HIDE DEF new
      <4> QED  BY <3>1, <3>3, <4>2, <4>3
    <3>6. CASE workers' = workers
      BY <1>1, <3>6
    <3>7. ~ \E s \in Schedules : Claim(w, s)
      BY <1>0 DEF Claim, Idle
    <3> QED
      BY <1>3, <2>2, <3>1, <3>2, <3>4, <3>5, <3>6, <3>7
         DEF WorkerStep, Postpone, CredentialFails, Stale, LookFails, TimesOut, Complete,
             Crash, Failures
  <2> QED  BY <2>1, <2>2
<1>4. ASSUME NEW x \in inFlight, Land(x)  PROVE Comes
  <2>1. CASE x.by # w
    <3>1. workers'[w] = Outdated(c, x)
      BY <1>4, <2>1 DEF Land
    <3> QED  BY <1>0, <3>1 DEF Outdated, Worker
  <2>2. CASE x.by = w
    <3>1. workers'[w] = Answered(c, x) /\ RequestIsOf(x, w)
      BY <1>4, <2>2, CalAssumption DEF Land, RequestsAreAwaited
    <3>2. ~c.cancelled /\ x.call # "DELETE"
      BY <1>2, <3>1 DEF SameClaim, RequestIsOf
    <3>3. CASE ~Applies(x)
      <4>1. \/ workers'[w] = [c EXCEPT !.pc = "conflicted"]
            \/ workers'[w] = Concluded(c, "FAILED")
            \/ workers'[w] = Concluded(c, "PENDING")
        BY <3>1, <3>2, <3>3 DEF Answered
      <4> QED  BY <1>0, <4>1 DEF Concluded, Worker
    <3> QED  BY <1>4, <2>2, <3>3
  <2> QED  BY <2>1, <2>2
<1>5. ASSUME NEW x \in inFlight, NEW result \in Failures, Refused(x, result)  PROVE Comes
  <2>1. CASE x.by # w
    BY <1>0, <1>1, <1>5, <2>1 DEF Refused, Conclude
  <2>2. CASE x.by = w
    BY <1>0, <1>5, <2>2 DEF Refused, Conclude, Concluded, Worker, Failures
  <2> QED  BY <2>1, <2>2
<1>6. ASSUME workers' = workers  PROVE Comes
  BY <1>1, <1>6
<1>7. Comes
  BY <1>3, <1>4, <1>5, <1>6, QuietSteps DEF CalNext, GoogleStep, Quiet, vars, Vanishes, Tick
<1> QED  BY <1>2, <1>7
LEMMA SuccessesAreThereStep ==
  CalInv /\ [CalNext]_vars => SuccessesAreThere'
<1> SUFFICES ASSUME CalInv, [CalNext]_vars  PROVE SuccessesAreThere'
  OBVIOUS
<1> USE DEF CalInv
<1>0. /\ CalTypes' /\ ClaimsKnow'
      /\ provider \in [Calendars -> [Schedules -> Rev]] /\ inFlight \in SUBSET Request
  BY TypesStep, ClaimsKnowStep DEF Barriers, CalTypes, CalTypeOK
<1>1. ASSUME NEW w \in Workers,
             workers'[w].pc = "done", workers'[w].result = "SYNCED", ~workers'[w].cancelled,
             workers'[w].rev = schedules'[workers'[w].s].rev
      PROVE  provider'[workers'[w].target][workers'[w].s] = workers'[w].rev
  <2>1. /\ SameClaim(workers[w], workers'[w])
        /\ \/ workers[w].pc = "done" /\ workers[w].result = "SYNCED"
           \/ \E x \in inFlight : x.by = w /\ Land(x) /\ Applies(x)
    BY <1>1, SuccessesCome
  <2>2. PICK s \in Schedules, k \in Calendars : s = workers[w].s /\ k = workers[w].target
    BY <2>1 DEF SameClaim, CalTypes, WorkersTyped, ClaimTyped
  <2>3. /\ workers'[w].s = s /\ workers'[w].target = k /\ workers'[w].rev = workers[w].rev
        /\ ~workers[w].cancelled
    BY <1>1, <2>1, <2>2 DEF SameClaim
  <2>4. ClaimKnows(w)
    BY <2>1 DEF SameClaim, Barriers, ClaimsKnow, Busy
  <2>5. workers[w].rev = schedules[s].rev /\ ~Cancelled(s)
    <3>1. workers[w].rev <= schedules[s].rev /\ workers[w].rev = schedules'[s].rev
      BY <1>1, <2>2, <2>3, <2>4 DEF ClaimKnows
    <3>2. schedules[s].rev \in Nat
      BY DEF CalTypes, CalTypeOK, Rev
    <3>3. schedules'[s] = schedules[s]
      BY <3>1, <3>2, SchedulesGrow
    <3> QED  BY <2>2, <2>3, <2>4, <3>1, <3>3 DEF ClaimKnows
  <2>6. CASE workers[w].pc = "done" /\ workers[w].result = "SYNCED"
    <3>1. provider[k][s] = schedules[s].rev
      BY <2>2, <2>3, <2>5, <2>6 DEF SuccessesAreThere, SuccessIsThere
    <3>2. provider'[k][s] = provider[k][s]
      BY <2>5, <3>1, PresentStays DEF Barriers
    <3> QED  BY <2>3, <2>5, <3>1, <3>2
  <2>7. ASSUME NEW x \in inFlight, x.by = w, Land(x), Applies(x)
        PROVE  provider'[k][s] = workers[w].rev
    <3>1. /\ x.s = s /\ x.target = k /\ x.rev = workers[w].rev
          /\ x.call # "DELETE"
      BY <2>2, <2>3, <2>7, CalAssumption DEF Barriers, RequestsAreAwaited, RequestIsOf
    <3>2. provider' = [provider EXCEPT ![k] = [@ EXCEPT ![s] = workers[w].rev]]
      BY <2>7, <3>1 DEF Land
    <3> QED  BY <1>0, <3>2
  <2> QED  BY <2>1, <2>3, <2>6, <2>7
<1>2. ASSUME NEW s \in Schedules, rows'[s].status = "SYNCED", Backfilled(s)', ~Cancelled(s)',
             <<s, schedules'[s].rev>> \notin published'
      PROVE  provider'[calendar'.target][s] = schedules'[s].rev
  <2>1. ~Cancelled(s) /\ schedules[s].rev \in Nat /\ rows[s].rev \in Nat
    BY <1>2, SchedulesGrow DEF CalTypes, CalTypeOK, Rev, Row
  <2>2. schedules'[s] = schedules[s]
    <3>1. UserStep => schedules' = schedules \/ ScheduleChanges
      BY DEF UserStep, ScheduleChanges, Confirm, Update, Cancel, Retry, Bind, Disconnect,
             ChangeRole, ChangeGrant, localVars
    <3>2. \A w \in Workers : WorkerStep(w) => schedules' = schedules
      BY WorkersStepAlone DEF localVars
    <3>3. ScheduleChanges => schedules'[s] = schedules[s]
      BY <1>2 DEF ScheduleChanges, Change, CalTypes, CalTypeOK
    <3> QED
      BY <3>1, <3>2, <3>3, GoogleChangesNoSchedule
         DEF CalNext, vars, localVars, LeaseExpires, AuditDue, Consume, Backfill
  <2>3. calendar'.target \in Calendars
    BY <1>0, <1>2 DEF Backfilled, CalTypes, CalTypeOK
  <2>4. BecomesSynced(s, rows'[s])
    BY <1>2, RowsMove DEF RowMoves
  <2>5. ASSUME NEW w \in Workers, Complete(w), workers[w].s = s,
               workers[w].result = "SYNCED", Stands(w)
        PROVE  provider'[calendar'.target][s] = schedules'[s].rev
    <3>1. /\ workers[w].pc = "done" /\ UNCHANGED <<calendar, provider>>
          /\ workers[w].target = calendar.target /\ workers[w].rev = schedules[s].rev
          /\ Cancelled(s) = workers[w].cancelled
      BY <2>5 DEF Complete, Stands, SameBinding, Desired, localVars
    <3>2. provider[calendar.target][s] = schedules[s].rev
      BY <2>1, <2>5, <3>1 DEF SuccessesAreThere, SuccessIsThere
    <3> QED  BY <2>2, <3>1, <3>2
  <2>6. ASSUME rows[s].status = "SYNCED", provider[calendar'.target][s] = schedules[s].rev
        PROVE  provider'[calendar'.target][s] = schedules'[s].rev
    BY <2>1, <2>2, <2>3, <2>6, PresentStays DEF Barriers
  <2>7. ASSUME rows[s].status = "SYNCED", ~Backfill
        PROVE  Backfilled(s) /\ calendar' = calendar
    <3>1. ASSUME NEW c \in Calendars, Bind(c)  PROVE FALSE
      BY <1>2, <3>1, CalAssumption DEF Bind, Bound, Backfilled, Schedules
    <3>2. ASSUME Disconnect  PROVE FALSE
      <4>1. calendar'.target = NoCalendar
        BY <3>2 DEF Disconnect
      <4> QED  BY <2>3, <4>1, CalAssumption
    <3>3. UserStep => calendar' = calendar
      BY <3>1, <3>2 DEF UserStep, Confirm, Update, Cancel, Change, Retry, ChangeRole,
                        ChangeGrant, localVars
    <3>4. \A w \in Workers : WorkerStep(w) => calendar' = calendar
      BY WorkersStepAlone DEF localVars
    <3>5. calendar' = calendar
      BY <2>7, <3>3, <3>4, GoogleChangesNoSchedule
         DEF CalNext, vars, localVars, LeaseExpires, AuditDue, Consume
    <3> QED  BY <1>2, <3>5 DEF Backfilled
  <2>8. ASSUME rows[s].status = "SYNCED", Backfill
        PROVE  Backfilled(s) /\ calendar'.target = calendar.target
    <3>1. calendar.cursor \in Nat /\ calendar.target \in Calendars \cup {NoCalendar}
      BY CalAssumption DEF CalTypes, CalTypeOK
    <3>2. /\ calendar'.target = calendar.target /\ calendar.backfill
          /\ calendar'.backfill = (Cardinality(Page) = PageSize)
          /\ calendar'.cursor = IF Cardinality(Page) = PageSize
                                THEN CHOOSE t \in Page : \A u \in Page : u <= t ELSE 0
      BY <2>8 DEF Backfill, CalTypes, CalTypeOK
    <3>3. Exportable(s)
      BY <2>1, <2>8 DEF Exportable, RowsFollow
    <3>4. s \notin Page
      <4>1. Overdue(s, schedules[s].rev)
        BY <2>1 DEF Overdue, RowsFollow
      <4>2. s \in Page => rows'[s].status = "PENDING"
        <5>1. s \in Page => rows'[s] = [rows[s] EXCEPT !.status = "PENDING",
                                                       !.rev = schedules[s].rev]
          BY <2>8, <4>1 DEF Backfill
        <5> QED  BY <5>1 DEF CalTypes, CalTypeOK, Row
      <4> QED  BY <1>2, <4>2
    <3>5. CASE Cardinality(Page) = PageSize
      <4> DEFINE last == CHOOSE t \in Page : \A u \in Page : u <= t
      <4>1. last \in Page
        BY <3>5, FullPageEnds
      <4>2. s <= last
        BY <1>2, <3>2, <3>5 DEF Backfilled
      <4>3. ~(calendar.cursor < s)
        <5> HIDE DEF last
        <5> QED  BY <3>1, <3>3, <3>4, <4>1, <4>2, PageHasNoGaps
      <4> QED  BY <1>2, <3>1, <3>2, <4>3 DEF Backfilled, Schedules
    <3>6. CASE Cardinality(Page) # PageSize
      <4>1. ~(calendar.cursor < s)
        BY <3>1, <3>3, <3>4, <3>6, ShortPageIsTheLast
      <4> QED  BY <1>2, <3>1, <3>2, <4>1 DEF Backfilled, Schedules
    <3> QED  BY <3>5, <3>6
  <2>9. rows[s].status = "SYNCED" => <<s, schedules[s].rev>> \notin published
    <3> SUFFICES ASSUME rows[s].status = "SYNCED", <<s, schedules[s].rev>> \in published
                 PROVE  FALSE
      OBVIOUS
    <3>1. PICK t \in Schedules, r \in Rev : Consume(t, r)
      <4>1. UserStep => published' = published \/ published \subseteq published'
        BY DEF UserStep, Confirm, Update, Cancel, Change, Retry, Bind, Disconnect,
               ChangeRole, ChangeGrant, localVars
      <4>2. \A w \in Workers : WorkerStep(w) => published' = published
        BY WorkersStepAlone DEF localVars
      <4>3. ~(published \subseteq published')
        BY <1>2, <2>2
      <4> QED
        BY <4>1, <4>2, <4>3, GoogleChangesNoSchedule
           DEF CalNext, vars, localVars, LeaseExpires, AuditDue, Backfill
    <3>2. t = s /\ r = schedules[s].rev
      BY <1>2, <2>2, <3>1 DEF Consume
    <3>3. rows'[s].status = "PENDING"
      <4>1. Overdue(s, schedules[s].rev)
        BY <2>1 DEF Overdue, RowsFollow
      <4>2. rows'[s] = [rows[s] EXCEPT !.status = "PENDING", !.rev = schedules[s].rev]
        BY <3>1, <3>2, <4>1 DEF Consume, Queued, CalTypes, CalTypeOK
      <4> QED  BY <4>2 DEF CalTypes, CalTypeOK, Row
    <3> QED  BY <1>2, <3>3
  <2>10. rows[s].status = "SYNCED" => provider[calendar'.target][s] = schedules[s].rev
    BY <2>1, <2>7, <2>8, <2>9 DEF SuccessesAreThere, SyncedIsThere
  <2> QED  BY <2>1, <2>4, <2>5, <2>6, <2>10 DEF BecomesSynced
<1> QED  BY <1>1, <1>2 DEF SuccessesAreThere, SuccessIsThere, SyncedIsThere

----------------------------------------------------------------------------
(* The theorems.                                                           *)

LEMMA CalInvInit == CalInit => CalInv
<1> SUFFICES ASSUME CalInit  PROVE CalInv
  OBVIOUS
<1>1. CalTypes
  BY InitTyped
<1>2. Barriers
  BY DEF CalInit, Barriers, ClaimsKnow, LooksVouch, RequestsVouch, RequestsAreAwaited, Busy, Idle
<1>3. EventsAnnounce /\ RowsFollow /\ WindowsCover /\ SuccessesAreThere
  BY DEF CalInit, EventsAnnounce, RowsFollow, WindowsCover, SuccessesAreThere, NoRow, Idle,
         SuccessIsThere, SyncedIsThere
<1> QED  BY <1>1, <1>2, <1>3 DEF CalInv

LEMMA CalInvStep == CalInv /\ [CalNext]_vars => CalInv'
BY TypesStep, ClaimsKnowStep, LooksVouchStep, RequestsVouchStep, RequestsAreAwaitedStep,
   EventsAnnounceStep, RowsFollowStep, WindowsCoverStep, SuccessesAreThereStep
   DEF CalInv, Barriers

LEMMA CalInvariant == CalSpec => []CalInv
BY CalInvInit, CalInvStep, PTL DEF CalSpec

\* Every variable of the dispatcher keeps its type.
THEOREM CalTypeCorrect == CalSpec => []CalTypeOK
<1>1. CalInv => CalTypeOK
  BY DEF CalInv, CalTypes
<1> QED  BY <1>1, CalInvariant, PTL

\* Google's copy of a schedule never goes back to an older revision, whatever
\* requests land late: the conditional requests, and the look before each of them,
\* are enough.
THEOREM CopiesNeverGoBack == CalSpec => ProviderNeverRegresses
<1>1. CalInv /\ [CalNext]_vars =>
        [\A c \in Calendars, s \in Schedules :
           provider'[c][s] # 0 => provider'[c][s] >= provider[c][s]]_vars
  BY NeverOlder DEF CalInv, Barriers
<1>2. CalSpec => [][CalNext]_vars
  BY DEF CalSpec
<1> QED  BY <1>1, <1>2, CalInvariant, PTL DEF ProviderNeverRegresses

\* While a request may still recreate the event of a cancelled schedule, its SYNCED
\* row has an audit ahead of it, in a window that outlives the request.
THEOREM UncertainWritesAreAudited == CalSpec => []UncertainWriteIsAudited
<1>1. CalInv => UncertainWriteIsAudited
  <2> SUFFICES ASSUME CalInv, NEW x \in inFlight, x.fresh, Cancelled(x.s),
                      rows[x.s].status = "SYNCED", rows[x.s].rev = schedules[x.s].rev
               PROVE  rows[x.s].until > x.life /\ rows[x.s].next # "none"
    BY DEF UncertainWriteIsAudited
  <2>1. x.s \in Schedules /\ x.life \in Nat /\ rows[x.s].until \in Nat
    BY CalAssumption DEF CalInv, CalTypes, CalTypeOK, Request, Row
  <2>2. rows[x.s].until > x.life
    BY DEF CalInv, WindowsCover
  <2>3. rows[x.s].until > 0
    BY <2>1, <2>2
  <2> QED  BY <2>1, <2>2, <2>3 DEF CalInv, WindowsCover
<1> QED  BY <1>1, CalInvariant, PTL

\* SYNCED tells the truth: once the events of a schedule are delivered and the
\* back-fill has passed it, its SYNCED row means that the bound calendar holds its
\* present revision.
THEOREM SyncedTellsTheTruth == CalSpec => []SyncedIsDelivered
<1>1. CalInv => SyncedIsDelivered
  <2> SUFFICES ASSUME CalInv, NEW s \in Schedules, rows[s].status = "SYNCED",
                      Backfilled(s), ~Cancelled(s), \A r \in Rev : <<s, r>> \notin published
               PROVE  provider[calendar.target][s] = schedules[s].rev
    BY DEF SyncedIsDelivered
  <2>1. <<s, schedules[s].rev>> \notin published
    BY DEF CalInv, CalTypes, CalTypeOK
  <2> QED  BY <2>1 DEF CalInv, SuccessesAreThere, SyncedIsThere
<1> QED  BY <1>1, CalInvariant, PTL
=============================================================================
