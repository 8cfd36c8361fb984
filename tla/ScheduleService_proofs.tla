------------------------ MODULE ScheduleService_proofs ------------------------
(***************************************************************************)
(* Proofs about one schedule: its members write it from copies of any age, *)
(* for any number of members and transactions, and its editors save what   *)
(* their reader saw.                                                       *)
(***************************************************************************)
EXTENDS ScheduleService, ScheduleForm, ScheduleValues, ScheduleTimeDialog, TLAPS

(***************************************************************************)
(* The service.  A copy of the row, wherever it is kept, is the row if it  *)
(* has its version, and shows its content if it has its revision.          *)
(***************************************************************************)
CopyOfRow(copy) ==
  /\ copy.status = "ABSENT" => copy = NoRow
  /\ copy.status # "ABSENT" =>
       /\ copy.version <= row.version
       /\ copy.version = row.version => copy = row
       /\ copy.rev <= row.rev
       /\ copy.rev = row.rev /\ row.rev # 0 => copy.content = row.content

RowIsOfItsStatus ==
  /\ row.status = "ABSENT" => row = NoRow
  /\ row.status = "DRAFT" => row.rev = 0
  /\ row.status = "CONFIRMED" => row.rev # 0

(* What a command makes of the row it read.                                *)
Follows(old, new, type) ==
  /\ new.version = old.version
  /\ old.status \in {"DRAFT", "CONFIRMED"}
  /\ \/ /\ type = "CHANGED" /\ new.status = old.status
        /\ new.rev = IF old.status = "CONFIRMED" THEN old.rev + 1 ELSE old.rev
     \/ /\ type = "CONFIRMED" /\ old.status = "DRAFT"
        /\ new.status = "CONFIRMED" /\ new.rev = 1
     \/ /\ type = "CANCELLED" /\ new.status = "CANCELLED"
        /\ new.rev = IF old.status = "CONFIRMED" THEN old.rev + 1 ELSE old.rev

(* A transaction works on a copy of the row that its client had seen, and  *)
(* between the flush and the commit this copy is the row.                  *)
WritesFollow ==
  \A t \in Threads :
    /\ threads[t].pc # "idle" =>
         /\ CopyOfRow(threads[t].loaded)
         /\ threads[t].basis = threads[t].loaded.content
         /\ Follows(threads[t].loaded, threads[t].next, threads[t].type)
    /\ threads[t].pc = "flushed" => rowLock = t /\ threads[t].loaded = row

CopiesAreOfRow == \A u \in Users : CopyOfRow(seen[u])

AcksAreOfRow ==
  \A a \in acks : /\ a.rev # 0 /\ a.rev <= row.rev
                  /\ a.rev = row.rev => a.content = row.content

EventsAreOfRow ==
  \A e \in events :
    /\ e.rev <= row.rev
    /\ e.rev = row.rev /\ row.rev # 0 =>
         e.content = row.content /\ e.recipients = Recipients(row)

(* Every revision of the schedule was announced, and all that is recorded  *)
(* of a revision, acknowledgements included, tells the same content and    *)
(* the same recipients (change in ScheduleService.java).                   *)
RevisionsAnnounced ==
  /\ \A n \in 1 .. row.rev : \E e \in events : e.rev = n /\ e.type # "ACKNOWLEDGED"
  /\ \A e, f \in events : e.rev = f.rev /\ e.rev # 0 =>
       e.content = f.content /\ e.recipients = f.recipients

ScheduleInv ==
  /\ ScheduleTypeOK
  /\ RowIsOfItsStatus
  /\ CopiesAreOfRow
  /\ WritesFollow
  /\ AcksAreOfRow
  /\ EventsAreOfRow
  /\ RevisionsAnnounced

----------------------------------------------------------------------------
(* Type correctness.                                                       *)

LEMMA RecordsAreTyped == NoRow \in Row /\ Idle \in Thread
BY DEF NoRow, Row, Idle, Thread

LEMMA RecipientsAreUsers ==
  ASSUME NEW schedule \in Row PROVE Recipients(schedule) \in SUBSET Users
BY ScheduleAssumption DEF Recipients, Row

LEMMA JournalIsTyped ==
  ASSUME ScheduleTypeOK, NEW schedule \in Row,
         NEW type \in {"CREATED", "CHANGED", "CONFIRMED", "CANCELLED", "ACKNOWLEDGED"}
  PROVE  Journaled(type, schedule) \in SUBSET Event
<1>1. Recipients(schedule) \in SUBSET Users
  BY RecipientsAreUsers
<1>2. [type |-> type, rev |-> schedule.rev, content |-> schedule.content,
       recipients |-> Recipients(schedule)] \in Event
  BY <1>1 DEF Event, Row
<1>3. QED
  BY <1>2 DEF Journaled, ScheduleTypeOK

(* Each command writes a row that follows the one it read.                 *)
LEMMA CommandsFollow ==
  ASSUME ScheduleTypeOK, NEW t \in Threads, NEW u \in Users,
         \/ \E people \in SUBSET (Users \cup {External}) : UpdateSchedule(t, u, people)
         \/ Confirm(t, u) \/ Cancel(t, u)
  PROVE  \E next \in Row, type \in {"CHANGED", "CONFIRMED", "CANCELLED"} :
           Follows(row, next, type) /\ Start(t, u, type, next)
<1>0. row \in Row
  BY DEF ScheduleTypeOK
<1>rev. ASSUME NEW status PROVE Revised(status) \in Nat
  BY <1>0 DEF Revised, Row
<1>1. ASSUME NEW people \in SUBSET (Users \cup {External}), UpdateSchedule(t, u, people)
      PROVE  \E next \in Row : Follows(row, next, "CHANGED") /\ Start(t, u, "CHANGED", next)
  <2> DEFINE next == [row EXCEPT !.content = @ + 1, !.participants = people,
                                 !.rev = Revised(row.status)]
  <2>1. next \in Row
    <3>1. row.content + 1 \in Nat
      BY <1>0 DEF Row
    <3>2. \A n \in Nat, m \in Nat :
            [row EXCEPT !.content = n, !.participants = people, !.rev = m] \in Row
      BY <1>0 DEF Row
    <3>3. QED
      BY <1>rev, <3>1, <3>2
  <2>2. row.status \in {"DRAFT", "CONFIRMED"}
    BY <1>0, <1>1 DEF UpdateSchedule, Editable, Start, Checked, Row
  <2>3. Follows(row, next, "CHANGED")
    BY <1>0, <2>2 DEF Follows, Row, Revised
  <2>4. QED
    BY <1>1, <2>1, <2>3 DEF UpdateSchedule
<1>2. ASSUME Confirm(t, u)
      PROVE  \E next \in Row : Follows(row, next, "CONFIRMED") /\ Start(t, u, "CONFIRMED", next)
  <2> DEFINE next == [row EXCEPT !.status = "CONFIRMED", !.rev = 1]
  <2>1. next \in Row
    BY <1>0 DEF Row
  <2>2. Follows(row, next, "CONFIRMED")
    BY <1>0, <1>2 DEF Follows, Row, Confirm
  <2>3. QED
    BY <1>2, <2>1, <2>2 DEF Confirm
<1>3. ASSUME Cancel(t, u)
      PROVE  \E next \in Row : Follows(row, next, "CANCELLED") /\ Start(t, u, "CANCELLED", next)
  <2> DEFINE next == [row EXCEPT !.status = "CANCELLED", !.rev = Revised("CANCELLED")]
  <2>1. next \in Row
    BY <1>0, <1>rev DEF Row
  <2>2. row.status \in {"DRAFT", "CONFIRMED"}
    BY <1>0, <1>3 DEF Cancel, Editable, Start, Checked, Row
  <2>3. Follows(row, next, "CANCELLED")
    BY <1>0, <2>2 DEF Follows, Row, Revised
  <2>4. QED
    BY <1>3, <2>1, <2>3 DEF Cancel
<1>4. QED
  BY <1>1, <1>2, <1>3

LEMMA ScheduleInitInv == ScheduleInit => ScheduleInv
<1> SUFFICES ASSUME ScheduleInit PROVE ScheduleInv
  OBVIOUS
<1>1. ScheduleTypeOK
  BY RecordsAreTyped DEF ScheduleInit, ScheduleTypeOK
<1>2. RowIsOfItsStatus /\ CopiesAreOfRow /\ WritesFollow
  BY DEF ScheduleInit, RowIsOfItsStatus, CopiesAreOfRow, CopyOfRow, WritesFollow, NoRow, Idle
<1>3. AcksAreOfRow /\ EventsAreOfRow /\ RevisionsAnnounced
  BY DEF ScheduleInit, AcksAreOfRow, EventsAreOfRow, RevisionsAnnounced, NoRow
<1>4. QED
  BY <1>1, <1>2, <1>3 DEF ScheduleInv

----------------------------------------------------------------------------
(* A step that leaves the row alone keeps what is known of its copies.     *)

LEMMA LoadKeepsInv ==
  ASSUME ScheduleInv, NEW u \in Users, Load(u) PROVE ScheduleInv'
<1> USE DEF ScheduleInv, Load
<1>1. ScheduleTypeOK'
  BY DEF ScheduleTypeOK
<1>2. CopyOfRow(row)'
  BY DEF ScheduleTypeOK, CopyOfRow, Row
<1>3. CopiesAreOfRow'
  BY <1>2 DEF ScheduleTypeOK, CopiesAreOfRow, CopyOfRow
<1>4. WritesFollow' /\ RowIsOfItsStatus'
  BY DEF WritesFollow, CopyOfRow, RowIsOfItsStatus
<1>5. AcksAreOfRow' /\ EventsAreOfRow' /\ RevisionsAnnounced'
  BY DEF AcksAreOfRow, EventsAreOfRow, Recipients, RevisionsAnnounced
<1>6. QED
  BY <1>1, <1>3, <1>4, <1>5

(* check(): the client's copy has the row's version, so it is the row.     *)
LEMMA StartKeepsInv ==
  ASSUME ScheduleInv, NEW t \in Threads, NEW u \in Users, NEW next \in Row,
         NEW type \in {"CHANGED", "CONFIRMED", "CANCELLED"},
         Follows(row, next, type), Start(t, u, type, next)
  PROVE  ScheduleInv'
<1> USE DEF ScheduleInv, Start
<1>1. row \in Row /\ seen[u] \in Row /\ threads \in [Threads -> Thread]
  BY DEF ScheduleTypeOK
<1>2. seen[u] = row
  BY <1>1 DEF Checked, CopiesAreOfRow, CopyOfRow
<1> DEFINE started == [pc |-> "read", type |-> type, loaded |-> row, next |-> next,
                       basis |-> seen[u].content]
<1>3. started \in Thread
  BY <1>1 DEF Thread, Row
<1>4. ScheduleTypeOK'
  BY <1>3 DEF ScheduleTypeOK
<1>5. CopyOfRow(row)
  BY <1>1 DEF CopyOfRow, Row, Checked
<1>6. WritesFollow'
  <2> SUFFICES ASSUME NEW s \in Threads
               PROVE  /\ threads'[s].pc # "idle" =>
                           /\ CopyOfRow(threads'[s].loaded)
                           /\ threads'[s].basis = threads'[s].loaded.content
                           /\ Follows(threads'[s].loaded, threads'[s].next, threads'[s].type)
                      /\ threads'[s].pc = "flushed" => rowLock = s /\ threads'[s].loaded = row
    BY DEF WritesFollow, CopyOfRow, Follows
  <2>1. CASE s = t
    BY <1>1, <1>2, <1>5, <2>1
  <2>2. CASE s # t
    BY <1>1, <2>2 DEF WritesFollow
  <2>3. QED
    BY <2>1, <2>2
<1>7. CopiesAreOfRow' /\ RowIsOfItsStatus'
  BY DEF CopiesAreOfRow, CopyOfRow, RowIsOfItsStatus
<1>8. AcksAreOfRow' /\ EventsAreOfRow' /\ RevisionsAnnounced'
  BY DEF AcksAreOfRow, EventsAreOfRow, Recipients, RevisionsAnnounced
<1>9. QED
  BY <1>4, <1>6, <1>7, <1>8

LEMMA FlushKeepsInv ==
  ASSUME ScheduleInv, NEW t \in Threads, Flush(t) PROVE ScheduleInv'
<1> USE DEF ScheduleInv, Flush
<1>1. threads \in [Threads -> Thread] /\ row \in Row
  BY DEF ScheduleTypeOK
<1>2. ScheduleTypeOK'
  BY <1>1 DEF ScheduleTypeOK, Thread
<1>3. threads[t].loaded = row
  BY <1>1 DEF WritesFollow, CopyOfRow, Follows, Unmoved
<1>4. WritesFollow'
  <2>1. \A s \in Threads : threads[s].pc # "flushed"
    BY ScheduleAssumption DEF WritesFollow
  <2>2. QED
    BY <1>1, <1>3, <2>1 DEF WritesFollow, CopyOfRow
<1>5. CopiesAreOfRow' /\ RowIsOfItsStatus'
  BY DEF CopiesAreOfRow, CopyOfRow, RowIsOfItsStatus
<1>6. AcksAreOfRow' /\ EventsAreOfRow' /\ RevisionsAnnounced'
  BY DEF AcksAreOfRow, EventsAreOfRow, Recipients, RevisionsAnnounced
<1>7. QED
  BY <1>2, <1>4, <1>5, <1>6

(* A transaction that ends without a commit forgets what it was to write,  *)
(* and lets go of the row if it held it.                                   *)
LEMMA GivingUpKeepsInv ==
  ASSUME ScheduleInv, NEW t \in Threads, FlushConflicts(t) \/ Rollback(t)
  PROVE  ScheduleInv'
<1> USE DEF ScheduleInv
<1>1. /\ threads' = [threads EXCEPT ![t] = Idle]
      /\ rowLock' = rowLock \/ (rowLock' = NoThread /\ rowLock = t)
      /\ UNCHANGED <<row, seen, acks, events>>
  BY DEF FlushConflicts, Rollback
<1>2. ScheduleTypeOK'
  BY <1>1, RecordsAreTyped DEF ScheduleTypeOK
<1>3. WritesFollow'
  BY <1>1 DEF ScheduleTypeOK, WritesFollow, CopyOfRow, Idle
<1>4. CopiesAreOfRow' /\ RowIsOfItsStatus'
  BY <1>1 DEF CopiesAreOfRow, CopyOfRow, RowIsOfItsStatus
<1>5. AcksAreOfRow' /\ EventsAreOfRow' /\ RevisionsAnnounced'
  BY <1>1 DEF AcksAreOfRow, EventsAreOfRow, Recipients, RevisionsAnnounced
<1>6. QED
  BY <1>2, <1>3, <1>4, <1>5

LEMMA AcknowledgeKeepsInv ==
  ASSUME ScheduleInv, NEW u \in Users, Acknowledge(u) PROVE ScheduleInv'
<1> USE DEF ScheduleInv, Acknowledge
<1>1. row \in Row /\ seen[u] \in Row
  BY DEF ScheduleTypeOK
<1>2. ScheduleTypeOK'
  BY <1>1, JournalIsTyped DEF ScheduleTypeOK, Row
<1>3. WritesFollow' /\ CopiesAreOfRow' /\ RowIsOfItsStatus'
  BY DEF WritesFollow, CopiesAreOfRow, CopyOfRow, RowIsOfItsStatus
<1>4. seen[u].content = row.content /\ row.rev # 0
  <2>1. seen[u].status # "ABSENT" \/ seen[u] = NoRow
    BY <1>1 DEF CopiesAreOfRow, CopyOfRow, RevisionExpected
  <2>2. QED
    BY <1>1, <2>1 DEF CopiesAreOfRow, CopyOfRow, RevisionExpected, NoRow
<1>5. AcksAreOfRow'
  BY <1>1, <1>4 DEF AcksAreOfRow, RevisionExpected, Row
<1> DEFINE new == [type |-> "ACKNOWLEDGED", rev |-> row.rev, content |-> row.content,
                   recipients |-> Recipients(row)]
<1>6. events' = events \cup {new}
  BY DEF Journaled
<1>7. EventsAreOfRow'
  BY <1>1, <1>6 DEF EventsAreOfRow, Recipients, Row
<1>8. RevisionsAnnounced'
  BY <1>1, <1>4, <1>6 DEF EventsAreOfRow, RevisionsAnnounced
<1>9. QED
  BY <1>2, <1>3, <1>5, <1>7, <1>8

----------------------------------------------------------------------------
(* The two steps that write the row.                                       *)

LEMMA CreateKeepsInv ==
  ASSUME ScheduleInv, NEW u \in Users, NEW people \in SUBSET (Users \cup {External}),
         CreateSchedule(u, people)
  PROVE  ScheduleInv'
<1>1. /\ row = NoRow /\ seen \in [Users -> Row] /\ threads \in [Threads -> Thread]
      /\ events \in SUBSET Event
  BY DEF ScheduleInv, ScheduleTypeOK, RowIsOfItsStatus, CreateSchedule
<1>2. row' = [status |-> "DRAFT", version |-> 0, rev |-> 0, content |-> 1,
              participants |-> people]
  BY DEF NoRow, CreateSchedule
<1>3. row' \in Row
  BY <1>2 DEF Row
<1>4. /\ seen' = [seen EXCEPT ![u] = row'] /\ events' = Journaled("CREATED", row')
      /\ UNCHANGED <<rowLock, threads, acks>>
  BY DEF CreateSchedule
<1>5. ScheduleTypeOK'
  <2>1. Journaled("CREATED", row') \in SUBSET Event
    BY <1>3, JournalIsTyped DEF ScheduleInv
  <2>2. QED
    BY <1>3, <1>4, <2>1 DEF ScheduleInv, ScheduleTypeOK
<1>6. RowIsOfItsStatus'
  BY <1>2 DEF RowIsOfItsStatus
<1>7. ASSUME NEW copy \in Row, CopyOfRow(copy) PROVE copy = NoRow
  BY <1>1, <1>7 DEF CopyOfRow, NoRow, Row
<1>8. CopiesAreOfRow'
  <2>1. CopyOfRow(NoRow)' /\ CopyOfRow(row)'
    BY <1>2 DEF CopyOfRow, NoRow
  <2>2. ASSUME NEW w \in Users PROVE seen'[w] = NoRow \/ seen'[w] = row'
    BY <1>1, <1>4, <1>7 DEF ScheduleInv, CopiesAreOfRow
  <2>3. QED
    BY <2>1, <2>2 DEF CopiesAreOfRow, CopyOfRow
<1>9. \A t \in Threads : threads[t].pc = "idle"
  BY <1>1, <1>7 DEF ScheduleInv, Thread, WritesFollow, Follows, NoRow
<1>10. WritesFollow'
  BY <1>4, <1>9 DEF WritesFollow
<1>11. acks = {}
  BY <1>1 DEF ScheduleInv, AcksAreOfRow, ScheduleTypeOK, NoRow
<1>12. \A e \in events : e.rev = 0
  BY <1>1 DEF ScheduleInv, EventsAreOfRow, Event, NoRow
<1>13. \A e \in events' : e.rev = 0
  BY <1>2, <1>4, <1>12 DEF Journaled
<1>14. row'.rev = 0
  BY <1>2
<1>15. AcksAreOfRow' /\ EventsAreOfRow' /\ RevisionsAnnounced'
  BY <1>4, <1>11, <1>13, <1>14 DEF AcksAreOfRow, EventsAreOfRow, RevisionsAnnounced
<1>16. QED
  BY <1>5, <1>6, <1>8, <1>10, <1>15 DEF ScheduleInv

(* What a commit makes of the row: a new version, and either a draft still *)
(* without a revision or a revision of its own.                            *)
LEMMA CommitMovesOn ==
  ASSUME ScheduleInv, NEW t \in Threads, CommitChange(t)
  PROVE  /\ row' \in Row
         /\ Follows(row, threads[t].next, threads[t].type)
         /\ row'.version = row.version + 1 /\ row'.status = threads[t].next.status
         /\ row'.rev = threads[t].next.rev
         /\ (row'.rev = 0 /\ row.rev = 0) \/ row'.rev = row.rev + 1
         /\ RowIsOfItsStatus'
<1> USE DEF ScheduleInv, CommitChange
<1>1. row \in Row /\ threads[t].next \in Row
  BY DEF ScheduleTypeOK, Thread
<1>2. Follows(row, threads[t].next, threads[t].type)
  BY DEF WritesFollow
<1>3. /\ row' \in Row /\ row'.version = row.version + 1
      /\ row'.status = threads[t].next.status /\ row'.rev = threads[t].next.rev
  BY <1>1 DEF Row
<1>4. (row'.rev = 0 /\ row.rev = 0) \/ row'.rev = row.rev + 1
  BY <1>1, <1>2, <1>3 DEF Follows, RowIsOfItsStatus, Row
<1>5. RowIsOfItsStatus'
  BY <1>1, <1>2, <1>3 DEF Follows, RowIsOfItsStatus, Row
<1>6. QED
  BY <1>2, <1>3, <1>4, <1>5

LEMMA CommitKeepsInv ==
  ASSUME ScheduleInv, NEW t \in Threads, CommitChange(t) PROVE ScheduleInv'
<1>1. /\ row \in Row /\ row' \in Row /\ threads \in [Threads -> Thread]
      /\ seen \in [Users -> Row]
  BY CommitMovesOn DEF ScheduleInv, ScheduleTypeOK
<1>2. row'.version = row.version + 1
  BY CommitMovesOn
<1>3. (row'.rev = 0 /\ row.rev = 0) \/ row'.rev = row.rev + 1
  BY CommitMovesOn
<1>4. RowIsOfItsStatus'
  BY CommitMovesOn
<1>5. threads[t].type \in {"CHANGED", "CONFIRMED", "CANCELLED"}
  BY CommitMovesOn DEF Follows
<1> USE DEF ScheduleInv, CommitChange
<1>6. ScheduleTypeOK'
  <2>1. Journaled(threads[t].type, row') \in SUBSET Event
    BY <1>1, <1>5, JournalIsTyped
  <2>2. QED
    BY <1>1, <2>1, RecordsAreTyped DEF ScheduleTypeOK
<1>7. ASSUME NEW copy \in Row, CopyOfRow(copy) PROVE CopyOfRow(copy)'
  BY <1>1, <1>2, <1>3, <1>7 DEF CopyOfRow, Row
<1>8. CopiesAreOfRow'
  BY <1>1, <1>7 DEF CopiesAreOfRow
<1>9. WritesFollow'
  <2>1. \A s \in Threads : threads[s].pc = "flushed" => s = t
    BY DEF WritesFollow
  <2>2. ASSUME NEW s \in Threads, s # t, threads[s].pc # "idle"
        PROVE  CopyOfRow(threads[s].loaded)'
    <3>1. threads[s].loaded \in Row /\ CopyOfRow(threads[s].loaded)
      BY <1>1, <2>2 DEF WritesFollow, Thread
    <3>2. QED
      BY <1>7, <2>2, <3>1, <1>1
  <2>3. QED
    BY <1>1, <2>1, <2>2 DEF WritesFollow, Idle, Follows
<1>10. AcksAreOfRow'
  BY <1>1, <1>3 DEF AcksAreOfRow, ScheduleTypeOK, Row
<1>11. \A e \in events : e.rev <= row.rev /\ e.rev \in Nat
  BY DEF EventsAreOfRow, ScheduleTypeOK, Event
<1> DEFINE new == [type |-> threads[t].type, rev |-> row'.rev, content |-> row'.content,
                   recipients |-> Recipients(row')]
<1>12. events' = events \cup {new} /\ row.rev \in Nat /\ row'.rev \in Nat
  BY <1>1 DEF Journaled, Row
<1>13. EventsAreOfRow'
  BY <1>3, <1>11, <1>12 DEF EventsAreOfRow, Recipients
<1>14. RevisionsAnnounced'
  <2>1. \A n \in 1 .. row'.rev : \E e \in events' : e.rev = n /\ e.type # "ACKNOWLEDGED"
    <3>1. new \in events' /\ new.rev = row'.rev /\ new.type # "ACKNOWLEDGED"
      BY <1>5, <1>12
    <3>2. \A n \in 1 .. row'.rev : n \in 1 .. row.rev \/ n = row'.rev
      BY <1>3, <1>12
    <3>3. QED
      BY <1>12, <3>1, <3>2 DEF RevisionsAnnounced
  <2>2. \A e, f \in events' : e.rev = f.rev /\ e.rev # 0 =>
           e.content = f.content /\ e.recipients = f.recipients
    BY <1>3, <1>11, <1>12 DEF RevisionsAnnounced
  <2>3. QED
    BY <2>1, <2>2 DEF RevisionsAnnounced
<1>15. QED
  BY <1>4, <1>6, <1>8, <1>9, <1>10, <1>13, <1>14

LEMMA ScheduleStepKeepsInv == ScheduleInv /\ [ScheduleNext]_scheduleVars => ScheduleInv'
<1> SUFFICES ASSUME ScheduleInv, [ScheduleNext]_scheduleVars PROVE ScheduleInv'
  OBVIOUS
<1>1. CASE UNCHANGED scheduleVars
  BY <1>1 DEF scheduleVars, ScheduleInv, ScheduleTypeOK, RowIsOfItsStatus, CopiesAreOfRow,
              CopyOfRow, WritesFollow, AcksAreOfRow, EventsAreOfRow, Recipients,
              RevisionsAnnounced
<1>2. ASSUME NEW u \in Users, Load(u) \/ Acknowledge(u) PROVE ScheduleInv'
  BY <1>2, LoadKeepsInv, AcknowledgeKeepsInv
<1>3. ASSUME NEW u \in Users, NEW people \in SUBSET (Users \cup {External}),
             CreateSchedule(u, people)
      PROVE  ScheduleInv'
  BY <1>3, CreateKeepsInv
<1>4. ASSUME NEW t \in Threads, WriteStep(t) PROVE ScheduleInv'
  <2>1. ASSUME NEW u \in Users,
               \/ \E people \in SUBSET (Users \cup {External}) : UpdateSchedule(t, u, people)
               \/ Confirm(t, u) \/ Cancel(t, u)
        PROVE  ScheduleInv'
    BY <2>1, CommandsFollow, StartKeepsInv DEF ScheduleInv
  <2>2. ASSUME Flush(t) PROVE ScheduleInv'
    BY <2>2, FlushKeepsInv
  <2>3. ASSUME FlushConflicts(t) \/ Rollback(t) PROVE ScheduleInv'
    BY <2>3, GivingUpKeepsInv
  <2>4. ASSUME CommitChange(t) PROVE ScheduleInv'
    BY <2>4, CommitKeepsInv
  <2>5. QED
    BY <1>4, <2>1, <2>2, <2>3, <2>4 DEF WriteStep
<1>5. QED
  BY <1>1, <1>2, <1>3, <1>4 DEF ScheduleNext

LEMMA ScheduleInvariance == ScheduleSpec => []ScheduleInv
BY ScheduleInitInv, ScheduleStepKeepsInv, PTL DEF ScheduleSpec

----------------------------------------------------------------------------
(* The rows, copies, transactions and events of the model are well formed. *)
THEOREM ScheduleTypeCorrect == ScheduleSpec => []ScheduleTypeOK
BY ScheduleInvariance, PTL DEF ScheduleInv

(* An acknowledgement of the current revision was given by somebody whose  *)
(* screen showed the current content (acknowledge, under the row lock).    *)
THEOREM AcknowledgementsAreOfWhatWasSeen == ScheduleSpec => []AcknowledgedAsSeen
<1>1. ScheduleInv => AcknowledgedAsSeen
  BY DEF ScheduleInv, AcksAreOfRow, AcknowledgedAsSeen
<1>2. QED
  BY <1>1, ScheduleInvariance, PTL

(* Each revision of a schedule is announced, and whatever is recorded of   *)
(* one tells the same content and recipients.                              *)
THEOREM EveryRevisionIsAnnounced == ScheduleSpec => []RevisionsAnnounced
BY ScheduleInvariance, PTL DEF ScheduleInv

(* A committed write follows directly on the content its client saw: the   *)
(* version compared by check(), compared again by the flush, and the row   *)
(* lock from there to the commit leave no gap.                             *)
THEOREM NoUpdateIsLost == ScheduleSpec => NoLostUpdate
<1>1. ScheduleInv /\ [ScheduleNext]_scheduleVars =>
        [\A t \in Threads : threads[t].pc = "flushed" /\ row' # row
                            => threads[t].basis = row.content]_scheduleVars
  BY DEF ScheduleInv, WritesFollow, ScheduleTypeOK, Thread
<1>2. QED
  BY <1>1, ScheduleInvariance, PTL DEF ScheduleSpec, NoLostUpdate

(* The refinement: creation and commits are steps of the life cycle, all   *)
(* other steps, and the commit of a draft that stays one, stutter.         *)
LEMMA CommitIsALifecycleStep ==
  ASSUME ScheduleInv, NEW t \in Threads, CommitChange(t)
  PROVE  [Lifecycle!LifecycleNext]_<<row.status, row.rev>>
<1>1. Follows(row, threads[t].next, threads[t].type)
  BY CommitMovesOn
<1>2. row'.status = threads[t].next.status /\ row'.rev = threads[t].next.rev
  BY CommitMovesOn
<1>3. CASE threads[t].type = "CHANGED"
  BY <1>1, <1>2, <1>3 DEF Follows, Lifecycle!LifecycleNext, Lifecycle!Changed
<1>4. CASE threads[t].type = "CONFIRMED"
  BY <1>1, <1>2, <1>4 DEF Follows, Lifecycle!LifecycleNext, Lifecycle!Confirmed
<1>5. CASE threads[t].type = "CANCELLED"
  BY <1>1, <1>2, <1>5 DEF Follows, Lifecycle!LifecycleNext, Lifecycle!Dropped, Lifecycle!Withdrawn
<1>6. QED
  BY <1>1, <1>3, <1>4, <1>5 DEF Follows

LEMMA CreateIsALifecycleStep ==
  ASSUME ScheduleInv, NEW u \in Users, NEW people \in SUBSET (Users \cup {External}),
         CreateSchedule(u, people)
  PROVE  Lifecycle!Appear
<1>1. row = NoRow
  BY DEF ScheduleInv, RowIsOfItsStatus, CreateSchedule
<1>2. row' = [status |-> "DRAFT", version |-> 0, rev |-> 0, content |-> 1,
              participants |-> people]
  BY DEF NoRow, CreateSchedule
<1>3. QED
  BY <1>1, <1>2 DEF Lifecycle!Appear, NoRow

(* The service gives every schedule the life that ScheduleLifecycle states:*)
(* a draft, revision 1 when it is confirmed, one revision per change, and  *)
(* cancelled for good.                                                     *)
THEOREM SchedulesLiveTheirLife == ScheduleSpec => ImplementsLifecycle
<1>1. ScheduleInit => Lifecycle!LifecycleInit
  BY DEF ScheduleInit, NoRow, Lifecycle!LifecycleInit
<1>2. ASSUME ScheduleInv, [ScheduleNext]_scheduleVars
      PROVE  [Lifecycle!LifecycleNext]_<<row.status, row.rev>>
  <2>1. CASE UNCHANGED row
    BY <2>1
  <2>2. ASSUME NEW u \in Users, NEW people \in SUBSET (Users \cup {External}),
               CreateSchedule(u, people)
        PROVE  [Lifecycle!LifecycleNext]_<<row.status, row.rev>>
    BY <1>2, <2>2, CreateIsALifecycleStep DEF Lifecycle!LifecycleNext
  <2>3. ASSUME NEW t \in Threads, CommitChange(t)
        PROVE  [Lifecycle!LifecycleNext]_<<row.status, row.rev>>
    BY <1>2, <2>3, CommitIsALifecycleStep
  <2>4. QED
    BY <1>2, <2>1, <2>2, <2>3 DEF ScheduleNext, WriteStep, Load, Acknowledge, UpdateSchedule,
       Confirm, Cancel, Start, Flush, FlushConflicts, Rollback, scheduleVars
<1>3. QED
  BY <1>1, <1>2, ScheduleInvariance, PTL
     DEF ScheduleSpec, ImplementsLifecycle, Lifecycle!LifecycleSpec

-------------------------------------------------------------------------------
(* The form.  The version a save starts from, and the one a conflict       *)
(* brought up, were on the screen as the server's.                         *)
FormInv ==
  /\ rowVersionRef \in shownVersions
  /\ conflict # 0 => conflict \in shownVersions

LEMMA FormStepKeepsInv ==
  ASSUME FormInv, [FormNext]_formVars
  PROVE  FormInv'
<1>1. CASE OpenForm
  BY <1>1 DEF OpenForm, Mounted, FormInv
<1>2. CASE ApplyLatest \/ RetryMine
  BY <1>2 DEF ApplyLatest, RetryMine, FormInv
<1>3. CASE ReadConflict \/ FinishReload
  BY <1>3 DEF ReadConflict, FinishReload, Latest, FormInv
<1>4. CASE UNCHANGED <<rowVersionRef, shownVersions, conflict>>
  BY <1>4 DEF FormInv
<1>5. QED
  BY <1>1, <1>2, <1>3, <1>4 DEF FormNext, formVars, baseVars, conflictState, OtherMemberSaves,
     ReadRecord, EditDraft, SubmitForm, ServeForm, FormSaved, FormFails, ReloadConflict,
     RecoverAccess

(* The form writes only over versions of the schedule that it showed as    *)
(* the server's (the version sent by saveRecord, after conflicts too).     *)
THEOREM OnlyShownVersionsAreReplaced == FormSpec => OnlyShownSchedulesAreReplaced
<1>1. FormInit => FormInv
  BY DEF FormInit, FormInv
<1>2. FormInv /\ [FormNext]_formVars => FormInv'
  BY FormStepKeepsInv
<1>3. ASSUME FormInv, [FormNext]_formVars,
             formSave = "sent", formSave' \in {"ok", "lost"}, formRow' # formRow
      PROVE  Len(formRow) \in shownVersions
  <2>1. CASE ServeForm
    BY <1>3, <2>1 DEF ServeForm, sentVersion, FormInv
  <2>2. CASE OtherMemberSaves
    BY <1>3, <2>2 DEF OtherMemberSaves, outcome
  <2>3. QED
    BY <1>3, <2>1, <2>2 DEF FormNext, formVars, ReadRecord, EditDraft, SubmitForm, RetryMine,
       ApplyLatest, FormSaved, FormFails, ReadConflict, ReloadConflict, FinishReload,
       RecoverAccess, OpenForm
<1>4. QED
  BY <1>1, <1>2, <1>3, PTL DEF FormSpec, OnlyShownSchedulesAreReplaced

-------------------------------------------------------------------------------
(* The editors of the values.  A draft differs from the version it is      *)
(* saved over in the properties typed in only.                             *)
ValueSave == [at : {"sent", "ok", "403", "409", "lost"}, values : Contents, by : SUBSET Props,
              base : Nat]

ValueTypes ==
  /\ place \in {"card", "detail"}
  /\ valueRow \in Seq(Contents) /\ valueRow # <<>>
  /\ record \in 1 .. Len(valueRow)
  /\ valueDraft \in Contents
  /\ valueDirty \in BOOLEAN /\ touched \subseteq Props
  /\ valueSave \in {noSave} \cup ValueSave

DraftIsOf(version) ==
  /\ version \in 1 .. Len(valueRow)
  /\ \A p \in Props \ touched : valueDraft[p] = valueRow[version][p]

DraftsAreOfTheirBase ==
  \/ place = "card" /\ DraftIsOf(baseVersion)
  \/ place = "detail" /\ valueDirty /\ DraftIsOf(baseVersion)
  \/ place = "detail" /\ ~valueDirty /\ baseVersion = 0 /\ valueDraft = valueRow[record]

SavesAreOfTheirBase ==
  valueSave # noSave =>
    /\ valueSave.base \in 1 .. Len(valueRow)
    /\ valueSave.at = "sent" =>
         \A p \in Props \ valueSave.by : valueSave.values[p] = valueRow[valueSave.base][p]

ValuesInv == ValueTypes /\ DraftsAreOfTheirBase /\ SavesAreOfTheirBase

(* What a handler hands to the effect is a draft of its base, or the page's*)
(* when it is clean; the effect leaves such a draft.                       *)
IsDraft(d, b, flag, by) ==
  /\ d \in Contents /\ flag \in BOOLEAN /\ by \subseteq Props
  /\ place = "card" \/ flag => /\ b \in 1 .. Len(valueRow)
                              /\ \A p \in Props \ by : d[p] = valueRow[b][p]
  /\ place = "detail" /\ ~flag => b = 0

AdoptsADraft ==
  \E d, b, flag, by : \E r \in 1 .. Len(valueRow) :
    IsDraft(d, b, flag, by) /\ Adopt(d, b, flag, by, r)

DraftTypes ==
  /\ record \in 1 .. Len(valueRow)
  /\ valueDraft \in Contents /\ valueDirty \in BOOLEAN /\ touched \subseteq Props

LEMMA AdoptLeavesADraft ==
  ASSUME ValueTypes, UNCHANGED <<place, valueRow>>,
         NEW d, NEW b, NEW flag, NEW by, NEW r \in 1 .. Len(valueRow),
         IsDraft(d, b, flag, by), Adopt(d, b, flag, by, r)
  PROVE  DraftTypes' /\ DraftsAreOfTheirBase'
<1>1. /\ record' = r /\ valueDirty' = flag
      /\ \/ /\ valueDraft' = valueRow[r] /\ touched' = {}
            /\ baseVersion' = IF place = "card" THEN r ELSE b
            /\ place = "detail" => ~flag
         \/ /\ valueDraft' = d /\ touched' = by /\ baseVersion' = b
            /\ place = "detail" => flag
  BY DEF Adopt, rebased, IsDraft
<1>2. valueRow[r] \in Contents
  BY DEF ValueTypes
<1>3. DraftTypes'
  BY <1>1, <1>2 DEF DraftTypes, IsDraft
<1>4. place' = place /\ valueRow' = valueRow
  OBVIOUS
<1>5. CASE place = "card"
  <2>1. DraftIsOf(baseVersion)'
    BY <1>1, <1>4, <1>5 DEF DraftIsOf, IsDraft
  <2>2. QED
    BY <1>3, <1>4, <1>5, <2>1 DEF DraftsAreOfTheirBase
<1>6. CASE place = "detail" /\ flag
  <2>1. DraftIsOf(baseVersion)'
    BY <1>1, <1>4, <1>6 DEF DraftIsOf, IsDraft
  <2>2. QED
    BY <1>1, <1>3, <1>4, <1>6, <2>1 DEF DraftsAreOfTheirBase
<1>7. CASE place = "detail" /\ ~flag
  BY <1>1, <1>3, <1>4, <1>7 DEF DraftsAreOfTheirBase, IsDraft
<1>8. QED
  BY <1>5, <1>6, <1>7 DEF ValueTypes, IsDraft

(* The draft itself is one, and so is a version of the row.                *)
LEMMA DraftsAreDrafts ==
  ASSUME ValuesInv
  PROVE  /\ IsDraft(valueDraft, baseVersion, valueDirty, touched)
         /\ \A v \in 1 .. Len(valueRow) :
              IsDraft(valueRow[v], IF place = "card" THEN v ELSE 0, FALSE, {})
         /\ place = "detail" => IsDraft(valueDraft, 0, FALSE, touched)
<1>1. \A v \in 1 .. Len(valueRow) : valueRow[v] \in Contents
  BY DEF ValuesInv, ValueTypes
<1>2. QED
  BY <1>1 DEF ValuesInv, ValueTypes, DraftsAreOfTheirBase, DraftIsOf, IsDraft

LEMMA ChangedDraftIsADraft ==
  ASSUME ValuesInv, NEW p \in Props, NEW v \in PropValues
  PROVE  IsDraft([valueDraft EXCEPT ![p] = v],
                 IF place = "detail" /\ ~valueDirty THEN record ELSE baseVersion,
                 place = "detail", touched \cup {p})
<1> DEFINE d == [valueDraft EXCEPT ![p] = v]
<1>1. d \in Contents /\ \A q \in Props \ {p} : d[q] = valueDraft[q]
  BY DEF ValuesInv, ValueTypes, Contents
<1> HIDE DEF d
<1>2. QED
  BY <1>1 DEF d, ValuesInv, ValueTypes, DraftsAreOfTheirBase, DraftIsOf, IsDraft

(* The steps that end in the effect.                                       *)
LEMMA AdoptingKeepsInv ==
  ASSUME ValuesInv,
         RecordRead \/ ChangeValue \/ CancelEdit \/ ReloadLatest \/ ValuesSaved
  PROVE  ValuesInv'
<1>1. UNCHANGED <<place, valueRow>> /\ (UNCHANGED valueSave \/ valueSave' = noSave)
  BY DEF RecordRead, ChangeValue, CancelEdit, ReloadLatest, ValuesSaved
<1>2. record \in 1 .. Len(valueRow) /\ record .. Len(valueRow) \subseteq 1 .. Len(valueRow)
  BY DEF ValuesInv, ValueTypes
<1>3. AdoptsADraft
  <2>1. CASE RecordRead
    <3>1. PICK r \in 1 .. Len(valueRow) : Adopt(valueDraft, baseVersion, valueDirty, touched, r)
      BY <2>1, <1>2 DEF RecordRead
    <3>2. QED
      BY <3>1, DraftsAreDrafts DEF AdoptsADraft
  <2>2. CASE ChangeValue
    <3>1. PICK p \in Props, v \in PropValues :
            Adopt([valueDraft EXCEPT ![p] = v],
                  IF place = "detail" /\ ~valueDirty THEN record ELSE baseVersion,
                  place = "detail", touched \cup {p}, record)
      BY <2>2 DEF ChangeValue
    <3>2. QED
      BY <3>1, <1>2, ChangedDraftIsADraft DEF AdoptsADraft
  <2>3. ASSUME NEW v \in 1 .. Len(valueRow),
               Adopt(valueRow[v], IF place = "card" THEN v ELSE 0, FALSE, {}, record)
        PROVE  AdoptsADraft
    BY <2>3, <1>2, DraftsAreDrafts DEF AdoptsADraft
  <2>4. ASSUME place = "detail", Adopt(valueDraft, 0, FALSE, touched, record)
        PROVE  AdoptsADraft
    BY <2>4, <1>2, DraftsAreDrafts DEF AdoptsADraft
  <2>5. CASE CancelEdit
    <3>1. Adopt(valueRow[record], IF place = "card" THEN record ELSE 0, FALSE, {}, record)
      BY <2>5 DEF CancelEdit
    <3>2. QED
      BY <3>1, <1>2, <2>3
  <2>6. CASE ReloadLatest
    <3>1. CASE place = "card" /\ Adopt(valueRow[record], record, FALSE, {}, record)
      <4>1. (IF place = "card" THEN record ELSE 0) = record
        BY <3>1
      <4>2. QED
        BY <3>1, <4>1, <1>2, <2>3
    <3>2. QED
      BY <2>6, <3>1, <2>4 DEF ReloadLatest
  <2>7. CASE ValuesSaved
    <3>1. valueSave.base \in 1 .. Len(valueRow)
      BY <2>7 DEF ValuesSaved, ValuesInv, SavesAreOfTheirBase, noSave
    <3>2. CASE place = "card" /\ Adopt(valueRow[valueSave.base], valueSave.base, FALSE, {}, record)
      <4>1. (IF place = "card" THEN valueSave.base ELSE 0) = valueSave.base
        BY <3>2
      <4>2. QED
        BY <3>1, <3>2, <4>1, <2>3
    <3>3. QED
      BY <2>7, <3>2, <2>4 DEF ValuesSaved
  <2>8. QED
    BY <2>1, <2>2, <2>5, <2>6, <2>7
<1>4. DraftTypes' /\ DraftsAreOfTheirBase'
  BY <1>1, <1>3, AdoptLeavesADraft DEF AdoptsADraft, ValuesInv
<1>5. ValueTypes'
  BY <1>1, <1>4 DEF ValuesInv, ValueTypes, DraftTypes, noSave
<1>6. SavesAreOfTheirBase'
  BY <1>1 DEF ValuesInv, SavesAreOfTheirBase, noSave
<1>7. QED
  BY <1>4, <1>5, <1>6 DEF ValuesInv

LEMMA MountKeepsInv ==
  ASSUME ValuesInv, UNCHANGED <<place, valueRow>>,
         NEW r \in 1 .. Len(valueRow), record' = r, Mount(r)
  PROVE  ValuesInv'
<1>1. valueRow[r] \in Contents
  BY DEF ValuesInv, ValueTypes
<1>2. QED
  BY <1>1 DEF Mount, ValuesInv, ValueTypes, DraftsAreOfTheirBase, DraftIsOf, SavesAreOfTheirBase,
     noSave

LEMMA WrittenRowKeepsDrafts ==
  ASSUME ValuesInv, NEW c \in Contents, valueRow' = Append(valueRow, c), KeepDraft,
         UNCHANGED place
  PROVE  /\ valueRow' \in Seq(Contents) /\ Len(valueRow') = Len(valueRow) + 1
         /\ valueRow'[Len(valueRow')] = c
         /\ \A v \in 1 .. Len(valueRow) : valueRow'[v] = valueRow[v]
         /\ DraftTypes' /\ DraftsAreOfTheirBase'
<1>1. valueRow \in Seq(Contents) /\ Len(valueRow) \in Nat
  BY DEF ValuesInv, ValueTypes
<1>2. /\ valueRow' \in Seq(Contents) /\ Len(valueRow') = Len(valueRow) + 1
      /\ valueRow'[Len(valueRow')] = c
      /\ \A v \in 1 .. Len(valueRow) : valueRow'[v] = valueRow[v]
  BY <1>1
<1>3. DraftTypes'
  BY <1>1, <1>2 DEF DraftTypes, KeepDraft, ValuesInv, ValueTypes
<1>4. DraftsAreOfTheirBase'
  BY <1>1, <1>2 DEF DraftsAreOfTheirBase, DraftIsOf, KeepDraft, ValuesInv, ValueTypes
<1>5. QED
  BY <1>2, <1>3, <1>4

LEMMA OtherWriteKeepsInv ==
  ASSUME ValuesInv, OtherWrite
  PROVE  ValuesInv'
<1>1. PICK c \in Contents : valueRow' = Append(valueRow, c)
  BY DEF OtherWrite
<1>2. /\ KeepDraft /\ UNCHANGED <<place, valueSave>>
  BY DEF OtherWrite
<1>3. ValueTypes'
  BY <1>1, <1>2, WrittenRowKeepsDrafts DEF ValuesInv, ValueTypes, DraftTypes, noSave
<1>4. SavesAreOfTheirBase'
  <2>1. /\ valueRow \in Seq(Contents) /\ Len(valueRow) \in Nat
        /\ Len(valueRow') = Len(valueRow) + 1
        /\ \A v \in 1 .. Len(valueRow) : valueRow'[v] = valueRow[v]
    BY <1>1, <1>2, WrittenRowKeepsDrafts DEF ValuesInv, ValueTypes
  <2>2. QED
    BY <2>1, <1>2 DEF ValuesInv, SavesAreOfTheirBase, noSave
<1>5. QED
  BY <1>1, <1>2, <1>3, <1>4, WrittenRowKeepsDrafts DEF ValuesInv

LEMMA SaveValuesKeepsInv ==
  ASSUME ValuesInv, SaveValues
  PROVE  ValuesInv'
<1>1. place = "detail" => valueDirty
  BY DEF SaveValues
<1>2. DraftIsOf(baseVersion) /\ baseVersion # 0
  BY <1>1 DEF ValuesInv, ValueTypes, DraftsAreOfTheirBase, DraftIsOf
<1>3. /\ valueSave' = [at |-> "sent", values |-> valueDraft, by |-> touched, base |-> baseVersion]
      /\ KeepDraft /\ UNCHANGED <<place, valueRow>>
  BY <1>2 DEF SaveValues
<1>4. valueSave' \in ValueSave
  BY <1>2, <1>3 DEF ValueSave, ValuesInv, ValueTypes, DraftIsOf
<1>5. ValueTypes' /\ DraftsAreOfTheirBase'
  BY <1>3, <1>4 DEF ValuesInv, ValueTypes, DraftsAreOfTheirBase, DraftIsOf, KeepDraft, noSave
<1>6. SavesAreOfTheirBase'
  BY <1>2, <1>3 DEF SavesAreOfTheirBase, DraftIsOf
<1>7. QED
  BY <1>5, <1>6 DEF ValuesInv

LEMMA ServeValuesKeepsInv ==
  ASSUME ValuesInv, ServeValues
  PROVE  ValuesInv'
<1>1. /\ valueSave \in ValueSave /\ valueSave.base \in 1 .. Len(valueRow)
      /\ KeepDraft /\ UNCHANGED place
      /\ valueRow \in Seq(Contents) /\ Len(valueRow) \in Nat \ {0}
  BY DEF ServeValues, ValuesInv, ValueTypes, SavesAreOfTheirBase, noSave
<1>2. \/ UNCHANGED valueRow
      \/ valueRow' = Append(valueRow, valueSave.values)
  BY DEF ServeValues
<1>3. /\ DraftTypes' /\ DraftsAreOfTheirBase'
      /\ valueRow' \in Seq(Contents) /\ Len(valueRow') >= Len(valueRow) /\ Len(valueRow') \in Nat
  <2>1. CASE UNCHANGED valueRow
    BY <1>1, <2>1 DEF DraftTypes, DraftsAreOfTheirBase, DraftIsOf, KeepDraft, ValuesInv, ValueTypes
  <2>2. CASE valueRow' = Append(valueRow, valueSave.values)
    <3>1. valueSave.values \in Contents
      BY <1>1 DEF ValueSave
    <3>2. QED
      BY <1>1, <2>2, <3>1, WrittenRowKeepsDrafts
  <2>3. QED
    BY <1>2, <2>1, <2>2
<1>4. PICK a \in {"ok", "403", "409", "lost"} :
        \/ valueSave' = [valueSave EXCEPT !.at = a]
        \/ valueSave' = [valueSave EXCEPT !.at = a, !.base = Len(valueRow')]
  BY DEF ServeValues
<1>5. valueSave' \in ValueSave /\ valueSave'.at # "sent" /\ valueSave'.base \in 1 .. Len(valueRow')
  <2>1. /\ [valueSave EXCEPT !.at = a] \in ValueSave
        /\ [valueSave EXCEPT !.at = a].at = a
        /\ [valueSave EXCEPT !.at = a].base = valueSave.base
    BY <1>1 DEF ValueSave
  <2>2. ASSUME NEW n \in Nat
        PROVE  /\ [valueSave EXCEPT !.at = a, !.base = n] \in ValueSave
               /\ [valueSave EXCEPT !.at = a, !.base = n].at = a
               /\ [valueSave EXCEPT !.at = a, !.base = n].base = n
    BY <1>1 DEF ValueSave
  <2>3. Len(valueRow') \in 1 .. Len(valueRow') /\ 1 .. Len(valueRow) \subseteq 1 .. Len(valueRow')
    BY <1>1, <1>3
  <2>4. QED
    BY <1>1, <1>3, <1>4, <2>1, <2>2, <2>3
<1>6. ValueTypes'
  BY <1>1, <1>3, <1>5 DEF ValueTypes, DraftTypes, ValuesInv
<1>7. SavesAreOfTheirBase'
  BY <1>5 DEF SavesAreOfTheirBase
<1>8. QED
  BY <1>3, <1>6, <1>7 DEF ValuesInv

LEMMA ValuesStepKeepsInv ==
  ASSUME ValuesInv, [ValuesNext]_valueVars
  PROVE  ValuesInv'
<1>1. CASE StartEditing \/ ValuesFail \/ UNCHANGED valueVars
  <2>1. KeepDraft /\ UNCHANGED <<place, valueRow>> /\ (UNCHANGED valueSave \/ valueSave' = noSave)
    BY <1>1 DEF StartEditing, ValuesFail, valueVars, KeepDraft
  <2>2. QED
    BY <2>1 DEF KeepDraft, ValuesInv, ValueTypes, DraftsAreOfTheirBase, DraftIsOf,
       SavesAreOfTheirBase, noSave
<1>2. CASE RetryValueAccess
  <2>1. CASE place = "card" /\ record' = Len(valueRow) /\ Mount(record')
    <3>1. Len(valueRow) \in 1 .. Len(valueRow)
      BY DEF ValuesInv, ValueTypes
    <3>2. QED
      BY <1>2, <2>1, <3>1, MountKeepsInv DEF RetryValueAccess
  <2>2. CASE KeepDraft /\ UNCHANGED valueSave
    BY <1>2, <2>2 DEF RetryValueAccess, KeepDraft, ValuesInv, ValueTypes, DraftsAreOfTheirBase,
       DraftIsOf, SavesAreOfTheirBase, noSave
  <2>3. QED
    BY <1>2, <2>1, <2>2 DEF RetryValueAccess
<1>3. CASE RemountEditor
  BY <1>3, MountKeepsInv DEF RemountEditor, ValuesInv, ValueTypes
<1>4. QED
  BY <1>1, <1>2, <1>3, AdoptingKeepsInv, OtherWriteKeepsInv, SaveValuesKeepsInv,
     ServeValuesKeepsInv DEF ValuesNext

(* The card and the page send back only what their reader typed: the draft *)
(* is of the version the save names (DashboardCard, Detail's section).     *)
THEOREM OnlyTypedValuesAreWritten == ValuesSpec => NoUnseenValueIsReplaced
<1>1. ValuesInit => ValuesInv
  <2>1. ASSUME ValuesInit PROVE ValuesInv
    <3>1. [p \in Props |-> 1] \in Contents
      BY ValuesConstants DEF Contents
    <3>2. /\ valueRow \in Seq(Contents) /\ valueRow # <<>> /\ Len(valueRow) = 1
          /\ valueRow[1] \in Contents /\ valueDraft = valueRow[1] /\ record = 1
      BY <2>1, <3>1 DEF ValuesInit
    <3>3. ValueTypes
      <4>1. /\ place \in {"card", "detail"} /\ valueDirty \in BOOLEAN
            /\ touched \subseteq Props /\ valueSave = noSave
        BY <2>1 DEF ValuesInit
      <4>2. QED
        BY <3>2, <4>1 DEF ValueTypes
    <3>4. DraftsAreOfTheirBase
      BY <2>1, <3>2 DEF ValuesInit, DraftsAreOfTheirBase, DraftIsOf
    <3>5. QED
      BY <2>1, <3>3, <3>4 DEF ValuesInit, ValuesInv, SavesAreOfTheirBase
  <2>2. QED
    BY <2>1
<1>2. ValuesInv /\ [ValuesNext]_valueVars => ValuesInv'
  BY ValuesStepKeepsInv
<1>3. ASSUME ValuesInv, [ValuesNext]_valueVars,
             valueSave.at = "sent", valueRow' # valueRow, valueSave'.at # "sent",
             NEW p \in Props, valueRow'[Len(valueRow')][p] # valueRow[Len(valueRow)][p]
      PROVE  p \in valueSave.by
  <2>1. ServeValues
    BY <1>3 DEF ValuesNext, valueVars, OtherWrite, RecordRead, StartEditing, ChangeValue,
       CancelEdit, ReloadLatest, SaveValues, ValuesSaved, ValuesFail, RetryValueAccess, RemountEditor
  <2>2. valueSave.base = Len(valueRow) /\ valueRow' = Append(valueRow, valueSave.values)
    BY <1>3, <2>1 DEF ServeValues
  <2>3. valueSave \in ValueSave /\ valueRow \in Seq(Contents)
    BY <1>3 DEF ValuesInv, ValueTypes, noSave
  <2>4. valueRow'[Len(valueRow')] = valueSave.values
    BY <2>2, <2>3 DEF ValueSave
  <2>5. QED
    BY <1>3, <2>2, <2>4 DEF ValuesInv, SavesAreOfTheirBase, noSave
<1>4. ValuesInv /\ [ValuesNext]_valueVars =>
        [valueSave.at = "sent" /\ valueRow' # valueRow /\ valueSave'.at # "sent"
           => \A p \in Props : valueRow'[Len(valueRow')][p] # valueRow[Len(valueRow)][p]
                                => p \in valueSave.by]_valueVars
  BY <1>3
<1>5. QED
  BY <1>1, <1>2, <1>4, PTL DEF ValuesSpec, NoUnseenValueIsReplaced

-------------------------------------------------------------------------------
(* The dialog of times.  An input nobody typed in shows what it was taken  *)
(* from, and so does one that was clean when the outcome was read.         *)
TimeSave == [at : {"sent", "ok", "400", "403", "409", "lost", "conflict", "uncertain"},
             change : Slots, by : SUBSET Fields, latest : Nat, dirty : SUBSET Fields]

Times == [Fields -> Nat]

TimeTypes ==
  /\ timeRow \in Seq(Slots) /\ timeRow # <<>>
  /\ listed \in 1 .. Len(timeRow) /\ timeBase \in 1 .. Len(timeRow)
  /\ local \in Times /\ original \in Times /\ typed \subseteq Fields
  /\ timeSave \in {settled} \cup TimeSave

CleanInputsAreOriginal ==
  timeOpen =>
    /\ \A f \in Fields \ typed : local[f] = original[f]
    /\ timeSave.at \in {"conflict", "uncertain"} => timeSave.dirty \subseteq typed

TimeSavesAreOfTheirBase ==
  timeSave # settled =>
    /\ timeSave.latest \in 1 .. Len(timeRow)
    /\ timeSave.at = "sent" =>
         \A f \in Fields \ timeSave.by : timeSave.change[f] = timeRow[timeSave.latest][f]

TimeInv == TimeTypes /\ CleanInputsAreOriginal /\ TimeSavesAreOfTheirBase

LEMMA LocalTimes ==
  ASSUME NEW s \in Slots
  PROVE  Local(s) \in Times
<1>1. ASSUME NEW f \in Fields PROVE utcToLocal(s[f]) \in Nat
  <2>1. s[f] \in Nat
    BY DialogConstants DEF Slots
  <2>2. QED
    BY <2>1 DEF utcToLocal
<1>2. QED
  BY <1>1 DEF Local, Times

LEMMA TypingKeepsInv ==
  ASSUME TimeInv, Type
  PROVE  TimeInv'
<1>1. PICK f \in Fields, m \in Minutes :
        local' = [local EXCEPT ![f] = m] /\ typed' = typed \cup {f}
  BY DEF Type
<1>2. m \in Nat
  BY DialogConstants DEF Minutes, utcToLocal
<1>3. local' \in Times /\ \A g \in Fields \ {f} : local'[g] = local[g]
  BY <1>1, <1>2 DEF TimeInv, TimeTypes, Times
<1>4. UNCHANGED <<timeRow, listed, timeOpen, timeBase, original, timeSave>>
  BY DEF Type
<1>5. TimeTypes'
  BY <1>1, <1>3, <1>4 DEF TimeInv, TimeTypes, settled
<1>6. CleanInputsAreOriginal'
  BY <1>1, <1>3, <1>4 DEF TimeInv, CleanInputsAreOriginal
<1>7. QED
  BY <1>4, <1>5, <1>6 DEF TimeInv, TimeSavesAreOfTheirBase, settled

(* The inputs are taken over while no save is under way, or closed.        *)
LEMMA TakingOverKeepsInv ==
  ASSUME TimeInv, NEW v \in 1 .. Len(timeRow), TakeOver(v), UNCHANGED timeRow,
         listed' \in 1 .. Len(timeRow), timeSave' = settled
  PROVE  TimeInv'
<1>1. timeRow[v] \in Slots
  BY DEF TimeInv, TimeTypes
<1>2. Local(timeRow[v]) \in Times
  BY <1>1, LocalTimes
<1>3. TimeTypes'
  BY <1>2 DEF TakeOver, TimeInv, TimeTypes
<1>4. QED
  BY <1>3 DEF TakeOver, TimeInv, CleanInputsAreOriginal, TimeSavesAreOfTheirBase, settled

(* The steps that end with the dialog closed and nothing under way.        *)
LEMMA ClosingKeepsInv ==
  ASSUME TimeInv, UNCHANGED <<timeRow, listed, original>>, local' \in Times,
         timeBase' \in 1 .. Len(timeRow), timeSave' = settled, timeOpen' = FALSE, typed' = {}
  PROVE  TimeInv'
BY DEF TimeInv, TimeTypes, CleanInputsAreOriginal, TimeSavesAreOfTheirBase

(* A row that grew keeps its versions.                                     *)
LEMMA GrownRow ==
  ASSUME TimeTypes, NEW s \in Slots, timeRow' = Append(timeRow, s)
  PROVE  /\ timeRow' \in Seq(Slots) /\ timeRow' # <<>> /\ Len(timeRow') = Len(timeRow) + 1
         /\ Len(timeRow) \in Nat
         /\ timeRow'[Len(timeRow')] = s
         /\ \A v \in 1 .. Len(timeRow) : timeRow'[v] = timeRow[v]
BY DEF TimeTypes

LEMMA OtherTimeKeepsInv ==
  ASSUME TimeInv, OtherTime
  PROVE  TimeInv'
<1>1. PICK s \in Slots : timeRow' = Append(timeRow, s)
  BY DEF OtherTime
<1>2. UNCHANGED <<listed, timeOpen, timeBase, local, original, typed, timeSave>>
  BY DEF OtherTime, inputs
<1>3. TimeTypes'
  BY <1>1, <1>2, GrownRow DEF TimeInv, TimeTypes, settled
<1>4. CleanInputsAreOriginal'
  BY <1>2 DEF TimeInv, CleanInputsAreOriginal
<1>5. /\ Len(timeRow') = Len(timeRow) + 1 /\ Len(timeRow) \in Nat
      /\ \A v \in 1 .. Len(timeRow) : timeRow'[v] = timeRow[v]
  BY <1>1, GrownRow DEF TimeInv
<1>6. TimeSavesAreOfTheirBase'
  BY <1>2, <1>5 DEF TimeInv, TimeSavesAreOfTheirBase, settled
<1>7. QED
  BY <1>3, <1>4, <1>6 DEF TimeInv

LEMMA SubmitKeepsInv ==
  ASSUME TimeInv, submit
  PROVE  TimeInv'
<1> DEFINE change == preserveScheduleTimeInstants
<1>1. /\ timeOpen /\ change \in Slots
      /\ timeSave' = [at |-> "sent", change |-> change, by |-> typed, latest |-> timeBase,
                      dirty |-> {}]
      /\ UNCHANGED <<timeRow, listed, timeOpen, timeBase, local, original, typed>>
  BY DEF submit, inputs
<1>2. \A f \in Fields \ typed : change[f] = timeRow[timeBase][f]
  BY <1>1 DEF TimeInv, CleanInputsAreOriginal, preserveScheduleTimeInstants
<1> HIDE DEF change
<1>3. timeSave' \in TimeSave
  BY <1>1 DEF TimeInv, TimeTypes, TimeSave
<1>4. TimeTypes'
  BY <1>1, <1>3 DEF TimeInv, TimeTypes
<1>5. CleanInputsAreOriginal'
  BY <1>1 DEF TimeInv, CleanInputsAreOriginal
<1>6. TimeSavesAreOfTheirBase'
  BY <1>1, <1>2 DEF TimeInv, TimeTypes, TimeSavesAreOfTheirBase
<1>7. QED
  BY <1>4, <1>5, <1>6 DEF TimeInv

LEMMA ServeTimeKeepsInv ==
  ASSUME TimeInv, ServeTime
  PROVE  TimeInv'
<1>1. /\ timeSave \in TimeSave /\ timeSave.latest \in 1 .. Len(timeRow)
      /\ timeRow \in Seq(Slots) /\ Len(timeRow) \in Nat /\ timeRow # <<>>
      /\ UNCHANGED <<listed, timeOpen, timeBase, local, original, typed>>
  BY DEF ServeTime, inputs, TimeInv, TimeTypes, TimeSavesAreOfTheirBase, settled
<1>2. /\ timeRow' \in Seq(Slots) /\ timeRow' # <<>>
      /\ Len(timeRow') >= Len(timeRow) /\ Len(timeRow') \in Nat
  <2>1. CASE UNCHANGED timeRow
    BY <1>1, <2>1
  <2>2. CASE timeRow' = Append(timeRow, timeSave.change)
    <3>1. timeSave.change \in Slots
      BY <1>1 DEF TimeSave
    <3>2. QED
      BY <1>1, <2>2, <3>1, GrownRow DEF TimeInv
  <2>3. QED
    BY <2>1, <2>2 DEF ServeTime
<1>3. PICK a \in {"ok", "400", "403", "409", "lost"} :
        \/ timeSave' = [timeSave EXCEPT !.at = a]
        \/ timeSave' = [timeSave EXCEPT !.at = a, !.latest = Len(timeRow')]
  BY DEF ServeTime
<1>4. timeSave' \in TimeSave /\ timeSave'.at = a /\ timeSave'.latest \in 1 .. Len(timeRow')
  <2>1. /\ [timeSave EXCEPT !.at = a] \in TimeSave
        /\ [timeSave EXCEPT !.at = a].at = a
        /\ [timeSave EXCEPT !.at = a].latest = timeSave.latest
    BY <1>1 DEF TimeSave
  <2>2. ASSUME NEW n \in Nat
        PROVE  /\ [timeSave EXCEPT !.at = a, !.latest = n] \in TimeSave
               /\ [timeSave EXCEPT !.at = a, !.latest = n].at = a
               /\ [timeSave EXCEPT !.at = a, !.latest = n].latest = n
    BY <1>1 DEF TimeSave
  <2>3. /\ Len(timeRow') \in 1 .. Len(timeRow')
        /\ 1 .. Len(timeRow) \subseteq 1 .. Len(timeRow')
    BY <1>1, <1>2
  <2>4. QED
    BY <1>1, <1>2, <1>3, <2>1, <2>2, <2>3
<1>5. TimeTypes'
  BY <1>1, <1>2, <1>4 DEF TimeInv, TimeTypes
<1>6. CleanInputsAreOriginal'
  BY <1>1, <1>4 DEF TimeInv, CleanInputsAreOriginal
<1>7. TimeSavesAreOfTheirBase'
  BY <1>4 DEF TimeSavesAreOfTheirBase
<1>8. QED
  BY <1>5, <1>6, <1>7 DEF TimeInv

LEMMA ReadOutcomeKeepsInv ==
  ASSUME TimeInv, ReadOutcome
  PROVE  TimeInv'
<1>1. /\ timeSave \in TimeSave /\ Len(timeRow) \in Nat \ {0}
      /\ UNCHANGED <<timeRow, timeBase, local, original>> /\ listed' \in 1 .. Len(timeRow)
  BY DEF ReadOutcome, TimeInv, TimeTypes, settled
<1>2. CASE timeSave' = settled /\ Withheld
  BY <1>1, <1>2 DEF Withheld, TimeInv, TimeTypes, CleanInputsAreOriginal, TimeSavesAreOfTheirBase
<1>3. CASE /\ timeSave' = [timeSave EXCEPT !.latest = Len(timeRow), !.dirty = dirtyInputs,
                              !.at = IF @ = "409" THEN "conflict" ELSE "uncertain"]
           /\ UNCHANGED <<timeOpen, typed>>
  <2>1. dirtyInputs \subseteq Fields
    BY DEF dirtyInputs
  <2>2. PICK a \in {"conflict", "uncertain"} :
          timeSave' = [timeSave EXCEPT !.latest = Len(timeRow), !.dirty = dirtyInputs, !.at = a]
    BY <1>1, <1>3 DEF TimeSave
  <2>3. /\ timeSave' \in TimeSave /\ timeSave'.at \in {"conflict", "uncertain"}
        /\ timeSave'.dirty = dirtyInputs /\ timeSave'.latest = Len(timeRow)
    <3>1. timeSave' = [at |-> a, change |-> timeSave.change, by |-> timeSave.by,
                       latest |-> Len(timeRow), dirty |-> dirtyInputs]
      BY <1>1, <2>2 DEF TimeSave
    <3>2. timeSave.change \in Slots /\ timeSave.by \subseteq Fields
      BY <1>1 DEF TimeSave
    <3>3. QED
      BY <1>1, <2>1, <3>1, <3>2 DEF TimeSave
  <2>4. timeOpen => dirtyInputs \subseteq typed
    BY DEF TimeInv, CleanInputsAreOriginal, dirtyInputs
  <2>5. TimeTypes'
    BY <1>1, <1>3, <2>3 DEF TimeInv, TimeTypes
  <2>6. CleanInputsAreOriginal'
    BY <1>1, <1>3, <2>3, <2>4 DEF TimeInv, CleanInputsAreOriginal
  <2>7. TimeSavesAreOfTheirBase'
    BY <1>1, <2>3 DEF TimeSavesAreOfTheirBase
  <2>8. QED
    BY <2>5, <2>6, <2>7 DEF TimeInv
<1>4. QED
  BY <1>2, <1>3 DEF ReadOutcome

LEMMA ConflictKeepsInv ==
  ASSUME TimeInv, Conflict
  PROVE  TimeInv'
<1> DEFINE latest == Local(timeRow[timeSave.latest])
<1>1. /\ timeSave # settled /\ timeSave.latest \in 1 .. Len(timeRow)
      /\ timeRow[timeSave.latest] \in Slots
      /\ timeOpen => timeSave.dirty \subseteq typed
  BY DEF Conflict, TimeInv, TimeTypes, CleanInputsAreOriginal, TimeSavesAreOfTheirBase, settled
<1>2. latest \in Times
  BY <1>1, LocalTimes
<1> HIDE DEF latest
<1>3. /\ timeSave' = settled /\ timeBase' = timeSave.latest /\ original' = latest
      /\ local' = [f \in Fields |-> followed(f, latest)]
      /\ typed' = typed \cap timeSave.dirty
      /\ UNCHANGED <<timeRow, listed, timeOpen>>
  BY DEF Conflict, latest
<1>4. local' \in Times /\ \A f \in Fields \ timeSave.dirty : local'[f] = original'[f]
  BY <1>2, <1>3 DEF followed, Times, TimeInv, TimeTypes
<1>5. TimeTypes'
  BY <1>1, <1>2, <1>3, <1>4 DEF TimeInv, TimeTypes
<1>6. CleanInputsAreOriginal'
  BY <1>1, <1>3, <1>4 DEF CleanInputsAreOriginal, settled
<1>7. QED
  BY <1>3, <1>5, <1>6 DEF TimeInv, TimeSavesAreOfTheirBase

LEMMA TimeStepKeepsInv ==
  ASSUME TimeInv, [TimeNext]_timeVars
  PROVE  TimeInv'
<1>1. CASE UNCHANGED timeVars
  BY <1>1 DEF timeVars, TimeInv, TimeTypes, CleanInputsAreOriginal, TimeSavesAreOfTheirBase, settled
<1>2. CASE ListRead
  BY <1>2 DEF ListRead, inputs, TimeInv, TimeTypes, CleanInputsAreOriginal,
     TimeSavesAreOfTheirBase, settled
<1>3. CASE show \/ RemountRow
  BY <1>3, TakingOverKeepsInv DEF show, RemountRow, TimeInv, TimeTypes
<1>4. CASE recheckAccess
  <2>1. Len(timeRow) \in 1 .. Len(timeRow)
    BY DEF TimeInv, TimeTypes
  <2>2. QED
    BY <1>4, <2>1, TakingOverKeepsInv DEF recheckAccess
<1>5. CASE close
  <2>1. Local(timeRow[timeBase]) \in Times
    BY LocalTimes DEF TimeInv, TimeTypes
  <2>2. QED
    BY <1>5, <2>1, ClosingKeepsInv DEF close, TimeInv, TimeTypes
<1>6. CASE Rejected
  <2>1. CASE timeSave.at = "400"
    BY <1>6, <2>1 DEF Rejected, TimeInv, TimeTypes, CleanInputsAreOriginal,
       TimeSavesAreOfTheirBase, settled
  <2>2. CASE timeSave.at = "403"
    BY <1>6, <2>2, ClosingKeepsInv DEF Rejected, Withheld, TimeInv, TimeTypes
  <2>3. QED
    BY <1>6, <2>1, <2>2 DEF Rejected
<1>7. CASE TimeSaved \/ RoleLost
  <2>1. timeSave.latest \in 1 .. Len(timeRow)
    BY <1>7 DEF TimeSaved, RoleLost, TimeInv, TimeSavesAreOfTheirBase, settled
  <2>2. QED
    BY <1>7, <2>1, ClosingKeepsInv DEF TimeSaved, RoleLost, Withheld, TimeInv, TimeTypes
<1>8. CASE onDenied
  BY <1>8, ClosingKeepsInv DEF onDenied, Withheld, TimeInv, TimeTypes
<1>9. QED
  BY <1>1, <1>2, <1>3, <1>4, <1>5, <1>6, <1>7, <1>8, TypingKeepsInv, OtherTimeKeepsInv,
     SubmitKeepsInv, ServeTimeKeepsInv, ReadOutcomeKeepsInv, ConflictKeepsInv DEF TimeNext

(* The dialog writes only what its reader typed: an input left alone keeps *)
(* its instant (preserveScheduleTimeInstants), after conflicts too.        *)
THEOREM OnlyTypedTimesAreWritten == TimeSpec => NoUnseenTimeIsReplaced
<1>1. ASSUME TimeInit PROVE TimeInv
  <2>1. PICK s \in Slots : timeRow = <<s>>
    BY <1>1 DEF TimeInit
  <2>2. timeRow \in Seq(Slots) /\ Len(timeRow) = 1 /\ timeRow # <<>> /\ timeRow[1] \in Slots
    BY <2>1
  <2>3. Local(timeRow[1]) \in Times
    BY <2>2, LocalTimes
  <2>4. QED
    BY <1>1, <2>2, <2>3 DEF TimeInit, TimeInv, TimeTypes, CleanInputsAreOriginal,
       TimeSavesAreOfTheirBase, settled
<1>2. TimeInv /\ [TimeNext]_timeVars => TimeInv'
  BY TimeStepKeepsInv
<1>3. ASSUME TimeInv, [TimeNext]_timeVars,
             timeSave.at = "sent", timeRow' # timeRow, timeSave'.at # "sent",
             NEW f \in Fields, timeRow'[Len(timeRow')][f] # timeRow[Len(timeRow)][f]
      PROVE  f \in timeSave.by
  <2>1. ServeTime
    BY <1>3 DEF TimeNext, timeVars, OtherTime, ListRead, show, Type, close, submit, Rejected,
       ReadOutcome, TimeSaved, RoleLost, Conflict, onDenied, recheckAccess, RemountRow
  <2>2. timeSave.latest = Len(timeRow) /\ timeRow' = Append(timeRow, timeSave.change)
    BY <1>3, <2>1 DEF ServeTime
  <2>3. timeSave \in TimeSave
    BY <1>3 DEF TimeInv, TimeTypes, settled
  <2>4. timeRow'[Len(timeRow')] = timeSave.change
    BY <1>3, <2>2, <2>3, GrownRow DEF TimeSave, TimeInv
  <2>5. QED
    BY <1>3, <2>2, <2>4 DEF TimeInv, TimeSavesAreOfTheirBase, settled
<1>4. TimeInv /\ [TimeNext]_timeVars =>
        [timeSave.at = "sent" /\ timeRow' # timeRow /\ timeSave'.at # "sent"
           => \A f \in Fields : timeRow'[Len(timeRow')][f] # timeRow[Len(timeRow)][f]
                                 => f \in timeSave.by]_timeVars
  BY <1>3
<1>5. QED
  BY <1>1, <1>2, <1>4, PTL DEF TimeSpec, NoUnseenTimeIsReplaced
===============================================================================
