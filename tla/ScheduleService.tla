---------------------------- MODULE ScheduleService ----------------------------
(***************************************************************************)
(* One schedule, edited and acknowledged by members who work from copies   *)
(* they loaded earlier.  A write is an optimistic transaction: it reads    *)
(* the row without a lock, compares its version with the one the client    *)
(* sent, and its flush fails if the version moved meanwhile; from the      *)
(* flush to the commit it holds the row lock.  An acknowledgement locks    *)
(* the row first.  The event commits with the change.                      *)
(***************************************************************************)
EXTENDS Integers, FiniteSets

CONSTANTS
  Users,          \* members of the project
  Writers,        \* those of them that may write the schedule
  Acknowledgers,  \* those of them that are no viewers
  External,       \* an attendee who is no member
  Threads,
  NoThread,
  MaxWrites       \* bound on accepted updates

ASSUME ScheduleAssumption ==
  /\ Writers \subseteq Acknowledgers /\ Acknowledgers \subseteq Users
  /\ External \notin Users /\ NoThread \notin Threads
  /\ MaxWrites \in Nat

VARIABLES
  row,      \* the project_schedule row with its participants
  rowLock,  \* who holds its row lock
  seen,     \* what each client loaded last
  threads,  \* the transactions under way
  acks,     \* the schedule_acknowledgement rows, with the content their user saw
  events    \* recorded SCHEDULE_* events

scheduleVars == <<row, rowLock, seen, threads, acks, events>>

\* content numbers what the row says besides its status: title, times, people
Row == [status       : {"ABSENT", "DRAFT", "CONFIRMED", "CANCELLED"},
        version      : Nat,
        rev          : Nat,
        content      : Nat,
        participants : SUBSET (Users \cup {External})]

NoRow == [status |-> "ABSENT", version |-> 0, rev |-> 0, content |-> 0, participants |-> {}]

\* read: before the flush; flushed: holds the row lock
Thread == [pc     : {"idle", "read", "flushed"},
           type   : {"NONE", "CHANGED", "CONFIRMED", "CANCELLED"},
           loaded : Row,   \* the row the transaction read
           next   : Row,   \* what it writes
           basis  : Nat]  \* what the client saw when it sent the command

Idle == [pc |-> "idle", type |-> "NONE", loaded |-> NoRow, next |-> NoRow, basis |-> 0]

Event == [type : {"CREATED", "CHANGED", "CONFIRMED", "CANCELLED", "ACKNOWLEDGED"},
          rev  : Nat, content : Nat, recipients : SUBSET Users]

ScheduleTypeOK ==
  /\ row \in Row
  /\ rowLock \in Threads \cup {NoThread}
  /\ seen \in [Users -> Row]
  /\ threads \in [Threads -> Thread]
  /\ acks \in SUBSET [user : Users, rev : Nat, content : Nat]
  /\ events \in SUBSET Event

ScheduleInit ==
  /\ row = NoRow
  /\ rowLock = NoThread
  /\ seen = [u \in Users |-> NoRow]
  /\ threads = [t \in Threads |-> Idle]
  /\ acks = {}
  /\ events = {}

Recipients(schedule) == schedule.participants \ {External}

Journaled(type, schedule) ==
  events \cup {[type |-> type, rev |-> schedule.rev, content |-> schedule.content,
                recipients |-> Recipients(schedule)]}

----------------------------------------------------------------------------
(* A client loads the schedule.                                            *)
Load(u) ==
  /\ row.status # "ABSENT"
  /\ seen' = [seen EXCEPT ![u] = row]
  /\ UNCHANGED <<row, rowLock, threads, acks, events>>

CreateSchedule(u, people) ==
  /\ row.status = "ABSENT" /\ u \in Writers
  /\ row' = [NoRow EXCEPT !.status = "DRAFT", !.content = 1, !.participants = people]
  /\ seen' = [seen EXCEPT ![u] = row']
  /\ events' = Journaled("CREATED", row')
  /\ UNCHANGED <<rowLock, threads, acks>>

(* check(): the version in the command against the row just read.          *)
(* Mutant: the version in the command is not compared.                     *)
AnyVersion(u) == row.status # "ABSENT"

Checked(u) == row.status # "ABSENT" /\ seen[u].version = row.version
              /\ seen[u].status # "ABSENT"

Editable == row.status # "CANCELLED"

(* A change of a confirmed schedule is a new business revision.            *)
Revised(status) == IF row.status = "CONFIRMED" THEN row.rev + 1 ELSE row.rev

Start(t, u, type, next) ==
  /\ threads[t].pc = "idle"
  /\ u \in Writers /\ Checked(u)
  /\ threads' = [threads EXCEPT ![t] =
       [pc |-> "read", type |-> type, loaded |-> row, next |-> next,
        basis |-> seen[u].content]]
  /\ UNCHANGED <<row, rowLock, seen, acks, events>>

UpdateSchedule(t, u, people) ==
  /\ Editable
  /\ row.content <= MaxWrites
  /\ Start(t, u, "CHANGED",
       [row EXCEPT !.content = @ + 1, !.participants = people,
                   !.rev = Revised(row.status)])

Confirm(t, u) ==
  /\ row.status = "DRAFT"
  /\ Start(t, u, "CONFIRMED", [row EXCEPT !.status = "CONFIRMED", !.rev = 1])

Cancel(t, u) ==
  /\ Editable
  /\ Start(t, u, "CANCELLED",
       [row EXCEPT !.status = "CANCELLED", !.rev = Revised("CANCELLED")])

(* The flush: UPDATE ... WHERE row_version = the version that was read.    *)
(* An update flushes once or twice; its commit counts as one version.      *)
(* Mutant: the entity carries no @Version.                                 *)
Unversioned(t) == TRUE

Unmoved(t) == threads[t].loaded.version = row.version

Flush(t) ==
  /\ threads[t].pc = "read" /\ rowLock = NoThread /\ Unmoved(t)
  /\ rowLock' = t
  /\ threads' = [threads EXCEPT ![t] = [@ EXCEPT !.pc = "flushed"]]
  /\ UNCHANGED <<row, seen, acks, events>>

FlushConflicts(t) ==
  /\ threads[t].pc = "read" /\ rowLock = NoThread /\ ~Unmoved(t)
  /\ threads' = [threads EXCEPT ![t] = Idle]
  /\ UNCHANGED <<row, rowLock, seen, acks, events>>

CommitChange(t) ==
  /\ threads[t].pc = "flushed"
  /\ row' = [threads[t].next EXCEPT !.version = row.version + 1]
  /\ events' = Journaled(threads[t].type, row')
  /\ rowLock' = NoThread
  /\ threads' = [threads EXCEPT ![t] = Idle]
  /\ UNCHANGED <<seen, acks>>

(* A participant is no member, a constraint fails, the process stops.      *)
Rollback(t) ==
  /\ threads[t].pc # "idle"
  /\ rowLock' = IF rowLock = t THEN NoThread ELSE rowLock
  /\ threads' = [threads EXCEPT ![t] = Idle]
  /\ UNCHANGED <<row, seen, acks, events>>

(* Mutant: the revision in the command is not compared.                    *)
AnyRevision(u) == row.rev # 0

RevisionExpected(u) == seen[u].rev = row.rev /\ row.rev # 0

(* Under the row lock from the first read to the commit.                   *)
Acknowledge(u) ==
  /\ u \in Acknowledgers /\ rowLock = NoThread
  /\ RevisionExpected(u)
  /\ u \in row.participants
  /\ ~\E a \in acks : a.user = u /\ a.rev = row.rev
  /\ acks' = acks \cup {[user |-> u, rev |-> row.rev, content |-> seen[u].content]}
  /\ events' = Journaled("ACKNOWLEDGED", row)
  /\ UNCHANGED <<row, rowLock, seen, threads>>

----------------------------------------------------------------------------
WriteStep(t) ==
  \/ \E u \in Users :
       \/ \E people \in SUBSET (Users \cup {External}) : UpdateSchedule(t, u, people)
       \/ Confirm(t, u)
       \/ Cancel(t, u)
  \/ Flush(t) \/ FlushConflicts(t) \/ CommitChange(t) \/ Rollback(t)

ScheduleNext ==
  \/ \E u \in Users : Load(u) \/ Acknowledge(u)
  \/ \E u \in Users, people \in SUBSET (Users \cup {External}) : CreateSchedule(u, people)
  \/ \E t \in Threads : WriteStep(t)

ScheduleSpec == ScheduleInit /\ [][ScheduleNext]_scheduleVars

----------------------------------------------------------------------------
(* The calendar export and the dashboard rely on this life of a schedule.  *)
Lifecycle == INSTANCE ScheduleLifecycle WITH status <- row.status, rev <- row.rev

ImplementsLifecycle == Lifecycle!LifecycleSpec

(* No update overwrites what its author had not seen: every commit follows *)
(* directly on the content that was in the client's copy, whoever read the *)
(* row at the same time.                                                   *)
NoLostUpdate ==
  [][\A t \in Threads :
       threads[t].pc = "flushed" /\ row' # row => threads[t].basis = row.content]_scheduleVars

(* A current acknowledgement is worth something: its user saw the content  *)
(* that is current, not one that a concurrent change has replaced.         *)
AcknowledgedAsSeen ==
  \A a \in acks : a.rev = row.rev => a.content = row.content
=============================================================================
