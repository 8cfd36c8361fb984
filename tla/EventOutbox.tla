----------------------------- MODULE EventOutbox -----------------------------
(***************************************************************************)
(* The transactional outbox of the platform module.  A command records its *)
(* event in its own transaction; after the commit the same thread relays   *)
(* it in a second transaction, still holding the command's database        *)
(* connection; a scheduler relays what is left, oldest first.  A relay     *)
(* locks the publication, hands it to every consumer and marks it          *)
(* published, all in one transaction.                                      *)
(***************************************************************************)
EXTENDS Integers, FiniteSets

CONSTANTS
  N,         \* events are 1 .. N, in the order of createdAt
  Requests,  \* threads that run a command
  Pollers,   \* scheduler threads, one per application instance
  NoThread,
  Batch,     \* publications per poll (100 in the code)
  PoolSize,  \* database connections
  Poison,    \* events that a consumer refuses for ever
  MaxCrashes \* bound on crashes

Events == 1 .. N
Threads == Requests \cup Pollers

ASSUME OutboxAssumption ==
  /\ N \in Nat /\ Batch \in Nat \ {0} /\ PoolSize \in Nat \ {0} /\ MaxCrashes \in Nat
  /\ Requests \cap Pollers = {} /\ NoThread \notin Threads
  /\ IsFiniteSet(Threads)
  /\ Poison \subseteq Events

VARIABLES
  publications,  \* the event_publication rows
  locks,         \* who holds the row lock of each publication
  threads,
  effects,       \* how often the consumers' writes for an event committed
  answers,       \* what the client of the command that records it was told
  crashes        \* how often a process has stopped

vars == <<publications, locks, threads, effects, answers, crashes>>

\* open: in the command's transaction; polling: between two attempts of a poll;
\* waiting: for the relay's connection; relaying: in the relay's transaction;
\* delivering: with the row lock
Thread == [pc    : {"idle", "open", "polling", "waiting", "relaying", "delivering"},
           event : Events \cup {0},
           queue : SUBSET Events]  \* what a poll has still to attempt

Idle == [pc |-> "idle", event |-> 0, queue |-> {}]

OutboxTypeOK ==
  /\ publications \in [Events -> {"absent", "pending", "published"}]
  /\ locks \in [Events -> Threads \cup {NoThread}]
  /\ threads \in [Threads -> Thread]
  /\ effects \in [Events -> Nat]
  /\ answers \in [Events -> {"none", "ok", "error"}]
  /\ crashes \in 0 .. MaxCrashes

OutboxInit ==
  /\ publications = [e \in Events |-> "absent"]
  /\ locks = [e \in Events |-> NoThread]
  /\ threads = [t \in Threads |-> Idle]
  /\ effects = [e \in Events |-> 0]
  /\ answers = [e \in Events |-> "none"]
  /\ crashes = 0

Event(t) == threads[t].event

----------------------------------------------------------------------------
(* The connection pool.  A command keeps its connection until the          *)
(* after-commit listener returns.                                          *)

CommandConnections == {t \in Requests : threads[t].pc # "idle"}
RelayConnections == {t \in Threads : threads[t].pc \in {"relaying", "delivering"}}

ConnectionFree == Cardinality(CommandConnections) + Cardinality(RelayConnections) < PoolSize

----------------------------------------------------------------------------
(* A command.  Its event is created now and visible when it commits.       *)

Unused(e) ==
  publications[e] = "absent" /\ answers[e] = "none"
  /\ \A t \in Requests : threads[t].event # e

Begin(t, e) ==
  /\ threads[t].pc = "idle" /\ Unused(e) /\ ConnectionFree
  /\ threads' = [threads EXCEPT ![t] = [Idle EXCEPT !.pc = "open", !.event = e]]
  /\ UNCHANGED <<publications, locks, effects, answers, crashes>>

Commit(t) ==
  /\ threads[t].pc = "open"
  /\ publications' = [publications EXCEPT ![Event(t)] = "pending"]
  /\ threads' = [threads EXCEPT ![t] = [@ EXCEPT !.pc = "waiting"]]
  /\ UNCHANGED <<locks, effects, answers, crashes>>

Rollback(t) ==
  /\ threads[t].pc = "open"
  /\ answers' = [answers EXCEPT ![Event(t)] = "error"]
  /\ threads' = [threads EXCEPT ![t] = Idle]
  /\ UNCHANGED <<publications, locks, effects, crashes>>

----------------------------------------------------------------------------
(* The relay.                                                              *)

Pending == {e \in Events : publications[e] = "pending"}

(* The oldest unpublished events, at most Batch of them.                   *)
Oldest == {e \in Pending : Cardinality({d \in Pending : d <= e}) <= Batch}

RetryPending(t) ==
  /\ threads[t].pc = "idle" /\ Pending # {} /\ ConnectionFree
  /\ threads' = [threads EXCEPT ![t] = [Idle EXCEPT !.pc = "polling", !.queue = Oldest]]
  /\ UNCHANGED <<publications, locks, effects, answers, crashes>>

Attempt(t, e) ==
  /\ threads[t].pc = "polling"
  /\ e \in threads[t].queue /\ \A d \in threads[t].queue : e <= d
  /\ threads' = [threads EXCEPT ![t] =
       [pc |-> "waiting", event |-> e, queue |-> @.queue \ {e}]]
  /\ UNCHANGED <<publications, locks, effects, answers, crashes>>

(* attempt() swallows a failure: the poll goes on with the next event, and *)
(* the command, which has committed, answers with success.                 *)
NextAttempt(t) ==
  IF threads[t].queue = {} THEN Idle
  ELSE [threads[t] EXCEPT !.pc = "polling", !.event = 0]

Succeeded(t) ==
  /\ threads' = [threads EXCEPT ![t] = NextAttempt(t)]
  /\ answers' = IF t \in Requests THEN [answers EXCEPT ![Event(t)] = "ok"] ELSE answers

(* Mutant: a failed attempt ends the poll, or fails the command.           *)
FailedLoudly(t) ==
  /\ threads' = [threads EXCEPT ![t] = Idle]
  /\ answers' = IF t \in Requests THEN [answers EXCEPT ![Event(t)] = "error"] ELSE answers

Failed(t) == Succeeded(t)

Acquire(t) ==
  /\ threads[t].pc = "waiting" /\ ConnectionFree
  /\ threads' = [threads EXCEPT ![t] = [@ EXCEPT !.pc = "relaying"]]
  /\ UNCHANGED <<publications, locks, effects, answers, crashes>>

(* Mutant: a thread waits for a connection for ever.                       *)
WaitsForEver(t) == FALSE /\ Failed(t)

(* The pool gives up after its connection timeout.                         *)
AcquireTimesOut(t) ==
  /\ threads[t].pc = "waiting" /\ ~ConnectionFree
  /\ Failed(t)
  /\ UNCHANGED <<publications, locks, effects, crashes>>

(* Mutant: publishedAt is not looked at under the lock.                    *)
NeverPublished(e) == FALSE

AlreadyPublished(e) == publications[e] = "published"

LockById(t) ==
  /\ threads[t].pc = "relaying"
  /\ locks[Event(t)] = NoThread
  /\ IF AlreadyPublished(Event(t))
     THEN Succeeded(t) /\ UNCHANGED locks
     ELSE /\ locks' = [locks EXCEPT ![Event(t)] = t]
          /\ threads' = [threads EXCEPT ![t] = [@ EXCEPT !.pc = "delivering"]]
          /\ UNCHANGED answers
  /\ UNCHANGED <<publications, effects, crashes>>

Deliver(t) ==
  /\ threads[t].pc = "delivering" /\ Event(t) \notin Poison
  /\ effects' = [effects EXCEPT ![Event(t)] = @ + 1]
  /\ publications' = [publications EXCEPT ![Event(t)] = "published"]
  /\ locks' = [locks EXCEPT ![Event(t)] = NoThread]
  /\ Succeeded(t)
  /\ UNCHANGED crashes

(* A consumer throws, or the database refuses its writes: all roll back.   *)
DeliveryFails(t) ==
  /\ threads[t].pc = "delivering"
  /\ locks' = [locks EXCEPT ![Event(t)] = NoThread]
  /\ Failed(t)
  /\ UNCHANGED <<publications, effects, crashes>>

(* The process stops: its transactions roll back and its locks go.         *)
Crash(t) ==
  /\ threads[t].pc # "idle" /\ crashes < MaxCrashes
  /\ crashes' = crashes + 1
  /\ locks' = [e \in Events |-> IF locks[e] = t THEN NoThread ELSE locks[e]]
  /\ threads' = [threads EXCEPT ![t] = Idle]
  /\ UNCHANGED <<publications, effects, answers>>

----------------------------------------------------------------------------
CommandStep(t) == (\E e \in Events : Begin(t, e)) \/ Commit(t) \/ Rollback(t)

RelayStep(t) ==
  Acquire(t) \/ AcquireTimesOut(t) \/ LockById(t) \/ Deliver(t) \/ DeliveryFails(t)

OutboxNext ==
  \/ \E t \in Requests : CommandStep(t)
  \/ \E t \in Pollers : RetryPending(t) \/ \E e \in Events : Attempt(t, e)
  \/ \E t \in Threads : RelayStep(t) \/ Crash(t)

OutboxSpec == OutboxInit /\ [][OutboxNext]_vars

(* Threads go on, the database hands a row lock on, and an event that can  *)
(* be delivered is, after failing now and then.                            *)
OutboxFairSpec ==
  /\ OutboxSpec
  /\ \A t \in Requests : WF_vars(Commit(t) \/ Rollback(t))
  /\ \A t \in Pollers : WF_vars(RetryPending(t)) /\ WF_vars(\E e \in Events : Attempt(t, e))
  /\ \A t \in Threads :
       /\ WF_vars(Acquire(t) \/ AcquireTimesOut(t))
       /\ SF_vars(LockById(t))
       /\ WF_vars(Deliver(t) \/ DeliveryFails(t))
       /\ \A e \in Events \ Poison : SF_vars(Deliver(t) /\ Event(t) = e)

----------------------------------------------------------------------------
(* The outbox keeps the journal's promise.                                 *)
Journal == INSTANCE ReliableEvents
             WITH recorded <- {e \in Events : publications[e] # "absent"}

ImplementsReliableEvents == Journal!EventsSpec

(* A publication is marked published by the very transaction that commits  *)
(* its consumers' writes, and no other transaction commits them again,     *)
(* whichever threads relay it, and whichever of them die half-way.         *)
PublishedOnce ==
  \A e \in Events : effects[e] = IF publications[e] = "published" THEN 1 ELSE 0

(* A client is told of failure only if nothing was committed (it may then  *)
(* repeat the command), and of success only if the event is durable.       *)
AnswerIsTrue ==
  \A e \in Events :
    /\ answers[e] = "error" => publications[e] = "absent"
    /\ answers[e] = "ok" => publications[e] # "absent"

(* With fewer poison events than a poll takes, every other event takes     *)
(* effect in the end, even one whose thread died between commit and relay. *)
EveryEventTakesEffect ==
  \A e \in Events \ Poison : publications[e] = "pending" ~> publications[e] = "published"

(* No thread waits for ever, even when commands hold all connections and   *)
(* every one of them wants a second for its relay.                         *)
NobodyWaitsForEver == \A t \in Threads : threads[t].pc # "idle" ~> threads[t].pc = "idle"
=============================================================================
