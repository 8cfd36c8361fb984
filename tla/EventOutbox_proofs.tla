-------------------------- MODULE EventOutbox_proofs --------------------------
(***************************************************************************)
(* Proofs that the outbox publishes once, answers truly and implements the *)
(* event journal, for any number of events, threads and connections.       *)
(***************************************************************************)
EXTENDS EventOutbox, TLAPS

(***************************************************************************)
(* The strengthening.  A row lock belongs to a thread that delivers the    *)
(* event, and while it does the event stays pending; what waits for a      *)
(* relay has committed; what is open has neither committed nor been        *)
(* answered, and no two threads have the same event open.                  *)
(***************************************************************************)
LockDelivers ==
  \A t \in Threads :
    threads[t].pc = "delivering" =>
      locks[threads[t].event] = t /\ publications[threads[t].event] = "pending"

RelayedIsCommitted ==
  \A t \in Threads :
    /\ \A e \in threads[t].queue : publications[e] # "absent"
    /\ threads[t].pc \in {"waiting", "relaying", "delivering"} =>
         threads[t].event \in Events /\ publications[threads[t].event] # "absent"

OpenIsFresh ==
  \A t \in Threads :
    threads[t].pc = "open" =>
      /\ t \in Requests
      /\ threads[t].event \in Events
      /\ publications[threads[t].event] = "absent"
      /\ answers[threads[t].event] = "none"
      /\ \A r \in Requests : threads[r].event = threads[t].event => r = t

RequestHasOneEvent == \A t \in Requests : threads[t].queue = {}

IdleHasNoEvent == \A t \in Threads : threads[t].pc \in {"idle", "polling"} => threads[t].event = 0

OutboxInv ==
  /\ OutboxTypeOK
  /\ PublishedOnce /\ AnswerIsTrue
  /\ LockDelivers /\ RelayedIsCommitted /\ OpenIsFresh
  /\ RequestHasOneEvent /\ IdleHasNoEvent

----------------------------------------------------------------------------
LEMMA OutboxInitInv == OutboxInit => OutboxInv
  BY OutboxAssumption DEF OutboxInit, OutboxInv, OutboxTypeOK, Thread, Idle, PublishedOnce,
     AnswerIsTrue, LockDelivers, RelayedIsCommitted, OpenIsFresh, RequestHasOneEvent,
     IdleHasNoEvent, Threads, Events

USE DEF Idle, Event

(* The threads keep their types whatever step one of them takes.           *)
LEMMA CommandStepInv ==
  ASSUME OutboxInv, NEW t \in Requests, CommandStep(t)
  PROVE  OutboxInv'
<1>t. t \in Threads
  BY DEF Threads
<1>1. ASSUME NEW e \in Events, Begin(t, e)
      PROVE  OutboxInv'
  <2>0. e # 0
    BY <1>1, OutboxAssumption DEF Events
  <2>1. OutboxTypeOK'
    BY <1>1, <1>t DEF OutboxInv, OutboxTypeOK, Begin, Thread
  <2>2. PublishedOnce' /\ AnswerIsTrue'
    BY <1>1 DEF OutboxInv, PublishedOnce, AnswerIsTrue, Begin
  <2>3. LockDelivers' /\ RelayedIsCommitted'
    BY <1>1, <1>t DEF OutboxInv, OutboxTypeOK, LockDelivers, RelayedIsCommitted, Begin, Thread
  <2>4. OpenIsFresh'
    BY <1>1, <1>t, <2>0 DEF OutboxInv, OutboxTypeOK, OpenIsFresh, Begin, Unused, Thread, Threads
  <2>5. RequestHasOneEvent' /\ IdleHasNoEvent'
    BY <1>1, <1>t DEF OutboxInv, OutboxTypeOK, RequestHasOneEvent, IdleHasNoEvent, Begin, Thread, Threads
  <2>. QED
    BY <2>1, <2>2, <2>3, <2>4, <2>5 DEF OutboxInv
<1>2. ASSUME Commit(t)
      PROVE  OutboxInv'
  <2>1. OutboxTypeOK'
    BY <1>2, <1>t DEF OutboxInv, OutboxTypeOK, Commit, Thread
  <2>2. PublishedOnce' /\ AnswerIsTrue'
    BY <1>2, <1>t DEF OutboxInv, OutboxTypeOK, PublishedOnce, AnswerIsTrue, OpenIsFresh, Commit
  <2>3. LockDelivers' /\ RelayedIsCommitted'
    BY <1>2, <1>t DEF OutboxInv, OutboxTypeOK, LockDelivers, RelayedIsCommitted, OpenIsFresh, Commit, Thread
  <2>4. OpenIsFresh'
    BY <1>2, <1>t DEF OutboxInv, OutboxTypeOK, OpenIsFresh, Commit, Thread, Threads
  <2>5. RequestHasOneEvent' /\ IdleHasNoEvent'
    BY <1>2, <1>t DEF OutboxInv, OutboxTypeOK, RequestHasOneEvent, IdleHasNoEvent, Commit, Thread, Threads
  <2>. QED
    BY <2>1, <2>2, <2>3, <2>4, <2>5 DEF OutboxInv
<1>3. ASSUME Rollback(t)
      PROVE  OutboxInv'
  <2>0. OpenIsFresh /\ threads[t].pc = "open" /\ threads[t].event \in Events
    BY <1>3, <1>t DEF OutboxInv, OpenIsFresh, Rollback
  <2>1. OutboxTypeOK'
    BY <1>3, <1>t, <2>0 DEF OutboxInv, OutboxTypeOK, Rollback, Thread
  <2>2. PublishedOnce' /\ AnswerIsTrue'
    BY <1>3, <1>t, <2>0 DEF OutboxInv, OutboxTypeOK, PublishedOnce, AnswerIsTrue, OpenIsFresh, Rollback
  <2>3. LockDelivers' /\ RelayedIsCommitted'
    BY <1>3, <1>t DEF OutboxInv, OutboxTypeOK, LockDelivers, RelayedIsCommitted, Rollback, Thread
  <2>4. OpenIsFresh'
    BY <1>3, <1>t, <2>0, OutboxAssumption DEF OutboxInv, OutboxTypeOK, OpenIsFresh, Rollback, Thread, Threads, Events
  <2>5. RequestHasOneEvent' /\ IdleHasNoEvent'
    BY <1>3, <1>t DEF OutboxInv, OutboxTypeOK, RequestHasOneEvent, IdleHasNoEvent, Rollback, Thread, Threads
  <2>. QED
    BY <2>1, <2>2, <2>3, <2>4, <2>5 DEF OutboxInv
<1>. QED
  BY <1>1, <1>2, <1>3 DEF CommandStep

LEMMA PollStepInv ==
  ASSUME OutboxInv, NEW t \in Pollers, RetryPending(t) \/ \E e \in Events : Attempt(t, e)
  PROVE  OutboxInv'
<1>t. t \in Threads
  BY DEF Threads
<1>1. ASSUME RetryPending(t)
      PROVE  OutboxInv'
  <2>1. OutboxTypeOK'
    BY <1>1, <1>t DEF OutboxInv, OutboxTypeOK, Thread, RetryPending, Oldest, Pending
  <2>2. PublishedOnce' /\ AnswerIsTrue'
    BY <1>1, <1>t DEF OutboxInv, OutboxTypeOK, PublishedOnce, AnswerIsTrue, RetryPending, Oldest, Pending
  <2>3. LockDelivers' /\ RelayedIsCommitted'
    BY <1>1, <1>t DEF OutboxInv, OutboxTypeOK, LockDelivers, RelayedIsCommitted, Thread, RetryPending, Oldest, Pending
  <2>4. OpenIsFresh'
    BY <1>1, <1>t, OutboxAssumption DEF OutboxInv, OutboxTypeOK, OpenIsFresh, RelayedIsCommitted, Thread, Threads, Events, RetryPending, Oldest, Pending
  <2>5. RequestHasOneEvent' /\ IdleHasNoEvent'
    BY <1>1, <1>t, OutboxAssumption DEF OutboxInv, OutboxTypeOK, RequestHasOneEvent, IdleHasNoEvent, Thread, Threads, Events, RetryPending, Oldest, Pending
  <2>. QED
    BY <2>1, <2>2, <2>3, <2>4, <2>5 DEF OutboxInv
<1>2. ASSUME NEW e \in Events, Attempt(t, e)
      PROVE  OutboxInv'
  <2>1. OutboxTypeOK'
    BY <1>2, <1>t DEF OutboxInv, OutboxTypeOK, Thread, Attempt
  <2>2. PublishedOnce' /\ AnswerIsTrue'
    BY <1>2, <1>t DEF OutboxInv, OutboxTypeOK, PublishedOnce, AnswerIsTrue, Attempt
  <2>3. LockDelivers' /\ RelayedIsCommitted'
    BY <1>2, <1>t DEF OutboxInv, OutboxTypeOK, LockDelivers, RelayedIsCommitted, Thread, Attempt
  <2>4. OpenIsFresh'
    BY <1>2, <1>t, OutboxAssumption DEF OutboxInv, OutboxTypeOK, OpenIsFresh, RelayedIsCommitted, Thread, Threads, Events, Attempt
  <2>5. RequestHasOneEvent' /\ IdleHasNoEvent'
    BY <1>2, <1>t, OutboxAssumption DEF OutboxInv, OutboxTypeOK, RequestHasOneEvent, IdleHasNoEvent, Thread, Threads, Events, Attempt
  <2>. QED
    BY <2>1, <2>2, <2>3, <2>4, <2>5 DEF OutboxInv
<1>. QED
  BY <1>1, <1>2

LEMMA RelayStepInv ==
  ASSUME OutboxInv, NEW t \in Threads, RelayStep(t)
  PROVE  OutboxInv'
<1>0. threads[t].pc \in {"waiting", "relaying", "delivering"}
  BY DEF RelayStep, Acquire, AcquireTimesOut, LockById, Deliver, DeliveryFails
<1>e. threads[t].event \in Events /\ publications[threads[t].event] # "absent"
  BY <1>0 DEF OutboxInv, RelayedIsCommitted
<1>1. ASSUME Acquire(t)
      PROVE  OutboxInv'
  <2>1. OutboxTypeOK'
    BY <1>1, <1>0, <1>e DEF OutboxInv, OutboxTypeOK, Thread, Acquire
  <2>2. PublishedOnce' /\ AnswerIsTrue'
    BY <1>1, <1>0, <1>e DEF OutboxInv, OutboxTypeOK, PublishedOnce, AnswerIsTrue, Acquire
  <2>3. LockDelivers' /\ RelayedIsCommitted'
    BY <1>1, <1>0, <1>e DEF OutboxInv, OutboxTypeOK, LockDelivers, RelayedIsCommitted, Thread, Acquire
  <2>4. OpenIsFresh'
    BY <1>1, <1>0, <1>e, OutboxAssumption DEF OutboxInv, OutboxTypeOK, OpenIsFresh, RelayedIsCommitted, Thread, Threads, Events, Acquire
  <2>5. RequestHasOneEvent' /\ IdleHasNoEvent'
    BY <1>1, <1>0, <1>e, OutboxAssumption DEF OutboxInv, OutboxTypeOK, RequestHasOneEvent, IdleHasNoEvent, Thread, Threads, Events, Acquire
  <2>. QED
    BY <2>1, <2>2, <2>3, <2>4, <2>5 DEF OutboxInv
<1>2. ASSUME AcquireTimesOut(t)
      PROVE  OutboxInv'
  <2>1. OutboxTypeOK'
    BY <1>2, <1>0, <1>e DEF OutboxInv, OutboxTypeOK, Thread, AcquireTimesOut, Failed, Succeeded, NextAttempt
  <2>2. PublishedOnce' /\ AnswerIsTrue'
    BY <1>2, <1>0, <1>e DEF OutboxInv, OutboxTypeOK, PublishedOnce, AnswerIsTrue, AcquireTimesOut, Failed, Succeeded, NextAttempt
  <2>3. LockDelivers' /\ RelayedIsCommitted'
    BY <1>2, <1>0, <1>e DEF OutboxInv, OutboxTypeOK, LockDelivers, RelayedIsCommitted, Thread, AcquireTimesOut, Failed, Succeeded, NextAttempt
  <2>4. OpenIsFresh'
    BY <1>2, <1>0, <1>e, OutboxAssumption DEF OutboxInv, OutboxTypeOK, OpenIsFresh, RelayedIsCommitted, Thread, Threads, Events, AcquireTimesOut, Failed, Succeeded, NextAttempt
  <2>5. RequestHasOneEvent' /\ IdleHasNoEvent'
    BY <1>2, <1>0, <1>e, OutboxAssumption DEF OutboxInv, OutboxTypeOK, RequestHasOneEvent, IdleHasNoEvent, Thread, Threads, Events, AcquireTimesOut, Failed, Succeeded, NextAttempt
  <2>. QED
    BY <2>1, <2>2, <2>3, <2>4, <2>5 DEF OutboxInv
<1>n. NextAttempt(t) \in Thread /\ NextAttempt(t).pc \in {"idle", "polling"}
      /\ NextAttempt(t).event = 0 /\ NextAttempt(t).queue \subseteq threads[t].queue
  BY DEF OutboxInv, OutboxTypeOK, NextAttempt, Thread
<1>3. ASSUME LockById(t), AlreadyPublished(Event(t))
      PROVE  OutboxInv'
  <2>1. /\ threads' \in [Threads -> Thread]
        /\ \A x \in Threads : x # t => threads'[x] = threads[x]
        /\ threads'[t] = NextAttempt(t)
    BY <1>3, <1>0, <1>e, <1>n DEF OutboxInv, OutboxTypeOK, Thread, LockById, AlreadyPublished, Succeeded
  <2>2. /\ UNCHANGED <<publications, effects, crashes>>
        /\ UNCHANGED locks
    BY <1>3, <1>0, <1>e DEF OutboxInv, OutboxTypeOK, LockDelivers, PublishedOnce, LockById, AlreadyPublished, Succeeded
  <2>a. /\ answers' \in [Events -> {"none", "ok", "error"}]
        /\ \A e \in Events : answers'[e] = answers[e] \/ (e = threads[t].event /\ answers'[e] = "ok")
    BY <1>3, <1>e DEF OutboxInv, OutboxTypeOK, LockById, AlreadyPublished, Succeeded
  <2>3. OutboxTypeOK'
    BY <2>1, <2>2, <2>a, <1>0, <1>e, <1>n DEF OutboxInv, OutboxTypeOK
  <2>4. PublishedOnce' /\ AnswerIsTrue'
    BY <2>1, <2>2, <2>a, <1>0, <1>e, <1>n DEF OutboxInv, OutboxTypeOK, PublishedOnce, AnswerIsTrue
  <2>5. LockDelivers'
    BY <2>1, <2>2, <2>a, <1>0, <1>e, <1>n DEF OutboxInv, LockDelivers, RelayedIsCommitted
  <2>6. RelayedIsCommitted'
    BY <2>1, <2>2, <2>a, <1>0, <1>e, <1>n DEF OutboxInv, OutboxTypeOK, RelayedIsCommitted, Thread
  <2>7. OpenIsFresh'
    BY <2>1, <2>2, <2>a, <1>0, <1>e, <1>n, OutboxAssumption DEF OutboxInv, OpenIsFresh, Threads, Events
  <2>8. RequestHasOneEvent' /\ IdleHasNoEvent'
    BY <2>1, <2>2, <2>a, <1>0, <1>e, <1>n DEF OutboxInv, RequestHasOneEvent, IdleHasNoEvent, Threads
  <2>. QED
    BY <2>3, <2>4, <2>5, <2>6, <2>7, <2>8 DEF OutboxInv
<1>4. ASSUME LockById(t), ~AlreadyPublished(Event(t))
      PROVE  OutboxInv'
  <2>1. /\ threads' \in [Threads -> Thread]
        /\ \A x \in Threads : x # t => threads'[x] = threads[x]
        /\ threads'[t].pc = "delivering"
        /\ threads'[t].event = threads[t].event
        /\ threads'[t].queue = threads[t].queue
    BY <1>4, <1>0, <1>e, <1>n DEF OutboxInv, OutboxTypeOK, Thread, LockById, AlreadyPublished
  <2>2. /\ publications[threads[t].event] = "pending"
        /\ locks[threads[t].event] = NoThread
        /\ locks'[threads[t].event] = t
        /\ locks' \in [Events -> Threads \cup {NoThread}]
        /\ \A e \in Events : e # threads[t].event => locks'[e] = locks[e]
        /\ UNCHANGED <<publications, effects, crashes>>
        /\ UNCHANGED answers
    BY <1>4, <1>0, <1>e DEF OutboxInv, OutboxTypeOK, LockDelivers, PublishedOnce, LockById, AlreadyPublished
  <2>3. OutboxTypeOK'
    BY <2>1, <2>2, <1>0, <1>e, <1>n DEF OutboxInv, OutboxTypeOK
  <2>4. PublishedOnce' /\ AnswerIsTrue'
    BY <2>1, <2>2, <1>0, <1>e, <1>n DEF OutboxInv, OutboxTypeOK, PublishedOnce, AnswerIsTrue
  <2>5. LockDelivers'
    BY <2>1, <2>2, <1>0, <1>e, <1>n, OutboxAssumption DEF OutboxInv, LockDelivers, RelayedIsCommitted
  <2>6. RelayedIsCommitted'
    BY <2>1, <2>2, <1>0, <1>e, <1>n DEF OutboxInv, OutboxTypeOK, RelayedIsCommitted, Thread
  <2>7. OpenIsFresh'
    BY <2>1, <2>2, <1>0, <1>e, <1>n, OutboxAssumption DEF OutboxInv, OpenIsFresh, Threads, Events
  <2>8. RequestHasOneEvent' /\ IdleHasNoEvent'
    BY <2>1, <2>2, <1>0, <1>e, <1>n DEF OutboxInv, RequestHasOneEvent, IdleHasNoEvent, Threads
  <2>. QED
    BY <2>3, <2>4, <2>5, <2>6, <2>7, <2>8 DEF OutboxInv
<1>5. ASSUME Deliver(t)
      PROVE  OutboxInv'
  <2>1. /\ threads' \in [Threads -> Thread]
        /\ \A x \in Threads : x # t => threads'[x] = threads[x]
        /\ threads'[t] = NextAttempt(t)
    BY <1>5, <1>0, <1>e, <1>n DEF OutboxInv, OutboxTypeOK, Thread, Deliver, Succeeded
  <2>2. /\ publications[threads[t].event] = "pending"
        /\ locks[threads[t].event] = t
        /\ publications' \in [Events -> {"absent", "pending", "published"}]
        /\ publications'[threads[t].event] = "published"
        /\ effects' \in [Events -> Nat]
        /\ effects'[threads[t].event] = 1
        /\ \A e \in Events : e # threads[t].event => publications'[e] = publications[e] /\ effects'[e] = effects[e]
        /\ locks' \in [Events -> Threads \cup {NoThread}]
        /\ \A e \in Events : e # threads[t].event => locks'[e] = locks[e]
        /\ UNCHANGED crashes
    BY <1>5, <1>0, <1>e DEF OutboxInv, OutboxTypeOK, LockDelivers, PublishedOnce, Deliver, Succeeded
  <2>a. /\ answers' \in [Events -> {"none", "ok", "error"}]
        /\ \A e \in Events : answers'[e] = answers[e] \/ (e = threads[t].event /\ answers'[e] = "ok")
    BY <1>5, <1>e DEF OutboxInv, OutboxTypeOK, Deliver, Succeeded
  <2>3. OutboxTypeOK'
    BY <2>1, <2>2, <2>a, <1>0, <1>e, <1>n DEF OutboxInv, OutboxTypeOK
  <2>4. PublishedOnce' /\ AnswerIsTrue'
    BY <2>1, <2>2, <2>a, <1>0, <1>e, <1>n DEF OutboxInv, OutboxTypeOK, PublishedOnce, AnswerIsTrue
  <2>5. LockDelivers'
    BY <2>1, <2>2, <2>a, <1>0, <1>e, <1>n DEF OutboxInv, LockDelivers, RelayedIsCommitted
  <2>6. RelayedIsCommitted'
    BY <2>1, <2>2, <2>a, <1>0, <1>e, <1>n DEF OutboxInv, OutboxTypeOK, RelayedIsCommitted, Thread
  <2>7. OpenIsFresh'
    <3>1. 0 \notin Events /\ Requests \subseteq Threads
      BY OutboxAssumption DEF Events, Threads
    <3>. SUFFICES ASSUME NEW o \in Threads, threads'[o].pc = "open"
                  PROVE  /\ o \in Requests /\ threads'[o].event \in Events
                         /\ publications'[threads'[o].event] = "absent"
                         /\ answers'[threads'[o].event] = "none"
                         /\ \A r \in Requests : threads'[r].event = threads'[o].event => r = o
      BY DEF OpenIsFresh
    <3>2. o # t /\ threads'[o] = threads[o]
      BY <2>1, <1>n
    <3>3. /\ o \in Requests /\ threads[o].event \in Events
          /\ publications[threads[o].event] = "absent"
          /\ answers[threads[o].event] = "none"
          /\ \A r \in Requests : threads[r].event = threads[o].event => r = o
      BY <3>2 DEF OutboxInv, OpenIsFresh
    <3>4. threads[o].event # threads[t].event
      BY <3>3, <1>e
    <3>. QED
      BY <3>1, <3>2, <3>3, <3>4, <2>1, <2>2, <2>a, <1>n
  <2>8. RequestHasOneEvent' /\ IdleHasNoEvent'
    BY <2>1, <2>2, <2>a, <1>0, <1>e, <1>n DEF OutboxInv, RequestHasOneEvent, IdleHasNoEvent, Threads
  <2>. QED
    BY <2>3, <2>4, <2>5, <2>6, <2>7, <2>8 DEF OutboxInv
<1>6. ASSUME DeliveryFails(t)
      PROVE  OutboxInv'
  <2>1. /\ threads' \in [Threads -> Thread]
        /\ \A x \in Threads : x # t => threads'[x] = threads[x]
        /\ threads'[t] = NextAttempt(t)
    BY <1>6, <1>0, <1>e, <1>n DEF OutboxInv, OutboxTypeOK, Thread, DeliveryFails, Failed, Succeeded
  <2>2. /\ locks[threads[t].event] = t
        /\ locks' \in [Events -> Threads \cup {NoThread}]
        /\ \A e \in Events : e # threads[t].event => locks'[e] = locks[e]
        /\ UNCHANGED <<publications, effects, crashes>>
    BY <1>6, <1>0, <1>e DEF OutboxInv, OutboxTypeOK, LockDelivers, PublishedOnce, DeliveryFails, Failed, Succeeded
  <2>a. /\ answers' \in [Events -> {"none", "ok", "error"}]
        /\ \A e \in Events : answers'[e] = answers[e] \/ (e = threads[t].event /\ answers'[e] = "ok")
    BY <1>6, <1>e DEF OutboxInv, OutboxTypeOK, DeliveryFails, Failed, Succeeded
  <2>3. OutboxTypeOK'
    BY <2>1, <2>2, <2>a, <1>0, <1>e, <1>n DEF OutboxInv, OutboxTypeOK
  <2>4. PublishedOnce' /\ AnswerIsTrue'
    BY <2>1, <2>2, <2>a, <1>0, <1>e, <1>n DEF OutboxInv, OutboxTypeOK, PublishedOnce, AnswerIsTrue
  <2>5. LockDelivers'
    BY <2>1, <2>2, <2>a, <1>0, <1>e, <1>n DEF OutboxInv, LockDelivers, RelayedIsCommitted
  <2>6. RelayedIsCommitted'
    BY <2>1, <2>2, <2>a, <1>0, <1>e, <1>n DEF OutboxInv, OutboxTypeOK, RelayedIsCommitted, Thread
  <2>7. OpenIsFresh'
    BY <2>1, <2>2, <2>a, <1>0, <1>e, <1>n, OutboxAssumption DEF OutboxInv, OpenIsFresh, Threads, Events
  <2>8. RequestHasOneEvent' /\ IdleHasNoEvent'
    BY <2>1, <2>2, <2>a, <1>0, <1>e, <1>n DEF OutboxInv, RequestHasOneEvent, IdleHasNoEvent, Threads
  <2>. QED
    BY <2>3, <2>4, <2>5, <2>6, <2>7, <2>8 DEF OutboxInv
<1>. QED
  BY <1>1, <1>2, <1>3, <1>4, <1>5, <1>6 DEF RelayStep

LEMMA CrashInv ==
  ASSUME OutboxInv, NEW t \in Threads, Crash(t)
  PROVE  OutboxInv'
<1>1. OutboxTypeOK'
  BY OutboxAssumption DEF OutboxInv, OutboxTypeOK, Thread, Crash
<1>2. PublishedOnce' /\ AnswerIsTrue'
  BY OutboxAssumption DEF OutboxInv, OutboxTypeOK, PublishedOnce, AnswerIsTrue, Crash
<1>3. LockDelivers' /\ RelayedIsCommitted'
  BY OutboxAssumption DEF OutboxInv, OutboxTypeOK, LockDelivers, RelayedIsCommitted, Thread, Crash
<1>4. OpenIsFresh'
  BY OutboxAssumption DEF OutboxInv, OutboxTypeOK, OpenIsFresh, RelayedIsCommitted, Thread, Threads, Events, Crash
<1>5. RequestHasOneEvent' /\ IdleHasNoEvent'
  BY OutboxAssumption DEF OutboxInv, OutboxTypeOK, RequestHasOneEvent, IdleHasNoEvent, Thread, Threads, Events, Crash
<1>. QED
  BY <1>1, <1>2, <1>3, <1>4, <1>5 DEF OutboxInv
----------------------------------------------------------------------------
LEMMA OutboxStepInv ==
  ASSUME OutboxInv, [OutboxNext]_vars
  PROVE  OutboxInv'
<1>1. CASE UNCHANGED vars
  BY <1>1 DEF vars, OutboxInv, OutboxTypeOK, PublishedOnce, AnswerIsTrue, LockDelivers,
     RelayedIsCommitted, OpenIsFresh, RequestHasOneEvent, IdleHasNoEvent
<1>. QED
  BY <1>1, CommandStepInv, PollStepInv, RelayStepInv, CrashInv DEF OutboxNext

LEMMA OutboxInvariance == OutboxSpec => []OutboxInv
  BY OutboxInitInv, OutboxStepInv, PTL DEF OutboxSpec

(* Publications, locks, threads, effects and answers keep their types.     *)
THEOREM OutboxTypeCorrect == OutboxSpec => []OutboxTypeOK
  BY OutboxInvariance, PTL DEF OutboxInv

(* EventRelay.deliver: an event is published exactly when its consumers'   *)
(* writes have committed once.                                             *)
THEOREM EventsPublishedOnce == OutboxSpec => []PublishedOnce
  BY OutboxInvariance, PTL DEF OutboxInv

(* OutboxWorker.attempt: the answer to a command does not depend on the    *)
(* delivery of its event.                                                  *)
THEOREM AnswersAreTrue == OutboxSpec => []AnswerIsTrue
  BY OutboxInvariance, PTL DEF OutboxInv

----------------------------------------------------------------------------
(* Every step of the outbox records one event, takes one into effect, or   *)
(* leaves the journal as it was.                                           *)
Recorded == {e \in Events : publications[e] # "absent"}

LEMMA RecordedUnchanged ==
  ASSUME UNCHANGED <<publications, effects>>
  PROVE  UNCHANGED Journal!eventVars
  BY DEF Journal!eventVars

LEMMA CommitRecords ==
  ASSUME OutboxInv, NEW t \in Requests, Commit(t)
  PROVE  Journal!EventsNext
<1>1. threads[t].event \in Events /\ publications[threads[t].event] = "absent"
  BY DEF Commit, OutboxInv, OpenIsFresh, Threads
<1>2. /\ publications'[threads[t].event] = "pending"
      /\ \A e \in Events : e # threads[t].event => publications'[e] = publications[e]
      /\ UNCHANGED effects
  BY <1>1 DEF Commit, OutboxInv, OutboxTypeOK
<1>3. Recorded' = Recorded \cup {threads[t].event} /\ threads[t].event \notin Recorded
  BY <1>1, <1>2 DEF Recorded
<1>4. Journal!Record(threads[t].event)
  BY <1>1, <1>2, <1>3 DEF Journal!Record, Recorded
<1>. QED
  BY <1>1, <1>4 DEF Journal!EventsNext, Journal!Record

LEMMA DeliverTakesEffect ==
  ASSUME OutboxInv, NEW t \in Threads, Deliver(t)
  PROVE  Journal!EventsNext
<1>1. threads[t].event \in Events /\ publications[threads[t].event] = "pending"
  BY DEF Deliver, OutboxInv, LockDelivers, RelayedIsCommitted
<1>2. effects[threads[t].event] = 0
  BY <1>1 DEF OutboxInv, PublishedOnce
<1>3. effects' = [effects EXCEPT ![threads[t].event] = 1]
  BY <1>2 DEF Deliver, OutboxInv, OutboxTypeOK
<1>4. \A e \in Events : publications'[e] # "absent" <=> publications[e] # "absent"
  BY <1>1 DEF Deliver, OutboxInv, OutboxTypeOK
<1>5. UNCHANGED Recorded /\ threads[t].event \in Recorded
  BY <1>1, <1>4 DEF Recorded
<1>6. Journal!TakeEffect(threads[t].event)
  BY <1>2, <1>3, <1>5 DEF Journal!TakeEffect, Recorded
<1>. QED
  BY <1>1, <1>6 DEF Journal!EventsNext

LEMMA StepKeepsPromise ==
  ASSUME OutboxInv, [OutboxNext]_vars
  PROVE  [Journal!EventsNext]_(Journal!eventVars)
<1>1. CASE UNCHANGED vars
  BY <1>1, RecordedUnchanged DEF vars
<1>2. ASSUME NEW t \in Requests, CommandStep(t)
      PROVE  [Journal!EventsNext]_(Journal!eventVars)
  BY <1>2, CommitRecords, RecordedUnchanged DEF CommandStep, Begin, Rollback
<1>3. ASSUME NEW t \in Pollers, RetryPending(t) \/ \E e \in Events : Attempt(t, e)
      PROVE  [Journal!EventsNext]_(Journal!eventVars)
  BY <1>3, RecordedUnchanged DEF RetryPending, Attempt
<1>4. ASSUME NEW t \in Threads, RelayStep(t) \/ Crash(t)
      PROVE  [Journal!EventsNext]_(Journal!eventVars)
  BY <1>4, DeliverTakesEffect, RecordedUnchanged
     DEF RelayStep, Acquire, AcquireTimesOut, LockById, DeliveryFails, Crash
<1>. QED
  BY <1>1, <1>2, <1>3, <1>4 DEF OutboxNext

LEMMA InitKeepsPromise == OutboxInit => Journal!EventsInit
  BY DEF OutboxInit, Journal!EventsInit

(* The transactional outbox implements the event journal.                  *)
THEOREM OutboxKeepsPromise == OutboxSpec => ImplementsReliableEvents
  BY InitKeepsPromise, StepKeepsPromise, OutboxInvariance, PTL
     DEF OutboxSpec, ImplementsReliableEvents, Journal!EventsSpec
=============================================================================
