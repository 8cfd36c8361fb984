---------------------------- MODULE ReliableEvents ----------------------------
(***************************************************************************)
(* What the platform's event journal promises the modules that use it: an  *)
(* event is recorded with the transaction that causes it, and it takes     *)
(* effect, in every consumer together, at most once.  Events take effect   *)
(* in any order.                                                           *)
(***************************************************************************)
EXTENDS Naturals

CONSTANT Events

VARIABLES
  recorded,  \* events whose transaction committed
  effects    \* how often each event took effect

eventVars == <<recorded, effects>>

EventsInit ==
  /\ recorded = {}
  /\ effects = [e \in Events |-> 0]

Record(e) ==
  /\ e \notin recorded
  /\ recorded' = recorded \cup {e}
  /\ UNCHANGED effects

TakeEffect(e) ==
  /\ e \in recorded /\ effects[e] = 0
  /\ effects' = [effects EXCEPT ![e] = 1]
  /\ UNCHANGED recorded

EventsNext == \E e \in Events : Record(e) \/ TakeEffect(e)

EventsSpec == EventsInit /\ [][EventsNext]_eventVars
=============================================================================
