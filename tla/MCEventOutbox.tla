---------------------------- MODULE MCEventOutbox ----------------------------
(* Small instances of the outbox. *)
EXTENDS EventOutbox, TLC

Symmetry == Permutations(Requests) \cup Permutations(Pollers)
=============================================================================
