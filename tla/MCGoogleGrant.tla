--------------------------- MODULE MCGoogleGrant ---------------------------
(* Model-checking instances of GoogleGrant.                                *)
EXTENDS GoogleGrant, TLC

(* Threads and consents are interchangeable; no liveness is checked with   *)
(* this symmetry.                                                          *)
Symmetry == Permutations(Callers) \cup Permutations(Intents)
=============================================================================
