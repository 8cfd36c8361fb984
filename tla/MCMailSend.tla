----------------------------- MODULE MCMailSend -----------------------------
(* Model-checking instances of MailSend.                                   *)
EXTENDS MailSend, TLC

Symmetry == Permutations(Callers) \cup Permutations(Requests)
=============================================================================
