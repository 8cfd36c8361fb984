-------------------------- MODULE MCCalendarDispatch --------------------------
(* Model-checking instances of CalendarDispatch.                           *)
EXTENDS CalendarDispatch, TLC

Symmetry == Permutations(Workers) \cup Permutations(Calendars)
=============================================================================
