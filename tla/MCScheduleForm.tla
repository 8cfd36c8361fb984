---------------------------- MODULE MCScheduleForm -----------------------------
(***************************************************************************)
(* The editor of one schedule on its own, for the question whether "apply  *)
(* latest" leaves what the server has.                                     *)
(***************************************************************************)
EXTENDS ScheduleForm
===============================================================================
