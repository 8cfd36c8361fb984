--------------------------- MODULE ScheduleLifecycle ---------------------------
(***************************************************************************)
(* The life of a schedule as every other module sees it: a draft without a *)
(* business revision, confirmed as revision 1, changed under revisions of  *)
(* its own, cancelled for good.                                            *)
(***************************************************************************)
EXTENDS Naturals

VARIABLES status, rev

LifecycleInit == status = "ABSENT" /\ rev = 0

Appear == status = "ABSENT" /\ status' = "DRAFT" /\ UNCHANGED rev

Confirmed == status = "DRAFT" /\ status' = "CONFIRMED" /\ rev' = 1

Changed == status = "CONFIRMED" /\ UNCHANGED status /\ rev' = rev + 1

Dropped == status = "DRAFT" /\ status' = "CANCELLED" /\ UNCHANGED rev

Withdrawn == status = "CONFIRMED" /\ status' = "CANCELLED" /\ rev' = rev + 1

LifecycleNext == Appear \/ Confirmed \/ Changed \/ Dropped \/ Withdrawn

LifecycleSpec == LifecycleInit /\ [][LifecycleNext]_<<status, rev>>
=============================================================================
