---------------------------- MODULE ShareInvitation ----------------------------
(***************************************************************************)
(* The share dialog of a project (screens/Account.tsx) with the attempts,  *)
(* reads and recoveries that state.ts keeps outside of it. A manager       *)
(* issues, replaces or revokes the project's code; the answer may be lost, *)
(* a read may be under way, another manager may change the code, and the   *)
(* dialog may be closed, opened and closed again meanwhile.                *)
(*                                                                         *)
(* A code is the number of the change that made it. The query of TanStack  *)
(* is external: its value, its status and at most one wanted read; a read  *)
(* that was cancelled is still answered, but the query does not take it.   *)
(***************************************************************************)
EXTENDS AccessRecovery, FiniteSets

CONSTANTS
  Reads,       \* identities of reads
  MaxCodes,    \* bound on the changes of the code, of this page and of others
  MaxReads,    \* bound on shareReadRevisions
  MaxAttempts  \* bound on shareAttemptRevisions

ASSUME ShareConstants ==
  IsFiniteSet(Reads) /\ {MaxCodes, MaxReads, MaxAttempts} \subseteq Nat

VARIABLES
  shareLive,    \* the session is active
  shareOpen,    \* the dialog is open, its query enabled
  shareAttempt, \* shareAttempts: None or what is known of the last change
  attemptRev,   \* shareAttemptRevisions
  recovery,     \* shareRecoveries: its revision, 0 for none
  readRev,      \* shareReadRevisions
  shareAccess,  \* the denial record of the share key
  shareData, shareStatus, \* the query: its value, whether its last read succeeded
  reads,        \* Reads -> read
  change,       \* the mutation in flight
  code,         \* server: number and state of the last change
  manager,      \* server: the caller manages the project
  late,         \* server: a change whose answer was given up may still apply
  floor         \* history: the code is known to be at least this new

shareVars == <<shareLive, shareOpen, shareAttempt, attemptRev, recovery, readRev,
               shareAccess, shareData, shareStatus, reads, change, code, manager, late, floor>>
dialogVars == <<shareOpen, shareAttempt, attemptRev, recovery>>
queryVars == <<readRev, shareAccess, shareData, shareStatus, reads>>
codeVars == <<code, manager, late>>

None == [set |-> FALSE, pending |-> FALSE, uncertain |-> FALSE, completed |-> FALSE,
         completedRead |-> 0]
ShareAttempt(p, u, c, n) ==
  [set |-> TRUE, pending |-> p, uncertain |-> u, completed |-> c, completedRead |-> n]
NoRead == [phase |-> "idle", role |-> "query", revision |-> 0, recovery |-> 0,
           answer |-> "none", value |-> [n |-> 0, active |-> FALSE]]
NoChange == [phase |-> "idle", kind |-> "issue", answer |-> "none",
             value |-> [n |-> 0, active |-> FALSE]]
NeverShared == [n |-> 0, active |-> FALSE]

fetching == \E f \in Reads : reads[f].phase # "idle" /\ reads[f].role = "query"
Spare == {f \in Reads : reads[f].phase = "idle"}
shareLocked == shareAttempt.pending \/ shareAttempt.uncertain \/ shareAttempt.completed
denied == shareAccess.denied
shown == shareOpen /\ ~denied /\ ~shareLocked /\ shareStatus # "pending"
canChange == shareStatus = "success" /\ ~fetching /\ ~denied /\ ~shareLocked /\ recovery = 0

(* The buttons of the dialog.                                              *)
offered(kind) ==
  shareLive /\ shareOpen /\ canChange /\ change.phase = "idle" /\ (kind = "revoke" => shareData.active)
recoveryOffered ==
  /\ shareLive /\ shareOpen /\ (denied \/ shareAttempt.uncertain)
  /\ ~fetching /\ ~shareAttempt.pending /\ recovery = 0

ShareInit ==
  /\ shareLive = TRUE /\ shareOpen = FALSE /\ shareAttempt = None /\ attemptRev = 0
  /\ recovery = 0 /\ readRev = 0 /\ shareAccess = resetAccessState
  /\ shareData = NeverShared /\ shareStatus = "pending"
  /\ reads = [f \in Reads |-> NoRead] /\ change = NoChange
  /\ code = NeverShared /\ manager = TRUE /\ late = {} /\ floor = 0

-------------------------------------------------------------------------------
(* Mutant: a change does not cancel the reads under way.                   *)
NotCancelled(f) == f

(* The reads. cancelQueries leaves the read under way to itself.           *)
Cancelled(f) == [r \in Reads |-> IF f[r].phase # "idle" /\ f[r].role = "query"
                                 THEN [f[r] EXCEPT !.role = "orphan"] ELSE f[r]]

NewRead(role) == [NoRead EXCEPT !.phase = "sent", !.role = role,
                                !.revision = beginAccessRead(shareAccess)]

(* The query function: beginShareRead, then accessRead.                    *)
BeginQuery(rs, f) ==
  /\ readRev < MaxReads
  /\ readRev' = readRev + 1
  /\ reads' = [rs EXCEPT ![f] = NewRead("query")]

OpenShare ==
  /\ shareLive /\ ~shareOpen
  /\ shareOpen' = TRUE
  /\ IF fetching THEN UNCHANGED <<readRev, reads>> ELSE \E f \in Spare : BeginQuery(reads, f)
  /\ UNCHANGED <<shareLive, shareAttempt, attemptRev, recovery, shareAccess, shareData, shareStatus,
                 change, codeVars, floor>>

CloseShare ==
  /\ shareOpen /\ shareOpen' = FALSE
  /\ UNCHANGED <<shareLive, shareAttempt, attemptRev, recovery, queryVars, change, codeVars, floor>>

(* The window is looked at again, or the reader asks for another attempt.  *)
Refocus ==
  /\ shareLive /\ shareOpen /\ ~fetching
  /\ \E f \in Spare : BeginQuery(reads, f)
  /\ UNCHANGED <<shareLive, dialogVars, shareAccess, shareData, shareStatus, change, codeVars, floor>>

ServeRead(f) ==
  /\ reads[f].phase = "sent"
  /\ \E answer \in {IF manager THEN "ok" ELSE "403", "lost"} :
       reads' = [reads EXCEPT ![f].phase = "answered", ![f].answer = answer,
                              ![f].value = IF answer = "ok" THEN code ELSE NeverShared]
  /\ UNCHANGED <<shareLive, dialogVars, readRev, shareAccess, shareData, shareStatus, change, codeVars, floor>>

(* The query takes the answer of the read it wants; the denial record that *)
(* of every read.                                                          *)
ReceiveQuery(f) ==
  /\ shareLive /\ reads[f].phase = "answered" /\ reads[f].role # "recovery"
  /\ reads' = [reads EXCEPT ![f] = NoRead]
  /\ shareAccess' = accessRead(shareAccess, reads[f].revision, reads[f].answer)
  /\ IF reads[f].role = "orphan" THEN UNCHANGED <<shareData, shareStatus>>
     ELSE IF reads[f].answer = "ok" THEN shareData' = reads[f].value /\ shareStatus' = "success"
     ELSE shareStatus' = "error" /\ UNCHANGED shareData
  /\ UNCHANGED <<shareLive, dialogVars, readRev, change, codeVars, floor>>

(* The two effects of the dialog on its query.                             *)
ClearShareDenial ==
  /\ shareLive /\ shareStatus = "success" /\ ~fetching /\ accessReadCanClear(shareAccess)
  /\ shareAccess' = clearAccessDenial(shareAccess)
  /\ UNCHANGED <<shareLive, dialogVars, readRev, shareData, shareStatus, reads, change, codeVars, floor>>

ClearCompleted ==
  /\ shareLive /\ shareAttempt.completed /\ shareStatus = "success" /\ ~fetching
  /\ readRev > shareAttempt.completedRead
  /\ shareAttempt' = None
  /\ UNCHANGED <<shareLive, shareOpen, attemptRev, recovery, queryVars, change, codeVars, floor>>

-------------------------------------------------------------------------------
(* Of all recoveries the project has at most one that may still answer.    *)
beginShareRecovery == attemptRev' = attemptRev + 1 /\ recovery' = attemptRev + 1
isCurrentShareRecovery(revision) == recovery = revision
clearShareRecovery(revision) == recovery' = IF isCurrentShareRecovery(revision) THEN 0 ELSE recovery
invalidateShareRecovery == recovery' = 0

(* A change, from the button to the mutation's onMutate: a recovery under  *)
(* way loses its say.                                                      *)
BeginChange(kind) ==
  /\ offered(kind) /\ attemptRev < MaxAttempts
  /\ attemptRev' = attemptRev + 1
  /\ invalidateShareRecovery
  /\ shareAttempt' = ShareAttempt(TRUE, FALSE, FALSE, 0)
  /\ change' = [NoChange EXCEPT !.phase = "sent", !.kind = kind]
  /\ UNCHANGED <<shareLive, shareOpen, queryVars, codeVars, floor>>

Applied(kind) == [n |-> code.n + 1, active |-> kind = "issue"]

ServeChange ==
  /\ change.phase = "sent"
  /\ IF manager
       THEN /\ code.n < MaxCodes
            /\ code' = Applied(change.kind)
            /\ change' = [change EXCEPT !.phase = "answered", !.answer = "ok", !.value = code']
       ELSE /\ change' = [change EXCEPT !.phase = "answered", !.answer = "403"]
            /\ UNCHANGED code
  /\ UNCHANGED <<shareLive, dialogVars, queryVars, manager, late, floor>>

(* No answer: before the server handled the change, which it may still do, *)
(* or after.                                                               *)
LoseChange ==
  /\ \/ /\ change.phase = "sent"
        /\ late' = late \cup {change.kind}
     \/ /\ change.phase = "answered" /\ change.answer # "lost"
        /\ UNCHANGED late
  /\ change' = [change EXCEPT !.phase = "answered", !.answer = "lost"]
  /\ UNCHANGED <<shareLive, dialogVars, queryVars, code, manager, floor>>

ApplyLate ==
  /\ manager /\ code.n < MaxCodes
  /\ \E kind \in late : code' = Applied(kind) /\ late' = late \ {kind}
  /\ UNCHANGED <<shareLive, dialogVars, queryVars, change, manager, floor>>

(* The mutation function marks the attempt completed; onSuccess cancels    *)
(* the reads under way and waits for that.                                 *)
CompleteChange ==
  /\ shareLive /\ change.phase = "answered" /\ change.answer = "ok"
  /\ shareAttempt' = [shareAttempt EXCEPT !.completed = TRUE, !.completedRead = readRev]
  /\ reads' = Cancelled(reads)
  /\ change' = [change EXCEPT !.phase = "settling"]
  /\ floor' = change.value.n
  /\ UNCHANGED <<shareLive, shareOpen, attemptRev, recovery, readRev, shareAccess, shareData, shareStatus, codeVars>>

(* The rest of onSuccess: the lock ends and the value of the answer is     *)
(* shown; after a revocation the query is read again.                      *)
FinishChange ==
  /\ change.phase = "settling"
  /\ change' = NoChange
  /\ IF shareLive
       THEN /\ shareAttempt' = None
            /\ shareData' = change.value /\ shareStatus' = "success"
            /\ IF change.kind = "revoke"
                 THEN \E f \in Spare : BeginQuery(Cancelled(reads), f)
                 ELSE UNCHANGED <<readRev, reads>>
       ELSE UNCHANGED <<shareAttempt, shareData, shareStatus, readRev, reads>>
  /\ UNCHANGED <<shareLive, shareOpen, attemptRev, recovery, shareAccess, codeVars, floor>>

(* A change that was refused or not answered: whatever the mutation        *)
(* function decided, onError leaves the outcome uncertain and reads again. *)
FailChange ==
  /\ shareLive /\ change.phase = "answered" /\ change.answer # "ok"
  /\ change' = NoChange
  /\ shareAccess' = IF isAccessError(change.answer) THEN recordAccessDenial(shareAccess) ELSE shareAccess
  /\ shareAttempt' = ShareAttempt(FALSE, TRUE, FALSE, 0)
  /\ floor' = code.n
  /\ \E f \in Spare :
       /\ readRev' = readRev + 1
       /\ reads' = [Cancelled(reads) EXCEPT ![f] = [NewRead("query") EXCEPT !.revision = shareAccess'.version]]
  /\ UNCHANGED <<shareLive, shareOpen, attemptRev, recovery, shareData, shareStatus, codeVars>>

-------------------------------------------------------------------------------
(* recover, offered while the share key is denied or the outcome of a      *)
(* change uncertain: one at a time, a read of its own, and only the latest *)
(* one that no change overtook may unlock the dialog.                      *)
Recover ==
  /\ recoveryOffered /\ attemptRev < MaxAttempts
  /\ beginShareRecovery
  /\ \E f \in Spare : reads' = [Cancelled(reads) EXCEPT
                                   ![f] = [NewRead("recovery") EXCEPT !.recovery = attemptRev + 1]]
  /\ UNCHANGED <<shareLive, shareOpen, shareAttempt, readRev, shareAccess, shareData, shareStatus, change, codeVars, floor>>

FinishRecovery(f) ==
  /\ shareLive /\ reads[f].phase = "answered" /\ reads[f].role = "recovery"
  /\ reads' = [reads EXCEPT ![f] = NoRead]
  /\ LET a == accessRead(shareAccess, reads[f].revision, reads[f].answer)
     IN IF reads[f].answer = "ok" /\ isCurrentShareRecovery(reads[f].recovery)
          THEN /\ shareData' = reads[f].value /\ shareStatus' = "success"
               /\ shareAccess' = IF accessReadCanClear(a) THEN clearAccessDenial(a) ELSE a
               /\ shareAttempt' = None
          ELSE shareAccess' = a /\ UNCHANGED <<shareData, shareStatus, shareAttempt>>
  /\ clearShareRecovery(reads[f].recovery)
  /\ UNCHANGED <<shareLive, shareOpen, attemptRev, readRev, change, codeVars, floor>>

-------------------------------------------------------------------------------
(* Another manager changes the code, or the caller's own role.             *)
OtherChange ==
  /\ code.n < MaxCodes
  /\ \E kind \in {"issue", "revoke"} : code' = Applied(kind)
  /\ UNCHANGED <<shareLive, dialogVars, queryVars, change, manager, late, floor>>

Demote ==
  /\ manager /\ manager' = FALSE
  /\ UNCHANGED <<shareLive, dialogVars, queryVars, change, code, late, floor>>

(* The session ends: the query is removed and nothing is taken any more.   *)
EndShareSession ==
  /\ shareLive /\ shareLive' = FALSE
  /\ shareOpen' = FALSE /\ shareData' = NeverShared /\ shareStatus' = "pending"
  /\ reads' = [f \in Reads |-> NoRead]
  /\ UNCHANGED <<shareAttempt, attemptRev, recovery, readRev, shareAccess, change, codeVars, floor>>

ShareNext ==
  \/ OpenShare \/ CloseShare \/ Refocus \/ ClearShareDenial \/ ClearCompleted
  \/ BeginChange("issue") \/ BeginChange("revoke")
  \/ ServeChange \/ LoseChange \/ ApplyLate \/ CompleteChange \/ FinishChange \/ FailChange
  \/ Recover \/ OtherChange \/ Demote \/ EndShareSession
  \/ \E f \in Reads : ServeRead(f) \/ ReceiveQuery(f) \/ FinishRecovery(f)

ShareSpec == ShareInit /\ [][ShareNext]_shareVars

-------------------------------------------------------------------------------
(* What the dialog shows, and offers to copy or to replace, is never older *)
(* than the last change this page made or gave up: not through a read that *)
(* was under way, not between the answer and the callback, not by closing  *)
(* and opening the dialog.                                                 *)
ShownIsNoOlderThanOwnChange == shareLive /\ shown => shareData.n >= floor
===============================================================================
