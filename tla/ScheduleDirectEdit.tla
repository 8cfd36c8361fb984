-------------------------- MODULE ScheduleDirectEdit --------------------------
(***************************************************************************)
(* Changing the time of a schedule in the calendar of the workspace        *)
(* (screens/Schedules.tsx) by dragging it or in the time dialog:           *)
(*  - one interaction at a time, owned by a token (drag, dialog or write); *)
(*  - the write, which names the row version it starts from, and what      *)
(*    schedule-time-mutation.ts makes of its answer: saved, rejected, or   *)
(*    unknown, and then three reads (the schedule, the caller's role, the  *)
(*    period on display) decide whether the row may be edited again;       *)
(*  - the row shown, an override of the page until the list catches up;    *)
(*  - the retry of those reads, and of the whole access check.             *)
(* The server keeps the times each schedule had, one per row version.      *)
(* A read of the project that fails takes the calendar down, and so does   *)
(* leaving the page: its locks and overrides go with it, the list of the   *)
(* query client stays, and the calendar that is mounted next knows nothing *)
(* of a write before it.                                                   *)
(***************************************************************************)
EXTENDS Naturals, Sequences, FiniteSets

CONSTANTS
  Events,      \* schedules of the period on display
  Times,       \* the times a schedule can have
  MaxEdits     \* bound on the versions of a row

ASSUME DirectEditConstants ==
  IsFiniteSet(Events) /\ IsFiniteSet(Times) /\ 1 \in Times /\ MaxEdits \in Nat

VARIABLES
  log,          \* server: Events -> times by row version
  right,        \* server: the caller may edit
  role,         \* the project query: the caller may edit
  mounted,      \* the project query succeeded: the calendar is on the page
  list, listOk, \* the period's query: version of each row, last read succeeded
  listRead,     \* a read of the period under way: <<>> or <<what it found>>
  override,     \* Events -> version shown instead, 0 for none
  locks,        \* lockedIds
  unsure,       \* history: rows whose last write has an unknown outcome
  dropped,      \* history: those of them a calendar left behind when it was taken down
  blocked,      \* workspaceBlocked, the workspace's resultsDenied
  token,        \* activeInteraction
  dialog,       \* dialogSchedule: <<>> or <<schedule, version>>
  toRecover,    \* recoverySchedule and recoveryIntent: <<>> or <<schedule, intent>>
  feedback,     \* [kind, event, time, base]
  save,         \* saveChange under way
  retry         \* recover under way

serverRows == <<log, right>>
knowledge == <<role, mounted>>
listVars == <<list, listOk, listRead>>
rowState == <<override, locks, unsure, dropped, blocked>>
pageState == <<token, dialog, toRecover, feedback>>
deVars == <<serverRows, knowledge, listVars, rowState, pageState, save, retry>>

Unclaimed == [kind |-> "free", event |-> {}]
Token(kind, e) == [kind |-> kind, event |-> {e}]
NoTime == 0
Silent == [kind |-> "none", event |-> {}, time |-> NoTime, base |-> 0]
Say(kind, e, t, b) == [kind |-> kind, event |-> {e}, time |-> t, base |-> b]
Unread == [latest |-> "none", version |-> 0, role |-> "none", target |-> "none"]
NoSave == [phase |-> "idle", event |-> {}, time |-> NoTime, base |-> 0,
           answer |-> "none", version |-> 0, reads |-> Unread]
NoRetry == [phase |-> "idle", event |-> {}, intent |-> NoTime, reads |-> Unread]

current == [e \in Events |-> Len(log[e])]
rowVersion(e) == IF override[e] # 0 THEN override[e] ELSE list[e]
visible == mounted /\ listOk /\ ~blocked
pendingId == save.phase # "idle"
recoveringId == retry.phase # "idle"
The(S) == CHOOSE x \in S : TRUE

(* locked, and directLocked for the row the drag itself holds.             *)
locked(e) == blocked \/ pendingId \/ e \in locks \/ recoveringId \/ token # Unclaimed
directLocked(e) ==
  \/ blocked \/ pendingId \/ e \in locks \/ recoveringId
  \/ token # Unclaimed /\ token # Token("drag", e)

DEInit ==
  /\ log = [e \in Events |-> <<1>>] /\ right = TRUE
  /\ role = TRUE /\ mounted = TRUE
  /\ list = [e \in Events |-> 1] /\ listOk = TRUE /\ listRead = <<>>
  /\ override = [e \in Events |-> 0] /\ locks = {}
  /\ unsure = {} /\ dropped = {} /\ blocked = FALSE
  /\ token = Unclaimed /\ dialog = <<>> /\ toRecover = <<>> /\ feedback = Silent
  /\ save = NoSave /\ retry = NoRetry

-------------------------------------------------------------------------------
(* The server: another member changes a time; the caller's role changes.   *)
Store(e, t) == log' = [log EXCEPT ![e] = Append(@, t)]

OtherEdit(e, t) ==
  /\ Len(log[e]) < MaxEdits /\ t # log[e][Len(log[e])] /\ Store(e, t)
  /\ UNCHANGED <<right, knowledge, listVars, rowState, pageState, save, retry>>

ChangeRole ==
  /\ right' = ~right
  /\ UNCHANGED <<log, knowledge, listVars, rowState, pageState, save, retry>>

(* The project query is read again, when the window regains the focus, by  *)
(* readFreshRole or by recheckAccess.                                      *)
Learn(r) == role' = r /\ UNCHANGED mounted

RefetchProject ==
  /\ mounted /\ role # right /\ Learn(right)
  /\ UNCHANGED <<serverRows, listVars, rowState, pageState, save, retry>>

(* One of these reads fails, in the middle of a write or its retry too, or *)
(* the page is left. A write on its way goes on without its page: what it  *)
(* stores later is an OtherEdit, and what it reads goes to the query.      *)
unanswered == IF save.phase \in {"sent", "answered"} THEN save.event ELSE {}

TakeDown ==
  /\ mounted /\ mounted' = FALSE
  /\ override' = [e \in Events |-> 0] /\ locks' = {} /\ token' = Unclaimed
  /\ dialog' = <<>> /\ toRecover' = <<>> /\ feedback' = Silent
  /\ save' = NoSave /\ retry' = NoRetry
  /\ unsure' = unsure \cup unanswered /\ dropped' = unsure'
  /\ UNCHANGED <<serverRows, role, listVars, blocked>>

(* The project is read again, or the page is opened again.                 *)
Mount ==
  /\ ~mounted /\ mounted' = TRUE /\ role' = right /\ blocked' \in BOOLEAN
  /\ UNCHANGED <<serverRows, listVars, override, locks, unsure, dropped, pageState, save, retry>>

(* Another part of the workspace meets a denial.                           *)
onWorkspaceDenied ==
  /\ ~blocked /\ blocked' = TRUE
  /\ UNCHANGED <<serverRows, knowledge, listVars, override, locks, unsure, dropped, pageState, save, retry>>

(* The period is read. An answer that differs from what the query holds    *)
(* runs the effect on the overrides: one goes when the list caught up. A   *)
(* failure leaves no row on display, a denial blocks the workspace.        *)
CatchUp(found) ==
  /\ list' = found /\ listOk' = TRUE
  /\ override' = IF found = list /\ listOk THEN override
                 ELSE [e \in Events |-> IF found[e] >= override[e] THEN 0 ELSE override[e]]

ListAnswer(found) ==
  \/ CatchUp(found) /\ UNCHANGED blocked
  \/ listOk' = FALSE /\ blocked' \in {blocked, TRUE} /\ UNCHANGED <<list, override>>

BeginListRead ==
  /\ (mounted => ~blocked) /\ listRead = <<>> /\ save.phase # "refresh"
  /\ listRead' = <<current>>
  /\ UNCHANGED <<serverRows, knowledge, list, listOk, rowState, pageState, save, retry>>

FinishListRead ==
  /\ listRead # <<>> /\ listRead' = <<>> /\ ListAnswer(listRead[1])
  /\ UNCHANGED <<serverRows, knowledge, locks, unsure, dropped, pageState, save, retry>>

-------------------------------------------------------------------------------
(* saveChange for the row shown at version b. Refused, it does nothing.    *)
Accepted(e, owner) ==
  ~blocked /\ token \in {Unclaimed, owner} /\ ~pendingId /\ e \notin locks /\ role

saveChange(e, b, t) ==
  IF t = log[e][b]
    THEN token' = Unclaimed /\ UNCHANGED <<save, feedback>>
    ELSE /\ token' = Token("write", e) /\ feedback' = Say("status", e, t, b)
         /\ save' = [NoSave EXCEPT !.phase = "sent", !.event = {e}, !.time = t, !.base = b]

(* A drag begins on a row; it ends by the escape key, a cancelled pointer  *)
(* or the row's removal, or drops the row at another time.                 *)
begin(e) ==
  /\ visible /\ role /\ ~directLocked(e) /\ token = Unclaimed
  /\ token' = Token("drag", e)
  /\ UNCHANGED <<serverRows, knowledge, listVars, rowState, dialog, toRecover, feedback, save, retry>>

clear ==
  /\ token.kind = "drag" /\ token' = Unclaimed
  /\ UNCHANGED <<serverRows, knowledge, listVars, rowState, dialog, toRecover, feedback, save, retry>>

finish(e, t) ==
  /\ visible /\ token = Token("drag", e) /\ t # log[e][rowVersion(e)]
  /\ IF Accepted(e, token) THEN saveChange(e, rowVersion(e), t)
                           ELSE token' = Unclaimed /\ UNCHANGED <<save, feedback>>
  /\ UNCHANGED <<serverRows, knowledge, listVars, rowState, dialog, toRecover, retry>>

(* The time dialog keeps the row it was opened on.                         *)
openEdit(e) ==
  /\ visible /\ role /\ ~locked(e)
  /\ token' = Token("dialog", e) /\ dialog' = <<e, rowVersion(e)>> /\ feedback' = Silent
  /\ UNCHANGED <<serverRows, knowledge, listVars, rowState, toRecover, save, retry>>

closeDialog ==
  /\ dialog # <<>> /\ dialog' = <<>>
  /\ token' = IF token.kind = "dialog" THEN Unclaimed ELSE token
  /\ UNCHANGED <<serverRows, knowledge, listVars, rowState, toRecover, feedback, save, retry>>

submitDialog(t) ==
  /\ dialog # <<>> /\ ~blocked /\ ~pendingId
  /\ dialog' = <<>>
  /\ IF Accepted(dialog[1], token) THEN saveChange(dialog[1], dialog[2], t)
                                   ELSE UNCHANGED <<token, save, feedback>>
  /\ UNCHANGED <<serverRows, knowledge, listVars, rowState, toRecover, retry>>

(* Another period or filter: a drag or a dialog loses its token, a write   *)
(* keeps its own.                                                          *)
ChangeContext ==
  /\ token.kind \in {"drag", "dialog"}
  /\ token' = Unclaimed /\ dialog' = <<>>
  /\ UNCHANGED <<serverRows, knowledge, listVars, rowState, toRecover, feedback, save, retry>>

-------------------------------------------------------------------------------
(* The server's side of the write, and an answer that never arrives.       *)
ServeSave ==
  /\ save.phase = "sent"
  /\ LET e == The(save.event)
         Answer(code) == save' = [save EXCEPT !.phase = "answered", !.answer = code]
     IN \/ /\ ~right /\ Answer("403") /\ UNCHANGED log
        \/ /\ right /\ save.base # Len(log[e]) /\ Answer("409") /\ UNCHANGED log
        \/ /\ right /\ save.base = Len(log[e]) /\ Len(log[e]) < MaxEdits
           /\ Store(e, save.time)
           /\ save' = [save EXCEPT !.phase = "answered", !.answer = "ok", !.version = Len(log[e]) + 1]
        \/ /\ Answer("400") /\ UNCHANGED log       \* an instant the server does not take
  /\ UNCHANGED <<right, knowledge, listVars, rowState, pageState, retry>>

LoseSave ==
  /\ save.phase = "sent" \/ (save.phase = "answered" /\ save.answer # "lost")
  /\ save' = [save EXCEPT !.phase = "answered", !.answer = "lost"]
  /\ UNCHANGED <<serverRows, knowledge, listVars, rowState, pageState, retry>>

(* The end of saveChange, always: the write gives up its token.            *)
EndSave == save' = NoSave /\ token' = IF token.kind = "write" THEN Unclaimed ELSE token

(* executeScheduleTimeMutation: the answer of the write.                   *)
Saved ==
  /\ save.phase = "answered" /\ save.answer = "ok"
  /\ override' = [override EXCEPT ![The(save.event)] = save.version]
  /\ save' = [save EXCEPT !.phase = "refresh"]
  /\ UNCHANGED <<serverRows, knowledge, listVars, locks, unsure, dropped, blocked, pageState, retry>>

Rejected ==
  /\ save.phase = "answered" /\ save.answer \in {"400", "403"}
  /\ feedback' = Say("error", The(save.event), save.time, save.base)
  /\ IF save.answer = "403"
       THEN blocked' = TRUE /\ UNCHANGED toRecover
       ELSE toRecover' = <<The(save.event), NoTime>> /\ UNCHANGED blocked
  /\ EndSave
  /\ UNCHANGED <<serverRows, knowledge, listVars, override, locks, unsure, dropped, dialog, retry>>

OutcomeUnknown ==
  /\ save.phase = "answered" /\ save.answer \in {"409", "lost"}
  /\ save' = [save EXCEPT !.phase = "reading"]
  /\ unsure' = unsure \cup save.event /\ dropped' = dropped \ save.event
  /\ UNCHANGED <<serverRows, knowledge, listVars, override, locks, blocked, pageState, retry>>

(* The three reads of allSettled, for the write or for its retry, in any   *)
(* order: what each may add to the reads r that are known. A role that     *)
(* cannot be read is in the project query too: TakeDown, before the row is *)
(* ever locked.                                                            *)
readLatest(e, r) ==
  {n \in {[r EXCEPT !.latest = "ok", !.version = Len(log[e])], [r EXCEPT !.latest = "failed"]} :
     r.latest = "none"}
readFreshRole(r) == {n \in {[r EXCEPT !.role = IF right THEN "edit" ELSE "view"]} : r.role = "none"}
refreshActiveTarget(r) ==
  {n \in {[r EXCEPT !.target = t] : t \in {"ok", "failed", "403"}} : r.target = "none"}
NextReads(e, r) == readLatest(e, r) \cup readFreshRole(r) \cup refreshActiveTarget(r)

(* The role and the period that were read also go to their queries.        *)
Reading(r, n) ==
  /\ IF n.role # r.role THEN Learn(right) ELSE UNCHANGED knowledge
  /\ IF n.target # r.target /\ n.target = "ok" THEN CatchUp(current)
                                              ELSE UNCHANGED <<list, listOk, override>>

AllRead(r) == "none" \notin {r.latest, r.role, r.target}
(* Mutant: the read of the period may fail.                                *)
KnownWithoutTarget(r) == AllRead(r) /\ r.latest = "ok"

Known(r) == AllRead(r) /\ r.latest = "ok" /\ r.target = "ok"

(* History: the outcome of the last write of the rows S was read.          *)
Read(S) == unsure' = unsure \ S /\ dropped' = dropped \ S
Ascertain(S, r) ==
  IF r.latest = "ok" /\ r.target = "ok" THEN Read(S) ELSE UNCHANGED <<unsure, dropped>>

ReadAfterSave ==
  /\ save.phase = "reading"
  /\ \E n \in NextReads(The(save.event), save.reads) :
       Reading(save.reads, n) /\ save' = [save EXCEPT !.reads = n]
  /\ UNCHANGED <<serverRows, listRead, locks, unsure, dropped, blocked, pageState, retry>>

(* One of the reads failed: the row stays locked, and may be retried; a    *)
(* denial of the period locks the workspace instead.                       *)
Locked ==
  /\ save.phase = "reading" /\ AllRead(save.reads) /\ ~Known(save.reads)
  /\ feedback' = Say("error", The(save.event), save.time, save.base)
  /\ IF save.reads.target = "403"
       THEN blocked' = TRUE /\ toRecover' = <<>> /\ UNCHANGED locks
       ELSE /\ locks' = locks \cup save.event
            /\ toRecover' = <<The(save.event), save.time>> /\ UNCHANGED blocked
  /\ EndSave
  /\ UNCHANGED <<serverRows, knowledge, listVars, override, unsure, dropped, dialog, retry>>

Recovered ==
  /\ save.phase = "reading" /\ Known(save.reads)
  /\ override' = [override EXCEPT ![The(save.event)] = save.reads.version]
  /\ Ascertain(save.event, save.reads)
  /\ save' = [save EXCEPT !.phase = "refresh"]
  /\ UNCHANGED <<serverRows, knowledge, listVars, locks, blocked, pageState, retry>>

(* await refreshSchedule: the period is read again, whatever comes of it.  *)
refreshSchedule ==
  /\ save.phase = "refresh" /\ save' = [save EXCEPT !.phase = "refreshed"]
  /\ IF blocked THEN UNCHANGED <<listVars, override, blocked>>
                ELSE listRead' = <<>> /\ ListAnswer(current)
  /\ UNCHANGED <<serverRows, knowledge, locks, unsure, dropped, pageState, retry>>

AfterSaved ==
  /\ save.phase = "refreshed" /\ save.answer = "ok"
  /\ override' = [override EXCEPT ![The(save.event)] = 0]
  /\ feedback' = Say("success", The(save.event), save.time, save.base)
  /\ EndSave
  /\ UNCHANGED <<serverRows, knowledge, listVars, locks, unsure, dropped, blocked, dialog, toRecover, retry>>

(* Mutant: a write without an answer is believed to be done.               *)
assumedCommitted == TRUE

committed == log[The(save.event)][save.reads.version] = save.time

AfterRecovered ==
  /\ save.phase = "refreshed" /\ save.answer # "ok"
  /\ LET e == The(save.event)
         found(kind) == feedback' = Say(kind, e, save.time, save.base)
     IN IF save.reads.role = "edit"
          THEN /\ locks' = locks \ {e} /\ toRecover' = <<>>
               /\ found(IF committed THEN "success" ELSE "error")
          ELSE /\ locks' = locks \cup {e} /\ toRecover' = <<e, save.time>>
               /\ found("error")
  /\ EndSave
  /\ UNCHANGED <<serverRows, knowledge, listVars, override, unsure, dropped, blocked, dialog, retry>>

-------------------------------------------------------------------------------
(* The button on an error: recover reads the three again.                  *)
CanRetry == visible /\ toRecover # <<>> /\ feedback.kind = "error" /\ ~recoveringId

retryRecovery ==
  /\ CanRetry
  /\ retry' = [NoRetry EXCEPT !.phase = "reading", !.event = {toRecover[1]}, !.intent = toRecover[2]]
  /\ locks' = locks \cup {toRecover[1]}
  /\ UNCHANGED <<serverRows, knowledge, listVars, override, unsure, dropped, blocked, pageState, save>>

ReadForRetry ==
  /\ retry.phase = "reading"
  /\ \E n \in NextReads(The(retry.event), retry.reads) :
       Reading(retry.reads, n) /\ retry' = [retry EXCEPT !.reads = n]
  /\ UNCHANGED <<serverRows, listRead, locks, unsure, dropped, blocked, pageState, save>>

recover ==
  /\ retry.phase = "reading" /\ AllRead(retry.reads) /\ retry' = NoRetry
  /\ feedback' = Say("error", The(retry.event), retry.intent, 0)
  /\ \/ /\ retry.reads.target = "403"
        /\ blocked' = TRUE /\ locks' = locks \ retry.event /\ toRecover' = <<>>
        /\ UNCHANGED <<override, unsure, dropped>>
     \/ /\ Known(retry.reads)
        /\ override' = [override EXCEPT ![The(retry.event)] = retry.reads.version]
        /\ Ascertain(retry.event, retry.reads)
        /\ IF retry.reads.role = "edit"
             THEN locks' = locks \ retry.event /\ toRecover' = <<>>
             ELSE UNCHANGED <<locks, toRecover>>
        /\ UNCHANGED blocked
     \/ /\ ~Known(retry.reads) /\ retry.reads.target # "403"
        /\ UNCHANGED <<override, unsure, dropped, locks, blocked, toRecover>>
  /\ UNCHANGED <<serverRows, knowledge, listVars, token, dialog, save>>

(* recheckAccess of the workspace: the project, its settings, the period.  *)
recheckAccess ==
  /\ mounted /\ blocked /\ Learn(right)
  /\ \/ CatchUp(current) /\ blocked' = FALSE /\ Read(Events)
     \/ UNCHANGED <<list, listOk, override, blocked, unsure, dropped>>
  /\ UNCHANGED <<serverRows, listRead, locks, pageState, save, retry>>

DENext ==
  \/ \E e \in Events, t \in Times : OtherEdit(e, t) \/ finish(e, t)
  \/ \E e \in Events : begin(e) \/ openEdit(e)
  \/ \E t \in Times : submitDialog(t)
  \/ ChangeRole \/ RefetchProject \/ TakeDown \/ Mount \/ onWorkspaceDenied
  \/ BeginListRead \/ FinishListRead
  \/ clear \/ closeDialog \/ ChangeContext
  \/ ServeSave \/ LoseSave \/ Saved \/ Rejected \/ OutcomeUnknown \/ ReadAfterSave
  \/ Locked \/ Recovered \/ refreshSchedule \/ AfterSaved \/ AfterRecovered
  \/ retryRecovery \/ ReadForRetry \/ recover \/ recheckAccess

DESpec == DEInit /\ [][DENext]_deVars

-------------------------------------------------------------------------------
(* The page says a change was saved only if the server stored that time in *)
(* a version after the one the change was made from, although the answer   *)
(* of the write may have been lost and the claim rests on a later read.    *)
SuccessIsTrue ==
  feedback.kind = "success" =>
    LET e == The(feedback.event)
    IN \E v \in 1..Len(log[e]) : v > feedback.base /\ log[e][v] = feedback.time

(* After a write whose outcome is unknown, a calendar sends no other write *)
(* of that row before it has read the schedule and the period (or the      *)
(* period, after a denial) again, whichever of these two failed before. No *)
(* more than one calendar is promised: the lock of a row goes when the     *)
(* calendar is taken down unread, by a failed read of the project or by    *)
(* leaving, and the next one offers the row as the query client kept it.   *)
NoWriteOnAnUnknownOutcome ==
  [][(~pendingId /\ pendingId') => save'.event \cap unsure \subseteq dropped]_deVars
===============================================================================
