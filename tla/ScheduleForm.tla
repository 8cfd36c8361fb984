----------------------------- MODULE ScheduleForm ------------------------------
(***************************************************************************)
(* The form that edits a schedule (screens/ScheduleForm.tsx): the draft    *)
(* starts from one read of the schedule, its property values from another  *)
(* (the workspace record), and both are saved together, naming the row     *)
(* version the schedule was read at. On a 409 the form reads the schedule  *)
(* again and offers to save the draft over it or to apply it.              *)
(* Other members save the same row meanwhile. The server is that of        *)
(* ScheduleWorkspaceService.updateRecord: it compares the version and      *)
(* writes the schedule and the values sent with it, one version more.      *)
(* A schedule is its time and one property value; the other fields of the  *)
(* schedule travel with the time.                                          *)
(***************************************************************************)
EXTENDS Naturals, Sequences, FiniteSets

CONSTANTS
  FormTimes, FormValues,   \* what a version of the row may hold
  MaxRowVersion            \* bound on the versions of the row

ASSUME FormConstants ==
  /\ IsFiniteSet(FormTimes) /\ IsFiniteSet(FormValues)
  /\ 1 \in FormTimes /\ 1 \in FormValues /\ MaxRowVersion \in Nat

VARIABLES
  formRow,      \* server: the versions of the row
  snapshot,     \* the version the editor was mounted with, 0 when it is not
  rowVersionRef,\* the version a save starts from
  recordData,   \* the record query: version it holds, 0 before its first read
  draft,        \* [time, value]
  valuesDirty,
  conflict,     \* the schedule read after a 409: its version, 0 for none
  conflictRead, \* "none", "failed", or "again" while the reader reloads it
  formSave,     \* the mutation: idle, sent, an answer, reading
  formError,    \* save.isError
  writeDenied,  \* the denial of the write key, the failed save's included
  shownVersions,\* history: versions whose schedule the form showed as the server's
  applied       \* history: the draft is what "apply latest" left

formVars == <<formRow, snapshot, rowVersionRef, recordData, draft, valuesDirty, conflict,
              conflictRead, formSave, formError, writeDenied, shownVersions, applied>>
draftVars == <<draft, valuesDirty, applied>>
baseVars == <<snapshot, rowVersionRef, shownVersions>>
conflictState == <<conflict, conflictRead>>
outcome == <<formSave, formError, writeDenied>>

formOpen == snapshot # 0
formEnabled == formOpen /\ recordData # 0 /\ formSave = "idle" /\ ~writeDenied

(* The editor mounts on the schedule its query holds, which may be old.    *)
Mounted(v) ==
  /\ snapshot' = v /\ rowVersionRef' = v /\ shownVersions' = {v}
  /\ draft' = [time |-> formRow[v].time, value |-> 1] /\ valuesDirty' = FALSE /\ applied' = FALSE
  /\ conflict' = 0 /\ conflictRead' = "none"
  /\ formSave' = "idle" /\ formError' = FALSE

FormInit ==
  /\ formRow = <<[time |-> 1, value |-> 1]>>
  /\ snapshot = 1 /\ rowVersionRef = 1 /\ shownVersions = {1}
  /\ recordData = 0
  /\ draft = [time |-> 1, value |-> 1] /\ valuesDirty = FALSE /\ applied = FALSE
  /\ conflict = 0 /\ conflictRead = "none"
  /\ formSave = "idle" /\ formError = FALSE /\ writeDenied = FALSE

-------------------------------------------------------------------------------
OtherMemberSaves ==
  /\ Len(formRow) < MaxRowVersion
  /\ \E t \in FormTimes, v \in FormValues : formRow' = Append(formRow, [time |-> t, value |-> v])
  /\ UNCHANGED <<baseVars, recordData, draftVars, conflictState, outcome>>

(* The record is read, at first and when the window regains the focus; the *)
(* effect takes its values over while the reader has not touched any.      *)
ReadRecord ==
  /\ formOpen /\ recordData' = Len(formRow)
  /\ draft' = IF valuesDirty THEN draft ELSE [draft EXCEPT !.value = formRow[Len(formRow)].value]
  /\ applied' = (applied /\ draft' = draft)
  /\ UNCHANGED <<formRow, baseVars, valuesDirty, conflictState, outcome>>

EditDraft ==
  /\ formEnabled
  /\ \/ \E t \in FormTimes : draft' = [draft EXCEPT !.time = t] /\ UNCHANGED valuesDirty
     \/ \E v \in FormValues : draft' = [draft EXCEPT !.value = v] /\ valuesDirty' = TRUE
  /\ applied' = FALSE
  /\ UNCHANGED <<formRow, baseVars, recordData, conflictState, outcome>>

-------------------------------------------------------------------------------
(* submit, and "save my input again" over the version read after the 409.  *)
SubmitForm ==
  /\ formEnabled
  /\ formSave' = "sent" /\ formError' = FALSE
  /\ UNCHANGED <<formRow, baseVars, recordData, draftVars, conflictState, writeDenied>>

RetryMine ==
  /\ formEnabled /\ formError /\ conflict # 0
  /\ rowVersionRef' = conflict /\ conflict' = 0
  /\ formSave' = "sent" /\ formError' = FALSE
  /\ UNCHANGED <<formRow, snapshot, shownVersions, recordData, draftVars, conflictRead, writeDenied>>

(* "Apply latest": the schedule's fields, and the version, of the conflict.*)
ApplyLatest ==
  /\ formOpen /\ formError /\ conflict # 0
  /\ draft' = [draft EXCEPT !.time = formRow[conflict].time]
  /\ rowVersionRef' = conflict /\ conflict' = 0
  /\ formError' = FALSE /\ applied' = TRUE
  /\ UNCHANGED <<formRow, snapshot, shownVersions, recordData, valuesDirty, conflictRead,
                 formSave, writeDenied>>

(* Mutant: the save names the version of the record read last.             *)
versionOfRecord == recordData

sentVersion == rowVersionRef

ServeForm ==
  /\ formSave = "sent"
  /\ \/ /\ sentVersion = Len(formRow) /\ Len(formRow) < MaxRowVersion
        /\ formRow' = Append(formRow, draft)
        /\ formSave' \in {"ok", "lost"}
     \/ /\ formSave' \in {"403", "lost"} \cup (IF sentVersion = Len(formRow) THEN {} ELSE {"409"})
        /\ UNCHANGED formRow
  /\ UNCHANGED <<baseVars, recordData, draftVars, conflictState, formError, writeDenied>>

(* onSuccess leaves the form.                                              *)
FormSaved ==
  /\ formSave = "ok" /\ formSave' = "idle"
  /\ snapshot' = 0
  /\ UNCHANGED <<formRow, rowVersionRef, shownVersions, recordData, draftVars, conflictState,
                 formError, writeDenied>>

(* onError: a denial is recorded, a conflict is read; the draft stays.     *)
FormFails ==
  /\ formSave \in {"403", "409", "lost"}
  /\ formSave' = IF formSave = "409" THEN "reading" ELSE "idle"
  /\ formError' = (formSave # "409")
  /\ writeDenied' = (writeDenied \/ formSave = "403")
  /\ UNCHANGED <<formRow, baseVars, recordData, draftVars, conflictState>>

Latest(found) ==
  IF found THEN /\ conflict' = Len(formRow) /\ conflictRead' = "none"
                /\ shownVersions' = shownVersions \cup {Len(formRow)}
           ELSE /\ conflictRead' = "failed" /\ UNCHANGED <<conflict, shownVersions>>

ReadConflict ==
  /\ formSave = "reading"
  /\ formSave' = "idle" /\ formError' = TRUE
  /\ \E found \in BOOLEAN : Latest(found)
  /\ UNCHANGED <<formRow, snapshot, rowVersionRef, recordData, draftVars, writeDenied>>

(* "Reload latest", after that read failed; it goes on beside a new save.  *)
ReloadConflict ==
  /\ formEnabled /\ formError /\ conflictRead = "failed"
  /\ conflictRead' = "again"
  /\ UNCHANGED <<formRow, baseVars, recordData, draftVars, conflict, outcome>>

FinishReload ==
  /\ formOpen /\ conflictRead = "again"
  /\ \E found \in BOOLEAN : Latest(found)
  /\ UNCHANGED <<formRow, snapshot, rowVersionRef, recordData, draftVars, outcome>>

(* recoverAccess: the project, the members and the schedule are read.      *)
RecoverAccess ==
  /\ formOpen /\ writeDenied /\ formSave = "idle"
  /\ writeDenied' = FALSE /\ formError' = FALSE
  /\ UNCHANGED <<formRow, baseVars, recordData, draftVars, conflictState, formSave>>

(* The form is opened, or replaced by an error of the project, the members *)
(* or the schedule and mounted again.                                      *)
OpenForm ==
  /\ \E v \in 1 .. Len(formRow) : Mounted(v)
  /\ UNCHANGED <<formRow, recordData, writeDenied>>

FormNext ==
  \/ OtherMemberSaves \/ ReadRecord \/ EditDraft \/ SubmitForm \/ RetryMine \/ ApplyLatest
  \/ ServeForm \/ FormSaved \/ FormFails \/ ReadConflict \/ ReloadConflict \/ FinishReload
  \/ RecoverAccess \/ OpenForm

FormSpec == FormInit /\ [][FormNext]_formVars
-------------------------------------------------------------------------------
(* A save replaces a version of the schedule only if the form has shown    *)
(* that version as the server's: what a 409 brought up is never written    *)
(* over unseen, however reads, retries and failures of the form overlap.   *)
OnlyShownSchedulesAreReplaced ==
  [][ formSave = "sent" /\ formSave' \in {"ok", "lost"} /\ formRow' # formRow
        => Len(formRow) \in shownVersions ]_formVars

(* A form to which the latest version was applied, and that the reader has *)
(* not touched since, holds what the server has: saving it changes nothing.*)
(* docs/ux/schedule-views-functional-plan.md, line 36, asks for "Reload    *)
(* latest or intentional re-entry" after a conflict.                       *)
AppliedFormIsLatest ==
  applied /\ ~valuesDirty /\ rowVersionRef = Len(formRow) => draft = formRow[Len(formRow)]
===============================================================================
