-------------------------- MODULE ScheduleTimeDialog --------------------------
(***************************************************************************)
(* The dialog "change the time" of a row in the workspace's list           *)
(* (WorkspaceTimeAction in screens/ScheduleWorkspace.tsx). It is opened on *)
(* the row the list shows, edits start and end to the minute, and saves    *)
(* them under the version it was opened on (executeScheduleTimeMutation).  *)
(* A save whose outcome is not known reads the schedule, the role and the  *)
(* list before it tells anything. Other members write the same row.        *)
(* An instant counts half minutes: its local time is the minute it is in,  *)
(* and a minute that is typed stands for the instant it begins at.         *)
(***************************************************************************)
EXTENDS Naturals, Sequences, FiniteSets

CONSTANTS
  Instants,      \* what a start or an end may be
  MaxTimeVersion \* bound on the versions of the row

ASSUME DialogConstants == Instants \subseteq Nat /\ IsFiniteSet(Instants) /\ MaxTimeVersion \in Nat

Fields == {"start", "end"}
Slots == {s \in [Fields -> Instants] : s["start"] < s["end"]}     \* isValidChange
utcToLocal(i) == i \div 2
localToUtc(m) == 2 * m
Minutes == {utcToLocal(i) : i \in Instants}
Local(s) == [f \in Fields |-> utcToLocal(s[f])]

VARIABLES
  timeRow,      \* server: the times of each version of the row
  listed,       \* the version in the list
  timeOpen,     \* the dialog is open
  timeBase,     \* base: the version a save names
  local,        \* start and end, the inputs
  original,     \* what the inputs were taken from
  timeSave,     \* the mutation: [at, change, by, latest, dirty]
  resultsDenied,\* ScheduleWorkspace: the results are withheld
  typed         \* history: the inputs typed in since they were taken over

timeVars == <<timeRow, listed, timeOpen, timeBase, local, original, timeSave,
              resultsDenied, typed>>
inputs == <<timeOpen, timeBase, local, original, typed>>

settled == [at |-> "idle"]

(* A row of the list begins, or show opens it, on the version v.           *)
TakeOver(v) ==
  /\ timeBase' = v /\ original' = Local(timeRow[v]) /\ local' = Local(timeRow[v])
  /\ typed' = {}

TimeInit ==
  /\ timeRow \in {<<s>> : s \in Slots} /\ listed = 1
  /\ timeOpen = FALSE /\ timeBase = 1
  /\ original = Local(timeRow[1]) /\ local = original /\ typed = {}
  /\ timeSave = settled /\ resultsDenied = FALSE

-------------------------------------------------------------------------------
OtherTime ==
  /\ Len(timeRow) < MaxTimeVersion
  /\ \E s \in Slots : timeRow' = Append(timeRow, s)
  /\ UNCHANGED <<listed, inputs, timeSave, resultsDenied>>

(* The list is read again; the dialog keeps what it was opened on.         *)
ListRead ==
  /\ ~resultsDenied /\ listed < Len(timeRow) /\ listed' \in listed + 1 .. Len(timeRow)
  /\ UNCHANGED <<timeRow, inputs, timeSave, resultsDenied>>

show ==
  /\ ~resultsDenied /\ ~timeOpen /\ timeSave = settled
  /\ timeOpen' = TRUE /\ TakeOver(listed)
  /\ UNCHANGED <<timeRow, listed, timeSave, resultsDenied>>

(* The inputs stay open while a save is under way.                         *)
Type ==
  /\ timeOpen
  /\ \E f \in Fields : \E m \in Minutes \ {local[f]} :
       local' = [local EXCEPT ![f] = m] /\ typed' = typed \cup {f}
  /\ UNCHANGED <<timeRow, listed, timeOpen, timeBase, original, timeSave, resultsDenied>>

close ==
  /\ timeOpen /\ timeSave = settled /\ timeOpen' = FALSE
  /\ local' = Local(timeRow[timeBase]) /\ typed' = {}
  /\ UNCHANGED <<timeRow, listed, timeBase, original, timeSave, resultsDenied>>

(* An input that still shows the minute it began with keeps its instant.   *)
preserveScheduleTimeInstants ==
  [f \in Fields |-> IF local[f] = original[f] THEN timeRow[timeBase][f] ELSE localToUtc(local[f])]

submit ==
  /\ timeOpen /\ timeSave = settled /\ preserveScheduleTimeInstants \in Slots
  /\ timeSave' = [at |-> "sent", change |-> preserveScheduleTimeInstants, by |-> typed,
                  latest |-> timeBase, dirty |-> {}]
  /\ UNCHANGED <<timeRow, listed, inputs, resultsDenied>>

(* The server's side, and an answer that is lost or is a 5xx.              *)
ServeTime ==
  /\ timeSave.at = "sent"
  /\ \/ /\ timeSave.latest = Len(timeRow) /\ Len(timeRow) < MaxTimeVersion
        /\ timeRow' = Append(timeRow, timeSave.change)
        /\ \E a \in {"ok", "lost"} :
             timeSave' = [timeSave EXCEPT !.at = a, !.latest = Len(timeRow')]
     \/ /\ UNCHANGED timeRow
        /\ \E a \in {"400", "403", "lost"} \cup (IF timeSave.latest = Len(timeRow) THEN {} ELSE {"409"}) :
             timeSave' = [timeSave EXCEPT !.at = a]
  /\ UNCHANGED <<listed, inputs, resultsDenied>>

(* The list is taken away: each row and its dialog go with it.             *)
Withheld == resultsDenied' = TRUE /\ timeOpen' = FALSE /\ typed' = {}

Rejected ==
  /\ timeSave.at \in {"400", "403"} /\ timeSave' = settled
  /\ \/ timeSave.at = "400" /\ UNCHANGED <<timeOpen, typed, resultsDenied>>
     \/ timeSave.at = "403" /\ Withheld
  /\ UNCHANGED <<timeRow, listed, timeBase, local, original>>

(* readLatest, readRole and refreshTarget: all of them answer, or the      *)
(* outcome stays unknown and the results are withheld. The callback that   *)
(* then waits for refreshSchedule sees the inputs as they are here.        *)
dirtyInputs == {f \in Fields : local[f] # original[f]}

ReadOutcome ==
  /\ timeSave.at \in {"lost", "409"}
  /\ listed' \in listed .. Len(timeRow)
  /\ \/ /\ timeSave' = [timeSave EXCEPT !.latest = Len(timeRow), !.dirty = dirtyInputs,
                                        !.at = IF @ = "409" THEN "conflict" ELSE "uncertain"]
        /\ UNCHANGED <<timeOpen, typed, resultsDenied>>
     \/ timeSave' = settled /\ Withheld
  /\ UNCHANGED <<timeRow, timeBase, local, original>>

committed == timeRow[timeSave.latest] = timeSave.change

TimeSaved ==
  /\ timeSave.at = "ok" \/ (timeSave.at \in {"conflict", "uncertain"}
                            /\ (timeSave.at = "conflict" => committed))
  /\ timeSave' = settled /\ timeBase' = timeSave.latest
  /\ timeOpen' = FALSE /\ typed' = {}
  /\ UNCHANGED <<timeRow, listed, local, original, resultsDenied>>

(* The role that was read no longer allows the change.                     *)
RoleLost ==
  /\ timeSave.at \in {"conflict", "uncertain"} /\ timeSave' = settled
  /\ timeBase' = timeSave.latest /\ Withheld
  /\ UNCHANGED <<timeRow, listed, local, original>>

(* Mutant: an input nobody typed in keeps what it showed.                  *)
kept(f, latest) == local[f]

followed(f, latest) == IF f \in timeSave.dirty THEN local[f] ELSE latest[f]

(* After a conflict the draft goes on, on top of the version just read.    *)
Conflict ==
  /\ timeSave.at = "conflict" /\ ~committed /\ timeSave' = settled
  /\ timeBase' = timeSave.latest
  /\ LET latest == Local(timeRow[timeSave.latest])
     IN  original' = latest /\ local' = [f \in Fields |-> followed(f, latest)]
  /\ typed' = typed \cap timeSave.dirty
  /\ UNCHANGED <<timeRow, listed, timeOpen, resultsDenied>>

-------------------------------------------------------------------------------
(* Another part of the workspace meets a denial, or the end of a save      *)
(* whose row is no longer on display does.                                 *)
onDenied ==
  /\ ~resultsDenied /\ Withheld /\ timeSave' = settled
  /\ UNCHANGED <<timeRow, listed, timeBase, local, original>>

recheckAccess ==
  /\ resultsDenied /\ timeSave = settled
  /\ resultsDenied' = FALSE /\ listed' = Len(timeRow) /\ TakeOver(listed')
  /\ UNCHANGED <<timeRow, timeOpen, timeSave>>

(* Another page of the list and back. A save under way goes on at the      *)
(* server, where it is one of OtherTime.                                   *)
RemountRow ==
  /\ ~resultsDenied /\ TakeOver(listed) /\ timeOpen' = FALSE /\ timeSave' = settled
  /\ UNCHANGED <<timeRow, listed, resultsDenied>>

TimeNext ==
  \/ OtherTime \/ ListRead \/ show \/ Type \/ close \/ submit \/ ServeTime
  \/ Rejected \/ ReadOutcome \/ TimeSaved \/ RoleLost \/ Conflict
  \/ onDenied \/ recheckAccess \/ RemountRow

TimeSpec == TimeInit /\ [][TimeNext]_timeVars
-------------------------------------------------------------------------------
(* A save that the server accepts changes only a start or an end that the  *)
(* reader typed in: neither the minutes the inputs are rounded to, nor a   *)
(* draft that goes on after conflicts, put an older time over another's.   *)
NoUnseenTimeIsReplaced ==
  [][ timeSave.at = "sent" /\ timeRow' # timeRow /\ timeSave'.at # "sent"
        => \A f \in Fields : timeRow'[Len(timeRow')][f] # timeRow[Len(timeRow)][f]
                               => f \in timeSave.by ]_timeVars
===============================================================================
