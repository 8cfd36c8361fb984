---------------------------- MODULE ScheduleValues ----------------------------
(***************************************************************************)
(* The two editors of a schedule's property values: the card on the        *)
(* dashboard (DashboardCard in screens/ScheduleWorkspace.tsx) and the      *)
(* section of the schedule's page (screens/Detail.tsx). Each keeps a draft *)
(* and the row version it was taken from, beside a query that is read      *)
(* again whenever it pleases. The server (updateValues in                  *)
(* ScheduleWorkspaceService) replaces the values sent with it when the row *)
(* still has the version named. Other members, and the commands of the     *)
(* page itself, write the same row.                                        *)
(***************************************************************************)
EXTENDS Naturals, Sequences, FiniteSets

CONSTANTS
  Props,          \* the properties of the project
  PropValues,     \* what one of them may hold
  MaxValueVersion \* bound on the versions of the row

ASSUME ValuesConstants ==
  /\ IsFiniteSet(Props) /\ IsFiniteSet(PropValues) /\ 1 \in PropValues
  /\ MaxValueVersion \in Nat

Contents == [Props -> PropValues]

VARIABLES
  place,      \* "card" or "detail": the editor this behaviour is about
  valueRow,   \* server: the contents of each version of the row
  record,     \* the query: the version it holds
  editing,    \* card: the inputs are shown
  valueDraft,
  baseVersion,\* the version the draft was taken from; detail: 0 while clean
  valueDirty, \* detail: its flag
  saveFailed, \* card: conflict; detail: valueSave.isError
  valuesLocked,     \* card: the section is denied; detail: the write key is
  valueSave,  \* the mutation: [at, base, values, by]
  touched     \* history: the properties typed in since the draft was taken over

valueVars == <<place, valueRow, record, editing, valueDraft, baseVersion, valueDirty,
               saveFailed, valuesLocked, valueSave, touched>>

noSave == [at |-> "idle"]
dirty == IF place = "card" THEN valueDraft # valueRow[baseVersion] ELSE valueDirty

(* The editor is mounted on the record its query holds.                    *)
Mount(r) ==
  /\ valueDraft' = valueRow[r]
  /\ baseVersion' = IF place = "card" THEN r ELSE 0
  /\ editing' = (place = "detail") /\ valueDirty' = FALSE
  /\ saveFailed' = FALSE /\ valueSave' = noSave /\ touched' = {}

ValuesInit ==
  /\ place \in {"card", "detail"}
  /\ valueRow = <<[p \in Props |-> 1]>> /\ record = 1
  /\ valueDraft = valueRow[1] /\ baseVersion = IF place = "card" THEN 1 ELSE 0
  /\ editing = (place = "detail") /\ valueDirty = FALSE
  /\ saveFailed = FALSE /\ valuesLocked = FALSE /\ valueSave = noSave /\ touched = {}

(* Mutant: the base follows the record while the draft stays.              *)
rebasedAnyway(runs, b, r) == IF place = "card" THEN r ELSE b

rebased(runs, b, r) == IF runs /\ place = "card" THEN r ELSE b

(* The effect that takes the record r over while the draft is clean. The   *)
(* card compares draft and baseline, and its effect runs when that or the  *)
(* record has changed; the page has a flag.                                *)
Adopt(d, b, flag, by, r) ==
  LET clean == IF place = "card" THEN d = valueRow'[b] ELSE ~flag
      runs == clean /\ (place = "detail" \/ dirty \/ r # record)
  IN  /\ record' = r /\ valueDirty' = flag
      /\ valueDraft' = IF runs THEN valueRow'[r] ELSE d
      /\ baseVersion' = rebased(runs, b, r)
      /\ touched' = IF runs THEN {} ELSE by

KeepDraft == UNCHANGED <<record, valueDraft, baseVersion, valueDirty, touched>>
-------------------------------------------------------------------------------
OtherWrite ==
  /\ Len(valueRow) < MaxValueVersion
  /\ \E c \in Contents : valueRow' = Append(valueRow, c)
  /\ KeepDraft /\ UNCHANGED <<place, editing, saveFailed, valuesLocked, valueSave>>

(* A read of the record arrives. One runs at a time and an invalidation    *)
(* cancels it, so that records only get newer.                             *)
RecordRead ==
  /\ UNCHANGED <<place, valueRow, editing, saveFailed, valuesLocked, valueSave>>
  /\ \E r \in record .. Len(valueRow) :
       Adopt(valueDraft, baseVersion, valueDirty, touched, r)

StartEditing ==
  /\ place = "card" /\ ~editing /\ ~valuesLocked
  /\ editing' = TRUE
  /\ KeepDraft /\ UNCHANGED <<place, valueRow, saveFailed, valuesLocked, valueSave>>

(* The inputs stay open while a save is under way.                         *)
ChangeValue ==
  /\ editing /\ ~valuesLocked
  /\ UNCHANGED <<place, valueRow, editing, saveFailed, valuesLocked, valueSave>>
  /\ \E p \in Props : \E v \in PropValues \ {valueDraft[p]} :
       Adopt([valueDraft EXCEPT ![p] = v],
             IF place = "detail" /\ ~valueDirty THEN record ELSE baseVersion,
             place = "detail", touched \cup {p}, record)

(* Cancel, and the card's "reload latest" after a conflict, take the       *)
(* record the query holds; the page's "reload latest" only drops the flag, *)
(* and leaves the rest to the effect.                                      *)
CancelEdit ==
  /\ editing /\ (place = "detail" => valueDirty /\ ~valuesLocked /\ valueSave.at = "idle")
  /\ editing' = (place = "detail") /\ saveFailed' = FALSE
  /\ UNCHANGED <<place, valueRow, valuesLocked, valueSave>>
  /\ Adopt(valueRow[record], IF place = "card" THEN record ELSE 0, FALSE, {}, record)

ReloadLatest ==
  /\ saveFailed /\ editing /\ (place = "card" => ~valuesLocked)
  /\ saveFailed' = (place = "detail")
  /\ UNCHANGED <<place, valueRow, editing, valuesLocked, valueSave>>
  /\ \/ /\ place = "card" /\ Adopt(valueRow[record], record, FALSE, {}, record)
     \/ /\ place = "detail" /\ Adopt(valueDraft, 0, FALSE, touched, record)

SaveValues ==
  /\ editing /\ ~valuesLocked /\ valueSave.at = "idle" /\ (place = "detail" => valueDirty)
  /\ valueSave' = [at |-> "sent", values |-> valueDraft, by |-> touched,
                   base |-> IF baseVersion # 0 THEN baseVersion ELSE record]
  /\ saveFailed' = (saveFailed /\ place = "card")
  /\ KeepDraft /\ UNCHANGED <<place, valueRow, editing, valuesLocked>>

ServeValues ==
  /\ valueSave.at = "sent"
  /\ \/ /\ valueSave.base = Len(valueRow) /\ Len(valueRow) < MaxValueVersion
        /\ valueRow' = IF valueSave.values = valueRow[Len(valueRow)] THEN valueRow
                       ELSE Append(valueRow, valueSave.values)
        /\ \E a \in {"ok", "lost"} :
             valueSave' = [valueSave EXCEPT !.at = a, !.base = Len(valueRow')]
     \/ /\ UNCHANGED valueRow
        /\ \E a \in {"403", "lost"} \cup (IF valueSave.base = Len(valueRow) THEN {} ELSE {"409"}) :
             valueSave' = [valueSave EXCEPT !.at = a]
  /\ KeepDraft /\ UNCHANGED <<place, editing, saveFailed, valuesLocked>>

(* The card takes over what was saved; the page goes back to the record it *)
(* holds, and reads it again before the mutation settles (RecordRead).     *)
ValuesSaved ==
  /\ valueSave.at = "ok" /\ valueSave' = noSave
  /\ editing' = (place = "detail") /\ saveFailed' = FALSE
  /\ UNCHANGED <<place, valueRow, valuesLocked>>
  /\ \/ /\ place = "card" /\ Adopt(valueRow[valueSave.base], valueSave.base, FALSE, {}, record)
     \/ /\ place = "detail" /\ Adopt(valueDraft, 0, FALSE, touched, record)

(* The draft stays; a denial unmounts the cards and closes the page's      *)
(* inputs until the access was read again.                                 *)
ValuesFail ==
  /\ valueSave.at \in {"403", "409", "lost"} /\ valueSave' = noSave
  /\ saveFailed' = IF place = "card" THEN saveFailed \/ valueSave.at = "409" ELSE TRUE
  /\ valuesLocked' = (valuesLocked \/ valueSave.at = "403")
  /\ KeepDraft /\ UNCHANGED <<place, valueRow, editing>>

RetryValueAccess ==
  /\ valuesLocked /\ valuesLocked' = FALSE
  /\ \/ /\ place = "card" /\ record' = Len(valueRow) /\ Mount(record')
     \/ /\ place = "detail" /\ KeepDraft /\ UNCHANGED <<editing, saveFailed, valueSave>>
  /\ UNCHANGED <<place, valueRow>>

(* Another page of cards or another screen, and back: a save under way     *)
(* goes on at the server, where it is another write, and answers nobody.   *)
(* The denial of the section is forgotten with it, that of the page is not.*)
RemountEditor ==
  /\ Mount(record)
  /\ valuesLocked' = (valuesLocked /\ place = "detail")
  /\ UNCHANGED <<place, valueRow, record>>

ValuesNext ==
  \/ OtherWrite \/ RecordRead \/ StartEditing \/ ChangeValue \/ CancelEdit \/ ReloadLatest
  \/ SaveValues \/ ServeValues \/ ValuesSaved \/ ValuesFail \/ RetryValueAccess \/ RemountEditor

ValuesSpec == ValuesInit /\ [][ValuesNext]_valueVars
-------------------------------------------------------------------------------
(* A save that the server accepts changes only properties the reader typed *)
(* in since the draft was taken over: a read, a conflict or a failed save  *)
(* in between never makes it carry an older value over another member's.   *)
NoUnseenValueIsReplaced ==
  [][ valueSave.at = "sent" /\ valueRow' # valueRow /\ valueSave'.at # "sent"
        => \A p \in Props : valueRow'[Len(valueRow')][p] # valueRow[Len(valueRow)][p]
                              => p \in valueSave.by ]_valueVars
===============================================================================
