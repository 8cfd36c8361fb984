---------------------------- MODULE AccessRecovery ----------------------------
(***************************************************************************)
(* The access denials of the frontend (state.ts): a key is denied from the *)
(* 403 or 404 that said so until a read that began after it has succeeded. *)
(* The three maps of the source (denials, accessVersions, readRevisions)   *)
(* are one record per key; the screens keep that record in a variable of   *)
(* their own and the operators return its next value.                      *)
(***************************************************************************)
EXTENDS Integers

NoRevision == -1

Access == [denied : BOOLEAN, version : Nat, read : Nat \cup {NoRevision}]

resetAccessState == [denied |-> FALSE, version |-> 0, read |-> NoRevision]

recordAccessDenial(a) ==
  [a EXCEPT !.denied = TRUE, !.version = @ + 1]

clearAccessDenial(a) ==
  IF a.denied THEN [a EXCEPT !.denied = FALSE, !.read = NoRevision] ELSE a

beginAccessRead(a) == a.version

(* Mutant: any read that succeeds counts, whenever it began.               *)
completeAnyRead(a, revision) == [a EXCEPT !.read = a.version]

completeAccessRead(a, revision) ==
  IF a.version = revision THEN [a EXCEPT !.read = revision] ELSE a

accessReadCanClear(a) == a.denied /\ a.read = a.version

(* The end of accessRead, for the answer its reader got.                   *)
isAccessError(answer) == answer \in {"403", "404"}

accessRead(a, revision, answer) ==
  CASE answer = "ok"         -> completeAccessRead(a, revision)
    [] isAccessError(answer) -> recordAccessDenial(a)
    [] OTHER                 -> a
===============================================================================
