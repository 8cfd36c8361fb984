------------------------------ MODULE ProjectPlan ------------------------------
(***************************************************************************)
(* The plan of one project as its clients edit it.  A write holds the      *)
(* project row lock from its first statement to its commit, and is one     *)
(* step; it replaces a whole item and carries the version its author saw.  *)
(* What clients see comes from snapshots, read without the lock by two     *)
(* queries of one REPEATABLE READ transaction.  The target dates of the    *)
(* plan are a row of their own with a version of its own.                  *)
(***************************************************************************)
EXTENDS PlanStructure, Naturals

CONSTANTS
  Clients,    \* members who may write the plan
  Dates,      \* target dates
  MaxVersion  \* bound on the updates of one row

ASSUME PlanAssumption == MaxVersion \in Nat

VARIABLES
  versions,  \* row_version of each item
  target,    \* the project_plan row
  reading,   \* the database a snapshot transaction sees, once it has started
  copies     \* the snapshot each client works from

vars == <<plan, versions, target, reading, copies>>

NoDates == "NONE"

Target == [version : Nat, dates : Dates \cup {NoDates}]

Snapshot == [plan : [Items -> Content \cup {Absent}], versions : [Items -> Nat], target : Target]

Now == [plan |-> plan, versions |-> versions, target |-> target]

Empty == [plan     |-> [i \in Items |-> Absent],
          versions |-> [i \in Items |-> 0],
          target   |-> [version |-> 0, dates |-> NoDates]]

PlanTypeOK ==
  /\ Now \in Snapshot
  /\ reading \in [Clients -> [open : BOOLEAN, sees : Snapshot]]
  /\ copies \in [Clients -> Snapshot]

Closed == [open |-> FALSE, sees |-> Empty]

PlanInit ==
  /\ StructureInit
  /\ versions = Empty.versions
  /\ target = Empty.target
  /\ reading = [c \in Clients |-> Closed]
  /\ copies = [c \in Clients |-> Empty]

----------------------------------------------------------------------------
Create(i, write) ==
  /\ i \notin Present
  /\ Write(i, write)
  /\ UNCHANGED <<versions, target, reading, copies>>

Bumped(i, write) == versions[i] + 1

Update(c, i, write) ==
  /\ i \in Present
  /\ copies[c].plan[i] # Absent /\ copies[c].versions[i] = versions[i]
  /\ Write(i, write)
  /\ versions[i] < MaxVersion
  /\ versions' = [versions EXCEPT ![i] = Bumped(i, write)]
  /\ UNCHANGED <<target, reading, copies>>

(* The answer is the new snapshot.                                         *)
UpdateTarget(c, dates) ==
  /\ copies[c].target.version = target.version
  /\ target.dates # dates
  /\ target.version < MaxVersion
  /\ target' = [version |-> target.version + 1, dates |-> dates]
  /\ UNCHANGED <<plan, versions, reading>>
  /\ copies' = [copies EXCEPT ![c] = Now']

(* The first query fixes what the transaction sees: the target, the items. *)
ReadItems(c) ==
  /\ ~reading[c].open
  /\ reading' = [reading EXCEPT ![c] = [open |-> TRUE, sees |-> Now]]
  /\ UNCHANGED <<plan, versions, target, copies>>

(* Mutant: READ COMMITTED, the second query sees what committed meanwhile. *)
SeenNow(before) == plan

Seen(before) == before.plan

(* The second query reads the dependencies of the items found; Graph keeps *)
(* those between two of them.                                              *)
Shown(before, i) ==
  IF before.plan[i] = Absent THEN Absent
  ELSE [before.plan[i] EXCEPT !.preds =
          {p \in Seen(before)[i].preds : before.plan[p] # Absent}]

ReadDependencies(c) ==
  /\ reading[c].open
  /\ LET before == reading[c].sees
     IN  copies' = [copies EXCEPT ![c] =
           [before EXCEPT !.plan = [i \in Items |-> Shown(before, i)]]]
  /\ reading' = [reading EXCEPT ![c] = Closed]
  /\ UNCHANGED <<plan, versions, target>>

ClientStep(c) ==
  \/ \E i \in Items, write \in Writes : Update(c, i, write)
  \/ \E dates \in Dates \cup {NoDates} : UpdateTarget(c, dates)
  \/ ReadItems(c) \/ ReadDependencies(c)

PlanNext ==
  \/ \E i \in Items, write \in Writes : Create(i, write)
  \/ \E c \in Clients : ClientStep(c)

PlanSpec == PlanInit /\ [][PlanNext]_vars

----------------------------------------------------------------------------
(* A client that has the current version of an item has its content, its   *)
(* dependencies included, and so with the target: the version check lets   *)
(* no update overwrite one that its author had not seen.                   *)
VersionsIdentifyContents ==
  \A c \in Clients :
    /\ \A i \in Items :
         copies[c].plan[i] # Absent /\ copies[c].versions[i] = versions[i]
         => copies[c].plan[i] = plan[i]
    /\ copies[c].target.version = target.version => copies[c].target = target

(* What a client looks at was a plan at some time: its tasks wait only for *)
(* tasks it shows, and not in a circle, though it is read in two queries.  *)
Coherent(seen) ==
  LET shown == {i \in Items : seen[i] # Absent}
  IN  /\ \A i \in shown : \A p \in seen[i].preds : p \in shown /\ seen[p].kind = "TASK"
      /\ Acyclic([i \in shown |-> seen[i].preds])

SnapshotsAreCoherent == \A c \in Clients : Coherent(copies[c].plan)
=============================================================================
