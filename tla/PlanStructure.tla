----------------------------- MODULE PlanStructure -----------------------------
(***************************************************************************)
(* The shape of a project's plan: items in a hierarchy of epics, topics    *)
(* and tasks, and the tasks each task waits for.  Any sequence of writes   *)
(* that pass the validation keeps it a forest without circular waits.      *)
(***************************************************************************)
EXTENDS FiniteSets

CONSTANTS
  Items,     \* ids that may ever be used: the bound on Create
  NoItem,    \* no parent
  Elsewhere  \* an item of another project

ASSUME StructureAssumption ==
  NoItem \notin Items /\ Elsewhere \notin Items /\ NoItem # Elsewhere

VARIABLE plan  \* the plan_item rows with their plan_item_dependency rows

\* MILESTONE is validated as TASK is; CLOSED is DONE or CANCELLED, OPEN the rest
Kinds == {"EPIC", "TOPIC", "TASK"}
States == {"OPEN", "CLOSED"}

Content == [kind : Kinds, parent : Items \cup {NoItem}, preds : SUBSET Items, state : States]

Absent == [kind |-> "NONE", parent |-> NoItem, preds |-> {}, state |-> "OPEN"]

\* what a command may carry
Writes == [kind : Kinds, parent : Items \cup {NoItem, Elsewhere},
           preds : SUBSET (Items \cup {Elsewhere}), state : States]

StructureTypeOK == plan \in [Items -> Content \cup {Absent}]

StructureInit == plan = [i \in Items |-> Absent]

Present == {i \in Items : plan[i].kind # "NONE"}

----------------------------------------------------------------------------
Children(i) == {j \in Present : plan[j].parent = i}

(* Mutant: a container may change its kind above its children.             *)
AnyKind(i, kind) == TRUE

KindMayChange(i, kind) ==
  i \in Present /\ plan[i].kind # kind => Children(i) = {}

ParentFits(i, kind, parent) ==
  \/ parent = NoItem
  \/ /\ parent \in Present \ {i}
     /\ \/ kind = "TOPIC" /\ plan[parent].kind = "EPIC"
        \/ kind = "TASK" /\ plan[parent].kind \in {"EPIC", "TOPIC"}

Successors(i) == {j \in Present : i \in plan[j].preds}

(* A task that others wait for may not become a container.                 *)
DependenciesFit(i, kind, preds) ==
  /\ preds # {} => kind = "TASK"
  /\ i \in Present /\ kind # "TASK" => Successors(i) = {}
  /\ \A p \in preds : p \in Present /\ plan[p].kind = "TASK"

(* Mutant: the stored edges of an updated item, not those of the command.  *)
StoredEdges(i, preds) == [j \in Present |-> plan[j].preds]

(* The edges that are searched for a cycle: a new item is not among them.  *)
Edges(i, preds) ==
  [j \in Present |-> IF j = i THEN preds ELSE plan[j].preds]

(* What hasCycle must find out: among any nodes one waits for none of them. *)
Acyclic(edges) ==
  \A nodes \in SUBSET DOMAIN edges :
    nodes # {} => \E j \in nodes : edges[j] \cap nodes = {}

Valid(i, write) ==
  /\ KindMayChange(i, write.kind)
  /\ ParentFits(i, write.kind, write.parent)
  /\ DependenciesFit(i, write.kind, write.preds)
  /\ Acyclic(Edges(i, write.preds))

Write(i, write) ==
  /\ Valid(i, write)
  /\ plan' = [plan EXCEPT ![i] = write]

StructureNext == \E i \in Items, write \in Writes : Write(i, write)

StructureSpec == StructureInit /\ [][StructureNext]_plan

----------------------------------------------------------------------------
(* The recursion of descendants() terminates: no item is its own ancestor, *)
(* whatever kinds and parents a sequence of updates has given the items.   *)
NoItemIsItsOwnAncestor ==
  \A nodes \in SUBSET Present :
    nodes # {} => \E i \in nodes : plan[i].parent \notin nodes

(* As long as tasks are open, one waits for none: they never wait          *)
(* for each other in a circle, though the search for a cycle does not see  *)
(* the item that is being created.                                         *)
Open == {i \in Present : plan[i].kind = "TASK" /\ plan[i].state = "OPEN"}

Blockers(i) == plan[i].preds \cap Open

SomeTaskCanStart == Open # {} => \E i \in Open : Blockers(i) = {}

(* Only tasks wait and are waited for.                                     *)
OnlyTasksDepend ==
  \A i \in Present : \A p \in plan[i].preds :
    p \in Present /\ plan[i].kind = "TASK" /\ plan[p].kind = "TASK"
=============================================================================
