--------------------------- MODULE ProjectWork_proofs ---------------------------
(***************************************************************************)
(* Proofs about the work of a project, for any number of items, clients,   *)
(* POSTs and request ids: a plan stays a forest without circular waits     *)
(* under any sequence of valid writes, the plan its clients edit keeps     *)
(* that shape, a version stands for one content and snapshots are          *)
(* coherent; the search for circles finds them in every graph and comes to *)
(* an end; and project creation is idempotent per request id.              *)
(***************************************************************************)
EXTENDS ProjectPlan, PlanCycleSearch, ProjectCreation, TLAPS

(***************************************************************************)
(* The strengthening: every parent is of a higher kind, and the waits of   *)
(* all present items, open or not, have no circle.                         *)
(***************************************************************************)
Under(kind, above) ==
  \/ kind = "TOPIC" /\ above = "EPIC"
  \/ kind = "TASK" /\ above \in {"EPIC", "TOPIC"}

ParentsRankHigher ==
  \A i \in Present :
    plan[i].parent # NoItem =>
      plan[i].parent \in Present /\ Under(plan[i].kind, plan[plan[i].parent].kind)

NoCircularWaits ==
  \A nodes \in SUBSET Present :
    nodes # {} => \E i \in nodes : plan[i].preds \cap nodes = {}

StructureInv ==
  StructureTypeOK /\ ParentsRankHigher /\ OnlyTasksDepend /\ NoCircularWaits

----------------------------------------------------------------------------
LEMMA StructureInitInv == StructureInit => StructureInv
  BY DEF StructureInit, StructureInv, StructureTypeOK, ParentsRankHigher, OnlyTasksDepend,
     NoCircularWaits, Present, Absent

LEMMA WriteInv ==
  ASSUME StructureInv, NEW i \in Items, NEW write \in Writes, Write(i, write)
  PROVE  StructureInv'
<1>1. /\ plan'[i] = write
      /\ \A j \in Items : j # i => plan'[j] = plan[j]
  BY DEF Write, StructureInv, StructureTypeOK
<1>2. /\ write.kind \in Kinds /\ write.kind # "NONE"
      /\ write.parent \in Items \cup {NoItem, Elsewhere}
  BY DEF Writes, Kinds
<1>3. /\ KindMayChange(i, write.kind)
      /\ ParentFits(i, write.kind, write.parent)
      /\ DependenciesFit(i, write.kind, write.preds)
      /\ Acyclic(Edges(i, write.preds))
  BY DEF Write, Valid
<1>4. Present' = Present \cup {i}
  BY <1>1, <1>2 DEF Present
<1>5. write.preds \subseteq Present
  BY <1>3 DEF DependenciesFit
<1>6. StructureTypeOK'
  <2>1. write.parent \in Items \cup {NoItem}
    BY <1>3 DEF ParentFits, Present
  <2>2. write.preds \in SUBSET Items
    BY <1>5 DEF Present
  <2>3. write \in Content
    BY <2>1, <2>2 DEF Writes, Content
  <2>. QED
    BY <2>3 DEF StructureInv, StructureTypeOK, Write
<1>7. ParentsRankHigher'
  <2>. SUFFICES ASSUME NEW j \in Present', plan'[j].parent # NoItem
                PROVE  /\ plan'[j].parent \in Present'
                       /\ Under(plan'[j].kind, plan'[plan'[j].parent].kind)
    BY DEF ParentsRankHigher, Under
  <2>1. CASE j = i
    <3>1. /\ write.parent \in Present \ {i}
          /\ Under(write.kind, plan[write.parent].kind)
      BY <1>1, <1>3, <2>1 DEF ParentFits, Under
    <3>2. plan'[write.parent] = plan[write.parent]
      BY <1>1, <3>1 DEF Present
    <3>. QED
      BY <1>1, <1>4, <2>1, <3>1, <3>2
  <2>2. CASE j # i
    <3>1. j \in Present /\ plan'[j] = plan[j]
      BY <1>1, <1>4, <2>2 DEF Present
    <3>2. plan[j].parent \in Present /\ Under(plan[j].kind, plan[plan[j].parent].kind)
      BY <3>1 DEF StructureInv, ParentsRankHigher
    <3>3. CASE plan[j].parent = i
      <4>1. j \in Children(i) /\ i \in Present
        BY <3>1, <3>2, <3>3 DEF Children
      <4>2. plan[i].kind = write.kind
        BY <1>3, <4>1 DEF KindMayChange
      <4>. QED
        BY <1>1, <1>4, <3>1, <3>2, <3>3, <4>2
    <3>4. CASE plan[j].parent # i
      BY <1>1, <1>4, <3>1, <3>2, <3>4 DEF Present
    <3>. QED
      BY <3>3, <3>4
  <2>. QED
    BY <2>1, <2>2
<1>8. OnlyTasksDepend'
  <2>. SUFFICES ASSUME NEW j \in Present', NEW p \in plan'[j].preds
                PROVE  p \in Present' /\ plan'[j].kind = "TASK" /\ plan'[p].kind = "TASK"
    BY DEF OnlyTasksDepend
  <2>1. CASE j = i
    <3>1. write.kind = "TASK" /\ p \in Present /\ plan[p].kind = "TASK"
      BY <1>1, <1>3, <2>1 DEF DependenciesFit
    <3>. QED
      BY <1>1, <1>4, <2>1, <3>1 DEF Present
  <2>2. CASE j # i
    <3>1. j \in Present /\ plan'[j] = plan[j]
      BY <1>1, <1>4, <2>2 DEF Present
    <3>2. p \in Present /\ plan[j].kind = "TASK" /\ plan[p].kind = "TASK"
      BY <3>1 DEF StructureInv, OnlyTasksDepend
    <3>3. p = i => write.kind = "TASK"
      BY <1>3, <3>1, <3>2 DEF DependenciesFit, Successors
    <3>. QED
      BY <1>1, <1>4, <3>1, <3>2, <3>3 DEF Present
  <2>. QED
    BY <2>1, <2>2
<1>9. NoCircularWaits'
  <2>. SUFFICES ASSUME NEW nodes \in SUBSET Present', nodes # {}
                PROVE  \E j \in nodes : plan'[j].preds \cap nodes = {}
    BY DEF NoCircularWaits
  <2>. DEFINE old == nodes \cap Present
  <2>1. \A j \in Present : plan'[j].preds = Edges(i, write.preds)[j]
    BY <1>1 DEF Edges, Present
  <2>2. old # {} => \E j \in old : plan'[j].preds \cap old = {}
    <3>1. DOMAIN Edges(i, write.preds) = Present
      BY DEF Edges
    <3>2. old # {} => \E j \in old : Edges(i, write.preds)[j] \cap old = {}
      BY <1>3, <3>1 DEF Acyclic
    <3>. QED
      BY <2>1, <3>2
  <2>3. CASE i \in Present
    BY <1>4, <2>2, <2>3
  <2>4. CASE i \notin Present
    <3>1. CASE old = {}
      <4>1. nodes = {i}
        BY <1>4, <3>1
      <4>. QED
        BY <1>1, <1>5, <2>4, <4>1
    <3>2. CASE old # {}
      <4>1. PICK j \in old : plan'[j].preds \cap old = {}
        BY <2>2, <3>2
      <4>2. plan'[j] = plan[j]
        BY <1>1, <2>4 DEF Present
      <4>3. plan[j].preds \subseteq Present
        BY DEF StructureInv, OnlyTasksDepend
      <4>. QED
        BY <4>1, <4>2, <4>3
    <3>. QED
      BY <3>1, <3>2
  <2>. QED
    BY <2>3, <2>4
<1>. QED
  BY <1>6, <1>7, <1>8, <1>9 DEF StructureInv

LEMMA StructureStepInv == StructureInv /\ [StructureNext]_plan => StructureInv'
<1>1. ASSUME StructureInv, StructureNext
      PROVE  StructureInv'
  BY <1>1, WriteInv DEF StructureNext
<1>2. ASSUME StructureInv, UNCHANGED plan
      PROVE  StructureInv'
  BY <1>2 DEF StructureInv, StructureTypeOK, ParentsRankHigher, OnlyTasksDepend, NoCircularWaits,
     Present
<1>. QED
  BY <1>1, <1>2

LEMMA StructureInvariant == StructureSpec => []StructureInv
  BY StructureInitInv, StructureStepInv, PTL DEF StructureSpec

----------------------------------------------------------------------------
LEMMA ForestFromRanks == StructureInv => NoItemIsItsOwnAncestor
<1>. SUFFICES ASSUME StructureInv, NEW nodes \in SUBSET Present, nodes # {}
              PROVE  \E i \in nodes : plan[i].parent \notin nodes
  BY DEF NoItemIsItsOwnAncestor
<1>0. NoItem \notin nodes
  BY StructureAssumption DEF Present
<1>1. \A i \in nodes : plan[i].parent \in nodes => Under(plan[i].kind, plan[plan[i].parent].kind)
  BY <1>0 DEF StructureInv, ParentsRankHigher
<1>2. \A i \in nodes : plan[i].kind \in Kinds
  BY DEF StructureInv, StructureTypeOK, Content, Present, Absent
<1>3. CASE \E i \in nodes : plan[i].kind = "EPIC"
  BY <1>1, <1>3 DEF Under
<1>4. CASE /\ ~\E i \in nodes : plan[i].kind = "EPIC"
           /\ \E i \in nodes : plan[i].kind = "TOPIC"
  BY <1>1, <1>4 DEF Under
<1>5. CASE \A i \in nodes : plan[i].kind = "TASK"
  BY <1>1, <1>5 DEF Under
<1>. QED
  BY <1>2, <1>3, <1>4, <1>5 DEF Kinds

LEMMA StartFromNoCircularWaits == StructureInv => SomeTaskCanStart
<1>. SUFFICES ASSUME StructureInv, Open # {}
              PROVE  \E i \in Open : Blockers(i) = {}
  BY DEF SomeTaskCanStart
<1>1. Open \in SUBSET Present
  BY DEF Open
<1>. QED
  BY <1>1 DEF StructureInv, NoCircularWaits, Blockers

(* Every stored item refers to items of its own project only.              *)
THEOREM PlanTypeCorrect == StructureSpec => []StructureTypeOK
  BY StructureInvariant, PTL DEF StructureInv

(* The recursion over descendants terminates, for plans of any size.       *)
THEOREM PlanIsAForest == StructureSpec => []NoItemIsItsOwnAncestor
  BY StructureInvariant, ForestFromRanks, PTL

(* While tasks are open one waits for none, for plans of any size.         *)
THEOREM PlanNeverWaitsForItself == StructureSpec => []SomeTaskCanStart
  BY StructureInvariant, StartFromNoCircularWaits, PTL

(* Dependencies join tasks, whatever kinds the updates give the items.     *)
THEOREM DependenciesJoinTasks == StructureSpec => []OnlyTasksDepend
  BY StructureInvariant, PTL DEF StructureInv
-------------------------------------------------------------------------------

(***************************************************************************)
(* A snapshot is no newer than the database, and shows a row as it is if   *)
(* it has its version.                                                     *)
(***************************************************************************)
NotNewer(s) ==
  /\ \A i \in Items :
       /\ s.versions[i] <= versions[i]
       /\ s.plan[i] # Absent /\ s.versions[i] = versions[i] => s.plan[i] = plan[i]
  /\ s.target.version <= target.version
  /\ s.target.version = target.version => s.target = target

Faithful(s) == NotNewer(s) /\ Coherent(s.plan)

SnapshotsFaithful ==
  /\ Faithful(Empty)
  /\ \A c \in Clients : Faithful(copies[c]) /\ Faithful(reading[c].sees)

PlanInv == StructureInv /\ PlanTypeOK /\ SnapshotsFaithful

----------------------------------------------------------------------------
LEMMA StructureIsCoherent ==
  ASSUME StructureInv
  PROVE  Coherent(plan)
<1>1. {i \in Items : plan[i] # Absent} = Present
  BY DEF StructureInv, StructureTypeOK, Content, Kinds, Absent, Present
<1>2. \A i \in Present : \A p \in plan[i].preds : p \in Present /\ plan[p].kind = "TASK"
  BY DEF StructureInv, OnlyTasksDepend
<1>3. Acyclic([i \in Present |-> plan[i].preds])
  <2>. SUFFICES ASSUME NEW nodes \in SUBSET Present, nodes # {}
                PROVE  \E j \in nodes : [i \in Present |-> plan[i].preds][j] \cap nodes = {}
    BY DEF Acyclic
  <2>. QED
    BY DEF StructureInv, NoCircularWaits
<1>. QED
  BY <1>1, <1>2, <1>3 DEF Coherent

LEMMA EmptyIsFaithful ==
  ASSUME PlanInit
  PROVE  Faithful(Empty)
<1>1. {i \in Items : Empty.plan[i] # Absent} = {}
  BY DEF Empty
<1>2. Acyclic([i \in {} |-> Empty.plan[i].preds])
  BY DEF Acyclic
<1>3. Coherent(Empty.plan)
  BY <1>1, <1>2 DEF Coherent
<1>4. NotNewer(Empty)
  BY DEF NotNewer, Empty, PlanInit
<1>. QED
  BY <1>3, <1>4 DEF Faithful

LEMMA EmptyIsASnapshot == Empty \in Snapshot /\ Closed \in [open : BOOLEAN, sees : Snapshot]
  BY DEF Empty, Closed, Snapshot, Target

LEMMA PlanInitInv == PlanInit => PlanInv
<1>. SUFFICES ASSUME PlanInit
              PROVE  PlanInv
  OBVIOUS
<1>1. StructureInv
  BY StructureInitInv DEF PlanInit
<1>2. Now \in Snapshot
  BY <1>1 DEF PlanInit, Now, Snapshot, Empty, Target, StructureInv, StructureTypeOK
<1>3. PlanTypeOK
  BY <1>2, EmptyIsASnapshot DEF PlanTypeOK, PlanInit
<1>4. SnapshotsFaithful
  BY EmptyIsFaithful DEF SnapshotsFaithful, PlanInit, Closed
<1>. QED
  BY <1>1, <1>3, <1>4 DEF PlanInv

----------------------------------------------------------------------------
(* Every step writes one item validly, or none.                            *)
LEMMA StepIsAWrite == [PlanNext]_vars => [StructureNext]_plan
  BY DEF PlanNext, ClientStep, Create, Update, UpdateTarget, ReadItems, ReadDependencies,
     StructureNext, vars

(* A write of an item leaves every snapshot behind it, or does not touch   *)
(* what it shows.                                                          *)
LEMMA WriteLeavesBehind ==
  ASSUME PlanInv, NEW i \in Items, NEW write \in Writes, Write(i, write),
         NEW s, s \in Snapshot, Faithful(s), target' = target,
         \/ i \notin Present /\ versions' = versions
         \/ versions' = [versions EXCEPT ![i] = @ + 1]
  PROVE  Faithful(s)'
<1>1. \A j \in Items : j # i => plan'[j] = plan[j]
  BY DEF PlanInv, StructureInv, StructureTypeOK, Write
<1>2. /\ \A j \in Items : versions[j] \in Nat /\ s.versions[j] \in Nat
      /\ versions \in [Items -> Nat]
  BY DEF PlanInv, PlanTypeOK, Now, Snapshot
<1>3. i \notin Present => plan[i] = Absent
  BY DEF PlanInv, StructureInv, StructureTypeOK, Content, Kinds, Present
<1>4. ASSUME NEW j \in Items
      PROVE  /\ s.versions[j] <= versions'[j]
             /\ s.plan[j] # Absent /\ s.versions[j] = versions'[j] => s.plan[j] = plan'[j]
  <2>1. CASE j # i
    BY <1>1, <1>2, <2>1 DEF Faithful, NotNewer
  <2>2. CASE j = i /\ i \notin Present /\ versions' = versions
    BY <1>3, <2>2 DEF Faithful, NotNewer
  <2>3. CASE j = i /\ versions' = [versions EXCEPT ![i] = @ + 1]
    <3>1. versions'[i] = versions[i] + 1 /\ s.versions[i] <= versions[i]
      BY <1>2, <2>3 DEF Faithful, NotNewer
    <3>. QED
      BY <1>2, <2>3, <3>1
  <2>. QED
    BY <2>1, <2>2, <2>3
<1>5. s.target.version <= target'.version /\ (s.target.version = target'.version => s.target = target')
  BY DEF Faithful, NotNewer
<1>. QED
  BY <1>4, <1>5 DEF Faithful, NotNewer, Coherent

LEMMA NothingWritten ==
  ASSUME UNCHANGED <<plan, versions, target>>, NEW s, Faithful(s)
  PROVE  Faithful(s)'
  BY DEF Faithful, NotNewer, Coherent

LEMMA PlanStepInv ==
  ASSUME PlanInv, PlanNext
  PROVE  PlanInv'
<1>s. StructureInv'
  BY StepIsAWrite, StructureStepInv DEF PlanInv
<1>p. plan' \in [Items -> Content \cup {Absent}]
  BY <1>s DEF StructureInv, StructureTypeOK
<1>1. ASSUME NEW i \in Items, NEW write \in Writes, Create(i, write)
      PROVE  PlanInv'
  <2>1. PlanTypeOK'
    BY <1>1, <1>p DEF PlanInv, PlanTypeOK, Now, Snapshot, Create
  <2>2. SnapshotsFaithful'
    BY <1>1, WriteLeavesBehind, EmptyIsASnapshot DEF PlanInv, PlanTypeOK, SnapshotsFaithful, Create
  <2>. QED
    BY <1>s, <2>1, <2>2 DEF PlanInv
<1>2. ASSUME NEW c \in Clients, NEW i \in Items, NEW write \in Writes, Update(c, i, write)
      PROVE  PlanInv'
  <2>0. versions' = [versions EXCEPT ![i] = @ + 1]
    BY <1>2 DEF Update, Bumped
  <2>1. PlanTypeOK'
    <3>1. versions' \in [Items -> Nat]
      BY <2>0 DEF PlanInv, PlanTypeOK, Now, Snapshot
    <3>2. target' \in Target /\ reading' = reading /\ copies' = copies
      BY <1>2 DEF PlanInv, PlanTypeOK, Now, Snapshot, Update
    <3>3. Now' \in Snapshot
      BY <1>p, <3>1, <3>2 DEF Now, Snapshot
    <3>. QED
      BY <3>2, <3>3 DEF PlanInv, PlanTypeOK
  <2>2. SnapshotsFaithful'
    BY <1>2, <2>0, WriteLeavesBehind, EmptyIsASnapshot DEF PlanInv, PlanTypeOK, SnapshotsFaithful, Update
  <2>. QED
    BY <1>s, <2>1, <2>2 DEF PlanInv
<1>3. ASSUME NEW c \in Clients, NEW dates \in Dates \cup {NoDates}, UpdateTarget(c, dates)
      PROVE  PlanInv'
  <2>0. target \in Target /\ target' = [version |-> target.version + 1, dates |-> dates]
        /\ plan' = plan /\ versions' = versions /\ reading' = reading
    BY <1>3 DEF PlanInv, PlanTypeOK, Now, Snapshot, UpdateTarget
  <2>1. Now' \in Snapshot
    BY <1>3, <1>p, <2>0 DEF PlanInv, PlanTypeOK, Now, Snapshot, Target
  <2>2. PlanTypeOK'
    BY <1>3, <2>0, <2>1 DEF PlanInv, PlanTypeOK, UpdateTarget
  <2>3. ASSUME NEW s \in Snapshot, Faithful(s)
        PROVE  Faithful(s)'
    <3>1. s.target.version <= target.version /\ s.target.version \in Nat /\ target.version \in Nat
      BY <2>0, <2>3 DEF Faithful, NotNewer, Snapshot, Target
    <3>2. s.target.version <= target'.version /\ s.target.version # target'.version
      BY <2>0, <3>1
    <3>. QED
      BY <2>0, <2>3, <3>2 DEF Faithful, NotNewer, Coherent
  <2>4. Faithful(Now)'
    <3>1. Coherent(plan)
      BY StructureIsCoherent DEF PlanInv
    <3>2. NotNewer(Now)'
      BY <1>3, <2>1 DEF NotNewer, Now, Snapshot, Target
    <3>. QED
      BY <2>0, <3>1, <3>2 DEF Faithful, Now, Coherent
  <2>5. copies' = [copies EXCEPT ![c] = Now']
    BY <1>3 DEF UpdateTarget
  <2>6. SnapshotsFaithful'
    <3>0. Faithful(Empty)'
      BY <2>3, EmptyIsASnapshot DEF PlanInv, SnapshotsFaithful
    <3>. SUFFICES ASSUME NEW d \in Clients
                  PROVE  Faithful(copies[d])' /\ Faithful(reading[d].sees)'
      BY <3>0 DEF SnapshotsFaithful
    <3>1. Faithful(reading[d].sees)'
      BY <2>0, <2>3 DEF PlanInv, PlanTypeOK, SnapshotsFaithful
    <3>2. CASE d = c
      <4>1. copies'[d] = Now'
        BY <2>5, <3>2 DEF PlanInv, PlanTypeOK
      <4>. QED
        BY <2>4, <3>1, <4>1
    <3>3. CASE d # c
      <4>1. copies'[d] = copies[d]
        BY <2>5, <3>3 DEF PlanInv, PlanTypeOK
      <4>. QED
        BY <2>3, <3>1, <4>1 DEF PlanInv, PlanTypeOK, SnapshotsFaithful
    <3>. QED
      BY <3>2, <3>3
  <2>. QED
    BY <1>s, <2>2, <2>6 DEF PlanInv
<1>4. ASSUME NEW c \in Clients, ReadItems(c)
      PROVE  PlanInv'
  <2>0. UNCHANGED <<plan, versions, target, copies>>
        /\ reading' = [reading EXCEPT ![c] = [open |-> TRUE, sees |-> Now]]
    BY <1>4 DEF ReadItems
  <2>1. PlanTypeOK'
    BY <2>0 DEF PlanInv, PlanTypeOK, Now
  <2>2. Faithful(Now)
    <3>1. NotNewer(Now)
      BY DEF PlanInv, PlanTypeOK, NotNewer, Now, Snapshot, Target
    <3>. QED
      BY <3>1, StructureIsCoherent DEF PlanInv, Faithful, Now
  <2>3. \A d \in Clients : reading'[d].sees = reading[d].sees \/ reading'[d].sees = Now
    BY <2>0 DEF PlanInv, PlanTypeOK
  <2>4. SnapshotsFaithful'
    <3>1. Faithful(Empty)' /\ Faithful(Now)
      BY <2>0, <2>2, NothingWritten DEF PlanInv, SnapshotsFaithful
    <3>2. ASSUME NEW d \in Clients
          PROVE  Faithful(copies[d])' /\ Faithful(reading[d].sees)'
      <4>1. copies'[d] = copies[d] /\ Faithful(copies[d])
        BY <2>0, <3>2 DEF PlanInv, SnapshotsFaithful
      <4>2. Faithful(reading'[d].sees)
        BY <2>2, <2>3, <3>2 DEF PlanInv, SnapshotsFaithful
      <4>. QED
        BY <2>0, <4>1, <4>2 DEF Faithful, NotNewer, Coherent
    <3>. QED
      BY <3>1, <3>2 DEF SnapshotsFaithful
  <2>. QED
    BY <1>s, <2>1, <2>4 DEF PlanInv
<1>5. ASSUME NEW c \in Clients, ReadDependencies(c)
      PROVE  PlanInv'
  <2>. DEFINE before == reading[c].sees
  <2>0. before \in Snapshot /\ Faithful(before)
    BY DEF PlanInv, PlanTypeOK, SnapshotsFaithful
  <2>1. ASSUME NEW i \in Items
        PROVE  Shown(before, i) = before.plan[i]
    <3>1. before.plan[i] \in Content \cup {Absent}
      BY <2>0, <2>1 DEF Snapshot
    <3>2. CASE before.plan[i] = Absent
      BY <3>2 DEF Shown
    <3>3. CASE before.plan[i] # Absent
      <4>1. before.plan[i].preds \subseteq Items
        BY <3>1, <3>3 DEF Content
      <4>2. \A p \in before.plan[i].preds : before.plan[p] # Absent
        BY <2>0, <2>1, <3>3 DEF Faithful, Coherent
      <4>3. {p \in before.plan[i].preds : before.plan[p] # Absent} = before.plan[i].preds
        BY <4>2
      <4>4. Shown(before, i) = [before.plan[i] EXCEPT !.preds = before.plan[i].preds]
        BY <3>3, <4>3 DEF Shown, Seen
      <4>. QED
        BY <3>1, <3>3, <4>4 DEF Content
    <3>. QED
      BY <3>2, <3>3
  <2>2. [before EXCEPT !.plan = [i \in Items |-> Shown(before, i)]] = before
    <3>1. [i \in Items |-> Shown(before, i)] = before.plan
      BY <2>0, <2>1 DEF Snapshot
    <3>. QED
      BY <2>0, <3>1 DEF Snapshot
  <2>3. /\ copies' = [copies EXCEPT ![c] = before]
        /\ reading' = [reading EXCEPT ![c] = Closed]
        /\ UNCHANGED <<plan, versions, target>>
    BY <1>5, <2>2 DEF ReadDependencies
  <2>. HIDE DEF before
  <2>4. PlanTypeOK'
    BY <2>0, <2>3, EmptyIsASnapshot DEF PlanInv, PlanTypeOK, Now
  <2>5. \A d \in Clients :
          /\ copies'[d] = copies[d] \/ copies'[d] = before
          /\ reading'[d].sees = reading[d].sees \/ reading'[d].sees = Empty
    BY <2>3 DEF PlanInv, PlanTypeOK, Closed
  <2>6. SnapshotsFaithful'
    <3>1. Faithful(Empty)'
      BY <2>3, NothingWritten DEF PlanInv, SnapshotsFaithful
    <3>2. ASSUME NEW d \in Clients
          PROVE  Faithful(copies[d])' /\ Faithful(reading[d].sees)'
      <4>1. Faithful(copies'[d])
        BY <2>0, <2>5, <3>2 DEF PlanInv, SnapshotsFaithful
      <4>2. Faithful(reading'[d].sees)
        BY <2>5, <3>2 DEF PlanInv, SnapshotsFaithful
      <4>. QED
        BY <2>3, <4>1, <4>2 DEF Faithful, NotNewer, Coherent
    <3>. QED
      BY <3>1, <3>2 DEF SnapshotsFaithful
  <2>. QED
    BY <1>s, <2>4, <2>6 DEF PlanInv
<1>. QED
  BY <1>1, <1>2, <1>3, <1>4, <1>5 DEF PlanNext, ClientStep

LEMMA PlanInvariant == PlanSpec => []PlanInv
<1>1. PlanInv /\ [PlanNext]_vars => PlanInv'
  <2>1. ASSUME PlanInv, UNCHANGED vars
        PROVE  PlanInv'
    <3>1. StructureInv'
      BY <2>1, StructureStepInv DEF PlanInv, vars
    <3>2. PlanTypeOK' /\ SnapshotsFaithful'
      BY <2>1 DEF PlanInv, PlanTypeOK, Now, SnapshotsFaithful, Faithful, NotNewer, Coherent, vars
    <3>. QED
      BY <3>1, <3>2 DEF PlanInv
  <2>. QED
    BY <2>1, PlanStepInv
<1>. QED
  BY <1>1, PlanInitInv, PTL DEF PlanSpec

----------------------------------------------------------------------------
(* What is proved of the shape of a plan holds of the plan clients edit.   *)
THEOREM PlanKeepsItsShape == PlanSpec => StructureSpec
  BY StepIsAWrite, PTL DEF PlanSpec, PlanInit, StructureSpec

(* Rows, versions and snapshots keep their types.                          *)
THEOREM ClientsPlanTypeCorrect == PlanSpec => []PlanTypeOK
  BY PlanInvariant, PTL DEF PlanInv

(* The version check lets nobody overwrite an update he has not seen.      *)
THEOREM VersionsStandForContents == PlanSpec => []VersionsIdentifyContents
<1>1. PlanInv => VersionsIdentifyContents
  BY DEF PlanInv, SnapshotsFaithful, Faithful, NotNewer, VersionsIdentifyContents
<1>. QED
  BY <1>1, PlanInvariant, PTL

(* Two queries of one transaction make one plan.                           *)
THEOREM SnapshotsCoherent == PlanSpec => []SnapshotsAreCoherent
<1>1. PlanInv => SnapshotsAreCoherent
  BY DEF PlanInv, SnapshotsFaithful, Faithful, SnapshotsAreCoherent
<1>. QED
  BY <1>1, PlanInvariant, PTL

----------------------------------------------------------------------------
(* The search for circles.                                                 *)

Frame == [id : Nodes \cup {NoItem}, rest : SUBSET Nodes]

SearchTypes ==
  /\ graph \in [Nodes -> SUBSET Nodes]
  /\ path \in Seq(Frame) /\ path # <<>>
  /\ visiting \subseteq Nodes /\ done \subseteq Nodes
  /\ verdict \in {"searching", "cycle", "none"}

\* The calls are of different items, which are those being visited.
PathIsVisiting ==
  /\ path[1].id = NoItem
  /\ \A k \in 2 .. Depth : path[k].id \in visiting
  /\ \A i \in visiting : \E k \in 2 .. Depth : path[k].id = i
  /\ \A k, l \in 1 .. Depth : path[k].id = path[l].id => k = l

\* A loop has left some of its items; the others are done, but for the one whose call
\* it is in.
LoopsAreInOrder ==
  \A k \in 1 .. Depth :
    /\ path[k].rest \subseteq Looped(k)
    /\ \A i \in Looped(k) \ path[k].rest : i \in done \/ (k < Depth /\ i = path[k + 1].id)
    /\ k < Depth => path[k + 1].id \in Looped(k) \ path[k].rest

\* What is done waits only for what is done, and not in a circle.
DoneIsSound ==
  /\ done \cap visiting = {}
  /\ \A i \in done : graph[i] \subseteq done
  /\ \A nodes \in SUBSET done :
       nodes # {} => \E i \in nodes : graph[i] \cap nodes = {}

SearchInv ==
  /\ SearchTypes /\ PathIsVisiting /\ LoopsAreInOrder /\ DoneIsSound /\ SearchIsExact

LEMMA SearchInitInv == SearchInit => SearchInv
<1> SUFFICES ASSUME SearchInit PROVE SearchInv
  OBVIOUS
<1>1. Call(NoItem, Nodes) \in Frame
  BY DEF Call, Frame
<1>2. /\ path \in Seq(Frame) /\ path # <<>> /\ Depth = 1
      /\ path[1].id = NoItem /\ path[1].rest = Nodes
  BY <1>1 DEF SearchInit, Depth, Call
<1> QED
  BY <1>2 DEF SearchInit, SearchInv, SearchTypes, PathIsVisiting, LoopsAreInOrder, Looped,
              DoneIsSound, SearchIsExact

\* A turn leaves everything but the rest of the innermost loop.
LEMMA AdvancedIsAPath ==
  ASSUME SearchTypes, NEW id \in Nodes
  PROVE  /\ Advanced(id) \in Seq(Frame) /\ Len(Advanced(id)) = Depth
         /\ Depth \in Nat \ {0}
         /\ \A k \in 1 .. Depth :
              /\ path[k] \in Frame
              /\ Advanced(id)[k].id = path[k].id
              /\ Advanced(id)[k].rest = IF k = Depth THEN path[k].rest \ {id} ELSE path[k].rest
<1>1. Depth \in Nat \ {0} /\ path \in [1 .. Depth -> Frame]
  BY DEF SearchTypes, Depth
<1>2. Advanced(id) = [k \in 1 .. Depth |->
                        IF k = Depth THEN [id |-> path[k].id, rest |-> path[k].rest \ {id}]
                                     ELSE path[k]]
  <2>1. path[Depth] \in Frame
    BY <1>1
  <2>2. [path[Depth] EXCEPT !.rest = @ \ {id}] = [id |-> path[Depth].id, rest |-> path[Depth].rest \ {id}]
    BY <2>1 DEF Frame
  <2>3. Advanced(id) = [path EXCEPT ![Depth] = [path[Depth] EXCEPT !.rest = @ \ {id}]]
    BY DEF Advanced
  <2> QED
    BY <1>1, <2>2, <2>3
<1>3. Advanced(id) \in [1 .. Depth -> Frame]
  BY <1>1, <1>2 DEF Frame
<1>4. Advanced(id) \in Seq(Frame) /\ Len(Advanced(id)) = Depth
  BY <1>1, <1>3, <1>2
<1> QED
  BY <1>1, <1>2, <1>4

LEMMA SkipInv ==
  ASSUME SearchInv, NEW id \in Nodes, Skip(id)
  PROVE  SearchInv'
<1>1. /\ path' \in Seq(Frame) /\ Len(path') = Depth /\ Depth \in Nat \ {0}
      /\ \A k \in 1 .. Depth :
           /\ path'[k].id = path[k].id
           /\ path'[k].rest = IF k = Depth THEN path[k].rest \ {id} ELSE path[k].rest
  BY AdvancedIsAPath DEF SearchInv, Skip
<1>2. UNCHANGED <<graph, visiting, done, verdict>> /\ id \in done
  BY DEF Skip
<1>3. Depth' = Depth /\ Depth \in Nat \ {0}
  BY <1>1 DEF Depth
<1>4. \A k \in 1 .. Depth : path'[k].id = path[k].id
  BY <1>1
<1>5. \A k \in 1 .. Depth : Looped(k)' = Looped(k)
  BY <1>2, <1>4 DEF Looped
<1>6. SearchTypes'
  BY <1>1, <1>2 DEF SearchInv, SearchTypes
<1>7. PathIsVisiting'
  <2>1. /\ path[1].id = NoItem
        /\ \A k \in 2 .. Depth : path[k].id \in visiting
        /\ \A i \in visiting : \E k \in 2 .. Depth : path[k].id = i
        /\ \A k, l \in 1 .. Depth : path[k].id = path[l].id => k = l
    BY DEF SearchInv, PathIsVisiting
  <2>2. 1 \in 1 .. Depth /\ 2 .. Depth \subseteq 1 .. Depth
    BY <1>3
  <2>3. path'[1].id = NoItem /\ \A k \in 2 .. Depth : path'[k].id \in visiting
    BY <1>4, <2>1, <2>2
  <2>4. \A i \in visiting : \E k \in 2 .. Depth : path'[k].id = i
    BY <1>4, <2>1, <2>2
  <2>5. \A k, l \in 1 .. Depth : path'[k].id = path'[l].id => k = l
    BY <1>4, <2>1
  <2> QED
    BY <1>2, <1>3, <2>3, <2>4, <2>5 DEF PathIsVisiting
<1>8. LoopsAreInOrder'
  <2> SUFFICES ASSUME NEW k \in 1 .. Depth
               PROVE  /\ path'[k].rest \subseteq Looped(k)
                      /\ \A i \in Looped(k) \ path'[k].rest :
                           i \in done \/ (k < Depth /\ i = path'[k + 1].id)
                      /\ k < Depth => path'[k + 1].id \in Looped(k) \ path'[k].rest
    BY <1>2, <1>3, <1>5 DEF LoopsAreInOrder
  <2>1. k < Depth => k + 1 \in 1 .. Depth
    BY <1>3
  <2>2. /\ path'[k].rest \subseteq path[k].rest
        /\ path[k].rest \subseteq path'[k].rest \cup {id}
        /\ k < Depth => path'[k].rest = path[k].rest
    <3>1. path'[k].rest = IF k = Depth THEN path[k].rest \ {id} ELSE path[k].rest
      BY <1>1
    <3>2. k < Depth => k # Depth
      BY <1>3
    <3> QED
      BY <3>1, <3>2
  <2>3. k < Depth => path'[k + 1].id = path[k + 1].id
    BY <1>4, <2>1
  <2> QED
    BY <1>2, <2>2, <2>3 DEF SearchInv, LoopsAreInOrder
<1>9. DoneIsSound' /\ SearchIsExact'
  BY <1>2 DEF SearchInv, DoneIsSound, SearchIsExact, Acyclic, Skip, Turn
<1> QED
  BY <1>6, <1>7, <1>8, <1>9 DEF SearchInv

\* The calls from the one of `id` to the innermost are a circle.
LEMMA MeetVisitingInv ==
  ASSUME SearchInv, NEW id \in Nodes, MeetVisiting(id)
  PROVE  SearchInv'
<1>1. Depth \in Nat \ {0}
  BY DEF SearchInv, SearchTypes, Depth
<1>2. PICK m \in 2 .. Depth : path[m].id = id
  BY DEF SearchInv, PathIsVisiting, MeetVisiting
<1> DEFINE nodes == {path[k].id : k \in m .. Depth}
<1>3. nodes \in SUBSET Nodes /\ nodes # {}
  BY <1>1, <1>2 DEF SearchInv, SearchTypes, PathIsVisiting
<1>4. ASSUME NEW i \in nodes PROVE graph[i] \cap nodes # {}
  <2>1. PICK k \in m .. Depth : path[k].id = i
    OBVIOUS
  <2>2. CASE k < Depth
    <3>1. path[k + 1].id \in graph[i]
      BY <1>1, <1>2, <2>1, <2>2 DEF SearchInv, LoopsAreInOrder, Looped
    <3>2. path[k + 1].id \in nodes
      BY <1>1, <1>2, <2>1, <2>2
    <3> QED
      BY <3>1, <3>2
  <2>3. CASE k = Depth
    <3>1. id \in graph[i]
      BY <1>1, <1>2, <2>1, <2>3 DEF SearchInv, LoopsAreInOrder, Looped, MeetVisiting, Turn, Innermost
    <3>2. id \in nodes
      BY <1>1, <1>2
    <3> QED
      BY <3>1, <3>2
  <2> QED
    BY <1>1, <1>2, <2>2, <2>3
<1>5. ~Acyclic(graph)
  <2>1. DOMAIN graph = Nodes
    BY DEF SearchInv, SearchTypes
  <2> QED
    BY <1>3, <1>4, <2>1 DEF Acyclic
<1> QED
  BY <1>5 DEF SearchInv, SearchTypes, PathIsVisiting, LoopsAreInOrder, Looped, DoneIsSound,
              SearchIsExact, MeetVisiting, Depth

LEMMA DescendInv ==
  ASSUME SearchInv, NEW id \in Nodes, Descend(id)
  PROVE  SearchInv'
<1>1. /\ Advanced(id) \in Seq(Frame) /\ Len(Advanced(id)) = Depth /\ Depth \in Nat \ {0}
      /\ \A k \in 1 .. Depth :
           /\ path[k] \in Frame
           /\ Advanced(id)[k].id = path[k].id
           /\ Advanced(id)[k].rest = IF k = Depth THEN path[k].rest \ {id} ELSE path[k].rest
  BY AdvancedIsAPath DEF SearchInv
<1>2. graph[id] \subseteq Nodes /\ Call(id, graph[id]) \in Frame
  BY DEF SearchInv, SearchTypes, Call, Frame
<1>3. /\ path' = Append(Advanced(id), Call(id, graph[id]))
      /\ visiting' = visiting \cup {id} /\ UNCHANGED <<graph, done, verdict>>
      /\ id \notin done /\ id \notin visiting
      /\ verdict = "searching" /\ id \in path[Depth].rest
  BY DEF Descend, Turn, Innermost
<1>4. /\ path' \in Seq(Frame) /\ Len(path') = Depth + 1
      /\ \A k \in 1 .. Depth : path'[k] = Advanced(id)[k]
      /\ path'[Depth + 1] = Call(id, graph[id])
  BY <1>1, <1>2, <1>3
<1>5. Depth' = Depth + 1 /\ Depth \in Nat \ {0}
  BY <1>1, <1>4 DEF Depth
<1>6. path'[Depth + 1].id = id /\ path'[Depth + 1].rest = graph[id]
  BY <1>4 DEF Call
<1>7. \A k \in 1 .. Depth : path'[k].id = path[k].id
  BY <1>1, <1>4
<1>8. \A k \in 1 .. Depth :
        path'[k].rest = IF k = Depth THEN path[k].rest \ {id} ELSE path[k].rest
  BY <1>1, <1>4
<1>9. \A k \in 1 .. Depth : Looped(k)' = Looped(k)
  BY <1>3, <1>7 DEF Looped
<1>10. ASSUME NEW k \in 1 .. Depth + 1, k = Depth + 1 PROVE Looped(k)' = graph[id]
  <2>1. k # 1
    BY <1>5, <1>10
  <2> QED
    BY <1>3, <1>6, <1>10, <2>1 DEF Looped
<1>11. SearchTypes'
  <2>1. path' # <<>>
    BY <1>1, <1>4
  <2> QED
    BY <1>3, <1>4, <2>1 DEF SearchInv, SearchTypes
<1>12. PathIsVisiting'
  <2>1. /\ path[1].id = NoItem
        /\ \A k \in 2 .. Depth : path[k].id \in visiting
        /\ \A i \in visiting : \E k \in 2 .. Depth : path[k].id = i
        /\ \A k, l \in 1 .. Depth : path[k].id = path[l].id => k = l
    BY DEF SearchInv, PathIsVisiting
  <2>2. /\ 1 \in 1 .. Depth /\ 2 .. Depth \subseteq 1 .. Depth /\ Depth + 1 \in 2 .. Depth + 1
        /\ 2 .. Depth \subseteq 2 .. Depth + 1
        /\ \A k \in 2 .. Depth + 1 : k \in 2 .. Depth \/ k = Depth + 1
        /\ \A k \in 1 .. Depth + 1 : k \in 1 .. Depth \/ k = Depth + 1
        /\ \A k \in 1 .. Depth : k = 1 \/ k \in 2 .. Depth
    BY <1>5
  <2>3. \A k \in 1 .. Depth : path[k].id # id
    <3>1. id # NoItem
      BY SearchAssumption
    <3> QED
      BY <1>3, <2>1, <2>2, <3>1
  <2>4. path'[1].id = NoItem /\ \A k \in 2 .. Depth + 1 : path'[k].id \in visiting \cup {id}
    BY <1>6, <1>7, <2>1, <2>2
  <2>5. ASSUME NEW i \in visiting \cup {id} PROVE \E k \in 2 .. Depth + 1 : path'[k].id = i
    <3>1. CASE i = id
      BY <1>6, <2>2, <3>1
    <3>2. CASE i \in visiting
      <4>1. PICK k \in 2 .. Depth : path[k].id = i
        BY <2>1, <3>2
      <4> QED
        BY <1>7, <2>2, <4>1
    <3> QED
      BY <3>1, <3>2
  <2>6. ASSUME NEW k \in 1 .. Depth + 1, NEW l \in 1 .. Depth + 1, path'[k].id = path'[l].id
        PROVE  k = l
    <3>1. CASE k \in 1 .. Depth /\ l \in 1 .. Depth
      BY <1>7, <2>1, <2>6, <3>1
    <3>2. CASE k \in 1 .. Depth /\ l = Depth + 1
      BY <1>6, <1>7, <2>3, <2>6, <3>2
    <3>3. CASE k = Depth + 1 /\ l \in 1 .. Depth
      BY <1>6, <1>7, <2>3, <2>6, <3>3
    <3> QED
      BY <2>2, <3>1, <3>2, <3>3
  <2> QED
    BY <1>3, <1>5, <2>4, <2>5, <2>6 DEF PathIsVisiting
<1>13. LoopsAreInOrder'
  <2>1. ASSUME NEW k \in 1 .. Depth
        PROVE  /\ path'[k].rest \subseteq Looped(k)
               /\ \A i \in Looped(k) \ path'[k].rest : i \in done \/ i = path'[k + 1].id
               /\ path'[k + 1].id \in Looped(k) \ path'[k].rest
    <3>1. /\ path[k].rest \subseteq Looped(k)
          /\ \A i \in Looped(k) \ path[k].rest : i \in done \/ (k < Depth /\ i = path[k + 1].id)
          /\ k < Depth => path[k + 1].id \in Looped(k) \ path[k].rest
      BY DEF SearchInv, LoopsAreInOrder
    <3>2. CASE k < Depth
      <4>1. k + 1 \in 1 .. Depth /\ k # Depth
        BY <1>5, <3>2
      <4> QED
        BY <1>7, <1>8, <3>1, <3>2, <4>1
    <3>3. CASE k = Depth
      <4>1. path'[k].rest = path[k].rest \ {id} /\ path'[k + 1].id = id
        BY <1>6, <1>8, <3>3
      <4>2. ~(k < Depth) /\ id \in path[k].rest
        BY <1>3, <1>5, <3>3
      <4> QED
        BY <3>1, <4>1, <4>2
    <3> QED
      BY <1>5, <3>2, <3>3
  <2> SUFFICES ASSUME NEW k \in 1 .. Depth + 1
               PROVE  /\ path'[k].rest \subseteq Looped(k)'
                      /\ \A i \in Looped(k)' \ path'[k].rest :
                           i \in done \/ (k < Depth + 1 /\ i = path'[k + 1].id)
                      /\ k < Depth + 1 => path'[k + 1].id \in Looped(k)' \ path'[k].rest
    BY <1>3, <1>5 DEF LoopsAreInOrder
  <2>2. CASE k \in 1 .. Depth
    <3>1. k < Depth + 1 /\ Looped(k)' = Looped(k)
      BY <1>5, <1>9, <2>2
    <3> QED
      BY <2>1, <2>2, <3>1
  <2>3. CASE k = Depth + 1
    <3>1. ~(k < Depth + 1) /\ Looped(k)' = graph[id] /\ path'[k].rest = graph[id]
      BY <1>5, <1>6, <1>10, <2>3
    <3> QED
      BY <3>1
  <2> QED
    BY <1>5, <2>2, <2>3
<1>14. DoneIsSound' /\ SearchIsExact'
  BY <1>3 DEF SearchInv, DoneIsSound, SearchIsExact
<1> QED
  BY <1>11, <1>12, <1>13, <1>14 DEF SearchInv

LEMMA LeaveInv ==
  ASSUME SearchInv, Leave
  PROVE  SearchInv'
<1> DEFINE id == Innermost.id
<1>1. /\ Depth \in Nat /\ Depth > 1 /\ path \in [1 .. Depth -> Frame]
      /\ id = path[Depth].id /\ path[Depth].rest = {}
  BY DEF SearchInv, SearchTypes, Depth, Leave, LoopEnds, Innermost
<1>2. /\ path' \in Seq(Frame) /\ Depth' = Depth - 1 /\ path' # <<>>
      /\ \A k \in 1 .. Depth - 1 : path'[k] = path[k]
  <2>1. path' = SubSeq(path, 1, Depth - 1) /\ path \in Seq(Frame) /\ Depth = Len(path)
    BY DEF SearchInv, SearchTypes, Leave, Depth
  <2>2. /\ path' \in Seq(Frame) /\ Len(path') = Depth - 1
        /\ \A k \in 1 .. Depth - 1 : path'[k] = path[k]
    BY <1>1, <2>1
  <2> QED
    BY <1>1, <2>2 DEF Depth
<1>3. \A k \in 1 .. Depth - 1 : Looped(k)' = Looped(k)
  BY <1>1, <1>2 DEF Leave, Looped
<1>4. id \in Nodes /\ id \in visiting /\ id \notin done
  BY <1>1 DEF SearchInv, PathIsVisiting, SearchTypes, DoneIsSound
<1>5. graph[id] \subseteq done
  BY <1>1 DEF SearchInv, LoopsAreInOrder, Looped
<1>6. SearchTypes'
  BY <1>2, <1>4 DEF SearchInv, SearchTypes, Leave
<1>7. PathIsVisiting'
  BY <1>1, <1>2 DEF SearchInv, PathIsVisiting, Leave
<1>8. LoopsAreInOrder'
  BY <1>1, <1>2, <1>3 DEF SearchInv, LoopsAreInOrder, Leave
<1>9. DoneIsSound'
  <2>1. ASSUME NEW nodes \in SUBSET (done \cup {id}), nodes # {}
        PROVE  \E i \in nodes : graph[i] \cap nodes = {}
    <3>1. CASE nodes = {id}
      BY <1>4, <1>5, <3>1
    <3>2. CASE nodes # {id}
      <4>1. PICK i \in nodes \ {id} : graph[i] \cap (nodes \ {id}) = {}
        <5>1. nodes \ {id} \in SUBSET done /\ nodes \ {id} # {}
          BY <2>1, <3>2
        <5> QED
          BY <5>1 DEF SearchInv, DoneIsSound
      <4>2. id \notin graph[i]
        BY <1>4, <4>1 DEF SearchInv, DoneIsSound
      <4> QED
        BY <4>1, <4>2
    <3> QED
      BY <3>1, <3>2
  <2> QED
    BY <1>5, <2>1 DEF SearchInv, DoneIsSound, Leave
<1>10. SearchIsExact'
  BY DEF SearchInv, SearchIsExact, Leave, LoopEnds
<1> QED
  BY <1>6, <1>7, <1>8, <1>9, <1>10 DEF SearchInv

LEMMA FinishInv ==
  ASSUME SearchInv, Finish
  PROVE  SearchInv'
<1>1. Nodes \subseteq done
  BY DEF SearchInv, LoopsAreInOrder, Looped, Finish, LoopEnds, Innermost
<1>2. Acyclic(graph)
  BY <1>1 DEF SearchInv, SearchTypes, DoneIsSound, Acyclic
<1> QED
  BY <1>2 DEF SearchInv, SearchTypes, PathIsVisiting, LoopsAreInOrder, Looped, DoneIsSound,
              SearchIsExact, Finish, Depth

LEMMA SearchStepInv == SearchInv /\ [SearchNext]_searchVars => SearchInv'
<1> SUFFICES ASSUME SearchInv, [SearchNext]_searchVars PROVE SearchInv'
  OBVIOUS
<1>1. CASE UNCHANGED searchVars
  BY <1>1 DEF searchVars, SearchInv, SearchTypes, PathIsVisiting, LoopsAreInOrder, Looped,
              DoneIsSound, SearchIsExact, Depth
<1>2. CASE SearchNext
  BY <1>2, SkipInv, MeetVisitingInv, DescendInv, LeaveInv, FinishInv DEF SearchNext
<1> QED
  BY <1>1, <1>2

(* The search refuses a command exactly when its dependencies close a      *)
(* circle, for any number of items and any order of the hash sets          *)
(* (hasCycle and cycle in ProjectPlanService.java).                        *)
THEOREM SearchFindsCircles == SearchSpec => []SearchIsExact
<1>1. SearchInv => SearchIsExact
  BY DEF SearchInv
<1> QED
  BY <1>1, SearchInitInv, SearchStepInv, PTL DEF SearchSpec

\* A turn of a loop leaves the calls above it, and has gone on to `id`.
LEMMA TurnKeepsCalls ==
  ASSUME SearchInv, NEW id \in Nodes, Skip(id) \/ Descend(id)
  PROVE  /\ Depth \in Nat \ {0} /\ Depth' \in Nat /\ Depth <= Depth'
         /\ \A k \in 1 .. Depth :
              /\ path'[k].id = path[k].id
              /\ path'[k].rest = IF k = Depth THEN path[k].rest \ {id} ELSE path[k].rest
<1>1. /\ Advanced(id) \in Seq(Frame) /\ Len(Advanced(id)) = Depth /\ Depth \in Nat \ {0}
      /\ \A k \in 1 .. Depth :
           /\ path[k] \in Frame
           /\ Advanced(id)[k].id = path[k].id
           /\ Advanced(id)[k].rest = IF k = Depth THEN path[k].rest \ {id} ELSE path[k].rest
  BY AdvancedIsAPath DEF SearchInv
<1>2. CASE Skip(id)
  <2>1. path' = Advanced(id)
    BY <1>2 DEF Skip
  <2>2. Depth' = Len(Advanced(id))
    BY <2>1 DEF Depth
  <2>3. Depth \in Nat \ {0} /\ Depth' \in Nat /\ Depth <= Depth'
    BY <1>1, <2>2
  <2> QED
    BY <1>1, <2>1, <2>3
<1>3. CASE Descend(id)
  <2>1. Call(id, graph[id]) \in Frame
    BY DEF SearchInv, SearchTypes, Call, Frame
  <2>2. path' = Append(Advanced(id), Call(id, graph[id]))
    BY <1>3 DEF Descend
  <2>3. Len(path') = Depth + 1 /\ \A k \in 1 .. Depth : path'[k] = Advanced(id)[k]
    BY <1>1, <2>1, <2>2
  <2>4. Depth' = Depth + 1
    BY <2>3 DEF Depth
  <2>5. Depth \in Nat \ {0} /\ Depth' \in Nat /\ Depth <= Depth'
    BY <1>1, <2>4
  <2>6. \A k \in 1 .. Depth :
          /\ path'[k].id = path[k].id
          /\ path'[k].rest = IF k = Depth THEN path[k].rest \ {id} ELSE path[k].rest
    BY <1>1, <2>3
  <2> QED
    BY <2>5, <2>6
<1> QED
  BY <1>2, <1>3

LEMMA TurnTakesUp ==
  ASSUME SearchInv, NEW id \in Nodes, Skip(id) \/ Descend(id)
  PROVE  TakenUp \subseteq TakenUp' /\ TakenUp # TakenUp'
<1>1. Depth \in Nat \ {0} /\ Depth' \in Nat /\ Depth <= Depth'
  BY TurnKeepsCalls
<1>2. \A k \in 1 .. Depth : path'[k].id = path[k].id
  BY TurnKeepsCalls
<1>3. \A k \in 1 .. Depth :
        path'[k].rest = IF k = Depth THEN path[k].rest \ {id} ELSE path[k].rest
  BY TurnKeepsCalls
<1>4. UNCHANGED <<graph, done>> /\ id \in path[Depth].rest
  BY DEF Skip, Descend, Turn, Innermost
<1>5. \A k \in 1 .. Depth : k \in 1 .. Depth' /\ Looped(k)' = Looped(k)
  BY <1>1, <1>2, <1>4 DEF Looped
<1>6. TakenUp \subseteq TakenUp'
  <2> SUFFICES ASSUME NEW e \in TakenUp PROVE e \in TakenUp'
    OBVIOUS
  <2>1. CASE e[1] \in done /\ e[2] \in graph[e[1]]
    BY <1>4, <2>1 DEF TakenUp
  <2>2. CASE \E k \in 1 .. Depth : e[1] = path[k].id /\ e[2] \in Looped(k) \ path[k].rest
    <3>1. PICK k \in 1 .. Depth : e[1] = path[k].id /\ e[2] \in Looped(k) \ path[k].rest
      BY <2>2
    <3>2. path'[k].rest \subseteq path[k].rest
      BY <1>3
    <3>3. e[1] = path'[k].id /\ e[2] \in Looped(k)' \ path'[k].rest /\ k \in 1 .. Depth'
      BY <1>2, <1>5, <3>1, <3>2
    <3> QED
      BY <3>3 DEF TakenUp
  <2> QED
    BY <2>1, <2>2 DEF TakenUp
<1> DEFINE new == <<path[Depth].id, id>>
<1>7. path[Depth].id \in Nodes \cup {NoItem} /\ path[Depth].id \notin done
  <2>1. CASE Depth = 1
    BY <2>1, SearchAssumption DEF SearchInv, SearchTypes, PathIsVisiting
  <2>2. CASE Depth # 1
    <3>1. Depth \in 2 .. Depth
      BY <1>1, <2>2
    <3> QED
      BY <3>1 DEF SearchInv, SearchTypes, PathIsVisiting, DoneIsSound
  <2> QED
    BY <2>1, <2>2
<1>8. Depth \in 1 .. Depth /\ Depth \in 1 .. Depth'
  BY <1>1
<1>9. id \in Looped(Depth)
  BY <1>4, <1>8 DEF SearchInv, LoopsAreInOrder
<1>10. new \in TakenUp'
  <2>1. PICK k \in 1 .. Depth : k = Depth
    BY <1>8
  <2>2. path'[k].id = path[Depth].id /\ id \in Looped(k)' \ path'[k].rest /\ k \in 1 .. Depth'
    BY <1>2, <1>3, <1>5, <1>9, <2>1
  <2> QED
    BY <1>7, <2>2 DEF TakenUp
<1>11. new \notin TakenUp
  <2>1. ASSUME NEW k \in 1 .. Depth, path[Depth].id = path[k].id PROVE k = Depth
    BY <1>8, <2>1 DEF SearchInv, PathIsVisiting
  <2> QED
    BY <1>4, <1>7, <2>1 DEF TakenUp
<1> QED
  BY <1>6, <1>10, <1>11

LEMMA LeaveIsDone ==
  ASSUME SearchInv, Leave
  PROVE  TakenUp \subseteq TakenUp' /\ done \subseteq done' /\ done # done'
<1> DEFINE id == Innermost.id
<1>1. /\ Depth \in Nat /\ Depth > 1 /\ path \in Seq(Frame)
      /\ id = path[Depth].id /\ Depth = Len(path)
  BY DEF SearchInv, SearchTypes, Depth, Leave, LoopEnds, Innermost
<1>2. path' = SubSeq(path, 1, Depth - 1) /\ done' = done \cup {id} /\ graph' = graph
  BY DEF Leave
<1>3. Len(path') = Depth - 1 /\ \A k \in 1 .. Depth - 1 : path'[k] = path[k]
  BY <1>1, <1>2
<1>4. Depth' = Depth - 1
  BY <1>3 DEF Depth
<1>5. \A k \in 1 .. Depth - 1 : Looped(k)' = Looped(k)
  BY <1>2, <1>3 DEF Looped
<1>6. id \notin done
  <2>1. Depth \in 2 .. Depth
    BY <1>1
  <2> QED
    BY <1>1, <2>1 DEF SearchInv, PathIsVisiting, DoneIsSound
<1>7. ASSUME NEW e \in TakenUp PROVE e \in TakenUp'
  <2>1. CASE e[1] \in done /\ e[2] \in graph[e[1]]
    BY <1>2, <2>1 DEF TakenUp
  <2>2. ASSUME NEW k \in 1 .. Depth, e[1] = path[k].id, e[2] \in Looped(k) \ path[k].rest
        PROVE  e \in TakenUp'
    <3>1. CASE k = Depth
      <4>1. e[1] \in done' /\ e[2] \in graph'[e[1]]
        BY <1>1, <1>2, <2>2, <3>1 DEF Looped
      <4> QED
        BY <4>1 DEF TakenUp
    <3>2. CASE k # Depth
      <4>1. k \in 1 .. Depth - 1
        BY <1>1, <3>2
      <4>2. k \in 1 .. Depth' /\ e[1] = path'[k].id /\ e[2] \in Looped(k)' \ path'[k].rest
        BY <1>3, <1>4, <1>5, <2>2, <4>1
      <4> QED
        BY <4>2 DEF TakenUp
    <3> QED
      BY <3>1, <3>2
  <2> QED
    BY <2>1, <2>2 DEF TakenUp
<1> QED
  BY <1>2, <1>6, <1>7

(* The search ends, whatever the dependencies: no turn of a loop is        *)
(* repeated and no item done twice, and there are finitely many of both.   *)
THEOREM SearchTurnsCount == SearchSpec => EveryTurnCounts
<1>1. ASSUME SearchInv, SearchNext, verdict' = "searching"
      PROVE  /\ TakenUp \subseteq TakenUp' /\ done \subseteq done'
             /\ TakenUp # TakenUp' \/ done # done'
  <2>1. ASSUME NEW id \in Nodes, Skip(id) \/ Descend(id)
        PROVE  TakenUp \subseteq TakenUp' /\ TakenUp # TakenUp' /\ done' = done
    BY <1>1, <2>1, TurnTakesUp DEF Skip, Descend
  <2>2. \A id \in Nodes : ~MeetVisiting(id)
    BY <1>1 DEF MeetVisiting
  <2>3. ~Finish
    BY <1>1 DEF Finish
  <2> QED
    BY <1>1, <2>1, <2>2, <2>3, LeaveIsDone DEF SearchNext
<1>2. SearchInv /\ [SearchNext]_searchVars =>
        [ verdict' = "searching" =>
            /\ TakenUp \subseteq TakenUp' /\ done \subseteq done'
            /\ TakenUp # TakenUp' \/ done # done' ]_searchVars
  BY <1>1
<1> QED
  BY <1>2, SearchInitInv, SearchStepInv, PTL DEF SearchSpec, EveryTurnCounts

-------------------------------------------------------------------------------
Used(p) == posts[p].pc # "unused"

(***************************************************************************)
(* The server.  Who is past the lock holds it, and while somebody creates  *)
(* under a request id nothing has been created under it; so one creation   *)
(* exists per id, and every project and every answer stems from one.       *)
(***************************************************************************)
LockHeld ==
  \A p \in Posts : posts[p].pc \in {"locked", "creating"} =>
    lock[posts[p].request] = p /\ posts[p].name \notin Unacceptable

CreatingIsFirst ==
  \A p \in Posts : posts[p].pc = "creating" =>
    \A c \in creations : c.request # posts[p].request

CreationsUnique ==
  \A c, d \in creations : c.request = d.request => c = d

CreationsOrigin ==
  \A c \in creations :
    /\ posts[c.project].pc = "answered"
    /\ posts[c.project].request = c.request /\ posts[c.project].name = c.name
    /\ c.name \notin Unacceptable
    /\ [id |-> c.project, name |-> c.name] \in projects

ProjectsOrigin ==
  \A r \in projects :
    [request |-> posts[r.id].request, name |-> r.name, project |-> r.id] \in creations

CreatedIsTrue ==
  \A p \in Posts : posts[p].answer = "created" =>
    /\ Used(p)
    /\ [request |-> posts[p].request, name |-> posts[p].name, project |-> posts[p].project]
         \in creations

RefusedIsTrue ==
  \A p \in Posts : posts[p].answer = "refused" =>
    /\ Used(p) /\ posts[p].project = NoPost
    /\ \/ posts[p].name \in Unacceptable
       \/ \E c \in creations : c.request = posts[p].request /\ c.name # posts[p].name

ServerInv ==
  /\ LockHeld /\ CreatingIsFirst /\ CreationsUnique /\ CreationsOrigin
  /\ ProjectsOrigin /\ CreatedIsTrue /\ RefusedIsTrue

(***************************************************************************)
(* The page.  An intent has one request id and one name, and a page's      *)
(* request id one name; the attempt shows a POST that was sent; the page   *)
(* waits for at most one answer of the current session, its attempt's.     *)
(***************************************************************************)
IntentsKnown ==
  \A p \in Posts : Used(p) =>
    IF posts[p].intent = NoPost THEN posts[p].request \in ScriptRequests
    ELSE posts[p].request \in Requests /\ Used(posts[p].intent)

IntentsAgree ==
  \A p, q \in Posts :
    Used(p) /\ Used(q) /\ posts[p].intent # NoPost /\ posts[q].intent # NoPost =>
      /\ posts[p].intent = posts[q].intent => posts[p].request = posts[q].request
      /\ posts[p].request = posts[q].request => posts[p].name = posts[q].name

Shows(p) ==
  /\ Used(p) /\ attempt.intent # NoPost
  /\ posts[p].intent = attempt.intent
  /\ posts[p].request = attempt.request
  /\ posts[p].name = attempt.name

AttemptIsKnown ==
  /\ attempt.state # "none" => \E p \in Posts : Shows(p)
  /\ attempt.state = "refused" => attempt.name \in Unacceptable

Current(p) == posts[p].waiting /\ session.alive /\ posts[p].session = session.number

WaitingIsCurrent ==
  /\ \A p \in Posts : posts[p].session <= session.number
  /\ \A p \in Posts : posts[p].waiting => Used(p)
  /\ \A p \in Posts : Current(p) => attempt.state = "pending" /\ Shows(p)
  /\ \A p, q \in Posts : Current(p) /\ Current(q) => p = q

PageInv == IntentsKnown /\ IntentsAgree /\ AttemptIsKnown /\ WaitingIsCurrent

CreationInv == CreationTypeOK /\ ServerInv /\ PageInv

----------------------------------------------------------------------------
(* Facts about the helpers.                                                *)
USE CreationAssumption

LEMMA UnusedIsPost ==
  /\ Unused \in Post /\ Unused.pc = "unused" /\ ~Unused.waiting
  /\ Unused.answer = "none" /\ Unused.session = 0 /\ Unused.intent = NoPost
<1>1. (CHOOSE n \in Names : TRUE) \in Names
  OBVIOUS
<1>2. (CHOOSE r \in AllRequests : TRUE) \in AllRequests
  BY DEF AllRequests
<1>. QED
  BY <1>1, <1>2 DEF Unused, Post

LEMMA NoAttemptIsAttempt == NoAttempt \in Attempt /\ NoAttempt.state = "none"
<1>1. (CHOOSE n \in Names : TRUE) \in Names
  OBVIOUS
<1>2. (CHOOSE r \in Requests : TRUE) \in Requests
  OBVIOUS
<1>. QED
  BY <1>1, <1>2 DEF NoAttempt, Attempt

(* What a POST is sent with, and that the others stay as they are.         *)
LEMMA SentPost ==
  ASSUME CreationTypeOK, NEW p \in Posts, NEW name \in Names, NEW request \in AllRequests,
         NEW intent \in Posts \cup {NoPost}, Sent(p, name, request, intent)
  PROVE  /\ posts' \in [Posts -> Post]
         /\ posts'[p].pc = "sent" /\ posts'[p].answer = "none"
         /\ posts'[p].name = name /\ posts'[p].request = request /\ posts'[p].intent = intent
         /\ posts'[p].session = session.number /\ posts'[p].waiting = (intent # NoPost)
         /\ \A q \in Posts : q # p => posts'[q] = posts[q]
<1>. DEFINE x == [Unused EXCEPT !.pc = "sent", !.name = name, !.request = request,
                               !.intent = intent, !.session = session.number,
                               !.waiting = intent # NoPost]
<1>1. /\ x \in Post /\ x.pc = "sent" /\ x.answer = "none"
      /\ x.name = name /\ x.request = request /\ x.intent = intent
      /\ x.session = session.number /\ x.waiting = (intent # NoPost)
  BY UnusedIsPost DEF CreationTypeOK, Post
<1>2. posts' = [posts EXCEPT ![p] = x] /\ posts \in [Posts -> Post]
  BY DEF Sent, CreationTypeOK
<1>. HIDE DEF x
<1>. QED
  BY <1>1, <1>2

LEMMA PostFields ==
  ASSUME NEW x \in Post
  PROVE  /\ [x EXCEPT !.waiting = FALSE] \in Post
         /\ \A answer \in {"created", "refused", "failed"}, project \in Posts \cup {NoPost} :
              [x EXCEPT !.pc = "answered", !.answer = answer, !.project = project] \in Post
<1>1. [x EXCEPT !.waiting = FALSE] \in Post
  BY DEF Post
<1>2. ASSUME NEW answer \in {"created", "refused", "failed"}, NEW project \in Posts \cup {NoPost}
      PROVE  [x EXCEPT !.pc = "answered", !.answer = answer, !.project = project] \in Post
  BY DEF Post
<1>. QED
  BY <1>1, <1>2

LEMMA AnsweredPost ==
  ASSUME CreationTypeOK, NEW p \in Posts, NEW answer \in {"created", "refused", "failed"},
         NEW project \in Posts \cup {NoPost}, Answered(p, answer, project)
  PROVE  /\ posts' \in [Posts -> Post]
         /\ posts'[p].pc = "answered" /\ posts'[p].answer = answer
         /\ posts'[p].project = project
         /\ posts'[p].request = posts[p].request /\ posts'[p].name = posts[p].name
         /\ posts'[p].intent = posts[p].intent /\ posts'[p].session = posts[p].session
         /\ posts'[p].waiting = posts[p].waiting
         /\ \A q \in Posts : q # p => posts'[q] = posts[q]
<1>. DEFINE x == [posts[p] EXCEPT !.pc = "answered", !.answer = answer, !.project = project]
<1>1. x \in Post
  BY PostFields DEF CreationTypeOK
<1>2. posts' = [posts EXCEPT ![p] = x] /\ posts \in [Posts -> Post]
  BY DEF Answered, CreationTypeOK
<1>. HIDE DEF x
<1>3. posts' \in [Posts -> Post] /\ posts'[p] = x /\ \A q \in Posts : q # p => posts'[q] = posts[q]
  BY <1>1, <1>2
<1>. QED
  BY <1>3 DEF x, CreationTypeOK, Post

LEMMA UnlockType ==
  ASSUME CreationTypeOK, NEW p \in Posts, Unlock(p)
  PROVE  lock' \in [AllRequests -> Posts \cup {NoPost}]
BY DEF CreationTypeOK, Unlock

LEMMA PagePostsSends ==
  ASSUME CreationTypeOK, NEW p \in Posts, PagePosts(p)
  PROVE  \E name \in Names, request \in Requests, intent \in Posts \cup {NoPost} :
           Sent(p, name, request, intent) /\ Pending(name, request, intent)
<1>0. attempt.name \in Names /\ attempt.request \in Requests
        /\ attempt.intent \in Posts \cup {NoPost}
  BY DEF CreationTypeOK, Attempt
<1>1. CASE SubmitAgain(p)
  BY <1>0, <1>1 DEF SubmitAgain
<1>2. CASE \E name \in Names, request \in Requests : SubmitNew(p, name, request)
  BY <1>2 DEF SubmitNew
<1>3. CASE \E request \in Requests : Check(p, request)
  BY <1>0, <1>3 DEF Check, RequestKept
<1>. QED
  BY <1>1, <1>2, <1>3 DEF PagePosts

----------------------------------------------------------------------------
LEMMA CreationInitInv == CreationInit => CreationInv
<1>. SUFFICES ASSUME CreationInit
              PROVE  CreationInv
  OBVIOUS
<1>. USE UnusedIsPost, NoAttemptIsAttempt DEF CreationInit, Used
<1>1. CreationTypeOK
  BY DEF CreationTypeOK
<1>2. ServerInv
  BY DEF ServerInv, LockHeld, CreatingIsFirst, CreationsUnique, CreationsOrigin, ProjectsOrigin,
         CreatedIsTrue, RefusedIsTrue
<1>3. PageInv
  BY DEF PageInv, IntentsKnown, IntentsAgree, AttemptIsKnown, WaitingIsCurrent, Current
<1>. QED
  BY <1>1, <1>2, <1>3 DEF CreationInv

(* Types only, so that the lemmas below may rely on them after the step.   *)
LEMMA TypeStep == CreationTypeOK /\ [CreationNext]_creationVars => CreationTypeOK'
<1>. SUFFICES ASSUME CreationTypeOK, [CreationNext]_creationVars
              PROVE  CreationTypeOK'
  OBVIOUS
<1>. USE DEF CreationTypeOK
<1>1. ASSUME NEW p \in Posts, PagePosts(p)
      PROVE  CreationTypeOK'
  <2>1. PICK name \in Names, request \in Requests, intent \in Posts \cup {NoPost} :
          Sent(p, name, request, intent) /\ Pending(name, request, intent)
    BY <1>1, PagePostsSends
  <2>2. posts' \in [Posts -> Post] /\ attempt' \in Attempt
    BY <2>1, SentPost DEF Pending, Attempt, AllRequests
  <2>. QED
    BY <1>1, <2>2 DEF PagePosts
<1>2. ASSUME NEW p \in Posts, Receive(p) \/ AnswerLost(p)
      PROVE  CreationTypeOK'
  <2>1. PICK answer \in {"none", "created", "refused", "failed"} : Settle(p, answer)
    BY <1>2 DEF Receive, AnswerLost, Post
  <2>2. Settled(answer) \in {"opening", "refused", "uncertain"}
    BY DEF Settled
  <2>3. attempt' \in Attempt
    BY <2>1, <2>2 DEF Settle, Attempt
  <2>4. posts' \in [Posts -> Post]
    <3>1. [posts[p] EXCEPT !.waiting = FALSE] \in Post
      BY PostFields
    <3>2. posts' = [posts EXCEPT ![p] = [posts[p] EXCEPT !.waiting = FALSE]]
      BY <2>1 DEF Settle
    <3>. QED
      BY <3>1, <3>2
  <2>. QED
    BY <2>1, <2>3, <2>4 DEF Settle
<1>3. ASSUME NEW p \in Posts, NEW name \in Names, NEW request \in ScriptRequests,
             ScriptPosts(p, name, request)
      PROVE  CreationTypeOK'
  BY <1>3, SentPost DEF ScriptPosts, AllRequests
<1>4. ASSUME NEW p \in Posts, Reject(p) \/ LockRequest(p) \/ Begin(p) \/ Fails(p)
      PROVE  CreationTypeOK'
  <2>1. CASE Reject(p) \/ Fails(p)
    BY <2>1, AnsweredPost, UnlockType DEF Reject, Fails
  <2>2. CASE LockRequest(p)
    BY <2>2 DEF LockRequest, Post
  <2>3. CASE Begin(p)
    BY <2>3 DEF Begin, Post
  <2>. QED
    BY <1>4, <2>1, <2>2, <2>3
<1>5. ASSUME NEW p \in Posts, Replay(p)
      PROVE  CreationTypeOK'
  <2>1. lock' \in [AllRequests -> Posts \cup {NoPost}]
    BY <1>5, UnlockType DEF Replay
  <2>2. PICK answer \in {"created", "refused", "failed"}, project \in Posts \cup {NoPost} :
          Answered(p, answer, project)
    BY <1>5 DEF Replay, Prior
  <2>3. posts' \in [Posts -> Post]
    BY <2>2, AnsweredPost
  <2>. QED
    BY <1>5, <2>1, <2>3 DEF Replay
<1>6. ASSUME NEW p \in Posts, Commit(p)
      PROVE  CreationTypeOK'
  <2>1. lock' \in [AllRequests -> Posts \cup {NoPost}]
    BY <1>6, UnlockType DEF Commit
  <2>2. posts' \in [Posts -> Post]
    BY <1>6, AnsweredPost DEF Commit
  <2>3. /\ projects' \in SUBSET [id : Posts, name : Names]
        /\ creations' \in SUBSET [request : AllRequests, name : Names, project : Posts]
    BY <1>6 DEF Commit, Post
  <2>. QED
    BY <1>6, <2>1, <2>2, <2>3 DEF Commit
<1>7. ASSUME OpenProject \/ SessionEnds \/ Reload
      PROVE  CreationTypeOK'
  <2>1. CASE OpenProject
    BY <2>1, NoAttemptIsAttempt DEF OpenProject
  <2>2. CASE SessionEnds
    BY <2>2 DEF SessionEnds
  <2>3. CASE Reload
    BY <2>3, NoAttemptIsAttempt DEF Reload
  <2>. QED
    BY <1>7, <2>1, <2>2, <2>3
<1>8. CASE UNCHANGED creationVars
  BY <1>8 DEF creationVars
<1>. QED
  BY <1>1, <1>2, <1>3, <1>4, <1>5, <1>6, <1>7, <1>8 DEF CreationNext

----------------------------------------------------------------------------
(***************************************************************************)
(* The server never touches what identifies a POST, nor the page.          *)
(***************************************************************************)
SameIdentity ==
  \A q \in Posts :
    /\ posts'[q].request = posts[q].request /\ posts'[q].name = posts[q].name
    /\ posts'[q].intent = posts[q].intent /\ posts'[q].session = posts[q].session
    /\ posts'[q].waiting = posts[q].waiting
    /\ posts'[q].pc # "unused" <=> posts[q].pc # "unused"

ServerStep(p) ==
  Reject(p) \/ LockRequest(p) \/ Replay(p) \/ Begin(p) \/ Commit(p) \/ Fails(p)

LEMMA ServerKeepsIdentity ==
  ASSUME CreationTypeOK, NEW p \in Posts, ServerStep(p)
  PROVE  SameIdentity /\ UNCHANGED <<session, attempt>>
<1>1. posts[p].pc # "unused" /\ UNCHANGED <<session, attempt>>
  BY DEF ServerStep, Reject, LockRequest, Replay, Begin, Commit, Fails
<1>2. CASE LockRequest(p) \/ Begin(p)
  BY <1>1, <1>2 DEF CreationTypeOK, Post, SameIdentity, LockRequest, Begin
<1>3. CASE ~(LockRequest(p) \/ Begin(p))
  <2>1. PICK answer \in {"created", "refused", "failed"}, project \in Posts \cup {NoPost} :
          Answered(p, answer, project)
    BY <1>3 DEF CreationTypeOK, ServerStep, Reject, Replay, Prior, Commit, Fails
  <2>. QED
    BY <1>1, <2>1, AnsweredPost DEF SameIdentity
<1>. QED
  BY <1>1, <1>2, <1>3

LEMMA SameIdentityKeepsPage ==
  ASSUME PageInv, SameIdentity, UNCHANGED <<session, attempt>>, CreationTypeOK
  PROVE  PageInv'
<1>. USE DEF SameIdentity, Used, PageInv
<1>1. IntentsKnown'
  BY DEF IntentsKnown, CreationTypeOK, Post
<1>2. IntentsAgree'
  BY DEF IntentsAgree
<1>3. AttemptIsKnown'
  BY DEF AttemptIsKnown, Shows
<1>4. WaitingIsCurrent'
  BY DEF WaitingIsCurrent, Current, Shows
<1>. QED
  BY <1>1, <1>2, <1>3, <1>4

(***************************************************************************)
(* One lemma per action of the server, one step per part of its invariant. *)
(***************************************************************************)
LEMMA LockRequestInv ==
  ASSUME CreationTypeOK, ServerInv, NEW p \in Posts, LockRequest(p)
  PROVE  ServerInv'
<1>. USE DEF ServerInv, LockRequest, Used
<1>1. LockHeld'
  BY DEF LockHeld, Free, CreationTypeOK, Post
<1>2. CreatingIsFirst' /\ CreationsUnique'
  BY DEF CreatingIsFirst, CreationsUnique, CreationTypeOK
<1>3. CreationsOrigin'
  BY DEF CreationsOrigin, CreationTypeOK
<1>4. ProjectsOrigin'
  BY DEF ProjectsOrigin, CreationTypeOK
<1>5. CreatedIsTrue' /\ RefusedIsTrue'
  BY DEF CreatedIsTrue, RefusedIsTrue, CreationTypeOK
<1>. QED
  BY <1>1, <1>2, <1>3, <1>4, <1>5

LEMMA BeginInv ==
  ASSUME CreationTypeOK, ServerInv, NEW p \in Posts, Begin(p)
  PROVE  ServerInv'
<1>. USE DEF ServerInv, Begin, Used
<1>1. LockHeld'
  BY DEF LockHeld, CreationTypeOK
<1>2. CreatingIsFirst' /\ CreationsUnique'
  BY DEF CreatingIsFirst, CreationsUnique, Prior, CreationTypeOK
<1>3. CreationsOrigin'
  BY DEF CreationsOrigin, CreationTypeOK
<1>4. ProjectsOrigin'
  BY DEF ProjectsOrigin, CreationTypeOK
<1>5. CreatedIsTrue' /\ RefusedIsTrue'
  BY DEF CreatedIsTrue, RefusedIsTrue, CreationTypeOK
<1>. QED
  BY <1>1, <1>2, <1>3, <1>4, <1>5

(* A 4xx or 5xx without an effect.                                         *)
LEMMA FailureInv ==
  ASSUME CreationTypeOK, ServerInv, NEW p \in Posts, Reject(p) \/ Fails(p)
  PROVE  ServerInv'
<1>1. /\ posts[p].pc \in {"sent", "locked", "creating"}
      /\ UNCHANGED <<projects, creations>>
  BY DEF Reject, Fails
<1>2. PICK answer \in {"refused", "failed"} :
        Answered(p, answer, NoPost) /\ (answer = "refused" => posts[p].name \in Unacceptable)
  BY DEF Reject, Fails
<1>3. /\ posts'[p].pc = "answered" /\ posts'[p].answer = answer /\ posts'[p].project = NoPost
      /\ posts'[p].name = posts[p].name
      /\ \A q \in Posts : q # p => posts'[q] = posts[q]
  BY <1>2, AnsweredPost
<1>4. \A q \in Posts, r \in AllRequests : q # p /\ lock[r] = q => lock'[r] = q
  BY DEF Reject, Fails, Unlock, CreationTypeOK
<1>. USE <1>1, <1>2, <1>3 DEF ServerInv, Used
<1>5. LockHeld'
  BY <1>4 DEF LockHeld, CreationTypeOK, Post
<1>6. CreatingIsFirst' /\ CreationsUnique'
  BY DEF CreatingIsFirst, CreationsUnique
<1>7. CreationsOrigin'
  <2>1. \A c \in creations : c.project \in Posts /\ c.project # p
    BY DEF CreationsOrigin, CreationTypeOK
  <2>. QED
    BY <2>1 DEF CreationsOrigin
<1>8. ProjectsOrigin'
  BY DEF ProjectsOrigin, CreationsOrigin, CreationTypeOK
<1>9. CreatedIsTrue'
  BY DEF CreatedIsTrue
<1>10. RefusedIsTrue'
  BY DEF RefusedIsTrue
<1>. QED
  BY <1>5, <1>6, <1>7, <1>8, <1>9, <1>10

(* An answer from the row an earlier request left.                         *)
LEMMA ReplayInv ==
  ASSUME CreationTypeOK, ServerInv, NEW p \in Posts, Replay(p)
  PROVE  ServerInv'
<1>1. posts[p].pc = "locked" /\ UNCHANGED <<projects, creations>>
  BY DEF Replay
<1>2. PICK prior \in creations :
        /\ prior.request = posts[p].request
        /\ IF prior.name = posts[p].name THEN Answered(p, "created", prior.project)
                                         ELSE Answered(p, "refused", NoPost)
  BY DEF Replay, Prior, SamePayload
<1>3. PICK answer \in {"created", "refused"}, project \in Posts \cup {NoPost} :
        /\ Answered(p, answer, project)
        /\ answer = "created" => prior.name = posts[p].name /\ project = prior.project
        /\ answer = "refused" => prior.name # posts[p].name /\ project = NoPost
  BY <1>2 DEF CreationTypeOK
<1>4. /\ posts'[p].pc = "answered" /\ posts'[p].answer = answer /\ posts'[p].project = project
      /\ posts'[p].name = posts[p].name /\ posts'[p].request = posts[p].request
      /\ \A q \in Posts : q # p => posts'[q] = posts[q]
  BY <1>3, AnsweredPost
<1>5. \A q \in Posts, r \in AllRequests : q # p /\ lock[r] = q => lock'[r] = q
  BY DEF Replay, Unlock, CreationTypeOK
<1>6. prior = [request |-> posts[p].request, name |-> prior.name, project |-> prior.project]
  BY <1>2 DEF CreationTypeOK
<1>. USE <1>1, <1>4 DEF ServerInv, Used
<1>7. LockHeld'
  BY <1>5 DEF LockHeld, CreationTypeOK, Post
<1>8. CreatingIsFirst' /\ CreationsUnique'
  BY DEF CreatingIsFirst, CreationsUnique
<1>9. CreationsOrigin'
  BY DEF CreationsOrigin, CreationTypeOK
<1>10. ProjectsOrigin'
  BY DEF ProjectsOrigin, CreationTypeOK
<1>11. CreatedIsTrue'
  BY <1>3, <1>6 DEF CreatedIsTrue
<1>12. RefusedIsTrue'
  BY <1>2, <1>3 DEF RefusedIsTrue
<1>. QED
  BY <1>7, <1>8, <1>9, <1>10, <1>11, <1>12

(* The lock makes the commit the first of its request id.                  *)
LEMMA CommitInv ==
  ASSUME CreationTypeOK, ServerInv, NEW p \in Posts, Commit(p)
  PROVE  ServerInv'
<1>. DEFINE new == [request |-> posts[p].request, name |-> posts[p].name, project |-> p]
<1>1. posts[p].pc = "creating" /\ Prior(p) = {}
  BY DEF Commit, Prior, ServerInv, CreatingIsFirst
<1>2. /\ projects' = projects \cup {[id |-> p, name |-> posts[p].name]}
      /\ creations' = creations \cup {new}
      /\ Answered(p, "created", p)
  BY <1>1 DEF Commit
<1>3. /\ posts'[p].pc = "answered" /\ posts'[p].answer = "created" /\ posts'[p].project = p
      /\ posts'[p].name = posts[p].name /\ posts'[p].request = posts[p].request
      /\ \A q \in Posts : q # p => posts'[q] = posts[q]
  BY <1>2, AnsweredPost
<1>4. \A q \in Posts, r \in AllRequests : q # p /\ lock[r] = q => lock'[r] = q
  BY DEF Commit, Unlock, CreationTypeOK
<1>5. lock[posts[p].request] = p /\ posts[p].name \notin Unacceptable
  BY <1>1 DEF ServerInv, LockHeld
<1>6. \A c \in creations : c.request # posts[p].request
  BY <1>1 DEF Prior
<1>. USE <1>1, <1>2, <1>3 DEF ServerInv, Used
<1>7. LockHeld'
  BY <1>4 DEF LockHeld, CreationTypeOK, Post
<1>8. CreatingIsFirst'
  BY <1>5 DEF CreatingIsFirst, LockHeld
<1>9. CreationsUnique'
  BY <1>6 DEF CreationsUnique
<1>10. CreationsOrigin'
  <2>1. \A c \in creations : c.project \in Posts /\ c.project # p
    BY DEF CreationsOrigin, CreationTypeOK
  <2>2. ASSUME NEW c \in creations
        PROVE  /\ posts'[c.project].pc = "answered"
               /\ posts'[c.project].request = c.request /\ posts'[c.project].name = c.name
               /\ c.name \notin Unacceptable
               /\ [id |-> c.project, name |-> c.name] \in projects'
    BY <2>1 DEF CreationsOrigin
  <2>3. /\ posts'[new.project].pc = "answered"
        /\ posts'[new.project].request = new.request /\ posts'[new.project].name = new.name
        /\ new.name \notin Unacceptable
        /\ [id |-> new.project, name |-> new.name] \in projects'
    BY <1>5
  <2>. QED
    BY <2>2, <2>3 DEF CreationsOrigin
<1>11. ProjectsOrigin'
  BY DEF ProjectsOrigin, CreationTypeOK
<1>12. CreatedIsTrue'
  BY DEF CreatedIsTrue
<1>13. RefusedIsTrue'
  BY DEF RefusedIsTrue
<1>. QED
  BY <1>7, <1>8, <1>9, <1>10, <1>11, <1>12, <1>13

LEMMA ServerStepInv ==
  ASSUME CreationInv, NEW p \in Posts, ServerStep(p)
  PROVE  ServerInv' /\ PageInv'
<1>1. ServerInv'
  BY LockRequestInv, BeginInv, FailureInv, ReplayInv, CommitInv DEF ServerStep, CreationInv
<1>2. PageInv'
  BY ServerKeepsIdentity, SameIdentityKeepsPage DEF CreationInv
<1>. QED
  BY <1>1, <1>2

----------------------------------------------------------------------------
(***************************************************************************)
(* The page and the scripts change nothing the server decided.             *)
(***************************************************************************)
LEMMA SentKeepsServer ==
  ASSUME CreationTypeOK, ServerInv, NEW p \in Posts, NEW name \in Names,
         NEW request \in AllRequests, NEW intent \in Posts \cup {NoPost},
         posts[p].pc = "unused", Sent(p, name, request, intent),
         UNCHANGED <<lock, projects, creations>>
  PROVE  ServerInv'
<1>1. \A c \in creations : c.project \in Posts /\ c.project # p
  BY DEF ServerInv, CreationsOrigin, CreationTypeOK
<1>. USE SentPost DEF ServerInv, Used
<1>2. \A r \in projects : r.id \in Posts /\ r.id # p
  <2>. SUFFICES ASSUME NEW r \in projects
                PROVE  r.id \in Posts /\ r.id # p
    OBVIOUS
  <2>1. [request |-> posts[r.id].request, name |-> r.name, project |-> r.id] \in creations
    BY DEF ProjectsOrigin
  <2>. QED
    BY <1>1, <2>1
<1>3. LockHeld' /\ CreatingIsFirst'
  BY DEF LockHeld, CreatingIsFirst
<1>4. CreationsUnique' /\ CreationsOrigin'
  BY <1>1 DEF CreationsUnique, CreationsOrigin
<1>5. ProjectsOrigin'
  BY <1>2 DEF ProjectsOrigin
<1>6. CreatedIsTrue' /\ RefusedIsTrue'
  BY DEF CreatedIsTrue, RefusedIsTrue
<1>. QED
  BY <1>3, <1>4, <1>5, <1>6

(* Nobody waits for an answer, or only a page that is gone.                *)
NobodyWaits == \A q \in Posts : ~Current(q)

LEMMA ScriptPostsInv ==
  ASSUME CreationInv, NEW p \in Posts, NEW name \in Names, NEW request \in ScriptRequests,
         ScriptPosts(p, name, request)
  PROVE  ServerInv' /\ PageInv'
<1>0. /\ posts[p].pc = "unused" /\ Sent(p, name, request, NoPost) /\ request \in AllRequests
      /\ UNCHANGED <<session, attempt, lock, projects, creations>>
  BY DEF ScriptPosts, AllRequests
<1>1. ServerInv'
  BY <1>0, SentKeepsServer DEF CreationInv
<1>2. /\ posts'[p].pc = "sent" /\ posts'[p].request = request /\ posts'[p].intent = NoPost
      /\ posts'[p].session = session.number /\ ~posts'[p].waiting
      /\ \A q \in Posts : q # p => posts'[q] = posts[q]
  BY <1>0, SentPost DEF CreationInv
<1>. USE <1>0, <1>2 DEF CreationInv, PageInv, Used
<1>3. IntentsKnown'
  BY DEF IntentsKnown, CreationTypeOK, Post
<1>4. IntentsAgree'
  BY DEF IntentsAgree
<1>5. AttemptIsKnown'
  BY DEF AttemptIsKnown, Shows
<1>6. WaitingIsCurrent'
  BY DEF WaitingIsCurrent, Current, Shows, CreationTypeOK
<1>. QED
  BY <1>1, <1>3, <1>4, <1>5, <1>6

(***************************************************************************)
(* A page's POST repeats one that its attempt shows, or begins an intent   *)
(* under a request id nobody used.                                         *)
(***************************************************************************)
LEMMA PagePostsInv ==
  ASSUME CreationInv, NEW p \in Posts, PagePosts(p)
  PROVE  ServerInv' /\ PageInv'
<1>1. /\ posts[p].pc = "unused" /\ session.alive
      /\ UNCHANGED <<session, lock, projects, creations>>
  BY DEF PagePosts
<1>2. attempt.state # "pending"
  BY DEF PagePosts, SubmitAgain, SubmitNew, Check
<1>3. PICK name \in Names, request \in Requests, intent \in Posts :
        /\ Sent(p, name, request, intent) /\ Pending(name, request, intent)
        /\ \/ \E q \in Posts : /\ Used(q) /\ posts[q].intent = intent
                               /\ posts[q].request = request /\ posts[q].name = name
           \/ intent = p /\ Fresh(request)
  <2>1. CASE \E name \in Names, request \in Requests : SubmitNew(p, name, request)
    BY <2>1 DEF SubmitNew
  <2>2. CASE SubmitAgain(p) \/ \E request \in Requests : Check(p, request)
    <3>1. PICK q \in Posts : Shows(q)
      BY <2>2 DEF CreationInv, PageInv, AttemptIsKnown, SubmitAgain, Check
    <3>2. attempt.name \in Names /\ attempt.request \in Requests /\ attempt.intent \in Posts
      BY <3>1 DEF Shows, CreationInv, CreationTypeOK, Attempt
    <3>3. Sent(p, attempt.name, attempt.request, attempt.intent)
            /\ Pending(attempt.name, attempt.request, attempt.intent)
      BY <2>2 DEF SubmitAgain, Check, RequestKept
    <3>. QED
      BY <3>1, <3>2, <3>3 DEF Shows
  <2>. QED
    BY <2>1, <2>2 DEF PagePosts
<1>4. intent # NoPost /\ request \in AllRequests
  BY DEF AllRequests
<1>5. /\ posts'[p].pc = "sent" /\ posts'[p].request = request /\ posts'[p].name = name
      /\ posts'[p].intent = intent
      /\ posts'[p].session = session.number /\ posts'[p].waiting
      /\ \A q \in Posts : q # p => posts'[q] = posts[q]
  <2>1. Sent(p, name, request, intent) /\ intent \in Posts \cup {NoPost} /\ CreationTypeOK
    BY <1>3 DEF CreationInv
  <2>2. posts'[p].waiting = (intent # NoPost)
    BY <1>4, <2>1, SentPost
  <2>3. posts'[p].waiting
    BY <1>4, <2>2
  <2>. QED
    BY <1>4, <2>1, <2>3, SentPost
<1>6. /\ attempt'.state = "pending" /\ attempt'.name = name
      /\ attempt'.request = request /\ attempt'.intent = intent
  BY <1>3 DEF Pending
<1>7. ServerInv'
  BY <1>1, <1>3, <1>4, SentKeepsServer DEF CreationInv
<1>8. NobodyWaits
  BY <1>2 DEF NobodyWaits, CreationInv, PageInv, WaitingIsCurrent
<1>. USE <1>1, <1>4, <1>5, <1>6 DEF CreationInv, PageInv, Used
<1>9. IntentsKnown'
  BY <1>3 DEF IntentsKnown, CreationTypeOK, Post
<1>10. IntentsAgree'
  BY <1>3 DEF IntentsAgree, IntentsKnown, Fresh
<1>11. AttemptIsKnown'
  BY DEF AttemptIsKnown, Shows
<1>12. WaitingIsCurrent'
  BY <1>8 DEF WaitingIsCurrent, Current, Shows, NobodyWaits, CreationTypeOK
<1>. QED
  BY <1>7, <1>9, <1>10, <1>11, <1>12

(***************************************************************************)
(* A name the page sees refused is unacceptable: its request id never      *)
(* stood for another name.                                                 *)
(***************************************************************************)
LEMMA PageRequestHasOneName ==
  ASSUME CreationInv, NEW p \in Posts, Used(p), posts[p].intent # NoPost,
         NEW c \in creations, c.request = posts[p].request
  PROVE  c.name = posts[p].name
<1>1. /\ c.project \in Posts /\ Used(c.project)
      /\ posts[c.project].request = c.request /\ posts[c.project].name = c.name
  BY DEF CreationInv, ServerInv, CreationsOrigin, CreationTypeOK, Used
<1>2. posts[c.project].intent # NoPost
  BY <1>1 DEF CreationInv, PageInv, IntentsKnown
<1>. QED
  BY <1>1, <1>2 DEF CreationInv, PageInv, IntentsAgree

LEMMA SettleInv ==
  ASSUME CreationInv, NEW p \in Posts, Receive(p) \/ AnswerLost(p)
  PROVE  ServerInv' /\ PageInv'
<1>1. PICK answer \in {"none", "created", "refused", "failed"} :
        Settle(p, answer) /\ (answer = "refused" => posts[p].answer = "refused")
  BY DEF Receive, AnswerLost, CreationInv, CreationTypeOK, Post
<1>2. /\ posts[p].waiting /\ UNCHANGED <<session, lock, projects, creations>>
      /\ posts' = [posts EXCEPT ![p].waiting = FALSE]
  BY <1>1 DEF Settle
<1>3. \A q \in Posts :
        /\ posts'[q].pc = posts[q].pc /\ posts'[q].request = posts[q].request
        /\ posts'[q].name = posts[q].name /\ posts'[q].intent = posts[q].intent
        /\ posts'[q].session = posts[q].session /\ posts'[q].answer = posts[q].answer
        /\ posts'[q].project = posts[q].project
        /\ posts'[q].waiting => q # p /\ posts[q].waiting
  <2>1. ~posts'[p].waiting
    BY <1>2 DEF CreationInv, CreationTypeOK, Post
  <2>. QED
    BY <1>2, <2>1 DEF CreationInv, CreationTypeOK, Post
<1>. HIDE <1>2
<1>4. ServerInv'
  <2>0. \A c \in creations : c.project \in Posts
    BY DEF CreationInv, CreationTypeOK
  <2>. USE <1>2, <1>3 DEF CreationInv, ServerInv, Used
  <2>1. LockHeld' /\ CreatingIsFirst' /\ CreationsUnique'
    BY DEF LockHeld, CreatingIsFirst, CreationsUnique
  <2>2. CreationsOrigin'
    <3>1. ASSUME NEW c \in creations
          PROVE  /\ posts'[c.project].pc = "answered"
                 /\ posts'[c.project].request = c.request /\ posts'[c.project].name = c.name
                 /\ c.name \notin Unacceptable
                 /\ [id |-> c.project, name |-> c.name] \in projects'
      BY <2>0 DEF CreationsOrigin
    <3>. QED
      BY <3>1 DEF CreationsOrigin
  <2>3. ProjectsOrigin'
    BY DEF ProjectsOrigin, CreationTypeOK
  <2>4. CreatedIsTrue' /\ RefusedIsTrue'
    BY DEF CreatedIsTrue, RefusedIsTrue
  <2>. QED
    BY <2>1, <2>2, <2>3, <2>4
<1>5. CASE ~Current(p)
  <2>1. attempt' = attempt
    BY <1>1, <1>2, <1>5 DEF Settle, Current
  <2>. USE <1>2, <1>3, <2>1 DEF CreationInv, PageInv, Used
  <2>2. IntentsKnown'
    BY DEF IntentsKnown, CreationTypeOK, Post
  <2>3. IntentsAgree'
    BY DEF IntentsAgree
  <2>4. AttemptIsKnown'
    BY DEF AttemptIsKnown, Shows
  <2>5. WaitingIsCurrent'
    BY DEF WaitingIsCurrent, Current, Shows
  <2>. QED
    BY <1>4, <2>2, <2>3, <2>4, <2>5
<1>6. CASE Current(p)
  <2>1. attempt' = [attempt EXCEPT !.state = Settled(answer)] /\ Shows(p)
    BY <1>1, <1>6 DEF Settle, Current, CreationInv, PageInv, WaitingIsCurrent
  <2>2. /\ attempt'.state = Settled(answer) /\ attempt'.name = attempt.name
        /\ attempt'.request = attempt.request /\ attempt'.intent = attempt.intent
    BY <2>1 DEF CreationInv, CreationTypeOK, Attempt
  <2>3. answer = "refused" => attempt.name \in Unacceptable
    BY <1>1, <2>1, PageRequestHasOneName DEF CreationInv, ServerInv, RefusedIsTrue, Shows
  <2>4. \A q \in Posts : ~(posts'[q].waiting /\ session.alive /\ posts'[q].session = session.number)
    BY <1>3, <1>6 DEF CreationInv, PageInv, WaitingIsCurrent, Current
  <2>. USE <1>2, <1>3, <2>2 DEF CreationInv, PageInv, Used
  <2>5. IntentsKnown'
    BY DEF IntentsKnown, CreationTypeOK, Post
  <2>6. IntentsAgree'
    BY DEF IntentsAgree
  <2>7. AttemptIsKnown'
    BY <2>1, <2>3 DEF AttemptIsKnown, Shows, Settled
  <2>8. WaitingIsCurrent'
    BY <2>4 DEF WaitingIsCurrent, Current, Shows
  <2>. QED
    BY <1>4, <2>5, <2>6, <2>7, <2>8
<1>. QED
  BY <1>5, <1>6

LEMMA SessionStepInv ==
  ASSUME CreationInv, OpenProject \/ SessionEnds \/ Reload
  PROVE  ServerInv' /\ PageInv'
<1>1. UNCHANGED <<posts, lock, projects, creations>>
  BY DEF OpenProject, SessionEnds, Reload
<1>2. ServerInv'
  BY <1>1 DEF CreationInv, ServerInv, LockHeld, CreatingIsFirst, CreationsUnique, CreationsOrigin,
     ProjectsOrigin, CreatedIsTrue, RefusedIsTrue, Used
<1>3. IntentsKnown' /\ IntentsAgree'
  BY <1>1 DEF CreationInv, PageInv, IntentsKnown, IntentsAgree, Used
<1>. USE <1>1 DEF CreationInv, PageInv, AttemptIsKnown, WaitingIsCurrent, Current
<1>4. CASE OpenProject
  <2>1. attempt'.state = "none" /\ session' = session /\ attempt.state = "opening"
    BY <1>4, NoAttemptIsAttempt DEF OpenProject
  <2>2. \A q \in Posts : ~(posts'[q].waiting /\ session'.alive /\ posts'[q].session = session'.number)
    BY <2>1
  <2>3. WaitingIsCurrent'
    BY <2>1, <2>2 DEF Used
  <2>. QED
    BY <1>2, <1>3, <2>1, <2>3
<1>5. CASE SessionEnds
  <2>1. attempt' = attempt /\ ~session'.alive /\ session'.number = session.number
    BY <1>5 DEF SessionEnds, CreationTypeOK
  <2>. QED
    BY <1>2, <1>3, <2>1 DEF Shows, Used
<1>6. CASE Reload
  <2>1. attempt' = NoAttempt /\ session'.number = session.number + 1
    BY <1>6 DEF Reload
  <2>2. session.number \in Nat /\ \A q \in Posts : posts[q].session \in Nat
    BY DEF CreationTypeOK, Post
  <2>3. AttemptIsKnown'
    BY <2>1, NoAttemptIsAttempt
  <2>4. \A q \in Posts : posts'[q].session < session'.number
    BY <2>1, <2>2
  <2>5. session'.number \in Nat /\ \A q \in Posts : posts'[q].session \in Nat
    BY <2>1, <2>2
  <2>6. \A q \in Posts : ~(posts'[q].waiting /\ session'.alive /\ posts'[q].session = session'.number)
    BY <2>4, <2>5
  <2>7. WaitingIsCurrent'
    BY <2>4, <2>5, <2>6 DEF Used
  <2>. QED
    BY <1>2, <1>3, <2>3, <2>7
<1>. QED
  BY <1>4, <1>5, <1>6

LEMMA CreationStepInv == CreationInv /\ [CreationNext]_creationVars => CreationInv'
<1>. SUFFICES ASSUME CreationInv, [CreationNext]_creationVars
              PROVE  CreationInv'
  OBVIOUS
<1>1. CreationTypeOK'
  BY TypeStep DEF CreationInv
<1>2. ServerInv' /\ PageInv'
  <2>1. ASSUME NEW p \in Posts, PagePosts(p)
        PROVE  ServerInv' /\ PageInv'
    BY <2>1, PagePostsInv
  <2>2. ASSUME NEW p \in Posts, Receive(p) \/ AnswerLost(p)
        PROVE  ServerInv' /\ PageInv'
    BY <2>2, SettleInv
  <2>3. ASSUME NEW p \in Posts, NEW name \in Names, NEW request \in ScriptRequests,
               ScriptPosts(p, name, request)
        PROVE  ServerInv' /\ PageInv'
    BY <2>3, ScriptPostsInv
  <2>4. ASSUME NEW p \in Posts, ServerStep(p)
        PROVE  ServerInv' /\ PageInv'
    BY <2>4, ServerStepInv
  <2>5. CASE OpenProject \/ SessionEnds \/ Reload
    BY <2>5, SessionStepInv
  <2>6. CASE UNCHANGED creationVars
    BY <2>6 DEF creationVars, CreationInv, ServerInv, PageInv, LockHeld, CreatingIsFirst, CreationsUnique,
       CreationsOrigin, ProjectsOrigin, CreatedIsTrue, RefusedIsTrue, IntentsKnown, IntentsAgree,
       AttemptIsKnown, WaitingIsCurrent, Current, Shows, Used
  <2>. QED
    BY <2>1, <2>2, <2>3, <2>4, <2>5, <2>6 DEF CreationNext, ServerStep
<1>. QED
  BY <1>1, <1>2 DEF CreationInv

LEMMA CreationInvariance == CreationSpec => []CreationInv
<1>. QED
  BY CreationInitInv, CreationStepInv, PTL DEF CreationSpec

----------------------------------------------------------------------------
(* Every reachable state is well typed, whatever overlaps or gets lost.    *)
THEOREM CreationTypeCorrect == CreationSpec => []CreationTypeOK
<1>1. CreationInv => CreationTypeOK
  BY DEF CreationInv
<1>. QED
  BY <1>1, CreationInvariance, PTL

(* What a user set out to create exists at most once, whatever answers     *)
(* were lost and however often the request was checked again.              *)
THEOREM OneProject == CreationSpec => []OneProjectPerIntent
<1>1. CreationInv => OneProjectPerIntent
  <2>. SUFFICES ASSUME CreationInv, NEW p \in projects, NEW q \in projects,
                       posts[p.id].intent # NoPost, posts[p.id].intent = posts[q.id].intent
                PROVE  p = q
    BY DEF OneProjectPerIntent
  <2>. DEFINE made(r) == [request |-> posts[r.id].request, name |-> r.name, project |-> r.id]
  <2>1. made(p) \in creations /\ made(q) \in creations
    BY DEF CreationInv, ServerInv, ProjectsOrigin
  <2>2. p \in [id : Posts, name : Names] /\ q \in [id : Posts, name : Names]
    BY DEF CreationInv, CreationTypeOK
  <2>3. posts[p.id].pc = "answered" /\ posts[q.id].pc = "answered"
    BY <2>1 DEF CreationInv, ServerInv, CreationsOrigin
  <2>4. posts[p.id].request = posts[q.id].request
    BY <2>2, <2>3 DEF CreationInv, PageInv, IntentsAgree, Used
  <2>5. made(p) = made(q)
    BY <2>1, <2>4 DEF CreationInv, ServerInv, CreationsUnique
  <2>6. p.id = q.id /\ p.name = q.name
    BY <2>5
  <2>. QED
    BY <2>2, <2>6
<1>. QED
  BY <1>1, CreationInvariance, PTL

(* A name the page offers to change after a refusal stands for no project. *)
THEOREM RefusalsAreTrue == CreationSpec => []RefusedMeansNothingMade
<1>1. CreationInv => RefusedMeansNothingMade
  <2>. SUFFICES ASSUME CreationInv, attempt.state = "refused",
                       NEW c \in creations, c.request = attempt.request
                PROVE  FALSE
    BY DEF RefusedMeansNothingMade
  <2>1. PICK p \in Posts : Shows(p)
    BY DEF CreationInv, PageInv, AttemptIsKnown
  <2>2. c.name = attempt.name
    BY <2>1, PageRequestHasOneName DEF Shows
  <2>. QED
    BY <2>2 DEF CreationInv, PageInv, AttemptIsKnown, ServerInv, CreationsOrigin
<1>. QED
  BY <1>1, CreationInvariance, PTL

(* Whoever is told "created" has a project of the name that was asked for. *)
THEOREM AnswersMatch == CreationSpec => []AnswerIsWhatWasAsked
<1>1. CreationInv => AnswerIsWhatWasAsked
  BY DEF CreationInv, ServerInv, CreatedIsTrue, CreationsOrigin, AnswerIsWhatWasAsked
<1>. QED
  BY <1>1, CreationInvariance, PTL

(* Repeating a request with its payload never changes its outcome.         *)
THEOREM RepeatsAlwaysAgree == CreationSpec => []RepeatsAgree
<1>1. CreationInv => RepeatsAgree
  <2>. SUFFICES ASSUME CreationInv, NEW p \in Posts, NEW q \in Posts,
                       posts[p].request = posts[q].request, posts[p].name = posts[q].name,
                       posts[p].answer \in {"created", "refused"},
                       posts[q].answer \in {"created", "refused"}
                PROVE  posts[p].answer = posts[q].answer /\ posts[p].project = posts[q].project
    BY DEF RepeatsAgree
  <2>. USE DEF CreationInv, ServerInv
  <2>1. ASSUME NEW a \in Posts, NEW b \in Posts, posts[a].request = posts[b].request,
               posts[a].name = posts[b].name, posts[a].answer = "created"
        PROVE  posts[b].answer # "refused"
    <3>. SUFFICES ASSUME posts[b].answer = "refused"
                  PROVE  FALSE
      OBVIOUS
    <3>. DEFINE made == [request |-> posts[a].request, name |-> posts[a].name,
                         project |-> posts[a].project]
    <3>1. made \in creations
      BY <2>1 DEF CreatedIsTrue
    <3>2. made.name \notin Unacceptable
      BY <3>1 DEF CreationsOrigin
    <3>3. PICK c \in creations : c.request = posts[b].request /\ c.name # posts[b].name
      BY <2>1, <3>2 DEF RefusedIsTrue
    <3>4. c = made
      BY <2>1, <3>1, <3>3 DEF CreationsUnique
    <3>. QED
      BY <2>1, <3>3, <3>4
  <2>2. CASE posts[p].answer = "created" /\ posts[q].answer = "created"
    <3>. DEFINE made(r) == [request |-> posts[r].request, name |-> posts[r].name,
                            project |-> posts[r].project]
    <3>1. made(p) \in creations /\ made(q) \in creations
      BY <2>2 DEF CreatedIsTrue
    <3>2. made(p) = made(q)
      BY <3>1 DEF CreationsUnique
    <3>. QED
      BY <2>2, <3>2
  <2>3. CASE posts[p].answer = "refused" /\ posts[q].answer = "refused"
    BY <2>3 DEF RefusedIsTrue
  <2>. QED
    BY <2>1, <2>2, <2>3
<1>. QED
  BY <1>1, CreationInvariance, PTL
===============================================================================
