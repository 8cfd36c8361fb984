---------------------------- MODULE PlanCycleSearch ----------------------------
(***************************************************************************)
(* The depth-first search by which the plan service decides whether the    *)
(* dependencies of a command close a circle. A step is a turn of the       *)
(* innermost loop or the end of a call; the sets are hash sets, so a loop  *)
(* may go through its one in any order.                                    *)
(***************************************************************************)
EXTENDS PlanStructure, Naturals, Sequences

CONSTANT Nodes  \* the items of the graphs that are searched

ASSUME SearchAssumption == IsFiniteSet(Nodes) /\ NoItem \notin Nodes

VARIABLES
  graph,     \* the predecessors of each item, as in Edges
  path,      \* the calls of cycle(), innermost last, and what their loops have left
  visiting,  \* items whose call has not ended
  done,      \* items whose call has ended
  verdict    \* what hasCycle() returns

searchVars == <<graph, path, visiting, done, verdict>>

Call(id, rest) == [id |-> id, rest |-> rest]

\* the first loop is that of hasCycle() itself
SearchInit ==
  /\ graph \in [Nodes -> SUBSET Nodes]
  /\ path = <<Call(NoItem, Nodes)>>
  /\ visiting = {}
  /\ done = {}
  /\ verdict = "searching"

Depth == Len(path)

Innermost == path[Depth]

\* the innermost loop goes on to one of its items
Advanced(id) == [path EXCEPT ![Depth].rest = @ \ {id}]

Turn(id) == verdict = "searching" /\ id \in Innermost.rest

Skip(id) ==
  /\ Turn(id) /\ id \in done
  /\ path' = Advanced(id)
  /\ UNCHANGED <<graph, visiting, done, verdict>>

\* every call returns true
MeetVisiting(id) ==
  /\ Turn(id) /\ id \notin done /\ id \in visiting
  /\ verdict' = "cycle"
  /\ UNCHANGED <<graph, path, visiting, done>>

Descend(id) ==
  /\ Turn(id) /\ id \notin done \cup visiting
  /\ path' = Append(Advanced(id), Call(id, graph[id]))
  /\ visiting' = visiting \cup {id}
  /\ UNCHANGED <<graph, done, verdict>>

LoopEnds == verdict = "searching" /\ Innermost.rest = {}

(* Mutant: nodes once seen stay marked, as with one set for both.          *)
StillMarked ==
  /\ LoopEnds /\ Depth > 1
  /\ path' = SubSeq(path, 1, Depth - 1)
  /\ UNCHANGED <<graph, visiting, done, verdict>>

Leave ==
  /\ LoopEnds /\ Depth > 1
  /\ path' = SubSeq(path, 1, Depth - 1)
  /\ visiting' = visiting \ {Innermost.id}
  /\ done' = done \cup {Innermost.id}
  /\ UNCHANGED <<graph, verdict>>

Finish ==
  /\ LoopEnds /\ Depth = 1
  /\ verdict' = "none"
  /\ UNCHANGED <<graph, path, visiting, done>>

SearchNext ==
  \/ \E id \in Nodes : Skip(id) \/ MeetVisiting(id) \/ Descend(id)
  \/ Leave
  \/ Finish

SearchSpec == SearchInit /\ [][SearchNext]_searchVars

----------------------------------------------------------------------------
(* The search refuses a command exactly when its dependencies would close  *)
(* a circle: it neither misses one nor takes two ways to a task for one,   *)
(* in whatever order the sets are gone through.                            *)
SearchIsExact ==
  verdict # "searching" => (verdict = "cycle" <=> ~Acyclic(graph))

(* The recursion ends: each turn or return takes up a dependency that was  *)
(* not taken up before, or is done with an item, and neither is undone.    *)
Looped(k) == IF k = 1 THEN Nodes ELSE graph[path[k].id]

TakenUp ==
  {e \in (Nodes \cup {NoItem}) \X Nodes :
     \/ e[1] \in done /\ e[2] \in graph[e[1]]
     \/ \E k \in 1 .. Depth : e[1] = path[k].id /\ e[2] \in Looped(k) \ path[k].rest}

EveryTurnCounts ==
  [][ verdict' = "searching" =>
        /\ TakenUp \subseteq TakenUp' /\ done \subseteq done'
        /\ TakenUp # TakenUp' \/ done # done' ]_searchVars
=============================================================================
