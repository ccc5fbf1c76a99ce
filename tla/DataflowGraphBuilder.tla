------------------------ MODULE DataflowGraphBuilder ------------------------
(***************************************************************************)
(* DataflowGraphBuilder and its StreamHandles (src/graph/                  *)
(* dataflow_graph_builder.h): calls on handles add an operator and the     *)
(* edges into it, and validate() decides whether the result is a graph     *)
(* that build() may return.                                                *)
(*                                                                         *)
(* Operator ids are handed out from 1 in the order of creation, so the     *)
(* node with id i is nodes[i].  A handle is just an id: the other input of *)
(* a join may be a handle of another builder, and its id is then taken for *)
(* an id of this one.                                                      *)
(***************************************************************************)
EXTENDS Integers, Sequences, FiniteSets

CONSTANTS
  Transforms,   \* the operators with one input: map, filter, window, sink
  Joins,        \* the operators with two: window_join, interval_join
  ForeignIds,   \* the ids of handles that belong to another builder
  MaxLateness,  \* the largest lateness given to with_watermark
  MaxNodes      \* bound of the model: how many operators are created

ASSUME BuilderAssumption ==
  /\ "source" \notin Transforms \cup Joins /\ Transforms \cap Joins = {}
  /\ ForeignIds \subseteq Nat \ {0}
  /\ MaxLateness \in Nat /\ MaxNodes \in Nat

VARIABLES
  nodes,    \* nodes_: kind and, for a source, allowed lateness
  edges     \* edges_: pairs of source and target id

vars == <<nodes, edges>>

Ids == 1..Len(nodes)
EdgeSet == {edges[j] : j \in 1..Len(edges)}

Init == nodes = << >> /\ edges = << >>

-----------------------------------------------------------------------------
\* The id next_id() hands out, and the node made with it.
NewId == Len(nodes) + 1
AddNode(kind) == nodes' = Append(nodes, [kind |-> kind, lateness |-> 0])

\* source()
Source ==
  /\ Len(nodes) < MaxNodes
  /\ AddNode("source")
  /\ UNCHANGED edges

\* map(), filter(), sink(), and reduce() or aggregate() on a window.
Transform(h, kind) ==
  /\ Len(nodes) < MaxNodes
  /\ AddNode(kind)
  /\ edges' = Append(edges, <<h, NewId>>)

\* window_join(), interval_join(): the other handle may be any.
Join(h, other, kind) ==
  /\ Len(nodes) < MaxNodes
  /\ AddNode(kind)
  /\ edges' = edges \o << <<h, NewId>>, <<other, NewId>> >>

\* with_watermark(), which asserts that its handle is a source's.
WithWatermark(h, lateness) ==
  /\ nodes[h].kind = "source"
  /\ nodes' = [nodes EXCEPT ![h].lateness = lateness]
  /\ UNCHANGED edges

Next ==
  \/ Source
  \/ \E h \in Ids :
       \/ \E kind \in Transforms : Transform(h, kind)
       \/ \E kind \in Joins, other \in Ids \cup ForeignIds : Join(h, other, kind)
       \/ \E lateness \in 1..MaxLateness : WithWatermark(h, lateness)

Spec == Init /\ [][Next]_vars

-----------------------------------------------------------------------------
\* The number of edges into an operator: a join of a stream with itself has
\* two.
InEdges(i) == {j \in 1..Len(edges) : edges[j][2] = i}
InDegree(i) == Cardinality(InEdges(i))

(* validate() *)

Into(i) == {e \in EdgeSet : e[2] = i}

\* The count with a set of neighbors in adjacency: two edges between the same
\* nodes are subtracted once.
InDegreeAfterOnce(i, visited) ==
  InDegree(i) - Cardinality({e \in Into(i) : e[1] \in visited})

\* in_degree of i when the visited nodes have been taken off the queue:
\* adjacency has a target once for every edge to it, and each subtracts one.
InDegreeAfter(i, visited) ==
  InDegree(i) - Cardinality({j \in InEdges(i) : edges[j][1] \in visited})

\* check_no_cycles() visits a node once its in_degree is zero.  VisitedIn[n]
\* is what n rounds through the queue reach, and as every round but the last
\* reaches a node, as many rounds as there are nodes reach them all.
VisitedIn[n \in Nat] ==
  IF n = 0 THEN {}
  ELSE LET visited == VisitedIn[n - 1]
       IN  {i \in Ids : InDegreeAfter(i, visited) = 0}

\* check_no_cycles().  An edge from an unknown id fails it as well, before
\* check_edges() has looked at the edge.
NoCycles == VisitedIn[Len(nodes)] = Ids

\* check_edges()
EdgesKnown == \A e \in EdgeSet : e[1] \in Ids /\ e[2] \in Ids

\* validate()
Valid == nodes # << >> /\ NoCycles /\ EdgesKnown

-----------------------------------------------------------------------------
\* Type correctness; only sources have a lateness.
TypeOK ==
  /\ Len(nodes) <= MaxNodes
  /\ \A i \in Ids :
       /\ nodes[i].kind \in {"source"} \cup Transforms \cup Joins
       /\ nodes[i].lateness \in 0..(IF nodes[i].kind = "source" THEN MaxLateness ELSE 0)
  /\ \A e \in EdgeSet : e[1] \in Ids \cup ForeignIds /\ e[2] \in Ids

\* validate() accepts a graph exactly when its edges join known operators
\* and it has no cycle: no set of operators each of which takes input from
\* one of them.
Cycle(C) == C # {} /\ \A i \in C : \E e \in Into(i) : e[1] \in C

ValidExactly ==
  Valid <=>
    /\ nodes # << >>
    /\ \A e \in EdgeSet : {e[1], e[2]} \subseteq Ids
    /\ ~ \E C \in SUBSET Ids : Cycle(C)
=============================================================================
