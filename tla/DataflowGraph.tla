--------------------------- MODULE DataflowGraph ---------------------------
(***************************************************************************)
(* The queries of DataflowGraph (src/graph/dataflow_graph.h) on a graph    *)
(* that DataflowGraphBuilder::build() returns.  A query scans the vector   *)
(* of edges or of operators and keeps its order.                           *)
(***************************************************************************)
EXTENDS DataflowGraphBuilder, SequencesExt, Sorting

\* One end of each of some edges, given by their places, in the order of the
\* edges.
EndsOf(end, places) ==
  LET kept == Ascending(places)
  IN  [k \in DOMAIN kept |-> edges[kept[k]][end]]

OutEdges(i) == {j \in 1..Len(edges) : edges[j][1] = i}

\* targets_of() that compares with the wrong end of an edge.
TargetsOfSwapped(source) == EndsOf(2, InEdges(source))

\* sources_of(), targets_of()
SourcesOf(target) == EndsOf(1, InEdges(target))
TargetsOf(source) == EndsOf(2, OutEdges(source))

\* in_degree_of(), out_degree_of()
InDegreeOf(id)  == InDegree(id)
OutDegreeOf(id) == Cardinality(OutEdges(id))

\* roots(), leaves(): operators_ has the operators in the order of their ids.
Roots  == Ascending({i \in Ids : InDegreeOf(i) = 0})
Leaves == Ascending({i \in Ids : OutDegreeOf(i) = 0})

\* op(id) finds an operator; on any other id it asserts.
Known(id) == id \in Ids

-----------------------------------------------------------------------------
\* What a walk from the operators in start finds that follows a query.
Walk(start, Query(_)) ==
  LET found[n \in Nat] ==
        IF n = 0 THEN start
        ELSE LET before == found[n - 1]
             IN  before \cup UNION {ToSet(Query(i)) : i \in before}
  IN  found[Len(nodes)]

Times(x, s) == Cardinality({n \in DOMAIN s : s[n] = x})

\* Whoever walks a built graph with its queries, from the roots along
\* targets_of() or from the leaves along sources_of(), finds each operator
\* and nothing that op() would assert on; the roots are the sources, in the
\* order they were made; and an edge that one end reports is reported by
\* the other, as often.
QueriesAgree ==
  Valid =>
    /\ Walk(ToSet(Roots), TargetsOf) = Ids
    /\ Walk(ToSet(Leaves), SourcesOf) = Ids
    /\ Roots = Ascending({i \in Ids : nodes[i].kind = "source"})
    /\ \A i \in Ids :
         /\ InDegreeOf(i) = Len(SourcesOf(i)) /\ OutDegreeOf(i) = Len(TargetsOf(i))
         /\ \A k \in ToSet(TargetsOf(i)) :
              Known(k) /\ Times(k, TargetsOf(i)) = Times(i, SourcesOf(k))
=============================================================================
