--------------------------- MODULE ExecutionGraph ---------------------------
(***************************************************************************)
(* From a built graph to pipelines: DataflowGraph::topological_order(),    *)
(* Compiler::compile() and ExecutionGraph::build().  The graph comes from  *)
(* the calls of DataflowGraphBuilder on its own handles.                   *)
(*                                                                         *)
(* A physical operator is named by the id of its logical operator, and 0   *)
(* is the null pointer.  The joins are ordered like any operator but       *)
(* compile() of a join returns null (window_join_logical_operator.h:33),   *)
(* so a graph with a join is not compiled.                                 *)
(***************************************************************************)
EXTENDS DataflowGraph, FiniteSetsExt

VARIABLES
  phase,      \* the builder's calls, then the loops of topological_order(),
              \* compile() and build() in turn, then "done"
  queue,      \* topological_order(): the nodes of in-degree zero to visit
  inDegree,   \* topological_order(): in_degree
  order,      \* topological_order(): the result
  next,       \* next_ of each physical operator
  current,    \* build(): the root of the next pipeline: the window whose
              \* channel it reads (0: it is a source) and what follows
  pipelines   \* build(): the roots so far, as current

graphVars == <<phase, queue, inDegree, order, next, current, pipelines>>
allVars == <<vars, graphVars>>

GraphInit ==
  /\ Init
  /\ phase = "building"
  /\ queue = << >> /\ inDegree = << >> /\ order = << >>
  /\ next = << >>
  /\ current = [reads |-> 0, first |-> 0]
  /\ pipelines = << >>

Build == phase = "building" /\ Next /\ UNCHANGED graphVars

-----------------------------------------------------------------------------
(* DataflowGraph::topological_order() *)

\* The in-degrees counted from distinct edges, not from all.
StartOrderingDistinct ==
  /\ phase = "building" /\ Valid
  /\ inDegree' = [i \in Ids |-> Cardinality(Into(i))]
  /\ queue' \in SetToSeqs({i \in Ids : InDegree(i) = 0})
  /\ phase' = "ordering"
  /\ UNCHANGED <<vars, order, next, current, pipelines>>

\* build() of the builder returns the graph; the nodes without inputs enter
\* the queue in the order of a hash table.
StartOrdering ==
  /\ phase = "building" /\ Valid
  /\ inDegree' = [i \in Ids |-> InDegree(i)]
  /\ queue' \in SetToSeqs({i \in Ids : InDegree(i) = 0})
  /\ phase' = "ordering"
  /\ UNCHANGED <<vars, order, next, current, pipelines>>

EdgesBetween(i, k) == {j \in 1..Len(edges) : edges[j] = <<i, k>>}

\* The targets of i, whether other edges into them are left or not.
FreedEager(i) ==
  LET lastEdges == {j \in 1..Len(edges) :
                      /\ edges[j][1] = i
                      /\ j = Max(EdgesBetween(i, edges[j][2]))
                      /\ edges[j][2] \notin ToSet(queue) \cup ToSet(order)}
      sorted == Ascending(lastEdges)
  IN  [k \in DOMAIN sorted |-> edges[sorted[k]][2]]

\* The targets of i whose in-degree i's edges bring to zero, each at its
\* last edge.
Freed(i) ==
  LET lastEdges == {j \in 1..Len(edges) :
                      /\ edges[j][1] = i
                      /\ j = Max(EdgesBetween(i, edges[j][2]))
                      /\ inDegree[edges[j][2]]
                           = Cardinality(EdgesBetween(i, edges[j][2]))}
      sorted == Ascending(lastEdges)
  IN  [k \in DOMAIN sorted |-> edges[sorted[k]][2]]

\* One round of the loop.
VisitNode ==
  /\ phase = "ordering" /\ queue # << >>
  /\ order' = Append(order, Head(queue))
  /\ queue' = Tail(queue) \o Freed(Head(queue))
  /\ inDegree' = [k \in Ids |->
                    inDegree[k] - Cardinality(EdgesBetween(Head(queue), k))]
  /\ UNCHANGED <<vars, phase, next, current, pipelines>>

-----------------------------------------------------------------------------
(* Compiler::compile() *)

HasJoin == \E i \in Ids : nodes[i].kind \in Joins

\* set_next() for every edge in turn: the last edge out of an operator
\* stays.
LinkAll ==
  [i \in Ids |-> IF OutEdges(i) = {} THEN 0 ELSE edges[Max(OutEdges(i))][2]]

\* The first operator of the order is the root.
Compile ==
  /\ phase = "ordering" /\ queue = << >> /\ ~ HasJoin
  /\ next' = LinkAll
  /\ current' = [reads |-> 0, first |-> Head(order)]
  /\ phase' = "cutting"
  /\ UNCHANGED <<vars, queue, inDegree, order, pipelines>>

-----------------------------------------------------------------------------
(* ExecutionGraph::build() *)

\* The operators reached from i by next().
ChainFrom(i) ==
  LET at[n \in Nat] ==
        IF n = 0 THEN i
        ELSE LET before == at[n - 1]
             IN  IF before = 0 THEN 0 ELSE next[before]
      length == Min({n \in 0..Len(nodes) : at[n] = 0} \cup {Len(nodes)})
  IN  [n \in 1..length |-> at[n - 1]]

IsWindow(i) == nodes[i].kind = "window"

WindowsOf(s) == {n \in 1..Len(s) : IsWindow(s[n])}

\* The cut without set_next(nullptr): the window goes on to call what is
\* now on the other side of the channel.
CutKeepingNext ==
  /\ phase = "cutting"
  /\ LET chain == ChainFrom(current.first)
     IN  /\ WindowsOf(chain) # {}
         /\ LET window == chain[Min(WindowsOf(chain))]
            IN  /\ UNCHANGED next
                /\ current' = [reads |-> window, first |-> next[window]]
  /\ pipelines' = Append(pipelines, current)
  /\ UNCHANGED <<vars, phase, queue, inDegree, order>>

\* The first window reached from the current root ends its pipeline; it
\* gets a channel, which the root of the next pipeline reads.
CutAtWindow ==
  /\ phase = "cutting"
  /\ LET chain == ChainFrom(current.first)
     IN  /\ WindowsOf(chain) # {}
         /\ LET window == chain[Min(WindowsOf(chain))]
            IN  /\ next' = [next EXCEPT ![window] = 0]
                /\ current' = [reads |-> window, first |-> next[window]]
  /\ pipelines' = Append(pipelines, current)
  /\ UNCHANGED <<vars, phase, queue, inDegree, order>>

\* No window is left: the last pipeline.
LastPipeline ==
  /\ phase = "cutting"
  /\ WindowsOf(ChainFrom(current.first)) = {}
  /\ pipelines' = Append(pipelines, current)
  /\ phase' = "done"
  /\ UNCHANGED <<vars, queue, inDegree, order, next, current>>

Translate == StartOrdering \/ VisitNode \/ Compile \/ CutAtWindow \/ LastPipeline

GraphNext == Build \/ Translate

GraphSpec == GraphInit /\ [][GraphNext]_allVars

-----------------------------------------------------------------------------
(* ExecutionGraph::to_graphviz() and to_json() *)

\* The operators of a pipeline.
Ops(k) == ChainFrom(pipelines[k].first)

\* The operators that the loops over the pipelines find.
AllOps == UNION {ToSet(Ops(k)) : k \in 1..Len(pipelines)}

\* The operators of a pipeline as they are printed, without the channel
\* source.
DrawnHeadless(k) == Ops(k)

\* The operators of a pipeline as they are printed; 0 is a channel source.
Drawn(k) == IF pipelines[k].reads = 0 THEN Ops(k) ELSE <<0>> \o Ops(k)

\* The place of a printed operator: its pipeline and its number there, from 0.
Places == UNION {{k} \X (0..Len(Drawn(k)) - 1) : k \in 1..Len(pipelines)}
At(place) == Drawn(place[1])[place[2] + 1]
After(place) == <<place[1], place[2] + 1>>

\* The links of the chains.
ChainLinks == {<<p, After(p)>> : p \in {q \in Places : After(q) \in Places}}

\* The order in which the loops over the pipelines come to two places.
Earlier(p, q) == p[1] < q[1] \/ (p[1] = q[1] /\ p[2] < q[2])

\* Where the windows with an output channel are printed.
ChannelPlaces == {p \in Places :
  At(p) # 0 /\ \E k \in 1..Len(pipelines) : pipelines[k].reads = At(p)}

\* The windows with an output channel as the loop that fills channel_id comes
\* to them.
ChannelWindows ==
  LET places == Sorted(ChannelPlaces, Earlier)
  IN  [n \in DOMAIN places |-> At(places[n])]

\* When the loop last comes to a window, and so to its channel.
LastTurn(window) == Max({n \in DOMAIN ChannelWindows : ChannelWindows[n] = window})

\* The id with operator[] inserting the channel before size() is read.
ChannelIdAfter(window) == Cardinality({ChannelWindows[n] : n \in 1..LastTurn(window)})

\* The id of a window's channel: the number of channels that are in channel_id
\* when the loop last comes to it, size() being read before operator[] inserts
\* the channel.
ChannelId(window) == Cardinality({ChannelWindows[n] : n \in 1..LastTurn(window) - 1})

\* A window with an output channel and a channel source on the same channel.
ChannelEnds ==
  {ends \in ChannelPlaces \X Places :
     At(ends[2]) = 0 /\ pipelines[ends[2][1]].reads = At(ends[1])}

\* The links that are printed between them.
ChannelLinks ==
  {[id |-> ChannelId(At(ends[1])), from |-> ends[1], to |-> ends[2]] : ends \in ChannelEnds}

-----------------------------------------------------------------------------
\* Type correctness.
GraphTypeOK ==
  /\ TypeOK
  /\ phase \in {"building", "ordering", "cutting", "done"}
  /\ ToSet(queue) \subseteq Ids /\ ToSet(order) \subseteq Ids
  /\ inDegree \in [DOMAIN inDegree -> Nat]
  /\ next \in [DOMAIN next -> 0..Len(nodes)]
  /\ current.reads \in 0..Len(nodes) /\ current.first \in 0..Len(nodes)

\* topological_order() lists every operator once, and after all operators
\* that feed it.
OrderIsTopological ==
  (phase # "building" /\ queue = << >>) =>
    /\ Len(order) = Len(nodes) /\ ToSet(order) = Ids
    /\ \A k, l \in 1..Len(order) : <<order[k], order[l]>> \in EdgeSet => k < l

\* The pipeline that reads the channel of a window of pipeline k, 0: none.
FedBy(k) ==
  LET readers == {l \in 1..Len(pipelines) : pipelines[l].reads \in ToSet(Ops(k))}
  IN  IF readers = {} THEN 0 ELSE Max(readers)

\* Every pipeline can have a thread of its own: no operator is in two of them,
\* or twice in one; a channel leads to a later pipeline, no two to the same,
\* and every pipeline but the first is fed by one.
OneThreadEach ==
  /\ \A k, l \in 1..Len(pipelines) :
       \A i \in 1..Len(Ops(k)), j \in 1..Len(Ops(l)) :
         Ops(k)[i] = Ops(l)[j] => k = l /\ i = j
  /\ \A k \in 1..Len(pipelines) : FedBy(k) # 0 => FedBy(k) > k
  /\ \A k, l \in 1..Len(pipelines) : FedBy(k) = FedBy(l) /\ FedBy(k) # 0 => k = l
  /\ {FedBy(k) : k \in 1..Len(pipelines)} \ {0} = 2..Len(pipelines)

\* What SlotEngine assumes of its pipelines, whose operators have no locks: the
\* first starts with a source; every other reads the channel of the window
\* that ends the one before it, a window is nowhere else, and nothing calls
\* across a channel; no two threads run the same operator.
PipelinesPaired ==
  phase = "done" =>
    /\ pipelines[1].reads = 0
    /\ nodes[pipelines[1].first].kind = "source"
    /\ \A k \in 1..Len(pipelines) :
         WindowsOf(Ops(k)) = IF k = Len(pipelines) THEN {} ELSE {Len(Ops(k))}
    /\ \A k \in 2..Len(pipelines) : pipelines[k].reads = Last(Ops(k - 1))
    /\ OneThreadEach

\* The graph was built before: what module DataflowGraphBuilder says of
\* validate() and module DataflowGraph of the queries, in the states in which
\* the graph changes.
ValidExactlyBuilt == phase = "building" => ValidExactly
QueriesAgreeBuilt == phase = "building" => QueriesAgree

\* The graph is one chain.
Linear == edges = [j \in 1..Len(nodes) - 1 |-> <<j, j + 1>>]

\* What a reader sees who follows the printed links, through the channels.
FollowedLinks ==
  {<<At(l[1]), At(l[2])>> : l \in {m \in ChainLinks : At(m[1]) # 0}}
    \cup {<<At(c.from), At(After(c.to))>> :
            c \in {d \in ChannelLinks : After(d.to) \in Places}}

\* The printed pipelines show the graph they were built from: every pipeline
\* but the first has one channel into it, from the one before, no two
\* channels have the same id, and a reader who follows the links from operator
\* to operator, through the channels, finds edges of the dataflow graph, and
\* all of them if it is one chain.
DrawingFaithful ==
  phase = "done" =>
    /\ {<<c.id, c.from[1], c.to[1]>> : c \in ChannelLinks}
         = {<<k - 1, k, k + 1>> : k \in 1..Len(pipelines) - 1}
    /\ Cardinality(ChannelLinks) = Len(pipelines) - 1
    /\ FollowedLinks \subseteq EdgeSet
    /\ Linear => FollowedLinks = EdgeSet

\* No operator feeds two others, and there is one source only.
OneSource == \A i, k \in Ids :
  nodes[i].kind = "source" /\ nodes[k].kind = "source" => i = k
NoFanOut == \A j, l \in 1..Len(edges) : edges[j][1] = edges[l][1] => j = l

\* Exactly these graphs keep all their operators: of two edges out of an
\* operator set_next() keeps one, and the root is one source.
CompiledWhole == phase = "done" => (AllOps = Ids <=> OneSource /\ NoFanOut)

\* "Graph with fan-out compiles correctly" (PLAN.md:204): all operators fed
\* by one source end up in some pipeline.
FanOutComplete ==
  (phase = "done" /\ \A i \in Ids : i > 1 => nodes[i].kind # "source") =>
    AllOps = Ids
=============================================================================
