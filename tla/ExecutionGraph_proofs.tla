----------------------- MODULE ExecutionGraph_proofs -----------------------
(***************************************************************************)
(* The graphs of any size: that validate() accepts exactly the acyclic     *)
(* ones, that their queries agree, that topological_order() is one         *)
(* whatever the order of its first queue, that the pipelines pair up,      *)
(* which graphs they hold completely, and that what is printed of them is  *)
(* what was built.  The lemmas on least elements, induction, iteration     *)
(* and ascending sequences come from EventBufferOps_proofs.                *)
(***************************************************************************)
EXTENDS ExecutionGraph, EventBufferOps_proofs

-----------------------------------------------------------------------------
(* 1. Iteration                                                            *)

\* A sequence of elements of F is one over F.
LEMMA SeqFrom ==
  ASSUME NEW E, NEW F, NEW s \in Seq(E), \A k \in 1..Len(s) : s[k] \in F
  PROVE  s \in Seq(F)
<1>1. s = [k \in 1..Len(s) |-> s[k]] /\ Len(s) \in Nat
  OBVIOUS
<1> QED BY <1>1

\* A set that only grows, out of n elements, has stopped growing after n
\* rounds.
LEMMA Stabilises ==
  ASSUME NEW I, IsFiniteSet(I), NEW f \in [Nat -> SUBSET I],
         NEW g \in [SUBSET I -> SUBSET I],
         \A n \in Nat : f[n] \subseteq f[n + 1] /\ f[n + 1] = g[f[n]]
  PROVE  f[Cardinality(I) + 1] = f[Cardinality(I)]
<1> DEFINE c == Cardinality(I)
           T == {n \in Nat : f[n + 1] # f[n] => Cardinality(f[n]) >= n}
<1>1. c \in Nat
  BY FS_CardinalityType
<1>2. \A n \in Nat : IsFiniteSet(f[n]) /\ Cardinality(f[n]) \in Nat /\ Cardinality(f[n]) <= c
  BY FS_Subset, FS_CardinalityType
<1>3. \A n \in Nat : n \in T
  <2>1. 0 \in T
    BY <1>2
  <2>2. ASSUME NEW n \in Nat, n \in T PROVE n + 1 \in T
    <3> SUFFICES ASSUME f[(n + 1) + 1] # f[n + 1] PROVE Cardinality(f[n + 1]) >= n + 1
      OBVIOUS
    <3>1. f[n + 1] = g[f[n]] /\ f[(n + 1) + 1] = g[f[n + 1]] /\ f[n] \subseteq f[n + 1]
      OBVIOUS
    <3>2. f[n + 1] # f[n]
      BY <3>1
    <3> DEFINE a == Cardinality(f[n])
               b == Cardinality(f[n + 1])
    <3>3. a \in Nat /\ b \in Nat /\ a >= n
      BY <1>2, <2>2, <3>2
    <3>4. a <= b /\ a # b
      BY <1>2, <3>1, <3>2, FS_Subset
    <3> HIDE DEF a, b
    <3>5. b >= n + 1
      BY <3>3, <3>4
    <3> QED BY <3>5 DEF b
  <2> HIDE DEF T
  <2> QED BY <2>1, <2>2, Induction
<1>4. SUFFICES ASSUME f[c + 1] # f[c] PROVE FALSE
  OBVIOUS
<1>5. Cardinality(f[c]) >= c
  BY <1>1, <1>2, <1>3, <1>4
<1>6. f[c] = I
  <2>1. f[c] \in SUBSET I /\ Cardinality(f[c]) = c
    BY <1>1, <1>2, <1>5, SMTT(30)
  <2> QED BY <2>1, FS_Subset
<1>7. f[c] \subseteq f[c + 1] /\ f[c + 1] \in SUBSET I
  BY <1>1
<1> QED BY <1>4, <1>6, <1>7

\* The numbers from 1 to n are n.
LEMMA UptoFinite ==
  ASSUME NEW n \in Nat
  PROVE  IsFiniteSet(1..n) /\ Cardinality(1..n) = n
<1>1. IsFiniteSet(1..n) /\ Cardinality(1..n) = IF 1 > n THEN 0 ELSE n - 1 + 1
  BY FS_Interval
<1>2. (IF 1 > n THEN 0 ELSE n - 1 + 1) = n
  OBVIOUS
<1> QED BY <1>1, <1>2

-----------------------------------------------------------------------------
(* 2. validate()                                                           *)

\* What one more round of check_no_cycles() visits.
Round == [V \in SUBSET Ids |-> {i \in Ids : \A e \in Into(i) : e[1] \in V}]

\* in_degree reaches zero with the last edge from a node not visited before,
\* two edges from the same node included.
LEMMA InDegreeUsedUp ==
  ASSUME Len(edges) \in Nat, NEW i, NEW V
  PROVE  InDegreeAfter(i, V) = 0 <=> \A e \in Into(i) : e[1] \in V
<1> DEFINE A == InEdges(i)
           B == {j \in A : edges[j][1] \in V}
<1>1. IsFiniteSet(A) /\ B \in SUBSET A
  <2>1. IsFiniteSet(1..Len(edges)) /\ A \in SUBSET (1..Len(edges))
    BY UptoFinite DEF InEdges
  <2> QED BY <2>1, FS_Subset
<1>2. InDegreeAfter(i, V) = Cardinality(A) - Cardinality(B)
  BY DEF InDegreeAfter, InDegree
<1>3. A = B <=> \A e \in Into(i) : e[1] \in V
  BY DEF InEdges, Into, EdgeSet
<1>4. /\ Cardinality(A) \in Nat /\ Cardinality(B) \in Nat
      /\ Cardinality(A) = Cardinality(B) <=> A = B
  <2> HIDE DEF A, B
  <2> QED BY <1>1, FS_Subset, FS_CardinalityType
<1> HIDE DEF A, B
<1> QED BY <1>2, <1>3, <1>4

\* VisitedIn starts with nothing and adds round after round.
LEMMA Visits ==
  ASSUME Len(edges) \in Nat
  PROVE  /\ VisitedIn \in [Nat -> SUBSET Ids] /\ VisitedIn[0] = {}
         /\ \A n \in Nat : VisitedIn[n + 1] = Round[VisitedIn[n]]
<1> DEFINE Body(f) == [n \in Nat |-> IF n = 0 THEN {}
                                    ELSE LET visited == f[n - 1]
                                         IN  {i \in Ids : InDegreeAfter(i, visited) = 0}]
<1>1. /\ {} \in SUBSET Ids /\ Round \in [SUBSET Ids -> SUBSET Ids]
      /\ \A V \in SUBSET Ids : Round[V] = {i \in Ids : InDegreeAfter(i, V) = 0}
  BY InDegreeUsedUp DEF Round
<1>2. PICK f \in [Nat -> SUBSET Ids] : f[0] = {} /\ \A n \in Nat : f[n + 1] = Round[f[n]]
  <2> DEFINE S == SUBSET Ids
             z == {}
  <2>1. z \in S /\ Round \in [S -> S]
    BY <1>1
  <2> HIDE DEF S, z
  <2>2. Iterated(S, z, Round)
    BY <2>1, Iterates
  <2> QED BY <2>2 DEF S, z, Iterated
<1>3. f = Body(f)
  <2>1. ASSUME NEW n \in Nat, n # 0 PROVE f[n] = Body(f)[n]
    <3>1. n - 1 \in Nat /\ (n - 1) + 1 = n
      BY <2>1
    <3>2. f[n] = Round[f[n - 1]] /\ f[n - 1] \in SUBSET Ids
      BY <1>2, <3>1
    <3> QED BY <1>1, <2>1, <3>2
  <2>2. f[0] = Body(f)[0]
    BY <1>2
  <2> QED BY <2>1, <2>2
<1>4. VisitedIn = Body(VisitedIn)
  <2>1. VisitedIn = CHOOSE h : h = Body(h)
    BY DEF VisitedIn
  <2> HIDE DEF Body
  <2> QED BY <1>3, <2>1
<1>5. ASSUME NEW n \in Nat
      PROVE VisitedIn[n + 1] = {i \in Ids : InDegreeAfter(i, VisitedIn[n]) = 0}
  <2>1. n + 1 \in Nat /\ n + 1 # 0 /\ (n + 1) - 1 = n
    OBVIOUS
  <2>2. VisitedIn[n + 1] = Body(VisitedIn)[n + 1]
    BY <1>4
  <2> QED BY <2>1, <2>2
<1>6. \A n \in Nat : VisitedIn[n] \in SUBSET Ids
  BY <1>4
<1>7. VisitedIn[0] = {} /\ VisitedIn \in [Nat -> SUBSET Ids]
  BY <1>4, <1>6
<1> QED BY <1>1, <1>5, <1>6, <1>7

\* Without a cycle the rounds visit all operators, and only then.
LEMMA NoCyclesExactly ==
  ASSUME Len(nodes) \in Nat, Len(edges) \in Nat, EdgesKnown
  PROVE  NoCycles <=> ~ \E C \in SUBSET Ids : Cycle(C)
<1> DEFINE N == Len(nodes)
<1>1. ASSUME NEW C \in SUBSET Ids, Cycle(C), NoCycles PROVE FALSE
  <2> DEFINE T == {n \in Nat : C \cap VisitedIn[n] # {}}
  <2>1. T # {}
    BY <1>1 DEF Cycle, NoCycles
  <2>2. PICK m \in T : m \in Nat /\ \A n \in Nat : n < m => n \notin T
    <3>1. T \subseteq Nat
      OBVIOUS
    <3> HIDE DEF T
    <3> QED BY <2>1, <3>1, Least
  <2>3. C \cap VisitedIn[m] # {} /\ m # 0
    BY Visits
  <2>4. m - 1 \in Nat /\ m - 1 < m /\ (m - 1) + 1 = m
    BY <2>2, <2>3
  <2>5. PICK i \in C : i \in VisitedIn[m]
    BY <2>3
  <2>6. PICK e \in Into(i) : e[1] \in C
    BY <1>1 DEF Cycle
  <2>7. VisitedIn[m] = Round[VisitedIn[m - 1]] /\ VisitedIn[m - 1] \in SUBSET Ids
    BY <2>4, Visits
  <2>8. e[1] \in VisitedIn[m - 1]
    BY <2>5, <2>6, <2>7 DEF Round
  <2>9. m - 1 \in T
    BY <2>4, <2>6, <2>8
  <2> HIDE DEF T
  <2> QED BY <2>2, <2>4, <2>9
<1>2. ASSUME ~ \E C \in SUBSET Ids : Cycle(C) PROVE NoCycles
  <2>1. IsFiniteSet(Ids) /\ Cardinality(Ids) = N
    BY UptoFinite DEF Ids
  <2>2. Round \in [SUBSET Ids -> SUBSET Ids]
    BY DEF Round
  <2>3. \A n \in Nat : VisitedIn[n] \subseteq VisitedIn[n + 1]
    <3> DEFINE T == {n \in Nat : VisitedIn[n] \subseteq VisitedIn[n + 1]}
    <3>1. 0 \in T
      BY Visits
    <3>2. ASSUME NEW n \in Nat, n \in T PROVE n + 1 \in T
      <4>1. VisitedIn[n] \subseteq VisitedIn[n + 1] /\ n + 1 \in Nat
        BY <3>2
      <4>2. \A k \in Nat : VisitedIn[k + 1] = Round[VisitedIn[k]] /\ VisitedIn[k] \in SUBSET Ids
        BY Visits
      <4>3. /\ VisitedIn[n + 1] = Round[VisitedIn[n]] /\ VisitedIn[n] \in SUBSET Ids
            /\ VisitedIn[(n + 1) + 1] = Round[VisitedIn[n + 1]] /\ VisitedIn[n + 1] \in SUBSET Ids
        BY <4>1, <4>2
      <4> QED BY <4>1, <4>3 DEF Round
    <3>3. \A n \in Nat : n \in T
      <4> HIDE DEF T
      <4> QED BY <3>1, <3>2, Induction
    <3> QED BY <3>3
  <2>4. VisitedIn[N + 1] = VisitedIn[N]
    <3>1. /\ VisitedIn \in [Nat -> SUBSET Ids]
          /\ \A n \in Nat : VisitedIn[n] \subseteq VisitedIn[n + 1] /\ VisitedIn[n + 1] = Round[VisitedIn[n]]
      BY <2>3, Visits
    <3>2. VisitedIn[Cardinality(Ids) + 1] = VisitedIn[Cardinality(Ids)]
      BY <2>1, <2>2, <3>1, Stabilises, Zenon
    <3> QED BY <2>1, <3>2
  <2> DEFINE V == VisitedIn[N]
             C == Ids \ V
  <2>5. V = {i \in Ids : \A e \in Into(i) : e[1] \in V}
    BY <2>4, Visits DEF Round
  <2> HIDE DEF V
  <2>6. ASSUME NEW i \in C PROVE \E e \in Into(i) : e[1] \in C
    BY <2>5 DEF EdgesKnown, Into
  <2>7. C = {}
    BY <1>2, <2>6 DEF Cycle
  <2> QED BY <2>5, <2>7 DEF V, NoCycles
<1> QED BY <1>1, <1>2

\* validate() accepts exactly the graphs that have an operator, edges
\* between known operators, and no cycle.
LEMMA ValidExact == ASSUME Len(nodes) \in Nat, Len(edges) \in Nat PROVE ValidExactly
<1>1. EdgesKnown <=> \A e \in EdgeSet : {e[1], e[2]} \subseteq Ids
  BY DEF EdgesKnown
<1> QED BY <1>1, NoCyclesExactly DEF ValidExactly, Valid

-----------------------------------------------------------------------------
(* 3. The graph the builder makes                                          *)

\* What the builder's calls leave: an operator has an input if and only if it
\* is not a source, and only the input of a join can be made after it.
Fed == \A i \in Ids : InEdges(i) = {} <=> nodes[i].kind = "source"

InputsFirst ==
  \A j \in 1..Len(edges) :
    nodes[edges[j][2]].kind \in Joins \/ edges[j][1] < edges[j][2]

BuilderInv ==
  /\ nodes \in Seq([kind : {"source"} \cup Transforms \cup Joins, lateness : Nat])
  /\ edges \in Seq(Nat \X Nat)
  /\ TypeOK /\ Fed /\ InputsFirst

\* The parts of a node and of an edge.
LEMMA GraphTypes ==
  ASSUME BuilderInv
  PROVE  /\ Len(nodes) \in Nat /\ Len(edges) \in Nat
         /\ \A i \in Ids : nodes[i] \in [kind : {"source"} \cup Transforms \cup Joins, lateness : Nat]
         /\ \A j \in 1..Len(edges) :
              /\ edges[j] \in Nat \X Nat /\ edges[j] = <<edges[j][1], edges[j][2]>>
              /\ edges[j][1] \in Nat /\ edges[j][2] \in Ids
<1> DEFINE Node == [kind : {"source"} \cup Transforms \cup Joins, lateness : Nat]
<1>1. nodes \in Seq(Node) /\ edges \in Seq(Nat \X Nat)
  BY DEF BuilderInv
<1> HIDE DEF Node
<1>2. Len(nodes) \in Nat /\ Len(edges) \in Nat /\ \A i \in Ids : nodes[i] \in Node
  BY <1>1 DEF Ids
<1>3. ASSUME NEW j \in 1..Len(edges) PROVE edges[j] \in Nat \X Nat /\ edges[j][2] \in Ids
  <2>1. edges[j] \in Nat \X Nat
    BY <1>1
  <2>2. edges[j] \in EdgeSet
    BY DEF EdgeSet
  <2> QED BY <2>1, <2>2 DEF BuilderInv, TypeOK
<1> QED BY <1>2, <1>3 DEF Node

\* The empty graph.
LEMMA InitBuilder == Init => BuilderInv
<1> SUFFICES ASSUME Init PROVE BuilderInv
  OBVIOUS
<1>1. nodes = << >> /\ edges = << >> /\ Len(nodes) = 0 /\ Len(edges) = 0 /\ Ids = {}
      /\ EdgeSet = {}
  BY DEF Init, Ids, EdgeSet
<1>2. TypeOK
  BY <1>1, BuilderAssumption DEF TypeOK
<1> QED BY <1>1, <1>2 DEF BuilderInv, Fed, InputsFirst

\* A new operator, with the edges that end at it.
LEMMA NewOperator ==
  ASSUME BuilderInv, NEW kind \in {"source"} \cup Transforms \cup Joins,
         Len(nodes) < MaxNodes, AddNode(kind),
         NEW new \in Seq((Ids \cup ForeignIds) \X {NewId}), edges' = edges \o new,
         kind = "source" <=> new = << >>,
         kind \in Joins \/ \A j \in 1..Len(new) : new[j][1] \in Ids
  PROVE  BuilderInv'
<1> DEFINE Node == [kind : {"source"} \cup Transforms \cup Joins, lateness : Nat]
           n == Len(nodes) + 1
           node == [kind |-> kind, lateness |-> 0]
           m == Len(edges)
<1>1. /\ nodes \in Seq(Node) /\ edges \in Seq(Nat \X Nat) /\ TypeOK /\ Fed /\ InputsFirst
      /\ Len(nodes) \in Nat /\ n \in Nat /\ m \in Nat /\ Len(new) \in Nat
  BY DEF BuilderInv
<1>2. node \in Node
  OBVIOUS
<1>3. \A j \in 1..Len(new) : /\ new[j] \in (Ids \cup ForeignIds) \X {n}
                             /\ new[j][1] \in Ids \cup ForeignIds /\ new[j][1] \in Nat
                             /\ new[j][2] = n
  <2>1. Ids \cup ForeignIds \subseteq Nat
    <3>1. ForeignIds \subseteq Nat /\ Ids \subseteq Nat
      BY BuilderAssumption DEF Ids
    <3> QED BY <3>1
  <2>2. ASSUME NEW j \in 1..Len(new) PROVE new[j] \in (Ids \cup ForeignIds) \X {n}
    BY ElementType DEF NewId
  <2> QED BY <2>1, <2>2
<1>4. nodes' = Append(nodes, node)
  BY DEF AddNode
<1> HIDE DEF Node, node
<1>5. /\ nodes' \in Seq(Node) /\ Len(nodes') = n /\ nodes'[n] = node
      /\ \A i \in Ids : nodes'[i] = nodes[i]
  BY <1>1, <1>2, <1>4 DEF Ids
<1>6. Ids' = Ids \cup {n} /\ n \notin Ids
  BY <1>1, <1>5 DEF Ids
<1>7. /\ edges' \in Seq(Nat \X Nat) /\ Len(edges') = m + Len(new)
      /\ \A j \in 1..m : edges'[j] = edges[j]
      /\ \A j \in 1..Len(new) : edges'[m + j] = new[j]
  <2>1. new \in Seq(Nat \X Nat)
    <3>1. \A j \in 1..Len(new) : new[j] \in Nat \X Nat
      BY <1>1, <1>3
    <3> QED BY <3>1, SeqFrom
  <2> QED BY <1>1, <2>1
<1>8. \A j \in 1..Len(edges') : \/ j \in 1..m /\ edges'[j] = edges[j]
                                \/ j - m \in 1..Len(new) /\ edges'[j] = new[j - m]
  <2> SUFFICES ASSUME NEW j \in 1..Len(edges')
               PROVE  \/ j \in 1..m /\ edges'[j] = edges[j]
                      \/ j - m \in 1..Len(new) /\ edges'[j] = new[j - m]
    OBVIOUS
  <2>1. CASE j <= m
    BY <1>1, <1>7, <2>1
  <2>2. CASE ~ (j <= m)
    <3>1. j - m \in 1..Len(new) /\ m + (j - m) = j
      BY <1>1, <1>7, <2>2
    <3> QED BY <1>7, <3>1
  <2> QED BY <2>1, <2>2
<1>9. \A j \in 1..m : edges[j][2] \in Ids
  BY GraphTypes
<1>10. TypeOK'
  <2>1. \A i \in Ids' :
          /\ nodes'[i].kind \in {"source"} \cup Transforms \cup Joins
          /\ nodes'[i].lateness \in 0..(IF nodes'[i].kind = "source" THEN MaxLateness ELSE 0)
    <3>1. \A i \in Ids :
            /\ nodes[i].kind \in {"source"} \cup Transforms \cup Joins
            /\ nodes[i].lateness \in 0..(IF nodes[i].kind = "source" THEN MaxLateness ELSE 0)
      BY <1>1 DEF TypeOK
    <3>2. nodes'[n].kind = kind /\ nodes'[n].lateness = 0 /\ MaxLateness \in Nat
      BY <1>5, BuilderAssumption DEF node
    <3>3. 0 \in 0..(IF kind = "source" THEN MaxLateness ELSE 0)
      BY <3>2
    <3> QED BY <1>5, <1>6, <3>1, <3>2, <3>3
  <2>2. \A e \in EdgeSet' : e[1] \in Ids' \cup ForeignIds /\ e[2] \in Ids'
    <3>1. \A e \in EdgeSet : e[1] \in Ids \cup ForeignIds /\ e[2] \in Ids
      BY <1>1 DEF TypeOK
    <3>2. ASSUME NEW j \in 1..Len(edges')
          PROVE  edges'[j][1] \in Ids' \cup ForeignIds /\ edges'[j][2] \in Ids'
      BY <1>3, <1>6, <1>8, <3>1 DEF EdgeSet
    <3> QED BY <3>2 DEF EdgeSet
  <2>3. Len(nodes') <= MaxNodes
    BY <1>1, <1>5, BuilderAssumption
  <2> QED BY <2>1, <2>2, <2>3 DEF TypeOK
<1>11. Fed'
  <2> SUFFICES ASSUME NEW i \in Ids' PROVE InEdges(i)' = {} <=> nodes'[i].kind = "source"
    BY DEF Fed
  <2>1. CASE i \in Ids
    <3>1. InEdges(i)' = InEdges(i)
      <4>1. i # n
        BY <1>6, <2>1
      <4>2. \A j \in 1..Len(edges') : edges'[j][2] = i => j \in 1..m /\ edges[j][2] = i
        BY <1>3, <1>8, <4>1
      <4>3. \A j \in 1..m : j \in 1..Len(edges') /\ edges'[j] = edges[j]
        BY <1>1, <1>7
      <4> QED BY <4>2, <4>3 DEF InEdges
    <3> QED BY <1>1, <1>5, <2>1, <3>1 DEF Fed
  <2>2. CASE i = n
    <3>1. CASE new = << >>
      <4>1. Len(new) = 0
        BY <3>1
      <4>2. \A j \in 1..Len(edges') : edges'[j][2] \in Ids
        BY <1>8, <1>9, <4>1
      <4>3. InEdges(i)' = {}
        BY <1>6, <2>2, <4>2 DEF InEdges
      <4> QED BY <1>5, <2>2, <3>1, <4>3 DEF node
    <3>2. CASE new # << >>
      <4>1. 1 \in 1..Len(new) /\ m + 1 \in 1..Len(edges')
        BY <1>1, <1>7, <3>2
      <4>2. edges'[m + 1][2] = n
        BY <1>3, <1>7, <4>1
      <4>3. InEdges(i)' # {}
        BY <2>2, <4>1, <4>2 DEF InEdges
      <4> QED BY <1>5, <2>2, <3>2, <4>3 DEF node
    <3> QED BY <3>1, <3>2
  <2> QED BY <1>6, <2>1, <2>2
<1>12. InputsFirst'
  <2> SUFFICES ASSUME NEW j \in 1..Len(edges')
               PROVE  nodes'[edges'[j][2]].kind \in Joins \/ edges'[j][1] < edges'[j][2]
    BY DEF InputsFirst
  <2>1. CASE j \in 1..m /\ edges'[j] = edges[j]
    BY <1>1, <1>5, <1>9, <2>1 DEF InputsFirst
  <2>2. CASE j - m \in 1..Len(new) /\ edges'[j] = new[j - m]
    <3>1. edges'[j][2] = n /\ edges'[j][1] = new[j - m][1]
      BY <1>3, <2>2
    <3>2. CASE kind \in Joins
      BY <1>5, <3>1, <3>2 DEF node
    <3>3. CASE \A k \in 1..Len(new) : new[k][1] \in Ids
      <4>1. new[j - m][1] \in Ids
        BY <2>2, <3>3
      <4>2. \A i \in Ids : i < n
        BY <1>1 DEF Ids
      <4>3. edges'[j][1] < edges'[j][2]
        BY <3>1, <4>1, <4>2
      <4> QED BY <4>3
    <3> QED BY <3>2, <3>3
  <2> QED BY <1>8, <2>1, <2>2
<1> QED BY <1>5, <1>7, <1>10, <1>11, <1>12 DEF BuilderInv, Node

\* Every call of a handle keeps the graph's invariant.
LEMMA NextBuilder == ASSUME BuilderInv, [Next]_vars PROVE BuilderInv'
<1>1. /\ Len(nodes) \in Nat /\ Ids \subseteq Nat
      /\ nodes \in Seq([kind : {"source"} \cup Transforms \cup Joins, lateness : Nat])
      /\ edges \in Seq(Nat \X Nat)
  BY GraphTypes DEF Ids, BuilderInv
<1>2. CASE Source
  <2> DEFINE new == << >>
  <2>1. /\ new \in Seq((Ids \cup ForeignIds) \X {NewId}) /\ new = << >>
        /\ \A j \in 1..Len(new) : new[j][1] \in Ids
    OBVIOUS
  <2>2. edges' = edges \o new
    BY <1>1, <1>2 DEF Source
  <2> HIDE DEF new
  <2> QED BY <1>2, <2>1, <2>2, NewOperator DEF Source
<1>3. ASSUME NEW h \in Ids, NEW kind \in Transforms, Transform(h, kind) PROVE BuilderInv'
  <2> DEFINE new == << <<h, NewId>> >>
  <2>1. new \in Seq((Ids \cup ForeignIds) \X {NewId})
    OBVIOUS
  <2>3. edges' = edges \o new
    <3>1. edges' = Append(edges, <<h, NewId>>) /\ <<h, NewId>> \in Nat \X Nat
      BY <1>1, <1>3 DEF Transform, NewId
    <3> QED BY <1>1, <3>1, AppendIsConcat
  <2>4. new # << >> /\ Len(new) = 1 /\ \A j \in 1..Len(new) : new[j][1] \in Ids
    OBVIOUS
  <2>2. kind # "source"
    BY BuilderAssumption
  <2> HIDE DEF new
  <2> QED BY <1>3, <2>1, <2>2, <2>3, <2>4, NewOperator DEF Transform
<1>4. ASSUME NEW h \in Ids, NEW kind \in Joins, NEW other \in Ids \cup ForeignIds,
             Join(h, other, kind)
      PROVE  BuilderInv'
  <2> DEFINE new == << <<h, NewId>>, <<other, NewId>> >>
  <2>1. /\ new \in Seq((Ids \cup ForeignIds) \X {NewId}) /\ edges' = edges \o new
        /\ new # << >>
    BY <1>1, <1>4 DEF Join
  <2>2. kind # "source"
    BY BuilderAssumption
  <2> HIDE DEF new
  <2> QED BY <1>4, <2>1, <2>2, NewOperator DEF Join
<1>5. ASSUME NEW h \in Ids, NEW lateness \in 1..MaxLateness, WithWatermark(h, lateness)
      PROVE  BuilderInv'
  <2> DEFINE Node == [kind : {"source"} \cup Transforms \cup Joins, lateness : Nat]
             node == [nodes[h] EXCEPT !.lateness = lateness]
  <2>1. /\ nodes[h] \in Node /\ nodes[h].kind = "source" /\ lateness \in Nat
        /\ nodes' = [nodes EXCEPT ![h] = node] /\ edges' = edges
    BY <1>5, GraphTypes, BuilderAssumption DEF WithWatermark
  <2>2. node \in Node /\ node.kind = "source" /\ node.lateness = lateness
    BY <2>1
  <2> HIDE DEF node, Node
  <2>3. nodes \in Seq(Node) /\ h \in 1..Len(nodes)
    BY <1>1 DEF Node, Ids
  <2>4. /\ nodes' \in Seq(Node) /\ Len(nodes') = Len(nodes)
        /\ \A i \in Ids : nodes'[i] = IF i = h THEN node ELSE nodes[i]
    BY <1>1, <2>1, <2>2, <2>3 DEF Ids
  <2>5. Ids' = Ids /\ EdgeSet' = EdgeSet
    BY <2>1, <2>4 DEF Ids, EdgeSet
  <2>6. \A i \in Ids : nodes'[i].kind = nodes[i].kind
    BY <2>1, <2>2, <2>4
  <2>7. TypeOK'
    <3>1. /\ Len(nodes) <= MaxNodes
          /\ \A i \in Ids :
               /\ nodes[i].kind \in {"source"} \cup Transforms \cup Joins
               /\ nodes[i].lateness \in 0..(IF nodes[i].kind = "source" THEN MaxLateness ELSE 0)
          /\ \A e \in EdgeSet : e[1] \in Ids \cup ForeignIds /\ e[2] \in Ids
      BY DEF BuilderInv, TypeOK
    <3>2. lateness \in 0..MaxLateness
      BY BuilderAssumption
    <3>3. \A i \in Ids :
            nodes'[i].lateness \in 0..(IF nodes'[i].kind = "source" THEN MaxLateness ELSE 0)
      BY <2>1, <2>2, <2>4, <2>6, <3>1, <3>2
    <3>4. Len(nodes') <= MaxNodes
      BY <2>4, <3>1
    <3>5. \A i \in Ids' : nodes'[i].kind \in {"source"} \cup Transforms \cup Joins
      BY <2>5, <2>6, <3>1
    <3>6. \A e \in EdgeSet' : e[1] \in Ids' \cup ForeignIds /\ e[2] \in Ids'
      BY <2>5, <3>1
    <3>7. \A i \in Ids' :
            nodes'[i].lateness \in 0..(IF nodes'[i].kind = "source" THEN MaxLateness ELSE 0)
      BY <2>5, <3>3
    <3> QED BY <3>4, <3>5, <3>6, <3>7 DEF TypeOK
  <2>8. Fed'
    <3>1. \A i : InEdges(i)' = InEdges(i)
      BY <2>1 DEF InEdges
    <3>2. \A i \in Ids : InEdges(i) = {} <=> nodes[i].kind = "source"
      BY DEF BuilderInv, Fed
    <3>3. ASSUME NEW i \in Ids' PROVE InEdges(i)' = {} <=> nodes'[i].kind = "source"
      <4>1. i \in Ids /\ nodes'[i].kind = nodes[i].kind
        BY <2>5, <2>6
      <4> QED BY <3>1, <3>2, <4>1
    <3> QED BY <3>3 DEF Fed
  <2>9. InputsFirst'
    <3>1. \A j \in 1..Len(edges) : edges[j][2] \in Ids
      BY GraphTypes
    <3> QED BY <2>1, <2>6, <3>1 DEF BuilderInv, InputsFirst
  <2> QED BY <1>1, <2>1, <2>4, <2>7, <2>8, <2>9 DEF BuilderInv, Node
<1>6. CASE UNCHANGED vars
  BY <1>6 DEF BuilderInv, TypeOK, Fed, InputsFirst, InEdges, Ids, EdgeSet, vars
<1> QED BY <1>2, <1>3, <1>4, <1>5, <1>6 DEF Next

-----------------------------------------------------------------------------
(* 4. topological_order()                                                  *)

\* The edges into an operator that come from operators still to be visited.
Unvisited(i) == {j \in InEdges(i) : edges[j][1] \notin ToSet(order)}

Distinct(s) == \A k, l \in 1..Len(s) : s[k] = s[l] => k = l

\* topological_order(): the queue holds what has no unvisited input and has
\* not been visited itself.
OrderInv ==
  /\ Valid
  /\ order \in Seq(Ids) /\ queue \in Seq(Ids)
  /\ Distinct(order) /\ Distinct(queue) /\ ToSet(order) \cap ToSet(queue) = {}
  /\ inDegree = [i \in Ids |-> Cardinality(Unvisited(i))]
  /\ \A i \in Ids : i \in ToSet(order) \cup ToSet(queue) <=> inDegree[i] = 0
  /\ \A l \in 1..Len(order) : \A e \in Into(order[l]) :
       \E k \in 1..Len(order) : k < l /\ order[k] = e[1]

\* The rest of a sequence without repetitions.
LEMMA TailDistinct ==
  ASSUME NEW E, NEW s \in Seq(E), s # << >>, Distinct(s)
  PROVE  /\ Head(s) \in E /\ Tail(s) \in Seq(E) /\ Distinct(Tail(s))
         /\ ToSet(Tail(s)) = ToSet(s) \ {Head(s)} /\ Head(s) \in ToSet(s)
<1> DEFINE t == Tail(s)
           n == Len(s)
<1>1. /\ n \in Nat /\ n >= 1 /\ t \in Seq(E) /\ Len(t) = n - 1
      /\ \A k \in 1..n - 1 : t[k] = s[k + 1]
      /\ Head(s) = s[1] /\ s[1] \in E
  BY EmptySeq, HeadTailProperties
<1> HIDE DEF t
<1>2. Distinct(t)
  BY <1>1 DEF Distinct
<1>3. DOMAIN s = 1..n /\ DOMAIN t = 1..n - 1
  BY <1>1
<1>4. ASSUME NEW x \in ToSet(s), x # s[1] PROVE x \in ToSet(t)
  <2>1. PICK k \in 1..n : x = s[k]
    BY <1>3 DEF ToSet
  <2>2. k - 1 \in 1..n - 1 /\ (k - 1) + 1 = k
    BY <1>1, <1>4, <2>1
  <2>3. t[k - 1] = x
    BY <1>1, <2>1, <2>2
  <2> QED BY <1>3, <2>2, <2>3 DEF ToSet
<1>5. ASSUME NEW x \in ToSet(t) PROVE x \in ToSet(s) /\ x # s[1]
  <2>1. PICK k \in 1..n - 1 : x = t[k]
    BY <1>3 DEF ToSet
  <2>2. k + 1 \in 1..n /\ x = s[k + 1] /\ 1 \in 1..n /\ k + 1 # 1
    BY <1>1, <2>1
  <2> QED BY <1>3, <2>2 DEF ToSet, Distinct
<1>6. s[1] \in ToSet(s)
  BY <1>1, <1>3 DEF ToSet
<1> QED BY <1>1, <1>2, <1>4, <1>5, <1>6 DEF t

\* Two sequences without repetitions that share nothing, one after the other.
LEMMA ConcatDistinct ==
  ASSUME NEW E, NEW s \in Seq(E), NEW t \in Seq(E), Distinct(s), Distinct(t),
         ToSet(s) \cap ToSet(t) = {}
  PROVE  s \o t \in Seq(E) /\ Distinct(s \o t) /\ ToSet(s \o t) = ToSet(s) \cup ToSet(t)
<1> DEFINE u == s \o t
           m == Len(s)
           n == Len(t)
<1>1. /\ m \in Nat /\ n \in Nat /\ u \in Seq(E) /\ Len(u) = m + n
      /\ \A k \in 1..m : u[k] = s[k]
      /\ \A k \in 1..m + n : k > m => u[k] = t[k - m]
      /\ DOMAIN s = 1..m /\ DOMAIN t = 1..n /\ DOMAIN u = 1..m + n
  BY ConcatProperties
<1> HIDE DEF u
<1>2. ASSUME NEW k \in 1..m + n
      PROVE  \/ k \in 1..m /\ u[k] = s[k] /\ u[k] \in ToSet(s)
             \/ k - m \in 1..n /\ u[k] = t[k - m] /\ u[k] \in ToSet(t)
  <2>1. CASE k <= m
    <3>1. k \in 1..m
      BY <1>1, <2>1
    <3> QED BY <1>1, <3>1 DEF ToSet
  <2>2. CASE ~ (k <= m)
    <3>1. k - m \in 1..n /\ k > m
      BY <1>1, <2>2
    <3>2. u[k] = t[k - m]
      BY <1>1, <3>1
    <3> QED BY <1>1, <3>1, <3>2 DEF ToSet
  <2> QED BY <2>1, <2>2
<1>3. Distinct(u)
  <2> SUFFICES ASSUME NEW k \in 1..m + n, NEW l \in 1..m + n, u[k] = u[l] PROVE k = l
    BY <1>1 DEF Distinct
  <2>1. CASE k \in 1..m /\ u[k] = s[k] /\ u[k] \in ToSet(s)
    BY <1>2, <2>1 DEF Distinct
  <2>2. CASE k - m \in 1..n /\ u[k] = t[k - m] /\ u[k] \in ToSet(t)
    <3>1. l - m \in 1..n /\ u[l] = t[l - m]
      BY <1>2, <2>2
    <3>2. k - m = l - m
      BY <2>2, <3>1 DEF Distinct
    <3> QED BY <1>1, <3>2
  <2> QED BY <1>2, <2>1, <2>2
<1>4. ToSet(s) \subseteq ToSet(u)
  BY <1>1 DEF ToSet
<1>5. ToSet(t) \subseteq ToSet(u)
  <2> SUFFICES ASSUME NEW k \in 1..n PROVE t[k] \in ToSet(u)
    BY <1>1 DEF ToSet
  <2>1. m + k \in 1..m + n /\ m + k > m /\ (m + k) - m = k
    BY <1>1
  <2>2. u[m + k] = t[k]
    BY <1>1, <2>1
  <2> QED BY <1>1, <2>1, <2>2 DEF ToSet
<1>6. ToSet(u) \subseteq ToSet(s) \cup ToSet(t)
  BY <1>1, <1>2 DEF ToSet
<1> QED BY <1>1, <1>3, <1>4, <1>5, <1>6 DEF u

\* A finite set of naturals has a greatest element, and it is its Max.
LEMMA MaxProperties ==
  ASSUME NEW S, S \subseteq Nat, S # {}, NEW n \in Nat, \A x \in S : x <= n
  PROVE  Max(S) \in S /\ \A x \in S : x <= Max(S)
<1> DEFINE T == {b \in Nat : \A x \in S : x <= b}
<1>1. PICK m \in T : m \in Nat /\ \A k \in Nat : k < m => k \notin T
  <2>1. T \subseteq Nat /\ T # {}
    OBVIOUS
  <2> HIDE DEF T
  <2> QED BY <2>1, Least
<1>2. \A x \in S : x <= m
  BY <1>1
<1>3. m \in S
  <2> SUFFICES ASSUME m \notin S PROVE FALSE
    OBVIOUS
  <2>1. \A x \in S : x \in Nat /\ x <= m /\ x # m
    BY <1>2
  <2>2. m # 0
    <3>1. PICK x \in S : TRUE
      OBVIOUS
    <3>2. x \in Nat /\ x <= m /\ x # m
      BY <2>1
    <3> QED BY <3>2
  <2>3. m - 1 \in Nat /\ m - 1 < m
    BY <1>1, <2>2
  <2>4. \A x \in S : x <= m - 1
    BY <1>1, <2>1, <2>3
  <2>5. m - 1 \in T
    BY <2>3, <2>4
  <2> HIDE DEF T
  <2> QED BY <1>1, <2>3, <2>5
<1>4. \E x \in S : \A y \in S : x >= y
  BY <1>2, <1>3
<1>5. Max(S) \in S /\ \A y \in S : Max(S) >= y
  BY <1>4 DEF Max
<1> QED BY <1>5

\* The ascending listing of a set of places has each of them once.
LEMMA AscendingLists ==
  ASSUME NEW S \in SUBSET Int, IsFiniteSet(S)
  PROVE  /\ Cardinality(S) \in Nat /\ DOMAIN Ascending(S) = 1..Cardinality(S)
         /\ \A k \in 1..Cardinality(S) : Ascending(S)[k] \in S
         /\ \A k, l \in 1..Cardinality(S) : Ascending(S)[k] = Ascending(S)[l] => k = l
         /\ \A x \in S : \E k \in 1..Cardinality(S) : Ascending(S)[k] = x
<1> DEFINE s == Ascending(S)
           rank(x) == Cardinality({y \in S : y < x})
<1>1. /\ Cardinality(S) \in Nat /\ DOMAIN s = 1..Cardinality(S)
      /\ \A k \in 1..Cardinality(S) : s[k] \in S /\ rank(s[k]) = k - 1
      /\ \A x \in S : rank(x) + 1 \in 1..Cardinality(S) /\ s[rank(x) + 1] = x
  BY AscendingRanks
<1> HIDE DEF s
<1>2. ASSUME NEW k \in 1..Cardinality(S), NEW l \in 1..Cardinality(S), s[k] = s[l] PROVE k = l
  <2>1. rank(s[k]) = k - 1 /\ rank(s[l]) = l - 1
    BY <1>1
  <2>2. k - 1 = l - 1
    BY <1>2, <2>1
  <2> QED BY <2>2
<1> HIDE DEF rank
<1> QED BY <1>1, <1>2 DEF s

\* The edges between two operators, and those of them into the second one.
LEMMA EdgeSets ==
  ASSUME BuilderInv, NEW i, NEW k
  PROVE  /\ EdgesBetween(i, k) = {j \in InEdges(k) : edges[j][1] = i}
         /\ IsFiniteSet(InEdges(k)) /\ IsFiniteSet(Unvisited(k))
         /\ IsFiniteSet(EdgesBetween(i, k)) /\ IsFiniteSet(OutEdges(i))
         /\ Cardinality(EdgesBetween(i, k)) \in Nat /\ Cardinality(Unvisited(k)) \in Nat
         /\ Cardinality(EdgesBetween(i, k)) = 0 <=> EdgesBetween(i, k) = {}
         /\ Cardinality(Unvisited(k)) = 0 <=> Unvisited(k) = {}
<1>1. EdgesBetween(i, k) = {j \in InEdges(k) : edges[j][1] = i}
  BY GraphTypes DEF EdgesBetween, InEdges
<1>2. IsFiniteSet(1..Len(edges))
  BY GraphTypes, UptoFinite
<1>3. /\ InEdges(k) \in SUBSET (1..Len(edges)) /\ Unvisited(k) \in SUBSET (1..Len(edges))
      /\ EdgesBetween(i, k) \in SUBSET (1..Len(edges))
      /\ OutEdges(i) \in SUBSET (1..Len(edges))
  BY DEF InEdges, Unvisited, EdgesBetween, OutEdges
<1>4. /\ IsFiniteSet(InEdges(k)) /\ IsFiniteSet(Unvisited(k))
      /\ IsFiniteSet(EdgesBetween(i, k)) /\ IsFiniteSet(OutEdges(i))
  BY <1>2, <1>3, FS_Subset
<1> QED BY <1>1, <1>4, FS_CardinalityType, FS_EmptySet

\* The operators that a visit of i frees: those all of whose unvisited
\* edges come from i.
LEMMA FreedOnes ==
  ASSUME BuilderInv, NEW i
  PROVE  /\ Freed(i) \in Seq(Ids) /\ Distinct(Freed(i))
         /\ ToSet(Freed(i)) = {k \in Ids : /\ EdgesBetween(i, k) # {}
                                           /\ inDegree[k] = Cardinality(EdgesBetween(i, k))}
<1> DEFINE target(j) == edges[j][2]
           L == {j \in 1..Len(edges) :
                   /\ edges[j][1] = i
                   /\ j = Max(EdgesBetween(i, target(j)))
                   /\ inDegree[target(j)] = Cardinality(EdgesBetween(i, target(j)))}
           s == Ascending(L)
           c == Cardinality(L)
           F == [k \in 1..c |-> target(s[k])]
           T == {k \in Ids : /\ EdgesBetween(i, k) # {}
                             /\ inDegree[k] = Cardinality(EdgesBetween(i, k))}
<1>1. L \in SUBSET Int /\ IsFiniteSet(L)
  <2>1. L \in SUBSET (1..Len(edges)) /\ IsFiniteSet(1..Len(edges))
    BY GraphTypes, UptoFinite
  <2>2. 1..Len(edges) \subseteq Int
    OBVIOUS
  <2> HIDE DEF L
  <2> QED BY <2>1, <2>2, FS_Subset
<1>2. /\ c \in Nat /\ DOMAIN s = 1..c /\ \A k \in 1..c : s[k] \in L
      /\ \A k, l \in 1..c : s[k] = s[l] => k = l
      /\ \A j \in L : \E k \in 1..c : s[k] = j
  <2> HIDE DEF L
  <2> QED BY <1>1, AscendingLists
<1>3. Freed(i) = F
  <2>1. Freed(i) = [k \in DOMAIN s |-> edges[s[k]][2]]
    BY DEF Freed
  <2> HIDE DEF s, L
  <2> QED BY <1>2, <2>1
<1>4. ASSUME NEW j \in L
      PROVE  /\ target(j) \in T /\ j = Max(EdgesBetween(i, target(j)))
  <2>1. j \in EdgesBetween(i, target(j)) /\ target(j) \in Ids
    BY GraphTypes DEF EdgesBetween
  <2>2. /\ j = Max(EdgesBetween(i, target(j)))
        /\ inDegree[target(j)] = Cardinality(EdgesBetween(i, target(j)))
    OBVIOUS
  <2> DEFINE k == target(j)
  <2>3. k \in Ids /\ EdgesBetween(i, k) # {} /\ inDegree[k] = Cardinality(EdgesBetween(i, k))
    BY <2>1, <2>2
  <2> HIDE DEF k
  <2>4. k \in T
    BY <2>3
  <2> HIDE DEF T, L, s, F
  <2> QED BY <2>2, <2>4 DEF k
<1>5. ASSUME NEW k \in T PROVE \E j \in L : target(j) = k
  <2> DEFINE B == EdgesBetween(i, k)
             j == Max(B)
  <2>1. j \in B
    <3>1. B \subseteq Nat /\ Len(edges) \in Nat /\ B # {} /\ \A x \in B : x <= Len(edges)
      BY <1>5, GraphTypes DEF EdgesBetween
    <3> HIDE DEF B
    <3> QED BY <3>1, MaxProperties
  <2>2. j \in 1..Len(edges) /\ edges[j] = <<i, k>>
    BY <2>1 DEF EdgesBetween
  <2>3. edges[j][1] = i /\ edges[j][2] = k
    BY <2>2
  <2> QED BY <1>5, <2>2, <2>3
<1> HIDE DEF L, T, s, target
<1>6. F \in Seq(Ids) /\ Len(F) = c /\ DOMAIN F = 1..c
  <2>1. \A k \in 1..c : target(s[k]) \in Ids
    BY <1>2, <1>4 DEF T
  <2> HIDE DEF c
  <2> QED BY <1>2, <2>1
<1>7. Distinct(F)
  <2> SUFFICES ASSUME NEW k \in 1..c, NEW l \in 1..c, target(s[k]) = target(s[l]) PROVE k = l
    BY <1>6 DEF Distinct
  <2>1. s[k] = s[l]
    BY <1>2, <1>4
  <2> QED BY <1>2, <2>1
<1>8. ToSet(F) = T
  <2>1. ASSUME NEW k \in 1..c PROVE F[k] \in T
    BY <1>2, <1>4
  <2>2. ASSUME NEW t \in T PROVE \E k \in 1..c : F[k] = t
    <3>1. PICK j \in L : target(j) = t
      BY <1>5
    <3>2. PICK k \in 1..c : s[k] = j
      BY <1>2
    <3> QED BY <3>1, <3>2
  <2> HIDE DEF F, c
  <2> QED BY <1>6, <2>1, <2>2 DEF ToSet
<1> QED BY <1>3, <1>6, <1>7, <1>8 DEF T

\* topological_order() starts with the operators that have no input.
LEMMA StartOrder ==
  ASSUME BuilderInv, order = << >>, StartOrdering
  PROVE  OrderInv'
<1> DEFINE S == {i \in Ids : InDegree(i) = 0}
           c == Cardinality(S)
<1>1. /\ Valid /\ UNCHANGED <<nodes, edges, order>>
      /\ inDegree' = [i \in Ids |-> InDegree(i)]
      /\ queue' \in SetToSeqs(S)
  BY DEF StartOrdering, vars
<1>2. Valid' /\ Ids' = Ids
  BY <1>1 DEF Valid, NoCycles, EdgesKnown, VisitedIn, InDegreeAfter, InDegree, InEdges, Into, EdgeSet, Ids
<1>3. ToSet(order') = {} /\ order' = << >> /\ Len(order') = 0
  BY <1>1 DEF ToSet
<1>4. IsFiniteSet(S) /\ c \in Nat
  <2>1. IsFiniteSet(Ids) /\ S \in SUBSET Ids
    BY GraphTypes, UptoFinite DEF Ids
  <2> HIDE DEF S
  <2> QED BY <2>1, FS_Subset, FS_CardinalityType
<1>5. queue' \in [1..c -> S] /\ \A k, l \in 1..c : k # l => queue'[k] # queue'[l]
  BY <1>1 DEF SetToSeqs
<1> HIDE DEF S
<1>6. queue' \in Seq(S) /\ Len(queue') = c /\ DOMAIN queue' = 1..c
  BY <1>4, <1>5
<1>7. Distinct(queue')
  BY <1>5, <1>6 DEF Distinct
<1>8. ToSet(queue') = S
  <2>1. queue' \in Injection(1..c, S)
    BY <1>5 DEF Injection, IsInjective
  <2>2. Cardinality(1..c) = c
    BY <1>4, UptoFinite
  <2>3. queue' \in Surjection(1..c, S)
    BY <1>4, <2>1, <2>2, FS_Injection
  <2> QED BY <1>6, <2>3 DEF Surjection, ToSet
<1>9. \A i \in Ids : Unvisited(i)' = InEdges(i)
  BY <1>1, <1>3 DEF Unvisited, InEdges
<1>10. queue' \in Seq(Ids)
  <2>1. \A k \in 1..Len(queue') : queue'[k] \in Ids
    BY <1>5, <1>6 DEF S
  <2> QED BY <1>6, <2>1, SeqFrom
<1>11. inDegree' = [i \in Ids |-> Cardinality(InEdges(i))]
  BY <1>1 DEF InDegree
<1>12. \A i \in Ids : i \in ToSet(queue') <=> inDegree'[i] = 0
  BY <1>8, <1>11 DEF S, InDegree
<1>13. Distinct(order') /\ order' \in Seq(Ids)
  BY <1>3 DEF Distinct
<1>14. inDegree' = [i \in Ids |-> Cardinality(Unvisited(i)')]
  BY <1>9, <1>11
<1> QED BY <1>2, <1>3, <1>7, <1>10, <1>12, <1>13, <1>14 DEF OrderInv

\* One round of the loop keeps what the order and the queue mean.
LEMMA VisitKeeps ==
  ASSUME BuilderInv, OrderInv, VisitNode
  PROVE  OrderInv'
<1>1. PICK i, O, Q, F, B, U, n :
        /\ i = Head(queue) /\ O = ToSet(order) /\ Q = ToSet(queue) /\ F = Freed(i)
        /\ B = [k \in Ids |-> EdgesBetween(i, k)] /\ U = [k \in Ids |-> Unvisited(k)]
        /\ n = Len(order)
  OBVIOUS
<1>2. /\ Valid /\ order \in Seq(Ids) /\ queue \in Seq(Ids) /\ n \in Nat
      /\ Distinct(order) /\ Distinct(queue) /\ O \cap Q = {}
      /\ inDegree = [k \in Ids |-> Cardinality(U[k])]
      /\ \A k \in Ids : k \in O \cup Q <=> inDegree[k] = 0
  <2>1. inDegree = [k \in Ids |-> Cardinality(Unvisited(k))]
    BY DEF OrderInv
  <2>2. inDegree = [k \in Ids |-> Cardinality(U[k])]
    BY <1>1, <2>1
  <2> QED BY <1>1, <2>2 DEF OrderInv
<1>3. /\ UNCHANGED <<nodes, edges>> /\ queue # << >>
      /\ order' = Append(order, i) /\ queue' = Tail(queue) \o F
      /\ inDegree' = [k \in Ids |-> inDegree[k] - Cardinality(B[k])]
  BY <1>1 DEF VisitNode, vars
<1>4. Valid' /\ Ids' = Ids
  BY <1>2, <1>3 DEF Valid, NoCycles, EdgesKnown, VisitedIn, InDegreeAfter, InDegree, InEdges, Into, EdgeSet, Ids
<1>5. /\ i \in Ids /\ i \in Q /\ i \notin O /\ Tail(queue) \in Seq(Ids) /\ Distinct(Tail(queue))
      /\ ToSet(Tail(queue)) = Q \ {i}
  <2>1. i \in Ids /\ i \in Q /\ Tail(queue) \in Seq(Ids) /\ Distinct(Tail(queue))
        /\ ToSet(Tail(queue)) = Q \ {i}
    BY <1>1, <1>2, <1>3, TailDistinct
  <2> QED BY <1>2, <2>1
<1>6. /\ F \in Seq(Ids) /\ Distinct(F)
      /\ ToSet(F) = {k \in Ids : B[k] # {} /\ inDegree[k] = Cardinality(B[k])}
  BY <1>1, FreedOnes
<1>7. \A k \in Ids : /\ IsFiniteSet(B[k]) /\ IsFiniteSet(U[k])
                     /\ Cardinality(B[k]) \in Nat /\ Cardinality(U[k]) \in Nat
                     /\ Cardinality(B[k]) = 0 <=> B[k] = {}
                     /\ B[k] = {j \in InEdges(k) : edges[j][1] = i}
                     /\ U[k] = {j \in InEdges(k) : edges[j][1] \notin O}
  BY <1>1, EdgeSets DEF Unvisited
<1>8. U[i] = {}
  BY <1>1, <1>2, <1>5, EdgeSets
<1>9. /\ order' \in Seq(Ids) /\ Distinct(order') /\ ToSet(order') = O \cup {i}
      /\ Len(order') = n + 1 /\ order'[n + 1] = i
      /\ \A k \in 1..n : order'[k] = order[k]
  <2> DEFINE s == <<i>>
  <2>1. s \in Seq(Ids) /\ Distinct(s) /\ ToSet(s) = {i}
    BY <1>5 DEF Distinct, ToSet
  <2>2. order' = order \o s
    BY <1>2, <1>3, <1>5, AppendIsConcat
  <2> HIDE DEF s
  <2>3. order' \in Seq(Ids) /\ Distinct(order') /\ ToSet(order') = O \cup {i}
    BY <1>1, <1>2, <1>5, <2>1, <2>2, ConcatDistinct
  <2>4. Len(order') = n + 1 /\ order'[n + 1] = i /\ \A k \in 1..n : order'[k] = order[k]
    BY <1>1, <1>2, <1>3, <1>5
  <2> QED BY <2>3, <2>4
<1>10. ToSet(F) \cap (O \cup Q) = {}
  BY <1>2, <1>6, <1>7
<1>11. queue' \in Seq(Ids) /\ Distinct(queue') /\ ToSet(queue') = (Q \ {i}) \cup ToSet(F)
  <2> DEFINE s == Tail(queue)
  <2>1. s \in Seq(Ids) /\ Distinct(s) /\ ToSet(s) = Q \ {i} /\ ToSet(s) \cap ToSet(F) = {}
    BY <1>5, <1>10
  <2>2. queue' = s \o F
    BY <1>3
  <2> HIDE DEF s
  <2>3. ASSUME NEW E, NEW a \in Seq(E), NEW b \in Seq(E), Distinct(a), Distinct(b),
               ToSet(a) \cap ToSet(b) = {}
        PROVE  a \o b \in Seq(E) /\ Distinct(a \o b) /\ ToSet(a \o b) = ToSet(a) \cup ToSet(b)
    BY <2>3, ConcatDistinct
  <2>4. s \o F \in Seq(Ids) /\ Distinct(s \o F) /\ ToSet(s \o F) = ToSet(s) \cup ToSet(F)
    BY <1>6, <2>1, <2>3
  <2> QED BY <2>1, <2>2, <2>4
<1>12. ToSet(order') \cap ToSet(queue') = {}
  BY <1>2, <1>5, <1>9, <1>10, <1>11
<1>13. \A k \in Ids : Unvisited(k)' = U[k] \ B[k] /\ B[k] \subseteq U[k]
  <2> SUFFICES ASSUME NEW k \in Ids
               PROVE  Unvisited(k)' = U[k] \ B[k] /\ B[k] \subseteq U[k]
    OBVIOUS
  <2>1. InEdges(k)' = InEdges(k)
    BY <1>3 DEF InEdges
  <2>2. Unvisited(k)' = {j \in InEdges(k) : edges[j][1] \notin O \cup {i}}
    BY <1>3, <1>9, <2>1 DEF Unvisited
  <2> QED BY <1>5, <1>7, <2>2
<1>14. \A k \in Ids : /\ Cardinality(Unvisited(k)') = inDegree'[k]
                      /\ inDegree'[k] = inDegree[k] - Cardinality(B[k])
                      /\ inDegree'[k] \in Nat /\ inDegree[k] \in Nat
  <2> SUFFICES ASSUME NEW k \in Ids
               PROVE  /\ Cardinality(Unvisited(k)') = inDegree'[k]
                      /\ inDegree'[k] = inDegree[k] - Cardinality(B[k])
                      /\ inDegree'[k] \in Nat /\ inDegree[k] \in Nat
    OBVIOUS
  <2> DEFINE X == U[k]
             Y == B[k]
  <2>1. IsFiniteSet(X) /\ IsFiniteSet(Y) /\ Y \subseteq X /\ X \cap Y = Y
    BY <1>7, <1>13
  <2>2. Unvisited(k)' = X \ Y
    BY <1>13
  <2>3. inDegree'[k] = inDegree[k] - Cardinality(Y) /\ inDegree[k] = Cardinality(X)
    BY <1>2, <1>3
  <2>4. Cardinality(X) \in Nat
    BY <1>7
  <2> HIDE DEF X, Y
  <2>5. Cardinality(X \ Y) = Cardinality(X) - Cardinality(X \cap Y) /\ IsFiniteSet(X \ Y)
    BY <2>1, FS_Difference
  <2>6. Cardinality(X \ Y) \in Nat
    BY <2>5, FS_CardinalityType
  <2>7. Cardinality(X \ Y) = Cardinality(X) - Cardinality(Y)
    BY <2>1, <2>5
  <2>8. inDegree'[k] = Cardinality(X \ Y)
    BY <2>3, <2>7
  <2> QED BY <2>2, <2>3, <2>4, <2>6, <2>8 DEF Y
<1>15. inDegree' = [k \in Ids |-> Cardinality(Unvisited(k)')]
  <2>1. DOMAIN inDegree' = Ids /\ inDegree' = [k \in Ids |-> inDegree'[k]]
    BY <1>3
  <2> QED BY <1>14, <2>1
<1>16. \A k \in Ids : k \in ToSet(order') \cup ToSet(queue') <=> inDegree'[k] = 0
  <2> SUFFICES ASSUME NEW k \in Ids
               PROVE  k \in O \cup Q \cup ToSet(F) <=> inDegree'[k] = 0
    BY <1>5, <1>9, <1>11
  <2> DEFINE b == Cardinality(B[k])
             d == inDegree[k]
  <2>1. /\ inDegree'[k] = d - b /\ b \in Nat /\ d \in Nat /\ inDegree'[k] \in Nat
        /\ b = 0 <=> B[k] = {}
        /\ k \in O \cup Q <=> d = 0
        /\ k \in ToSet(F) <=> B[k] # {} /\ d = b
    BY <1>2, <1>6, <1>7, <1>14
  <2> HIDE DEF b, d
  <2>2. k \in ToSet(F) <=> b # 0 /\ d = b
    BY <2>1
  <2>3. (d = 0 \/ (b # 0 /\ d = b)) <=> d - b = 0
    BY <2>1
  <2> QED BY <2>1, <2>2, <2>3
<1>17. ASSUME NEW l \in 1..n + 1, NEW j \in 1..Len(edges), edges[j][2] = order'[l]
       PROVE  \E k \in 1..n + 1 : k < l /\ order'[k] = edges[j][1]
  <2>1. CASE l = n + 1
    <3>1. edges[j][2] = i
      BY <1>9, <1>17, <2>1
    <3>2. edges[j][1] \in O
      <4>1. j \in InEdges(i)
        BY <1>17, <3>1 DEF InEdges
      <4>2. U[i] = {l2 \in InEdges(i) : edges[l2][1] \notin O}
        BY <1>5, <1>7
      <4> QED BY <1>8, <4>1, <4>2
    <3>3. PICK k \in 1..n : order[k] = edges[j][1]
      BY <1>1, <1>2, <3>2, ToSetElements
    <3>4. k \in 1..n + 1 /\ k < l
      BY <1>2, <2>1
    <3> QED BY <1>9, <3>3, <3>4
  <2>2. CASE l \in 1..n
    <3>1. edges[j] \in Into(order[l])
      BY <1>9, <1>17, <2>2 DEF Into, EdgeSet
    <3>2. PICK k \in 1..n : k < l /\ order[k] = edges[j][1]
      BY <1>1, <2>2, <3>1 DEF OrderInv
    <3> QED BY <1>2, <1>9, <3>2
  <2> QED BY <1>2, <2>1, <2>2
<1>18. (\A l \in 1..Len(order) : \A e \in Into(order[l]) :
          \E k \in 1..Len(order) : k < l /\ order[k] = e[1])'
  <2>1. \A l \in 1..n + 1 : \A e \in {edges[j] : j \in 1..Len(edges)} :
          e[2] = order'[l] => \E k \in 1..n + 1 : k < l /\ order'[k] = e[1]
    BY <1>17
  <2>2. \A l \in 1..n + 1 : Into(order[l])' = {e \in {edges[j] : j \in 1..Len(edges)} : e[2] = order'[l]}
    BY <1>3 DEF Into, EdgeSet
  <2>3. Len(order') = n + 1
    BY <1>9
  <2> QED BY <2>1, <2>2, <2>3, SMTT(30)
<1>19. (order \in Seq(Ids) /\ queue \in Seq(Ids) /\ Distinct(order) /\ Distinct(queue))'
  BY <1>4, <1>9, <1>11 DEF Distinct
<1>20. (inDegree = [k \in Ids |-> Cardinality(Unvisited(k))])'
  BY <1>4, <1>15
<1>21. (\A k \in Ids : k \in ToSet(order) \cup ToSet(queue) <=> inDegree[k] = 0)'
  BY <1>4, <1>16 DEF ToSet
<1>22. (ToSet(order) \cap ToSet(queue) = {})'
  BY <1>12 DEF ToSet
<1> QED BY <1>4, <1>18, <1>19, <1>20, <1>21, <1>22 DEF OrderInv

\* With nothing left in the queue every operator has been visited: the
\* others would be a cycle.
LEMMA OrderComplete ==
  ASSUME BuilderInv, OrderInv, queue = << >>
  PROVE  ToSet(order) = Ids /\ Len(order) = Len(nodes)
<1> DEFINE C == Ids \ ToSet(order)
<1>1. /\ Valid /\ order \in Seq(Ids) /\ Distinct(order)
      /\ \A i \in Ids : i \in ToSet(order) <=> Cardinality(Unvisited(i)) = 0
  <2>1. ToSet(queue) = {}
    BY DEF ToSet
  <2> QED BY <2>1 DEF OrderInv
<1>2. ASSUME NEW i \in C PROVE \E e \in Into(i) : e[1] \in C
  <2>1. PICK j \in InEdges(i) : edges[j][1] \notin ToSet(order)
    BY <1>1, EdgeSets, ZenonT(30) DEF Unvisited
  <2>2. edges[j] \in Into(i)
    BY <2>1 DEF InEdges, Into, EdgeSet
  <2>3. edges[j][1] \in Ids
    BY <1>1, <2>2 DEF Valid, EdgesKnown, Into
  <2> QED BY <2>1, <2>2, <2>3
<1>3. C = {}
  BY <1>1, <1>2, NoCyclesExactly, GraphTypes DEF Valid, Cycle
<1>4. ToSet(order) = Ids
  BY <1>1, <1>3, ToSetElements
<1>5. Len(order) = Len(nodes)
  <2> DEFINE n == Len(order)
  <2>1. n \in Nat /\ DOMAIN order = 1..n /\ \A k \in 1..n : order[k] \in Ids
    BY <1>1, ElementType
  <2>2. order \in [1..n -> Ids] /\ \A i \in Ids : \E k \in 1..n : order[k] = i
    BY <1>1, <1>4, <2>1, ToSetElements
  <2>3. order \in Bijection(1..n, Ids)
    BY <1>1, <2>1, <2>2 DEF Distinct, Bijection, Injection, IsInjective, Surjection
  <2>4. ExistsBijection(1..n, Ids) /\ IsFiniteSet(1..n) /\ Cardinality(1..n) = n
    <3>1. ExistsBijection(1..n, Ids)
      BY <2>3 DEF ExistsBijection
    <3>2. IsFiniteSet(1..n) /\ Cardinality(1..n) = n
      BY <2>1, UptoFinite
    <3> QED BY <3>1, <3>2
  <2>5. Cardinality(Ids) = n /\ Cardinality(Ids) = Len(nodes)
    <3> DEFINE S == 1..n
               T == Ids
    <3>1. IsFiniteSet(S) /\ ExistsBijection(S, T) /\ Cardinality(S) = n
      BY <2>4
    <3>2. Cardinality(T) = Len(nodes)
      <4>1. Len(nodes) \in Nat
        BY GraphTypes
      <4> QED BY <4>1, UptoFinite DEF Ids
    <3> HIDE DEF S, T
    <3>3. Cardinality(T) = Cardinality(S)
      BY <3>1, FS_Bijection
    <3> QED BY <3>1, <3>2, <3>3 DEF T
  <2> QED BY <2>5
<1> QED BY <1>4, <1>5

\* topological_order() lists every operator once and after its inputs.
LEMMA OrderedTopologically == ASSUME BuilderInv, OrderInv PROVE OrderIsTopological
<1> SUFFICES ASSUME queue = << >>, NEW k \in 1..Len(order), NEW l \in 1..Len(order),
                    <<order[k], order[l]>> \in EdgeSet
             PROVE  k < l
  BY OrderComplete DEF OrderIsTopological
<1>1. PICK m \in 1..Len(order) : m < l /\ order[m] = order[k]
  BY DEF OrderInv, Into
<1> QED BY <1>1 DEF OrderInv, Distinct

-----------------------------------------------------------------------------
(* 5. Chains of operators                                                  *)

\* A linked list: every link goes to a later operator or ends.
Rising(link, n) ==
  link \in [1..n -> 0..n] /\ \A i \in 1..n : link[i] = 0 \/ i < link[i]

\* ChainFrom() for any links between n operators.
ChainOf(link, n, i) ==
  LET at[m \in Nat] ==
        IF m = 0 THEN i
        ELSE LET before == at[m - 1]
             IN  IF before = 0 THEN 0 ELSE link[before]
      length == Min({m \in 0..n : at[m] = 0} \cup {n})
  IN  [m \in 1..length |-> at[m - 1]]

\* ChainFrom() follows the links as they are.
LEMMA ChainFromIs == \A i : ChainFrom(i) = ChainOf(next, Len(nodes), i)
BY DEF ChainFrom, ChainOf

\* What the chain from an operator is: it starts there, goes from link to
\* link, and ends where a link does.
IsChain(link, n, i, s) ==
  /\ s \in Seq(1..n)
  /\ IF i = 0 THEN s = << >> ELSE Len(s) >= 1 /\ s[1] = i
  /\ \A k \in 1..Len(s) : link[s[k]] = IF k = Len(s) THEN 0 ELSE s[k + 1]

\* The recursion finds the chain: as the links rise it ends in time.
LEMMA ChainOfIsChain ==
  ASSUME NEW n \in Nat, NEW link, Rising(link, n), NEW i \in 0..n
  PROVE  IsChain(link, n, i, ChainOf(link, n, i))
<1> DEFINE S == 0..n
           g == [x \in S |-> IF x = 0 THEN 0 ELSE link[x]]
           Body(f) == [m \in Nat |-> IF m = 0 THEN i
                                    ELSE LET before == f[m - 1]
                                         IN  IF before = 0 THEN 0 ELSE link[before]]
           at == CHOOSE f : f = Body(f)
           length == Min({m \in S : at[m] = 0} \cup {n})
           s == [m \in 1..length |-> at[m - 1]]
<1>1. g \in [S -> S] /\ i \in S
  BY DEF Rising
<1>2. PICK f \in [Nat -> S] : f[0] = i /\ \A m \in Nat : f[m + 1] = g[f[m]]
  <2> HIDE DEF S, g
  <2>1. Iterated(S, i, g)
    BY <1>1, Iterates
  <2> QED BY <2>1 DEF Iterated
<1>3. f = Body(f)
  <2>1. ASSUME NEW m \in Nat PROVE f[m] = Body(f)[m]
    <3>1. CASE m = 0
      BY <1>2, <3>1
    <3>2. CASE m # 0
      <4>1. m - 1 \in Nat /\ (m - 1) + 1 = m
        BY <3>2
      <4>2. f[m - 1] \in S /\ f[m] = g[f[m - 1]]
        BY <1>2, <4>1
      <4> QED BY <3>2, <4>2
    <3> QED BY <3>1, <3>2
  <2>2. f = [m \in Nat |-> f[m]]
    BY <1>2
  <2> QED BY <2>1, <2>2
<1>4. at = Body(at)
  <2> HIDE DEF Body
  <2> QED BY <1>3
<1>5. ChainOf(link, n, i) = s
  BY DEF ChainOf
<1> HIDE DEF at
<1>6. at[0] = i /\ \A m \in Nat : at[m + 1] = IF at[m] = 0 THEN 0 ELSE link[at[m]]
  <2>1. at[0] = i
    BY <1>4
  <2>2. ASSUME NEW m \in Nat PROVE at[m + 1] = IF at[m] = 0 THEN 0 ELSE link[at[m]]
    <3>1. m + 1 \in Nat /\ m + 1 # 0 /\ (m + 1) - 1 = m
      OBVIOUS
    <3>2. at[m + 1] = Body(at)[m + 1]
      BY <1>4
    <3> QED BY <3>1, <3>2
  <2> QED BY <2>1, <2>2
<1> HIDE DEF Body
<1> DEFINE T == {m \in Nat : at[m] \in S /\ (at[m] = 0 \/ m < at[m])}
<1>7. \A m \in Nat : m \in T
  <2>1. 0 \in T
    BY <1>6
  <2>2. ASSUME NEW m \in Nat, m \in T PROVE m + 1 \in T
    <3>1. at[m] \in S /\ (at[m] = 0 \/ m < at[m])
      BY <2>2
    <3>2. CASE at[m] = 0
      BY <1>6, <3>2
    <3>3. CASE at[m] # 0
      <4>1. at[m] \in 1..n /\ m < at[m]
        BY <3>1, <3>3
      <4>2. at[m + 1] = link[at[m]] /\ at[m + 1] \in S /\ (at[m + 1] = 0 \/ at[m] < at[m + 1])
        BY <1>6, <3>3, <4>1 DEF Rising
      <4>3. at[m + 1] = 0 \/ m + 1 < at[m + 1]
        BY <4>1, <4>2
      <4> QED BY <4>2, <4>3
    <3> QED BY <3>2, <3>3
  <2> HIDE DEF T
  <2> QED BY <2>1, <2>2, Induction
<1>8. \A m \in Nat : at[m] \in 0..n /\ (at[m] = 0 \/ m < at[m])
  BY <1>7
<1> HIDE DEF T
<1>9. at[n] = 0
  BY <1>8
<1>10. /\ length \in 0..n /\ at[length] = 0
       /\ \A m \in Nat : m < length => at[m] # 0
  <2> DEFINE Z == {m \in S : at[m] = 0} \cup {n}
  <2>1. Z \subseteq Nat /\ Z # {} /\ \A m \in Z : m \in 0..n /\ at[m] = 0
    BY <1>9
  <2>2. Min(Z) \in Z /\ \A m \in Z : Min(Z) <= m
    <3> HIDE DEF Z
    <3> QED BY <2>1, MinProperties
  <2>3. ASSUME NEW m \in Nat, m < length, at[m] = 0 PROVE FALSE
    <3>1. m \in Z
      BY <2>1, <2>2, <2>3
    <3> QED BY <2>1, <2>2, <2>3, <3>1
  <2> QED BY <2>1, <2>2, <2>3
<1> HIDE DEF length
<1>11. s \in Seq(1..n) /\ Len(s) = length /\ \A k \in 1..length : s[k] = at[k - 1]
  <2>1. ASSUME NEW k \in 1..length PROVE at[k - 1] \in 1..n
    <3>1. k - 1 \in Nat /\ k - 1 < length
      BY <1>10, <2>1
    <3> QED BY <1>8, <1>10, <3>1
  <2> QED BY <1>10, <2>1
<1>12. IF i = 0 THEN s = << >> ELSE Len(s) >= 1 /\ s[1] = i
  <2>1. CASE i = 0
    <3>1. length = 0
      BY <1>6, <1>10, <2>1
    <3> QED BY <1>11, <2>1, <3>1
  <2>2. CASE i # 0
    <3>1. length # 0
      BY <1>6, <1>10, <2>2
    <3> QED BY <1>6, <1>10, <1>11, <2>2, <3>1
  <2> QED BY <2>1, <2>2
<1> HIDE DEF s
<1>13. ASSUME NEW k \in 1..Len(s) PROVE link[s[k]] = IF k = Len(s) THEN 0 ELSE s[k + 1]
  <2>1. k - 1 \in Nat /\ k - 1 < length /\ (k - 1) + 1 = k /\ k \in 1..length
    BY <1>10, <1>11
  <2>2. at[k] = link[s[k]]
    <3>1. at[k - 1] # 0 /\ s[k] = at[k - 1]
      BY <1>10, <1>11, <2>1
    <3>2. at[(k - 1) + 1] = link[at[k - 1]]
      BY <1>6, <2>1, <3>1
    <3> QED BY <2>1, <3>1, <3>2
  <2>3. k # length => k + 1 \in 1..length /\ (k + 1) - 1 = k
    BY <1>10, <2>1
  <2> QED BY <1>10, <1>11, <2>2, <2>3
<1> QED BY <1>5, <1>11, <1>12, <1>13 DEF IsChain

\* Of two chains from one operator each is a beginning of the other.
LEMMA ChainPrefix ==
  ASSUME NEW n \in Nat, NEW link, NEW i, NEW s, NEW t,
         IsChain(link, n, i, s), IsChain(link, n, i, t)
  PROVE  Len(s) <= Len(t) /\ \A k \in 1..Len(s) : k \in 1..Len(t) /\ t[k] = s[k]
<1>1. Len(s) \in Nat /\ Len(t) \in Nat /\ \A k \in 1..Len(s) : s[k] \in 1..n
  BY DEF IsChain
<1> DEFINE T == {k \in Nat : k \in 1..Len(s) => k \in 1..Len(t) /\ t[k] = s[k]}
<1>2. \A k \in Nat : k \in T
  <2>1. 0 \in T
    OBVIOUS
  <2>2. ASSUME NEW k \in Nat, k \in T PROVE k + 1 \in T
    <3> SUFFICES ASSUME k + 1 \in 1..Len(s) PROVE k + 1 \in 1..Len(t) /\ t[k + 1] = s[k + 1]
      OBVIOUS
    <3>1. CASE k = 0
      <4>1. s # << >>
        BY <1>1
      <4>2. i # 0
        BY <4>1 DEF IsChain
      <4> QED BY <1>1, <3>1, <4>2 DEF IsChain
    <3>2. CASE k # 0
      <4>1. k \in 1..Len(s) /\ k # Len(s)
        BY <1>1, <3>2
      <4>2. k \in 1..Len(t) /\ t[k] = s[k]
        BY <2>2, <4>1
      <4>3. link[s[k]] = s[k + 1] /\ s[k + 1] # 0
        <5>1. link[s[k]] = s[k + 1]
          BY <4>1 DEF IsChain
        <5> QED BY <1>1, <5>1
      <4>4. k # Len(t) /\ t[k + 1] = s[k + 1]
        BY <4>2, <4>3 DEF IsChain
      <4> QED BY <1>1, <4>2, <4>4
    <3> QED BY <3>1, <3>2
  <2> HIDE DEF T
  <2> QED BY <2>1, <2>2, Induction
<1>3. \A k \in 1..Len(s) : k \in 1..Len(t) /\ t[k] = s[k]
  <2>1. \A k \in 1..Len(s) : k \in Nat
    OBVIOUS
  <2> QED BY <1>2, <2>1
<1>4. Len(s) <= Len(t)
  <2>1. CASE Len(s) = 0
    BY <1>1, <2>1
  <2>2. CASE Len(s) # 0
    <3>1. Len(s) \in 1..Len(s)
      BY <1>1, <2>2
    <3> QED BY <1>1, <1>3, <3>1
  <2> QED BY <2>1, <2>2
<1> QED BY <1>3, <1>4

\* There is one chain from an operator.
LEMMA ChainUnique ==
  ASSUME NEW n \in Nat, NEW link, NEW i, NEW s, NEW t,
         IsChain(link, n, i, s), IsChain(link, n, i, t)
  PROVE  s = t
<1>1. Len(s) \in Nat /\ Len(t) \in Nat /\ s \in Seq(1..n) /\ t \in Seq(1..n)
  BY DEF IsChain
<1>2. Len(s) <= Len(t) /\ Len(t) <= Len(s) /\ \A k \in 1..Len(s) : t[k] = s[k]
  BY ChainPrefix
<1>3. Len(s) = Len(t)
  BY <1>1, <1>2
<1>4. /\ DOMAIN s = 1..Len(s) /\ s = [k \in DOMAIN s |-> s[k]]
      /\ DOMAIN t = 1..Len(t) /\ t = [k \in DOMAIN t |-> t[k]]
  BY <1>1
<1>5. DOMAIN s = DOMAIN t /\ \A k \in DOMAIN s : s[k] = t[k]
  BY <1>2, <1>3, <1>4
<1> QED BY <1>4, <1>5

\* The operators of a chain ascend.
LEMMA ChainAscends ==
  ASSUME NEW n \in Nat, NEW link, Rising(link, n), NEW i, NEW s, IsChain(link, n, i, s),
         NEW k \in 1..Len(s), NEW l \in 1..Len(s), k <= l
  PROVE  s[k] <= s[l]
<1>1. Len(s) \in Nat /\ \A m \in 1..Len(s) : s[m] \in 1..n
  BY DEF IsChain
<1> DEFINE T == {m \in Nat : m \in k..Len(s) => s[k] <= s[m]}
<1>2. \A m \in Nat : m \in T
  <2>1. 0 \in T
    BY <1>1
  <2>2. ASSUME NEW m \in Nat, m \in T PROVE m + 1 \in T
    <3> SUFFICES ASSUME m + 1 \in k..Len(s) PROVE s[k] <= s[m + 1]
      OBVIOUS
    <3>1. CASE m + 1 = k
      BY <1>1, <3>1
    <3>2. CASE m + 1 # k
      <4>1. m \in k..Len(s) /\ m \in 1..Len(s) /\ m + 1 \in 1..Len(s) /\ m # Len(s)
        BY <1>1, <3>2
      <4>2. s[k] <= s[m]
        BY <2>2, <4>1
      <4>3. link[s[m]] = s[m + 1]
        BY <4>1 DEF IsChain
      <4>4. s[k] \in 1..n /\ s[m] \in 1..n /\ s[m + 1] \in 1..n
        BY <1>1, <4>1
      <4>5. link[s[m]] = 0 \/ s[m] < link[s[m]]
        BY <4>4 DEF Rising
      <4> DEFINE a == s[k]
                 b == s[m]
                 c == s[m + 1]
      <4>6. a \in 1..n /\ b \in 1..n /\ c \in 1..n /\ a <= b /\ b < c
        BY <4>2, <4>3, <4>4, <4>5
      <4> HIDE DEF a, b, c
      <4>7. a <= c
        BY <4>6
      <4> QED BY <4>7 DEF a, c
    <3> QED BY <3>1, <3>2
  <2> HIDE DEF T
  <2> QED BY <2>1, <2>2, Induction
<1>3. l \in Nat /\ l \in k..Len(s)
  BY <1>1
<1> QED BY <1>2, <1>3

\* What cutting a chain s at its p-th operator does: the chain ends there, and
\* the chains that end before it starts are as they were.
CutsOff(link, n, i, s, p, cut) ==
  /\ Rising(cut, n) /\ s[p] \in 1..n /\ i \in 1..n /\ i <= s[p]
  /\ ChainOf(cut, n, i) = [k \in 1..p |-> s[k]]
  /\ link[s[p]] \in 0..n /\ (link[s[p]] = 0 \/ s[p] < link[s[p]])
  /\ \A j \in 0..n : LET t == ChainOf(link, n, j)
                     IN  t # << >> /\ t[Len(t)] < i => ChainOf(cut, n, j) = t

\* A cut does just that.
LEMMA CutChains ==
  ASSUME NEW n \in Nat, NEW link, Rising(link, n), NEW i \in 0..n,
         NEW s, s = ChainOf(link, n, i), NEW p \in 1..Len(s),
         NEW cut, cut = [link EXCEPT ![s[p]] = 0]
  PROVE  CutsOff(link, n, i, s, p, cut)
<1> DEFINE w == s[p]
<1>1. /\ IsChain(link, n, i, s) /\ Len(s) \in Nat /\ s \in Seq(1..n)
      /\ \A k \in 1..Len(s) : s[k] \in 1..n
  <2>1. IsChain(link, n, i, s)
    BY ChainOfIsChain
  <2> QED BY <2>1 DEF IsChain
<1>2. w \in 1..n /\ p \in Nat /\ p <= Len(s) /\ 1 <= p
  BY <1>1
<1>3. i # 0 /\ s[1] = i
  <2>1. s # << >>
    BY <1>1, <1>2
  <2> QED BY <1>1, <2>1 DEF IsChain
<1>4. i <= w
  <2>1. 1 \in 1..Len(s)
    BY <1>1, <1>2
  <2> QED BY <1>1, <1>2, <1>3, <2>1, ChainAscends
<1>5. Rising(cut, n)
  BY <1>2 DEF Rising
<1>6. link[w] \in 0..n /\ (link[w] = 0 \/ w < link[w])
  BY <1>2 DEF Rising
<1>7. \A x \in 1..n : cut[x] = IF x = w THEN 0 ELSE link[x]
  BY DEF Rising
<1> DEFINE u == [k \in 1..p |-> s[k]]
<1>8. IsChain(cut, n, i, u)
  <2>1. u \in Seq(1..n) /\ Len(u) = p /\ \A k \in 1..p : u[k] = s[k]
    BY <1>1, <1>2
  <2>2. u[1] = i
    BY <1>2, <1>3, <2>1
  <2> HIDE DEF u
  <2>3. ASSUME NEW k \in 1..p PROVE cut[u[k]] = IF k = p THEN 0 ELSE u[k + 1]
    <3>1. CASE k = p
      BY <1>2, <1>7, <2>1, <3>1
    <3>2. CASE k # p
      <4>1. k \in 1..Len(s) /\ k + 1 \in 1..Len(s) /\ k # Len(s) /\ k + 1 \in 1..p /\ k + 1 <= p
        BY <1>1, <1>2, <3>2
      <4>2. link[s[k]] = s[k + 1]
        BY <1>1, <4>1 DEF IsChain
      <4>3. s[k] < s[k + 1] /\ s[k + 1] <= w
        <5>1. s[k + 1] <= s[p]
          BY <1>1, <4>1, ChainAscends
        <5>2. s[k] < link[s[k]]
          <6>1. s[k] \in 1..n /\ s[k + 1] \in 1..n
            BY <1>1, <4>1
          <6>2. link[s[k]] = 0 \/ s[k] < link[s[k]]
            BY <6>1 DEF Rising
          <6> QED BY <4>2, <6>1, <6>2
        <5> QED BY <4>2, <5>1, <5>2
      <4>4. s[k] # w
        BY <1>1, <1>2, <4>1, <4>3
      <4> QED BY <1>1, <1>7, <2>1, <3>2, <4>1, <4>2, <4>4, ZenonT(30)
    <3> QED BY <3>1, <3>2
  <2> QED BY <1>2, <1>3, <2>1, <2>2, <2>3 DEF IsChain
<1>9. ChainOf(cut, n, i) = u
  <2>1. IsChain(cut, n, i, ChainOf(cut, n, i))
    BY <1>5, ChainOfIsChain
  <2> HIDE DEF u
  <2> QED BY <1>8, <2>1, ChainUnique
<1>10. ASSUME NEW j \in 0..n, NEW t, t = ChainOf(link, n, j), t # << >>, t[Len(t)] < i
       PROVE  ChainOf(cut, n, j) = t
  <2>1. IsChain(link, n, j, t) /\ Len(t) \in Nat /\ t \in Seq(1..n)
        /\ \A k \in 1..Len(t) : t[k] \in 1..n
    <3>1. IsChain(link, n, j, t)
      BY <1>10, ChainOfIsChain
    <3> QED BY <3>1 DEF IsChain
  <2>2. ASSUME NEW k \in 1..Len(t) PROVE cut[t[k]] = link[t[k]]
    <3>1. Len(t) \in 1..Len(t) /\ k <= Len(t)
      BY <2>1
    <3>2. t[k] <= t[Len(t)]
      BY <2>1, <3>1, ChainAscends
    <3>3. t[k] # w
      BY <1>2, <1>4, <1>10, <2>1, <3>1, <3>2
    <3> QED BY <1>7, <2>1, <3>3
  <2>3. IsChain(cut, n, j, t)
    BY <2>1, <2>2 DEF IsChain
  <2>4. IsChain(cut, n, j, ChainOf(cut, n, j))
    BY <1>5, ChainOfIsChain
  <2> QED BY <2>3, <2>4, ChainUnique
<1> HIDE DEF u
<1>11. i \in 1..n
  BY <1>3
<1>12. \A j \in 0..n : LET t == ChainOf(link, n, j)
                       IN  t # << >> /\ t[Len(t)] < i => ChainOf(cut, n, j) = t
  BY <1>10
<1> QED BY <1>2, <1>4, <1>5, <1>6, <1>9, <1>11, <1>12 DEF u, CutsOff

-----------------------------------------------------------------------------
(* 6. From the order to the pipelines                                      *)

\* The graph is not changed once it is built.
LEMMA GraphKept ==
  ASSUME UNCHANGED vars
  PROVE  /\ Ids' = Ids /\ Len(nodes)' = Len(nodes)
         /\ BuilderInv => BuilderInv'
         /\ OrderInv /\ UNCHANGED <<queue, inDegree, order>> => OrderInv'
<1>1. UNCHANGED <<nodes, edges>>
  BY DEF vars
<1>2. Ids' = Ids /\ EdgeSet' = EdgeSet /\ Len(nodes)' = Len(nodes)
  BY <1>1 DEF Ids, EdgeSet
<1>3. BuilderInv => BuilderInv'
  BY <1>1, <1>2 DEF BuilderInv, TypeOK, Fed, InputsFirst, InEdges
<1>4. Valid' = Valid
  BY <1>1, <1>2 DEF Valid, NoCycles, EdgesKnown, VisitedIn, InDegreeAfter, InDegree, InEdges, Into
<1>5. ASSUME OrderInv, UNCHANGED <<queue, inDegree, order>> PROVE OrderInv'
  <2>1. \A i \in Ids : Unvisited(i)' = Unvisited(i)
    BY <1>1, <1>5 DEF Unvisited, InEdges
  <2>2. (inDegree = [i \in Ids |-> Cardinality(Unvisited(i))])'
    BY <1>2, <1>5, <2>1 DEF OrderInv
  <2>3. (\A l \in 1..Len(order) : \A e \in Into(order[l]) :
           \E k \in 1..Len(order) : k < l /\ order[k] = e[1])'
    BY <1>2, <1>5 DEF OrderInv, Into
  <2>4. (order \in Seq(Ids) /\ queue \in Seq(Ids) /\ Distinct(order) /\ Distinct(queue))'
    BY <1>2, <1>5 DEF OrderInv, Distinct
  <2>5. ToSet(order)' = ToSet(order) /\ ToSet(queue)' = ToSet(queue)
    BY <1>5 DEF ToSet
  <2>6. (ToSet(order) \cap ToSet(queue) = {})'
    <3>1. ToSet(order) \cap ToSet(queue) = {}
      BY <1>5 DEF OrderInv
    <3> QED BY <2>5, <3>1
  <2>7. (\A i \in Ids : i \in ToSet(order) \cup ToSet(queue) <=> inDegree[i] = 0)'
    BY <1>2, <1>5, <2>5 DEF OrderInv
  <2> QED BY <1>4, <1>5, <2>2, <2>3, <2>4, <2>6, <2>7 DEF OrderInv
<1> QED BY <1>2, <1>3, <1>5

\* Without a join every link that compile() sets goes to a later operator.
LEMMA LinksRise ==
  ASSUME BuilderInv, ~ HasJoin
  PROVE  Rising(LinkAll, Len(nodes))
<1>1. Len(nodes) \in Nat /\ Len(edges) \in Nat
  BY GraphTypes
<1>2. ASSUME NEW i \in Ids
      PROVE  LinkAll[i] \in 0..Len(nodes) /\ (LinkAll[i] = 0 \/ i < LinkAll[i])
  <2>1. LinkAll[i] = IF OutEdges(i) = {} THEN 0 ELSE edges[Max(OutEdges(i))][2]
    BY DEF LinkAll
  <2>2. CASE OutEdges(i) = {}
    BY <1>1, <2>1, <2>2
  <2>3. CASE OutEdges(i) # {}
    <3> DEFINE O == OutEdges(i)
               j == Max(O)
    <3>1. j \in O
      <4>1. O \subseteq Nat /\ O # {} /\ \A x \in O : x <= Len(edges)
        BY <1>1, <2>3 DEF OutEdges
      <4> HIDE DEF O
      <4> QED BY <1>1, <4>1, MaxProperties
    <3>2. j \in 1..Len(edges) /\ edges[j][1] = i
      BY <3>1 DEF OutEdges
    <3> HIDE DEF j
    <3>3. edges[j][2] \in Ids
      BY <3>2, GraphTypes
    <3>4. edges[j][1] < edges[j][2]
      BY <3>2, <3>3 DEF BuilderInv, InputsFirst, HasJoin
    <3>5. LinkAll[i] = edges[j][2]
      BY <2>1, <2>3 DEF j
    <3>6. edges[j][2] \in 0..Len(nodes)
      BY <1>1, <3>3 DEF Ids
    <3> QED BY <3>2, <3>4, <3>5, <3>6
  <2> QED BY <2>2, <2>3
<1>3. DOMAIN LinkAll = 1..Len(nodes) /\ LinkAll = [i \in 1..Len(nodes) |-> LinkAll[i]]
  BY DEF LinkAll, Ids
<1> QED BY <1>2, <1>3 DEF Rising, Ids

\* The first operator of the order is a source.
LEMMA SourceFirst ==
  ASSUME BuilderInv, OrderInv, queue = << >>
  PROVE  Head(order) \in Ids /\ nodes[Head(order)].kind = "source"
<1>1. order \in Seq(Ids) /\ Len(order) = Len(nodes) /\ Len(nodes) \in Nat /\ nodes # << >>
      /\ nodes \in Seq([kind : {"source"} \cup Transforms \cup Joins, lateness : Nat])
  BY OrderComplete, GraphTypes DEF OrderInv, Valid, BuilderInv
<1>2. Len(order) >= 1 /\ order # << >>
  BY <1>1
<1>3. 1 \in 1..Len(order) /\ Head(order) = order[1] /\ order[1] \in Ids
  BY <1>1, <1>2, ElementType
<1>4. Into(order[1]) = {}
  <2> SUFFICES ASSUME NEW e \in Into(order[1]) PROVE FALSE
    OBVIOUS
  <2>1. PICK k \in 1..Len(order) : k < 1
    BY <1>3 DEF OrderInv
  <2> QED BY <2>1
<1>5. InEdges(order[1]) = {}
  <2> SUFFICES ASSUME NEW j \in InEdges(order[1]) PROVE FALSE
    OBVIOUS
  <2>1. edges[j] \in Into(order[1])
    BY DEF InEdges, Into, EdgeSet
  <2> QED BY <1>4, <2>1
<1> QED BY <1>3, <1>5 DEF BuilderInv, Fed

\* The roots of all pipelines so far, the one in the making included.
AllRoots == IF phase = "cutting" THEN Append(pipelines, current) ELSE pipelines

Root == [reads : 0..Len(nodes), first : 0..Len(nodes)]

\* Every pipeline but the last ends at its only window, which the next one
\* reads, and lies before the last.
EndsAtWindow(roots, link, k) ==
  LET ops == ChainOf(link, Len(nodes), roots[k].first)
  IN  /\ ops # << >> /\ WindowsOf(ops) = {Len(ops)}
      /\ roots[k + 1].reads = Last(ops)
      /\ roots[Len(roots)].first = 0 \/ Last(ops) < roots[Len(roots)].first

\* build(): the pipelines that have been cut off, and the rest.
CutInv ==
  /\ queue = << >>
  /\ Rising(next, Len(nodes))
  /\ AllRoots \in Seq(Root) /\ Len(AllRoots) >= 1
  /\ AllRoots[1].reads = 0 /\ AllRoots[1].first \in Ids
  /\ nodes[AllRoots[1].first].kind = "source"
  /\ \A k \in 1..Len(AllRoots) - 1 : EndsAtWindow(AllRoots, next, k)
  /\ phase = "done" =>
       WindowsOf(ChainOf(next, Len(nodes), AllRoots[Len(AllRoots)].first)) = {}

\* compile() makes one chain, which starts at a source.
LEMMA CompileCuts ==
  ASSUME BuilderInv, OrderInv, pipelines = << >>, Compile
  PROVE  CutInv' /\ current' \in Root
<1>1. /\ UNCHANGED vars /\ queue = << >> /\ queue' = queue /\ ~ HasJoin /\ next' = LinkAll
      /\ current' = [reads |-> 0, first |-> Head(order)]
      /\ phase' = "cutting" /\ pipelines' = << >>
  BY DEF Compile
<1>2. nodes' = nodes /\ Ids' = Ids /\ Len(nodes) \in Nat
  BY <1>1, GraphTypes DEF vars, Ids
<1>3. Head(order) \in Ids /\ nodes[Head(order)].kind = "source"
  BY <1>1, SourceFirst
<1>4. current' \in Root /\ Root' = Root
  BY <1>1, <1>2, <1>3 DEF Root, Ids
<1>5. AllRoots' = <<current'>>
  <2>1. AllRoots' = Append(<< >>, current')
    BY <1>1 DEF AllRoots
  <2> QED BY <2>1
<1>6. /\ AllRoots' \in Seq(Root') /\ Len(AllRoots') = 1 /\ AllRoots'[1] = current'
  BY <1>4, <1>5
<1>7. AllRoots'[1].reads = 0 /\ AllRoots'[1].first \in Ids' /\ nodes'[AllRoots'[1].first].kind = "source"
  BY <1>1, <1>2, <1>3, <1>6
<1>8. Rising(next', Len(nodes'))
  BY <1>1, <1>2, LinksRise
<1>9. 1..Len(AllRoots') - 1 = {}
  BY <1>6
<1>10. (\A k \in 1..Len(AllRoots) - 1 : EndsAtWindow(AllRoots, next, k))'
  BY <1>9
<1>11. (Rising(next, Len(nodes)))'
  BY <1>8 DEF Rising
<1> QED BY <1>1, <1>4, <1>6, <1>7, <1>10, <1>11 DEF CutInv

\* The windows among the first operators of a chain.
LEMMA FirstWindow ==
  ASSUME NEW s, Len(s) \in Nat, WindowsOf(s) # {}, NEW p, p = Min(WindowsOf(s))
  PROVE  /\ p \in 1..Len(s) /\ WindowsOf([k \in 1..p |-> s[k]]) = {p}
<1> DEFINE W == WindowsOf(s)
           u == [k \in 1..p |-> s[k]]
<1>1. W \subseteq Nat /\ \A k \in W : k \in 1..Len(s) /\ IsWindow(s[k])
  BY DEF WindowsOf
<1>2. p \in W /\ \A k \in W : p <= k
  <2> HIDE DEF W
  <2> QED BY <1>1, MinProperties DEF W
<1>3. p \in 1..Len(s) /\ IsWindow(s[p])
  BY <1>1, <1>2
<1>4. Len(u) = p /\ \A k \in 1..p : u[k] = s[k]
  BY <1>3
<1>5. ASSUME NEW k \in 1..p, IsWindow(s[k]) PROVE k = p
  <2>1. k \in W
    BY <1>3, <1>5 DEF WindowsOf
  <2>2. p <= k
    BY <1>2, <2>1
  <2> QED BY <1>3, <2>2
<1> HIDE DEF u
<1>6. WindowsOf(u) = {p}
  <2>1. p \in 1..p
    BY <1>3
  <2> QED BY <1>3, <1>4, <1>5, <2>1 DEF WindowsOf
<1> QED BY <1>3, <1>6 DEF u

\* Cutting at a window adds a pipeline that ends there.
LEMMA CutKeeps ==
  ASSUME BuilderInv, CutInv, current \in Root, CutAtWindow
  PROVE  CutInv' /\ current' \in Root
<1>1. PICK n, link, roots, m, c, s, p, w, cut, new :
        /\ n = Len(nodes) /\ link = next /\ roots = AllRoots /\ m = Len(roots)
        /\ c = current.first /\ s = ChainOf(link, n, c) /\ p = Min(WindowsOf(s))
        /\ w = s[p] /\ cut = [link EXCEPT ![w] = 0] /\ new = [reads |-> w, first |-> link[w]]
  OBVIOUS
<1>2. /\ UNCHANGED <<nodes, edges, queue, phase>> /\ phase = "cutting"
      /\ WindowsOf(s) # {} /\ next' = cut /\ current' = new
      /\ pipelines' = Append(pipelines, current)
  <2>1. ChainFrom(current.first) = s
    BY <1>1, ChainFromIs
  <2> QED BY <1>1, <2>1 DEF CutAtWindow, vars
<1>3. /\ n \in Nat /\ Ids = 1..n /\ c \in 0..n /\ current = [reads |-> current.reads, first |-> c]
      /\ Rising(link, n)
  BY <1>1, GraphTypes DEF Root, Ids, CutInv
<1>4. /\ roots = Append(pipelines, current) /\ roots \in Seq(Root) /\ m \in Nat /\ m >= 1
      /\ \A k \in 1..m : roots[k] \in Root /\ roots[k].first \in 0..n
  <2>1. roots = Append(pipelines, current) /\ roots \in Seq(Root) /\ m >= 1
    BY <1>1, <1>2 DEF AllRoots, CutInv
  <2>2. m \in Nat /\ \A k \in 1..m : roots[k] \in Root
    BY <1>1, <2>1, ElementType
  <2>3. \A r \in Root : r.first \in 0..n
    BY <1>1 DEF Root
  <2> QED BY <2>1, <2>2, <2>3
<1>5. roots[m] = current /\ roots[m].first = c
  <2>1. pipelines \in Seq(Root) \/ roots[m] = current
    BY <1>1, <1>2, <1>4 DEF AllRoots, CutInv
  <2> QED BY <1>1, <1>4, <2>1
<1>6. IsChain(link, n, c, s) /\ Len(s) \in Nat /\ \A k \in 1..Len(s) : s[k] \in 1..n
  <2>1. IsChain(link, n, c, s)
    BY <1>1, <1>3, ChainOfIsChain
  <2>2. s \in Seq(1..n)
    BY <2>1 DEF IsChain
  <2> QED BY <2>1, <2>2, ElementType
<1>7. p \in 1..Len(s) /\ WindowsOf([k \in 1..p |-> s[k]]) = {p}
  BY <1>1, <1>2, <1>6, FirstWindow
<1>8. /\ Rising(cut, n) /\ w \in 1..n /\ c \in 1..n /\ c <= w
      /\ ChainOf(cut, n, c) = [k \in 1..p |-> s[k]]
      /\ link[w] \in 0..n /\ (link[w] = 0 \/ w < link[w])
      /\ \A j \in 0..n : LET t == ChainOf(link, n, j)
                         IN  t # << >> /\ t[Len(t)] < c => ChainOf(cut, n, j) = t
  <2>1. /\ n \in Nat /\ Rising(link, n) /\ c \in 0..n /\ s = ChainOf(link, n, c) /\ p \in 1..Len(s)
        /\ cut = [link EXCEPT ![s[p]] = 0]
    BY <1>1, <1>3, <1>7
  <2>2. CutsOff(link, n, c, s, p, cut)
    BY <2>1, CutChains
  <2> QED BY <1>1, <2>2 DEF CutsOff
<1>9. new \in Root /\ new.reads = w /\ new.first = link[w]
  BY <1>1, <1>3, <1>8 DEF Root
<1> DEFINE more == Append(roots, new)
<1>10. /\ more \in Seq(Root) /\ Len(more) = m + 1 /\ more[m + 1] = new
       /\ \A k \in 1..m : more[k] = roots[k]
  BY <1>1, <1>4, <1>9
<1> HIDE DEF more
<1>11. AllRoots' = more
  BY <1>2, <1>4 DEF AllRoots, more
<1>12. EndsAtWindow(more, cut, m)
  <2> DEFINE u == [k \in 1..p |-> s[k]]
  <2>1. Len(u) = p /\ u # << >> /\ Last(u) = w
    BY <1>1, <1>7 DEF Last
  <2>2. ChainOf(cut, Len(nodes), more[m].first) = u
    <3>1. m \in 1..m
      BY <1>4
    <3>2. more[m].first = c
      BY <1>5, <1>10, <3>1
    <3> QED BY <1>1, <1>8, <3>2
  <2> HIDE DEF u
  <2>3. WindowsOf(u) = {Len(u)}
    BY <1>7, <2>1 DEF u
  <2>4. more[m + 1].reads = w /\ (more[Len(more)].first = 0 \/ w < more[Len(more)].first)
    BY <1>8, <1>9, <1>10
  <2> QED BY <2>1, <2>2, <2>3, <2>4 DEF EndsAtWindow
<1>13. ASSUME NEW k \in 1..m - 1 PROVE EndsAtWindow(more, cut, k)
  <2>1. /\ k \in 1..m /\ k + 1 \in 1..m /\ more[k] = roots[k] /\ more[k + 1] = roots[k + 1]
        /\ roots[k].first \in 0..n
    <3>1. k \in 1..m /\ k + 1 \in 1..m
      BY <1>4
    <3> QED BY <1>4, <1>10, <3>1
  <2> DEFINE t == ChainOf(link, n, roots[k].first)
  <2>2. /\ t # << >> /\ WindowsOf(t) = {Len(t)} /\ roots[k + 1].reads = Last(t)
        /\ c = 0 \/ Last(t) < c
    <3>1. EndsAtWindow(roots, link, k)
      BY <1>1, <1>13 DEF CutInv
    <3> QED BY <1>1, <1>5, <3>1 DEF EndsAtWindow
  <2>3. Last(t) \in 1..n
    <3>1. IsChain(link, n, roots[k].first, t)
      BY <1>3, <2>1, ChainOfIsChain
    <3> HIDE DEF t
    <3>2. t \in Seq(1..n)
      BY <3>1 DEF IsChain
    <3>3. Len(t) \in 1..Len(t) /\ Last(t) = t[Len(t)]
      BY <2>2, <3>2 DEF Last
    <3>4. \A i \in 1..Len(t) : t[i] \in 1..n
      BY <3>2, ElementType
    <3> QED BY <3>3, <3>4
  <2>4. t[Len(t)] < c
    BY <1>8, <2>2 DEF Last
  <2>5. ChainOf(cut, n, more[k].first) = t
    BY <1>8, <2>1, <2>2, <2>4
  <2> HIDE DEF t
  <2>6. more[Len(more)].first = 0 \/ Last(t) < more[Len(more)].first
    <3>1. more[Len(more)].first = link[w]
      BY <1>9, <1>10
    <3>2. Last(t) < c
      BY <1>8, <2>2
    <3> QED BY <1>8, <2>3, <3>1, <3>2
  <2> QED BY <1>1, <2>1, <2>2, <2>5, <2>6 DEF EndsAtWindow
<1>14. \A k \in 1..m : EndsAtWindow(more, cut, k)
  <2>1. \A k \in 1..m : k = m \/ k \in 1..m - 1
    BY <1>4
  <2> QED BY <1>12, <1>13, <2>1
<1>15. (\A k \in 1..Len(AllRoots) - 1 : EndsAtWindow(AllRoots, next, k))'
  <2>1. Len(more) - 1 = m
    BY <1>4, <1>10
  <2>2. \A k \in 1..m : EndsAtWindow(AllRoots, next, k)'
    <3>1. \A k \in 1..m : EndsAtWindow(AllRoots, next, k)' = EndsAtWindow(more, cut, k)
      BY <1>2, <1>11 DEF EndsAtWindow, WindowsOf, IsWindow, ChainOf, Last
    <3> QED BY <1>14, <3>1
  <2> QED BY <1>11, <2>1, <2>2
<1>16. (Rising(next, Len(nodes)))'
  BY <1>1, <1>2, <1>8 DEF Rising
<1>17. (AllRoots \in Seq(Root) /\ Len(AllRoots) >= 1)' /\ current' \in Root
  <2>1. Root' = Root
    BY <1>2 DEF Root
  <2> QED BY <1>2, <1>4, <1>9, <1>10, <1>11, <2>1
<1>18. (/\ AllRoots[1].reads = 0 /\ AllRoots[1].first \in Ids
        /\ nodes[AllRoots[1].first].kind = "source")'
  <2>1. more[1] = roots[1]
    BY <1>4, <1>10
  <2>2. roots[1].reads = 0 /\ roots[1].first \in Ids /\ nodes[roots[1].first].kind = "source"
    BY <1>1 DEF CutInv
  <2>3. Ids' = Ids
    BY <1>2 DEF Ids
  <2> QED BY <1>2, <1>11, <2>1, <2>2, <2>3
<1>19. (queue = << >>)' /\ phase' # "done"
  BY <1>2 DEF CutInv
<1> QED BY <1>15, <1>16, <1>17, <1>18, <1>19 DEF CutInv

\* The last pipeline has no window.
LEMMA LastKeeps ==
  ASSUME BuilderInv, CutInv, current \in Root, LastPipeline
  PROVE  CutInv' /\ current' \in Root
<1>1. /\ UNCHANGED <<nodes, edges, queue, next, current>> /\ phase = "cutting" /\ phase' = "done"
      /\ WindowsOf(ChainFrom(current.first)) = {}
      /\ pipelines' = Append(pipelines, current)
  BY DEF LastPipeline, vars
<1>2. AllRoots' = AllRoots /\ AllRoots = Append(pipelines, current)
  BY <1>1 DEF AllRoots
<1>3. Root' = Root /\ Ids' = Ids
  BY <1>1 DEF Root, Ids
<1>4. (\A k \in 1..Len(AllRoots) - 1 : EndsAtWindow(AllRoots, next, k))'
  <2>1. \A k \in 1..Len(AllRoots) - 1 : EndsAtWindow(AllRoots, next, k)
    BY DEF CutInv
  <2>2. \A k \in 1..Len(AllRoots) - 1 :
          EndsAtWindow(AllRoots, next, k)' = EndsAtWindow(AllRoots, next, k)
    BY <1>1, <1>2 DEF EndsAtWindow, WindowsOf, IsWindow, ChainOf, Last
  <2> QED BY <1>2, <2>1, <2>2
<1>5. (WindowsOf(ChainOf(next, Len(nodes), AllRoots[Len(AllRoots)].first)) = {})'
  <2>1. AllRoots[Len(AllRoots)] = current
    <3>1. AllRoots \in Seq(Root) /\ Len(AllRoots) >= 1
      BY DEF CutInv
    <3>2. AllRoots # << >> /\ Len(pipelines) \in Nat
      BY <1>2, <3>1
    <3> QED BY <1>2, <3>2
  <2>2. WindowsOf(ChainOf(next, Len(nodes), current.first)) = {}
    BY <1>1, ChainFromIs
  <2>3. WindowsOf(ChainOf(next, Len(nodes), current.first))'
          = WindowsOf(ChainOf(next, Len(nodes), current.first))
    BY <1>1 DEF WindowsOf, IsWindow, ChainOf
  <2> QED BY <1>1, <1>2, <2>1, <2>2, <2>3
<1>6. (Rising(next, Len(nodes)))'
  BY <1>1 DEF CutInv, Rising
<1>7. (/\ queue = << >> /\ AllRoots \in Seq(Root) /\ Len(AllRoots) >= 1
       /\ AllRoots[1].reads = 0 /\ AllRoots[1].first \in Ids
       /\ nodes[AllRoots[1].first].kind = "source")'
  BY <1>1, <1>2, <1>3 DEF CutInv
<1>8. current' \in Root
  BY <1>1
<1> QED BY <1>4, <1>5, <1>6, <1>7, <1>8 DEF CutInv

\* build(): a link is as compile() set it unless it was cut, and each root
\* but the first takes up where a cut was.
LinkInv ==
  /\ ~ HasJoin
  /\ \A x \in Ids : \/ next[x] = LinkAll[x]
                    \/ next[x] = 0 /\ \E k \in 2..Len(AllRoots) : AllRoots[k].reads = x
  /\ \A k \in 2..Len(AllRoots) : /\ AllRoots[k].reads \in Ids
                                 /\ AllRoots[k].first = LinkAll[AllRoots[k].reads]

\* While the links and roots stay, so does what is said of them.
LEMMA LinksKept ==
  ASSUME LinkInv, UNCHANGED <<nodes, edges, next>>, AllRoots' = AllRoots
  PROVE  LinkInv'
<1>1. Ids' = Ids /\ LinkAll' = LinkAll /\ HasJoin' = HasJoin
  BY DEF Ids, LinkAll, HasJoin, OutEdges
<1>2. ~ HasJoin'
  BY <1>1 DEF LinkInv
<1>3. (\A x \in Ids : \/ next[x] = LinkAll[x]
                      \/ next[x] = 0 /\ \E k \in 2..Len(AllRoots) : AllRoots[k].reads = x)'
  <2> HIDE DEF AllRoots
  <2> QED BY <1>1 DEF LinkInv
<1>4. (\A k \in 2..Len(AllRoots) : /\ AllRoots[k].reads \in Ids
                                   /\ AllRoots[k].first = LinkAll[AllRoots[k].reads])'
  BY <1>1 DEF LinkInv
<1> QED BY <1>2, <1>3, <1>4 DEF LinkInv

\* compile() sets all links and one root.
LEMMA CompileLinks == ASSUME pipelines = << >>, Compile PROVE LinkInv'
<1>1. /\ UNCHANGED <<nodes, edges>> /\ ~ HasJoin /\ next' = LinkAll
      /\ phase' = "cutting" /\ pipelines' = << >>
  BY DEF Compile, vars
<1>2. Ids' = Ids /\ LinkAll' = LinkAll /\ HasJoin' = HasJoin
  BY <1>1 DEF Ids, LinkAll, HasJoin, OutEdges
<1>3. AllRoots' = Append(<< >>, current')
  BY <1>1 DEF AllRoots
<1>4. Len(AllRoots') = 1
  BY <1>3
<1>5. 2..Len(AllRoots') = {}
  BY <1>4
<1> QED BY <1>1, <1>2, <1>5 DEF LinkInv

\* A cut takes away one link, which the new root holds.
LEMMA CutLinks ==
  ASSUME BuilderInv, CutInv, current \in Root, LinkInv, CutAtWindow
  PROVE  LinkInv'
<1>1. PICK n, link, roots, m, c, s, p, w, new :
        /\ n = Len(nodes) /\ link = next /\ roots = AllRoots /\ m = Len(roots)
        /\ c = current.first /\ s = ChainOf(link, n, c) /\ p = Min(WindowsOf(s))
        /\ w = s[p] /\ new = [reads |-> w, first |-> link[w]]
  OBVIOUS
<1>2. /\ UNCHANGED <<nodes, edges, phase>> /\ phase = "cutting"
      /\ WindowsOf(s) # {} /\ next' = [link EXCEPT ![w] = 0] /\ current' = new
      /\ pipelines' = Append(pipelines, current)
  <2>1. ChainFrom(current.first) = s
    BY <1>1, ChainFromIs
  <2> QED BY <1>1, <2>1 DEF CutAtWindow, vars
<1>3. /\ n \in Nat /\ Ids = 1..n /\ c \in 0..n /\ Rising(link, n)
  BY <1>1, GraphTypes DEF Root, Ids, CutInv
<1>4. roots = Append(pipelines, current) /\ roots \in Seq(Root) /\ m \in Nat /\ m >= 1
      /\ roots[m] = current
  <2>1. roots = Append(pipelines, current) /\ roots \in Seq(Root) /\ m >= 1
    BY <1>1, <1>2 DEF AllRoots, CutInv
  <2>2. roots # << >> /\ Len(pipelines) \in Nat
    BY <1>1, <2>1
  <2> QED BY <1>1, <2>1, <2>2
<1>5. IsChain(link, n, c, s) /\ Len(s) \in Nat
  <2>1. IsChain(link, n, c, s)
    BY <1>1, <1>3, ChainOfIsChain
  <2> QED BY <2>1 DEF IsChain
<1>6. p \in 1..Len(s)
  BY <1>1, <1>2, <1>5, FirstWindow
<1>7. w \in 1..n /\ c \in 1..n /\ c <= w
  <2>1. CutsOff(link, n, c, s, p, [link EXCEPT ![s[p]] = 0])
    BY <1>1, <1>3, <1>6, CutChains
  <2> QED BY <1>1, <2>1 DEF CutsOff
<1>8. Ids' = Ids /\ LinkAll' = LinkAll /\ HasJoin' = HasJoin /\ w \in Ids
  BY <1>2, <1>3, <1>7 DEF Ids, LinkAll, HasJoin, OutEdges
<1> DEFINE more == Append(roots, new)
<1>9. AllRoots' = more
  BY <1>1, <1>2, <1>4 DEF AllRoots
<1>10. Len(more) = m + 1 /\ more[m + 1] = new /\ \A k \in 1..m : more[k] = roots[k]
  BY <1>1, <1>4
<1>11. \A x \in Ids : next'[x] = IF x = w THEN 0 ELSE link[x]
  BY <1>2, <1>3 DEF Rising
<1>12. link[w] = LinkAll[w]
  <2> SUFFICES ASSUME NEW k \in 2..m, roots[k].reads = w PROVE FALSE
    BY <1>1, <1>8 DEF LinkInv
  <2>1. k - 1 \in 1..m - 1 /\ (k - 1) + 1 = k
    BY <1>4
  <2>2. EndsAtWindow(roots, link, k - 1)
    BY <1>1, <2>1 DEF CutInv
  <2>3. w < c
    BY <1>1, <1>4, <1>7, <2>1, <2>2 DEF EndsAtWindow
  <2> QED BY <1>7, <2>3
<1> HIDE DEF more
<1>13. (\A x \in Ids : \/ next[x] = LinkAll[x]
                       \/ next[x] = 0 /\ \E k \in 2..Len(AllRoots) : AllRoots[k].reads = x)'
  <2> SUFFICES ASSUME NEW x \in Ids
               PROVE  \/ next'[x] = LinkAll[x]
                      \/ next'[x] = 0 /\ \E k \in 2..m + 1 : more[k].reads = x
    BY <1>8, <1>9, <1>10
  <2>1. CASE x = w
    <3>1. m + 1 \in 2..m + 1 /\ new.reads = w
      BY <1>1, <1>4
    <3> QED BY <1>10, <1>11, <2>1, <3>1
  <2>2. CASE x # w
    <3>1. next'[x] = link[x]
      BY <1>11, <2>2
    <3>2. \A k \in 2..m : k \in 1..m /\ k \in 2..m + 1
      BY <1>4
    <3>3. \A k \in 2..m : k \in 2..m + 1 /\ more[k].reads = roots[k].reads
      BY <1>10, <3>2
    <3> QED BY <1>1, <3>1, <3>3 DEF LinkInv
  <2> QED BY <2>1, <2>2
<1>14. (\A k \in 2..Len(AllRoots) : /\ AllRoots[k].reads \in Ids
                                    /\ AllRoots[k].first = LinkAll[AllRoots[k].reads])'
  <2> SUFFICES ASSUME NEW k \in 2..m + 1
               PROVE  more[k].reads \in Ids /\ more[k].first = LinkAll[more[k].reads]
    BY <1>8, <1>9, <1>10
  <2>1. CASE k = m + 1
    BY <1>1, <1>8, <1>10, <1>12, <2>1
  <2>2. CASE k # m + 1
    <3>1. k \in 2..m /\ k \in 1..m
      BY <1>4, <2>2
    <3> QED BY <1>1, <1>10, <3>1 DEF LinkInv
  <2> QED BY <2>1, <2>2
<1> QED BY <1>8, <1>13, <1>14 DEF LinkInv

-----------------------------------------------------------------------------
(* 7. The queries                                                          *)

\* A query lists an end of each of the edges it is about.
LEMMA EndsListed ==
  ASSUME BuilderInv, NEW P \in SUBSET (1..Len(edges)), NEW end, NEW x
  PROVE  /\ Len(EndsOf(end, P)) = Cardinality(P)
         /\ ToSet(EndsOf(end, P)) = {edges[j][end] : j \in P}
         /\ Times(x, EndsOf(end, P)) = Cardinality({j \in P : edges[j][end] = x})
<1> DEFINE kept == Ascending(P)
           c == Cardinality(P)
           e(j) == edges[j][end]
           s == [k \in 1..c |-> e(kept[k])]
<1>1. /\ c \in Nat /\ DOMAIN kept = 1..c /\ \A k \in 1..c : kept[k] \in P
      /\ \A k, l \in 1..c : kept[k] = kept[l] => k = l
      /\ \A j \in P : \E k \in 1..c : kept[k] = j
  <2>1. IsFiniteSet(1..Len(edges)) /\ 1..Len(edges) \subseteq Int
    BY GraphTypes, UptoFinite
  <2>2. P \in SUBSET Int /\ IsFiniteSet(P)
    BY <2>1, FS_Subset
  <2> QED BY <2>2, AscendingLists
<1>2. EndsOf(end, P) = s
  <2>1. EndsOf(end, P) = [k \in DOMAIN kept |-> e(kept[k])]
    BY DEF EndsOf
  <2> HIDE DEF kept, e
  <2> QED BY <1>1, <2>1
<1> HIDE DEF kept, c, e
<1>3. Len(s) = c /\ DOMAIN s = 1..c
  BY <1>1
<1>4. ToSet(s) = {e(j) : j \in P}
  <2>1. \A k \in 1..c : s[k] \in {e(j) : j \in P}
    BY <1>1
  <2>2. \A j \in P : \E k \in 1..c : s[k] = e(j)
    BY <1>1
  <2> HIDE DEF s
  <2> QED BY <1>3, <2>1, <2>2 DEF ToSet
<1> DEFINE S == {k \in 1..c : s[k] = x}
           T == {j \in P : e(j) = x}
<1>5. Cardinality(S) = Cardinality(T)
  <2> DEFINE f == [k \in S |-> kept[k]]
  <2>1. IsFiniteSet(S)
    <3>1. S \in SUBSET (1..c) /\ IsFiniteSet(1..c)
      BY <1>1, UptoFinite
    <3> HIDE DEF S
    <3> QED BY <3>1, FS_Subset
  <2>2. \A k \in S : k \in 1..c /\ kept[k] \in T
    BY <1>1
  <2>3. \A j \in T : \E k \in S : kept[k] = j
    <3> SUFFICES ASSUME NEW j \in T PROVE \E k \in S : kept[k] = j
      OBVIOUS
    <3>1. PICK k \in 1..c : kept[k] = j
      BY <1>1
    <3>2. s[k] = x
      BY <3>1
    <3> QED BY <3>1, <3>2
  <2> HIDE DEF S, T, s
  <2>4. f \in Bijection(S, T)
    BY <1>1, <2>2, <2>3 DEF Bijection, Injection, IsInjective, Surjection
  <2>5. ExistsBijection(S, T)
    BY <2>4 DEF ExistsBijection
  <2> QED BY <2>1, <2>5, FS_Bijection
<1>6. Times(x, s) = Cardinality(S)
  BY <1>3 DEF Times
<1> QED BY <1>2, <1>3, <1>4, <1>5, <1>6 DEF c, e

\* What a walk finds: all that its start leads to, and no more than I if no
\* query leads out of I.
Found(I, start, q, found) ==
  /\ found \in SUBSET I /\ start \subseteq found
  /\ \A i \in found : q[i] \subseteq found

\* One more step of a walk.
Further(I, q) == [V \in SUBSET I |-> V \cup UNION {q[i] : i \in V}]

\* As many steps as there are operators are enough for a walk.
LEMMA WalkFinds ==
  ASSUME NEW I, IsFiniteSet(I), NEW start \in SUBSET I, NEW q \in [I -> SUBSET I],
         NEW f, f[0] = start, \A n \in Nat : f[n] \in SUBSET I => f[n + 1] = Further(I, q)[f[n]],
         f = [n \in Nat |-> f[n]]
  PROVE  Found(I, start, q, f[Cardinality(I)])
<1> DEFINE g == Further(I, q)
           N == Cardinality(I)
<1>1. g \in [SUBSET I -> SUBSET I] /\ \A V \in SUBSET I : V \subseteq g[V]
  BY DEF Further
<1> HIDE DEF g
<1>2. \A n \in Nat : f[n] \in SUBSET I
  <2> DEFINE T == {n \in Nat : f[n] \in SUBSET I}
  <2>1. 0 \in T
    OBVIOUS
  <2>2. ASSUME NEW n \in Nat, n \in T PROVE n + 1 \in T
    <3>1. f[n] \in SUBSET I
      BY <2>2
    <3>2. f[n + 1] = g[f[n]]
      BY <3>1 DEF g
    <3> QED BY <1>1, <3>1, <3>2
  <2>3. \A n \in Nat : n \in T
    <3> HIDE DEF T
    <3> QED BY <2>1, <2>2, Induction
  <2> QED BY <2>3
<1>3. \A n \in Nat : f[n + 1] = g[f[n]] /\ f[n] \subseteq f[n + 1]
  <2>1. \A n \in Nat : f[n + 1] = g[f[n]]
    BY <1>2 DEF g
  <2> QED BY <1>1, <1>2, <2>1
<1>4. f \in [Nat -> SUBSET I]
  BY <1>2
<1>5. N \in Nat
  BY FS_CardinalityType
<1>6. f[N + 1] = f[N]
  <2>1. /\ IsFiniteSet(I) /\ g \in [SUBSET I -> SUBSET I]
        /\ \A n \in Nat : f[n] \subseteq f[n + 1] /\ f[n + 1] = g[f[n]]
    BY <1>1, <1>3
  <2> HIDE DEF g
  <2> QED BY <1>4, <2>1, Stabilises, ZenonT(30)
<1>7. \A i \in f[N] : q[i] \subseteq f[N]
  <2>1. f[N] = g[f[N]] /\ f[N] \in SUBSET I
    BY <1>2, <1>3, <1>5, <1>6
  <2> DEFINE V == f[N]
  <2>2. V \in SUBSET I /\ V = V \cup UNION {q[i] : i \in V}
    BY <2>1 DEF g, Further
  <2> HIDE DEF V
  <2>3. \A i \in V : q[i] \subseteq V
    BY <2>2
  <2> QED BY <2>3 DEF V
<1>8. start \subseteq f[N]
  <2> DEFINE T == {n \in Nat : start \subseteq f[n]}
  <2>1. 0 \in T
    OBVIOUS
  <2>2. ASSUME NEW n \in Nat, n \in T PROVE n + 1 \in T
    BY <1>3, <2>2, SMTT(30)
  <2>3. \A n \in Nat : n \in T
    <3> HIDE DEF T
    <3> QED BY <2>1, <2>2, Induction
  <2> QED BY <1>5, <2>3
<1> QED BY <1>2, <1>5, <1>7, <1>8 DEF Found

\* Walk() with a query that goes from one end of an edge to the other.
WalkAlong(start, end, other) ==
  LET found[n \in Nat] ==
        IF n = 0 THEN start
        ELSE LET before == found[n - 1]
             IN  before \cup UNION {ToSet(EndsOf(end, {j \in 1..Len(edges) : edges[j][other] = i}))
                                      : i \in before}
  IN  found[Len(nodes)]

\* targets_of() and sources_of() go along the edges and against them.
LEMMA WalksAre ==
  \A start : /\ Walk(start, TargetsOf) = WalkAlong(start, 2, 1)
             /\ Walk(start, SourcesOf) = WalkAlong(start, 1, 2)
BY DEF Walk, WalkAlong, TargetsOf, SourcesOf, InEdges, OutEdges

\* Where the edges lead from each operator.
Leads(end, other) ==
  [i \in Ids |-> {edges[j][end] : j \in {l \in 1..Len(edges) : edges[l][other] = i}}]

\* The walk stays among the operators and stops only where nothing is left.
LEMMA WalkAlongFinds ==
  ASSUME BuilderInv, NEW start \in SUBSET Ids, NEW end, NEW other,
         \A j \in 1..Len(edges) : edges[j][end] \in Ids
  PROVE  Found(Ids, start, Leads(end, other), WalkAlong(start, end, other))
<1> DEFINE P(i) == {j \in 1..Len(edges) : edges[j][other] = i}
           q == Leads(end, other)
           I == Ids
           S == SUBSET I
           g == Further(I, q)
           Step(V) == V \cup UNION {ToSet(EndsOf(end, P(i))) : i \in V}
           Body(h) == [n \in Nat |-> IF n = 0 THEN start
                                    ELSE LET before == h[n - 1] IN Step(before)]
           at == CHOOSE h : h = Body(h)
<1>1. WalkAlong(start, end, other) = at[Len(nodes)]
  BY DEF WalkAlong
<1>2. q \in [I -> SUBSET I]
  BY DEF Leads
<1>3. IsFiniteSet(I) /\ Cardinality(I) = Len(nodes)
  <2>1. Len(nodes) \in Nat
    BY GraphTypes
  <2> QED BY <2>1, UptoFinite DEF Ids
<1>4. ASSUME NEW V \in S PROVE g[V] = Step(V)
  <2>1. \A i \in V : ToSet(EndsOf(end, P(i))) = q[i]
    <3> SUFFICES ASSUME NEW i \in V PROVE ToSet(EndsOf(end, P(i))) = q[i]
      OBVIOUS
    <3> DEFINE Q == P(i)
    <3>1. Q \in SUBSET (1..Len(edges)) /\ q[i] = {edges[j][end] : j \in Q}
      BY DEF Leads
    <3> HIDE DEF Q
    <3>2. ToSet(EndsOf(end, Q)) = {edges[j][end] : j \in Q}
      BY <3>1, EndsListed
    <3> QED BY <3>1, <3>2 DEF Q
  <2>2. g[V] = V \cup UNION {q[i] : i \in V}
    BY DEF Further
  <2> HIDE DEF q, g, P
  <2> QED BY <2>1, <2>2
<1>5. g \in [S -> S] /\ start \in S
  <2> HIDE DEF q
  <2> QED BY <1>2 DEF Further
<1>6. PICK f \in [Nat -> S] : f[0] = start /\ \A n \in Nat : f[n + 1] = g[f[n]]
  <2> HIDE DEF S, g
  <2>1. Iterated(S, start, g)
    BY <1>5, Iterates
  <2> QED BY <2>1 DEF Iterated
<1> HIDE DEF q, g, Step
<1>7. f = Body(f)
  <2>1. ASSUME NEW n \in Nat PROVE f[n] = Body(f)[n]
    <3>1. CASE n = 0
      BY <1>6, <3>1
    <3>2. CASE n # 0
      <4>1. n - 1 \in Nat /\ (n - 1) + 1 = n
        BY <3>2
      <4>2. f[n - 1] \in S /\ f[n] = g[f[n - 1]]
        BY <1>6, <4>1
      <4> QED BY <1>4, <3>2, <4>2
    <3> QED BY <3>1, <3>2
  <2>2. f = [n \in Nat |-> f[n]]
    BY <1>6
  <2> QED BY <2>1, <2>2
<1>8. at = Body(at)
  <2> HIDE DEF Body
  <2> QED BY <1>7
<1> HIDE DEF at
<1>9. at[0] = start /\ at = [n \in Nat |-> at[n]]
  BY <1>8
<1>10. \A n \in Nat : at[n] \in S => at[n + 1] = g[at[n]]
  <2> SUFFICES ASSUME NEW n \in Nat, at[n] \in S PROVE at[n + 1] = g[at[n]]
    OBVIOUS
  <2>1. n + 1 \in Nat /\ n + 1 # 0 /\ (n + 1) - 1 = n
    OBVIOUS
  <2>2. at[n + 1] = Body(at)[n + 1]
    BY <1>8
  <2> QED BY <1>4, <2>1, <2>2
<1>11. Found(I, start, q, at[Cardinality(I)])
  <2> HIDE DEF I, Body
  <2> QED BY <1>2, <1>3, <1>5, <1>9, <1>10, WalkFinds DEF g
<1> QED BY <1>1, <1>3, <1>11 DEF q

\* From the operators without inputs the edges lead to all the others.
LEMMA ReachedForth ==
  ASSUME BuilderInv, Valid, NEW start, {i \in Ids : InEdges(i) = {}} \subseteq start,
         NEW found, Found(Ids, start, Leads(2, 1), found)
  PROVE  found = Ids
<1> DEFINE C == Ids \ found
<1>1. found \in SUBSET Ids /\ start \subseteq found
      /\ \A i \in found : Leads(2, 1)[i] \subseteq found
  BY DEF Found
<1>2. ASSUME NEW i \in C PROVE \E e \in Into(i) : e[1] \in C
  <2>1. PICK j \in InEdges(i) : TRUE
    BY <1>1
  <2>2. edges[j] \in Into(i) /\ edges[j][1] \in Ids /\ edges[j][2] = i
    BY DEF InEdges, Into, EdgeSet, Valid, EdgesKnown
  <2>3. i \in Leads(2, 1)[edges[j][1]]
    BY <2>2 DEF Leads, InEdges
  <2> QED BY <1>1, <2>2, <2>3
<1>3. Len(nodes) \in Nat /\ Len(edges) \in Nat
  BY GraphTypes
<1>4. ~ Cycle(C)
  BY <1>3, NoCyclesExactly DEF Valid
<1>5. C = {}
  BY <1>2, <1>4 DEF Cycle
<1> QED BY <1>1, <1>5

\* From the operators without outputs the edges lead back to all the others.
LEMMA ReachedBack ==
  ASSUME BuilderInv, Valid, NEW start, {i \in Ids : OutEdges(i) = {}} \subseteq start,
         NEW found, Found(Ids, start, Leads(1, 2), found)
  PROVE  found = Ids
<1> DEFINE C == Ids \ found
           T == {n \in Nat : C \subseteq VisitedIn[n]}
<1>1. found \in SUBSET Ids /\ start \subseteq found
      /\ \A i \in found : Leads(1, 2)[i] \subseteq found
  BY DEF Found
<1>2. ASSUME NEW i \in C PROVE \E k \in C : \E e \in Into(k) : e[1] = i
  <2>1. PICK j \in OutEdges(i) : TRUE
    BY <1>1
  <2>2. edges[j] \in Into(edges[j][2]) /\ edges[j][2] \in Ids /\ edges[j][1] = i
    BY GraphTypes DEF OutEdges, Into, EdgeSet
  <2>3. i \in Leads(1, 2)[edges[j][2]]
    BY <2>2 DEF Leads, OutEdges
  <2> QED BY <1>1, <2>2, <2>3
<1>3. SUFFICES ASSUME C # {} PROVE FALSE
  BY <1>1
<1>4. T \subseteq Nat /\ Len(nodes) \in T
  <2>1. VisitedIn[Len(nodes)] = Ids /\ Len(nodes) \in Nat
    BY GraphTypes DEF Valid, NoCycles
  <2> QED BY <2>1
<1>5. PICK m \in T : m \in Nat /\ \A n \in Nat : n < m => n \notin T
  <2> HIDE DEF T
  <2> QED BY <1>4, Least
<1>6. C \subseteq VisitedIn[m] /\ m # 0
  BY <1>3, <1>5, GraphTypes, Visits
<1>7. m - 1 \in Nat /\ m - 1 < m /\ (m - 1) + 1 = m
  BY <1>5, <1>6
<1>8. VisitedIn[m] = Round[VisitedIn[m - 1]] /\ VisitedIn[m - 1] \in SUBSET Ids
  BY <1>7, GraphTypes, Visits
<1>9. C \subseteq VisitedIn[m - 1]
  BY <1>2, <1>6, <1>8 DEF Round
<1>10. m - 1 \in T
  BY <1>7, <1>9
<1> HIDE DEF T
<1> QED BY <1>5, <1>7, <1>10

\* The queries of a graph that validate() accepts.
LEMMA QueriesRight == ASSUME BuilderInv PROVE QueriesAgree
<1> SUFFICES ASSUME Valid PROVE /\ Walk(ToSet(Roots), TargetsOf) = Ids
                                /\ Walk(ToSet(Leaves), SourcesOf) = Ids
                                /\ Roots = Ascending({i \in Ids : nodes[i].kind = "source"})
                                /\ \A i \in Ids :
                                     /\ InDegreeOf(i) = Len(SourcesOf(i))
                                     /\ OutDegreeOf(i) = Len(TargetsOf(i))
                                     /\ \A k \in ToSet(TargetsOf(i)) :
                                          /\ Known(k)
                                          /\ Times(k, TargetsOf(i)) = Times(i, SourcesOf(k))
  BY DEF QueriesAgree
<1>1. /\ Len(nodes) \in Nat /\ IsFiniteSet(Ids) /\ Ids \subseteq Int
      /\ \A j \in 1..Len(edges) : edges[j][1] \in Ids /\ edges[j][2] \in Ids
      /\ \A j \in 1..Len(edges) : edges[j] = <<edges[j][1], edges[j][2]>>
  <2>1. Len(nodes) \in Nat
    BY GraphTypes
  <2>2. IsFiniteSet(Ids) /\ Ids \subseteq Int
    BY <2>1, UptoFinite DEF Ids
  <2> QED BY <2>1, <2>2, GraphTypes DEF Valid, EdgesKnown, EdgeSet
<1>2. /\ \A i : InEdges(i) \in SUBSET (1..Len(edges)) /\ OutEdges(i) \in SUBSET (1..Len(edges))
      /\ \A i : Cardinality(InEdges(i)) = 0 <=> InEdges(i) = {}
      /\ \A i : Cardinality(OutEdges(i)) = 0 <=> OutEdges(i) = {}
  <2> SUFFICES ASSUME NEW i
               PROVE  /\ InEdges(i) \in SUBSET (1..Len(edges))
                      /\ OutEdges(i) \in SUBSET (1..Len(edges))
                      /\ Cardinality(InEdges(i)) = 0 <=> InEdges(i) = {}
                      /\ Cardinality(OutEdges(i)) = 0 <=> OutEdges(i) = {}
    OBVIOUS
  <2>1. IsFiniteSet(InEdges(i)) /\ IsFiniteSet(OutEdges(i))
    BY EdgeSets
  <2>2. InEdges(i) \in SUBSET (1..Len(edges)) /\ OutEdges(i) \in SUBSET (1..Len(edges))
    BY DEF InEdges, OutEdges
  <2> QED BY <2>1, <2>2, FS_EmptySet
<1>3. ASSUME NEW S \in SUBSET Ids PROVE ToSet(Ascending(S)) = S
  <2> DEFINE s == Ascending(S)
  <2>1. S \in SUBSET Int /\ IsFiniteSet(S)
    BY <1>1, FS_Subset
  <2>2. /\ DOMAIN s = 1..Cardinality(S) /\ \A k \in 1..Cardinality(S) : s[k] \in S
        /\ \A x \in S : \E k \in 1..Cardinality(S) : s[k] = x
    BY <2>1, AscendingLists
  <2> HIDE DEF s
  <2>3. ToSet(s) = S
    BY <2>2 DEF ToSet
  <2> QED BY <2>3 DEF s
<1>4. Walk(ToSet(Roots), TargetsOf) = Ids
  <2> DEFINE S == {i \in Ids : InDegreeOf(i) = 0}
  <2>1. S \in SUBSET Ids /\ {i \in Ids : InEdges(i) = {}} \subseteq S
    BY <1>2 DEF InDegreeOf, InDegree
  <2>2. ToSet(Roots) = S
    BY <1>3, <2>1 DEF Roots
  <2> HIDE DEF S
  <2>3. Found(Ids, S, Leads(2, 1), WalkAlong(S, 2, 1))
    BY <1>1, <2>1, WalkAlongFinds
  <2>4. WalkAlong(S, 2, 1) = Ids
    BY <2>1, <2>3, ReachedForth
  <2> QED BY <2>2, <2>4, WalksAre
<1>5. Walk(ToSet(Leaves), SourcesOf) = Ids
  <2> DEFINE S == {i \in Ids : OutDegreeOf(i) = 0}
  <2>1. S \in SUBSET Ids /\ {i \in Ids : OutEdges(i) = {}} \subseteq S
    BY <1>2 DEF OutDegreeOf
  <2>2. ToSet(Leaves) = S
    BY <1>3, <2>1 DEF Leaves
  <2> HIDE DEF S
  <2>3. Found(Ids, S, Leads(1, 2), WalkAlong(S, 1, 2))
    BY <1>1, <2>1, WalkAlongFinds
  <2>4. WalkAlong(S, 1, 2) = Ids
    BY <2>1, <2>3, ReachedBack
  <2> QED BY <2>2, <2>4, WalksAre
<1>6. Roots = Ascending({i \in Ids : nodes[i].kind = "source"})
  <2>1. {i \in Ids : InDegreeOf(i) = 0} = {i \in Ids : nodes[i].kind = "source"}
    BY <1>2 DEF InDegreeOf, InDegree, BuilderInv, Fed
  <2> QED BY <2>1 DEF Roots
<1>7. ASSUME NEW i \in Ids
      PROVE  InDegreeOf(i) = Len(SourcesOf(i)) /\ OutDegreeOf(i) = Len(TargetsOf(i))
  BY <1>2, EndsListed DEF InDegreeOf, InDegree, OutDegreeOf, SourcesOf, TargetsOf
<1>8. ASSUME NEW i \in Ids, NEW k \in ToSet(TargetsOf(i))
      PROVE  Known(k) /\ Times(k, TargetsOf(i)) = Times(i, SourcesOf(k))
  <2>1. PICK j \in OutEdges(i) : k = edges[j][2]
    <3>1. ToSet(EndsOf(2, OutEdges(i))) = {edges[j][2] : j \in OutEdges(i)}
      <4> DEFINE Q == OutEdges(i)
      <4>1. Q \in SUBSET (1..Len(edges))
        BY <1>2
      <4> HIDE DEF Q
      <4>2. ToSet(EndsOf(2, Q)) = {edges[j][2] : j \in Q}
        BY <4>1, EndsListed
      <4> QED BY <4>2 DEF Q
    <3> QED BY <3>1 DEF TargetsOf
  <2>2. Known(k)
    BY <1>1, <1>2, <2>1 DEF Known
  <2>3. Times(k, TargetsOf(i)) = Cardinality({l \in OutEdges(i) : edges[l][2] = k})
    BY <1>2, EndsListed DEF TargetsOf
  <2>4. Times(i, SourcesOf(k)) = Cardinality({l \in InEdges(k) : edges[l][1] = i})
    BY <1>2, EndsListed DEF SourcesOf
  <2>5. {l \in OutEdges(i) : edges[l][2] = k} = {l \in InEdges(k) : edges[l][1] = i}
    BY DEF InEdges, OutEdges
  <2> QED BY <2>2, <2>3, <2>4, <2>5
<1> QED BY <1>4, <1>5, <1>6, <1>7, <1>8

-----------------------------------------------------------------------------
(* 8. The pipelines when build() has returned                              *)

\* The last operator of a pipeline.
End(k) == Ops(k)[Len(Ops(k))]

\* What is known of the pipelines when build() has returned.
Finished ==
  /\ Len(nodes) \in Nat /\ Len(pipelines) \in Nat /\ Len(pipelines) >= 1
  /\ Rising(next, Len(nodes)) /\ Rising(LinkAll, Len(nodes))
  /\ \A k \in 1..Len(pipelines) :
       /\ IsChain(next, Len(nodes), pipelines[k].first, Ops(k))
       /\ Len(Ops(k)) \in Nat /\ \A j \in 1..Len(Ops(k)) : Ops(k)[j] \in Ids
  /\ pipelines[1].reads = 0
  /\ \A k \in 1..Len(pipelines) - 1 :
       /\ Len(Ops(k)) >= 1 /\ End(k) \in Ids /\ next[End(k)] = 0
       /\ pipelines[k + 1].reads = End(k) /\ pipelines[k + 1].first = LinkAll[End(k)]
  /\ \A x \in Ids : \/ next[x] = LinkAll[x]
                    \/ \E k \in 1..Len(pipelines) - 1 : End(k) = x

LEMMA BuildFinishes ==
  ASSUME BuilderInv, CutInv, LinkInv, phase = "done"
  PROVE  Finished
<1> DEFINE n == Len(nodes)
           m == Len(pipelines)
<1>1. AllRoots = pipelines /\ n \in Nat /\ Ids = 1..n
  BY GraphTypes DEF AllRoots, Ids
<1>2. /\ m \in Nat /\ m >= 1 /\ pipelines \in Seq(Root)
      /\ Rising(next, n) /\ pipelines[1].reads = 0
  BY <1>1 DEF CutInv
<1>3. Rising(LinkAll, n)
  BY LinksRise DEF LinkInv
<1>4. ASSUME NEW k \in 1..m
      PROVE  /\ Ops(k) = ChainOf(next, n, pipelines[k].first)
             /\ IsChain(next, n, pipelines[k].first, Ops(k))
             /\ Len(Ops(k)) \in Nat /\ \A j \in 1..Len(Ops(k)) : Ops(k)[j] \in Ids
  <2>1. pipelines[k] \in Root
    BY <1>2, ElementType
  <2>2. pipelines[k].first \in 0..n
    BY <2>1 DEF Root
  <2>3. Ops(k) = ChainOf(next, n, pipelines[k].first)
    BY ChainFromIs DEF Ops
  <2>4. IsChain(next, n, pipelines[k].first, Ops(k))
    BY <1>1, <1>2, <2>2, <2>3, ChainOfIsChain
  <2>5. Ops(k) \in Seq(1..n)
    BY <2>4 DEF IsChain
  <2> QED BY <1>1, <2>3, <2>4, <2>5, ElementType
<1>5. ASSUME NEW k \in 1..m - 1
      PROVE  /\ Len(Ops(k)) >= 1 /\ End(k) \in Ids /\ next[End(k)] = 0
             /\ pipelines[k + 1].reads = End(k) /\ pipelines[k + 1].first = LinkAll[End(k)]
  <2>1. k \in 1..m /\ k + 1 \in 2..m
    BY <1>2
  <2>2. EndsAtWindow(pipelines, next, k)
    BY <1>1 DEF CutInv
  <2>3. Ops(k) # << >> /\ pipelines[k + 1].reads = Last(Ops(k))
    BY <1>4, <2>1, <2>2 DEF EndsAtWindow
  <2>4. IsChain(next, n, pipelines[k].first, Ops(k)) /\ Ops(k) \in Seq(1..n)
    BY <1>4, <2>1 DEF IsChain
  <2>5. Len(Ops(k)) >= 1 /\ Len(Ops(k)) \in 1..Len(Ops(k))
    BY <2>3, <2>4
  <2>6. pipelines[k + 1].reads = End(k)
    BY <2>3 DEF Last, End
  <2>7. End(k) \in Ids /\ next[End(k)] = 0
    BY <1>4, <2>1, <2>4, <2>5 DEF End, IsChain
  <2>8. pipelines[k + 1].first = LinkAll[pipelines[k + 1].reads]
    BY <1>1, <2>1 DEF LinkInv
  <2> QED BY <2>5, <2>6, <2>7, <2>8
<1>6. ASSUME NEW x \in Ids, next[x] # LinkAll[x] PROVE \E k \in 1..m - 1 : End(k) = x
  <2>1. PICK l \in 2..m : pipelines[l].reads = x
    BY <1>1, <1>6 DEF LinkInv
  <2>2. l - 1 \in 1..m - 1 /\ (l - 1) + 1 = l
    BY <1>2
  <2> QED BY <1>5, <2>1, <2>2
<1> QED BY <1>1, <1>2, <1>3, <1>4, <1>5, <1>6 DEF Finished

\* A window that ends a pipeline comes before all operators of the later ones.
LEMMA EndsAscend ==
  ASSUME Finished, NEW k \in 1..Len(pipelines) - 1
  PROVE  \A l \in k + 1..Len(pipelines) : \A j \in 1..Len(Ops(l)) : End(k) < Ops(l)[j]
<1> DEFINE n == Len(nodes)
           m == Len(pipelines)
<1>1. m \in Nat /\ n \in Nat /\ Ids = 1..n
  BY DEF Finished, Ids
<1>2. ASSUME NEW h \in 1..m - 1, NEW j \in 1..Len(Ops(h + 1))
      PROVE  End(h) < Ops(h + 1)[j] /\ End(h) \in Nat /\ Ops(h + 1)[j] \in Nat
  <2>1. h + 1 \in 1..m
    BY <1>1
  <2>2. /\ IsChain(next, n, pipelines[h + 1].first, Ops(h + 1)) /\ Rising(next, n)
        /\ Len(Ops(h + 1)) \in Nat /\ Rising(LinkAll, n)
        /\ End(h) \in 1..n /\ pipelines[h + 1].first = LinkAll[End(h)]
        /\ \A i \in 1..Len(Ops(h + 1)) : Ops(h + 1)[i] \in 1..n
    BY <1>1, <2>1 DEF Finished
  <2>3. 1 \in 1..Len(Ops(h + 1)) /\ 1 <= j /\ Ops(h + 1) # << >>
    BY <2>2
  <2>4. Ops(h + 1)[1] = LinkAll[End(h)] /\ LinkAll[End(h)] # 0
    <3>1. IF LinkAll[End(h)] = 0 THEN Ops(h + 1) = << >> ELSE Ops(h + 1)[1] = LinkAll[End(h)]
      BY <2>2 DEF IsChain
    <3> QED BY <2>3, <3>1
  <2>5. End(h) < LinkAll[End(h)]
    BY <2>2, <2>4 DEF Rising
  <2>6. Ops(h + 1)[1] <= Ops(h + 1)[j]
    BY <1>1, <2>2, <2>3, ChainAscends
  <2>7. Ops(h + 1)[1] \in 1..n /\ Ops(h + 1)[j] \in 1..n
    BY <2>2, <2>3
  <2> HIDE DEF n
  <2> QED BY <1>1, <2>2, <2>4, <2>5, <2>6, <2>7
<1> DEFINE T == {l \in Nat : l \in k + 1..m => \A j \in 1..Len(Ops(l)) : End(k) < Ops(l)[j]}
<1>3. \A l \in Nat : l \in T
  <2>1. 0 \in T
    BY <1>1
  <2>2. ASSUME NEW l \in Nat, l \in T PROVE l + 1 \in T
    <3> SUFFICES ASSUME l + 1 \in k + 1..m, NEW j \in 1..Len(Ops(l + 1))
                 PROVE  End(k) < Ops(l + 1)[j]
      OBVIOUS
    <3>1. CASE l = k
      BY <1>2, <3>1
    <3>2. CASE l # k
      <4>1. l \in k + 1..m /\ l \in 1..m - 1
        BY <1>1, <3>2
      <4>2. Len(Ops(l)) \in 1..Len(Ops(l))
        BY <1>1, <4>1 DEF Finished
      <4>3. End(k) < End(l)
        BY <2>2, <4>1, <4>2 DEF End
      <4>4. End(l) < Ops(l + 1)[j] /\ End(l) \in Nat /\ Ops(l + 1)[j] \in Nat
        BY <1>2, <4>1
      <4>5. End(k) \in Nat
        <5>1. \A h \in 1..m - 1 : End(h) \in Ids
          BY DEF Finished
        <5>2. k \in 1..m - 1
          BY <1>1, <4>1
        <5> QED BY <5>1, <5>2 DEF Ids
      <4> QED BY <4>3, <4>4, <4>5
    <3> QED BY <3>1, <3>2
  <2> HIDE DEF T
  <2> QED BY <2>1, <2>2, Induction
<1>4. \A l \in k + 1..m : l \in Nat
  BY <1>1
<1> QED BY <1>3, <1>4

\* The operators ascend from place to place.
LEMMA PlacesAscend ==
  ASSUME Finished, NEW k \in 1..Len(pipelines), NEW l \in 1..Len(pipelines),
         NEW i \in 1..Len(Ops(k)), NEW j \in 1..Len(Ops(l)), k < l \/ (k = l /\ i < j)
  PROVE  Ops(k)[i] < Ops(l)[j]
<1> DEFINE n == Len(nodes)
           m == Len(pipelines)
<1>1. /\ m \in Nat /\ n \in Nat /\ Rising(next, n)
      /\ IsChain(next, n, pipelines[k].first, Ops(k)) /\ Len(Ops(k)) \in Nat
      /\ Ops(k)[i] \in 1..n /\ Ops(l)[j] \in 1..n
  BY DEF Finished, Ids
<1>2. CASE k < l
  <2>1. k \in 1..m - 1 /\ l \in k + 1..m
    BY <1>1, <1>2
  <2>2. End(k) < Ops(l)[j]
    BY <2>1, EndsAscend
  <2>3. Len(Ops(k)) \in 1..Len(Ops(k)) /\ i <= Len(Ops(k))
    BY <1>1
  <2>4. Ops(k)[i] <= End(k)
    BY <1>1, <2>3, ChainAscends DEF End
  <2>5. End(k) \in 1..n
    BY <2>1 DEF Finished, Ids
  <2> QED BY <1>1, <2>2, <2>4, <2>5
<1>3. CASE k = l /\ i < j
  <2>1. i + 1 \in 1..Len(Ops(k)) /\ i # Len(Ops(k)) /\ i + 1 <= j /\ j \in 1..Len(Ops(k))
    BY <1>1, <1>3
  <2>2. Ops(k)[i + 1] <= Ops(k)[j]
    BY <1>1, <2>1, ChainAscends
  <2>3. next[Ops(k)[i]] = Ops(k)[i + 1]
    BY <1>1, <2>1 DEF IsChain
  <2>4. Ops(k)[i + 1] \in 1..n
    BY <2>1 DEF Finished, Ids
  <2>5. Ops(k)[i] < Ops(k)[i + 1]
    <3>1. next[Ops(k)[i]] = 0 \/ Ops(k)[i] < next[Ops(k)[i]]
      BY <1>1 DEF Rising
    <3> QED BY <2>3, <2>4, <3>1
  <2> DEFINE a == Ops(k)[i]
             b == Ops(k)[i + 1]
             c == Ops(k)[j]
  <2>6. a \in 1..n /\ b \in 1..n /\ c \in 1..n /\ a < b /\ b <= c
    BY <1>1, <1>3, <2>2, <2>4, <2>5
  <2> HIDE DEF a, b, c
  <2>7. a < c
    BY <2>6
  <2> QED BY <1>3, <2>7 DEF a, c
<1> QED BY <1>2, <1>3

\* No operator is in two places.
LEMMA OpsOnce ==
  ASSUME Finished, NEW k \in 1..Len(pipelines), NEW l \in 1..Len(pipelines),
         NEW i \in 1..Len(Ops(k)), NEW j \in 1..Len(Ops(l)), Ops(k)[i] = Ops(l)[j]
  PROVE  k = l /\ i = j
<1>1. Ops(k)[i] \in Nat /\ Ops(l)[j] \in Nat
  BY DEF Finished, Ids
<1>2. ~ Ops(k)[i] < Ops(l)[j] /\ ~ Ops(l)[j] < Ops(k)[i]
  BY <1>1
<1>3. ~ k < l /\ ~ l < k
  BY <1>2, PlacesAscend
<1>4. k = l
  BY <1>3
<1>5. ~ i < j /\ ~ j < i
  BY <1>2, <1>4, PlacesAscend
<1> QED BY <1>4, <1>5

\* Neither is a window that ends a pipeline.
LEMMA EndOnce ==
  ASSUME Finished, NEW k \in 1..Len(pipelines) - 1,
         NEW l \in 1..Len(pipelines), NEW j \in 1..Len(Ops(l)), Ops(l)[j] = End(k)
  PROVE  l = k /\ j = Len(Ops(k))
<1>1. k \in 1..Len(pipelines) /\ Len(Ops(k)) \in 1..Len(Ops(k))
  <2>1. k \in 1..Len(pipelines)
    BY DEF Finished
  <2> QED BY <2>1 DEF Finished
<1> QED BY <1>1, OpsOnce DEF End

\* A pipeline feeds the one after it.
LEMMA FedByNext ==
  ASSUME Finished, NEW k \in 1..Len(pipelines)
  PROVE  FedBy(k) = IF k = Len(pipelines) THEN 0 ELSE k + 1
<1> DEFINE m == Len(pipelines)
           readers == {l \in 1..m : pipelines[l].reads \in ToSet(Ops(k))}
<1>1. m \in Nat /\ 0 \notin Ids /\ DOMAIN Ops(k) = 1..Len(Ops(k))
      /\ \A j \in 1..Len(Ops(k)) : Ops(k)[j] \in Ids
  <2>1. Ops(k) \in Seq(1..Len(nodes))
    BY DEF Finished, IsChain
  <2>2. DOMAIN Ops(k) = 1..Len(Ops(k))
    BY <2>1
  <2> QED BY <2>2 DEF Finished, Ids
<1>2. ASSUME NEW l \in readers PROVE l = k + 1 /\ k # m
  <2>1. PICK j \in 1..Len(Ops(k)) : pipelines[l].reads = Ops(k)[j]
    BY <1>1 DEF ToSet
  <2>2. l # 1
    BY <1>1, <2>1 DEF Finished
  <2>3. l - 1 \in 1..m - 1 /\ (l - 1) + 1 = l
    BY <1>1, <2>2
  <2>4. Ops(k)[j] = End(l - 1)
    BY <2>1, <2>3 DEF Finished
  <2>5. k = l - 1
    BY <2>3, <2>4, EndOnce
  <2> QED BY <1>1, <2>3, <2>5
<1>3. ASSUME k # m PROVE k + 1 \in readers
  <2>1. k \in 1..m - 1 /\ k + 1 \in 1..m
    BY <1>1, <1>3
  <2>2. Len(Ops(k)) \in 1..Len(Ops(k)) /\ pipelines[k + 1].reads = Ops(k)[Len(Ops(k))]
    <3>1. Len(Ops(k)) >= 1 /\ Len(Ops(k)) \in Nat /\ pipelines[k + 1].reads = End(k)
      BY <2>1 DEF Finished
    <3> QED BY <3>1 DEF End
  <2>3. pipelines[k + 1].reads \in ToSet(Ops(k))
    BY <1>1, <2>2 DEF ToSet
  <2> QED BY <2>1, <2>3
<1>4. FedBy(k) = IF readers = {} THEN 0 ELSE Max(readers)
  BY DEF FedBy
<1> HIDE DEF readers
<1>5. CASE k = m
  BY <1>2, <1>4, <1>5
<1>6. CASE k # m
  <2>1. readers = {k + 1} /\ k + 1 \in Nat
    BY <1>2, <1>3, <1>6
  <2>2. Max({k + 1}) = k + 1
    BY <2>1, MaxProperties
  <2> QED BY <1>4, <1>6, <2>1, <2>2
<1> QED BY <1>5, <1>6

\* Every pipeline can have a thread of its own.
LEMMA ThreadsApart == ASSUME Finished PROVE OneThreadEach
<1> DEFINE m == Len(pipelines)
<1>1. m \in Nat /\ m >= 1
  BY DEF Finished
<1>2. \A k \in 1..m : FedBy(k) = IF k = m THEN 0 ELSE k + 1
  BY FedByNext
<1>3. \A k \in 1..m : FedBy(k) # 0 => FedBy(k) > k
  BY <1>1, <1>2
<1>4. \A k, l \in 1..m : FedBy(k) = FedBy(l) /\ FedBy(k) # 0 => k = l
  BY <1>1, <1>2
<1>5. {FedBy(k) : k \in 1..m} \ {0} = 2..m
  <2>1. ASSUME NEW k \in 1..m, FedBy(k) # 0 PROVE FedBy(k) \in 2..m
    BY <1>1, <1>2, <2>1
  <2>2. ASSUME NEW l \in 2..m PROVE l \in {FedBy(k) : k \in 1..m} /\ l # 0
    <3>1. l - 1 \in 1..m /\ l - 1 # m /\ (l - 1) + 1 = l
      BY <1>1
    <3>2. FedBy(l - 1) = l
      BY <1>2, <3>1
    <3> QED BY <3>1, <3>2
  <2> QED BY <2>1, <2>2
<1> QED BY <1>3, <1>4, <1>5, OpsOnce DEF OneThreadEach

\* Where the j-th operator of pipeline k is printed: after the channel source,
\* in all pipelines but the first.
PlaceOf(k, j) == <<k, IF k = 1 THEN j - 1 ELSE j>>

\* What is printed at which place.
LEMMA PlacesAre ==
  ASSUME Finished
  PROVE  /\ \A k \in 1..Len(pipelines) : \A j \in 1..Len(Ops(k)) :
              /\ PlaceOf(k, j) \in Places
              /\ At(PlaceOf(k, j)) = Ops(k)[j] /\ Ops(k)[j] # 0
              /\ After(PlaceOf(k, j)) = PlaceOf(k, j + 1)
              /\ PlaceOf(k, j + 1) \in Places <=> j < Len(Ops(k))
         /\ \A k \in 2..Len(pipelines) :
              /\ <<k, 0>> \in Places /\ At(<<k, 0>>) = 0
              /\ After(<<k, 0>>) = PlaceOf(k, 1)
              /\ PlaceOf(k, 1) \in Places <=> 1 <= Len(Ops(k))
         /\ \A p \in Places :
              \/ \E k \in 1..Len(pipelines) : \E j \in 1..Len(Ops(k)) : p = PlaceOf(k, j)
              \/ \E k \in 2..Len(pipelines) : p = <<k, 0>>
<1> DEFINE m == Len(pipelines)
           s(k) == IF k = 1 THEN 0 ELSE 1
           c(k) == Len(Ops(k))
<1>1. m \in Nat /\ m >= 1 /\ 0 \notin Ids
  BY DEF Finished, Ids
<1>2. ASSUME NEW k \in 1..m
      PROVE  /\ c(k) \in Nat
             /\ Len(Drawn(k)) = s(k) + c(k)
             /\ \A j \in 1..c(k) : Drawn(k)[s(k) + j] = Ops(k)[j] /\ Ops(k)[j] # 0
             /\ k # 1 => Drawn(k)[1] = 0
  <2>1. Len(Ops(k)) \in Nat /\ (\A j \in 1..Len(Ops(k)) : Ops(k)[j] \in Ids)
        /\ IsChain(next, Len(nodes), pipelines[k].first, Ops(k))
    BY DEF Finished
  <2>2. Ops(k) \in Seq(1..Len(nodes))
    BY <2>1 DEF IsChain
  <2>3. \A j \in 1..c(k) : Ops(k)[j] # 0
    BY <1>1, <2>1
  <2>4. CASE k = 1
    <3>1. Drawn(k) = Ops(k)
      BY <2>4 DEF Drawn, Finished
    <3> QED BY <2>1, <2>3, <2>4, <3>1
  <2>5. CASE k # 1
    <3>1. k - 1 \in 1..m - 1 /\ (k - 1) + 1 = k
      BY <1>1, <2>5
    <3>2. pipelines[k].reads # 0
      <4>1. pipelines[k].reads = End(k - 1) /\ End(k - 1) \in Ids
        BY <3>1 DEF Finished
      <4> QED BY <1>1, <4>1
    <3>3. Drawn(k) = <<0>> \o Ops(k)
      BY <3>2 DEF Drawn
    <3> DEFINE o == Ops(k)
    <3>4. o \in Seq(Nat) /\ Len(o) \in Nat
      BY <2>2, SeqFrom
    <3> HIDE DEF o
    <3>5. Len(<<0>> \o o) = 1 + Len(o) /\ (<<0>> \o o)[1] = 0
          /\ \A j \in 1..Len(o) : (<<0>> \o o)[1 + j] = o[j]
      BY <3>4
    <3> QED BY <2>1, <2>3, <2>5, <3>3, <3>5 DEF o
  <2> QED BY <2>1, <2>4, <2>5
<1>3. \A p : p \in Places <=> \E k \in 1..m : \E i \in 0..s(k) + c(k) - 1 : p = <<k, i>>
  BY <1>2 DEF Places
<1>4. \A k, i : At(<<k, i>>) = Drawn(k)[i + 1] /\ After(<<k, i>>) = <<k, i + 1>>
  BY DEF At, After
<1>5. \A k \in 1..m : \A j \in Nat : PlaceOf(k, j) = <<k, s(k) + j - 1>>
  BY DEF PlaceOf
<1>6. ASSUME NEW k \in 1..m, NEW i \in Nat PROVE <<k, i>> \in Places <=> i < s(k) + c(k)
  BY <1>2, <1>3
<1> HIDE DEF s, c
<1>7. \A k \in 1..m : s(k) \in 0..1 /\ c(k) \in Nat
  BY <1>2 DEF s
<1>8. ASSUME NEW k \in 1..m, NEW j \in 1..c(k)
      PROVE  /\ PlaceOf(k, j) \in Places
             /\ At(PlaceOf(k, j)) = Ops(k)[j] /\ Ops(k)[j] # 0
             /\ After(PlaceOf(k, j)) = PlaceOf(k, j + 1)
             /\ PlaceOf(k, j + 1) \in Places <=> j < c(k)
  <2>1. /\ s(k) + j - 1 \in Nat /\ s(k) + j - 1 < s(k) + c(k) /\ s(k) + (j + 1) - 1 \in Nat
        /\ (s(k) + (j + 1) - 1 < s(k) + c(k)) <=> j < c(k)
        /\ (s(k) + j - 1) + 1 = s(k) + j /\ s(k) + (j + 1) - 1 = (s(k) + j - 1) + 1
        /\ j \in Nat /\ j + 1 \in Nat
    BY <1>7
  <2>2. PlaceOf(k, j) = <<k, s(k) + j - 1>> /\ PlaceOf(k, j + 1) = <<k, (s(k) + j - 1) + 1>>
    BY <1>5, <2>1
  <2>3. PlaceOf(k, j) \in Places /\ (PlaceOf(k, j + 1) \in Places <=> j < c(k))
    BY <1>6, <2>1, <2>2
  <2>4. At(PlaceOf(k, j)) = Drawn(k)[s(k) + j] /\ After(PlaceOf(k, j)) = PlaceOf(k, j + 1)
    BY <1>4, <2>1, <2>2
  <2> QED BY <1>2, <2>3, <2>4
<1>9. ASSUME NEW k \in 2..m
      PROVE  /\ <<k, 0>> \in Places /\ At(<<k, 0>>) = 0
             /\ After(<<k, 0>>) = PlaceOf(k, 1)
             /\ PlaceOf(k, 1) \in Places <=> 1 <= c(k)
  <2>1. k \in 1..m /\ k # 1 /\ s(k) = 1 /\ c(k) \in Nat
    BY <1>1, <1>7 DEF s
  <2>2. PlaceOf(k, 1) = <<k, 1>>
    BY <1>5, <2>1
  <2>3. (0 < s(k) + c(k)) /\ (1 < s(k) + c(k) <=> 1 <= c(k))
    BY <2>1
  <2>4. <<k, 0>> \in Places /\ (<<k, 1>> \in Places <=> 1 <= c(k))
    BY <1>6, <2>1, <2>3
  <2>5. At(<<k, 0>>) = Drawn(k)[1] /\ After(<<k, 0>>) = <<k, 1>>
    BY <1>4
  <2>6. Drawn(k)[1] = 0
    BY <1>2, <2>1
  <2> QED BY <2>2, <2>4, <2>5, <2>6
<1>10. ASSUME NEW p \in Places
       PROVE  \/ \E k \in 1..m : \E j \in 1..c(k) : p = PlaceOf(k, j)
              \/ \E k \in 2..m : p = <<k, 0>>
  <2>1. PICK k \in 1..m : \E i \in 0..s(k) + c(k) - 1 : p = <<k, i>>
    BY <1>3
  <2>2. PICK i \in 0..s(k) + c(k) - 1 : p = <<k, i>>
    BY <2>1
  <2>3. CASE k # 1 /\ i = 0
    <3>1. k \in 2..m
      BY <1>1, <2>3
    <3> QED BY <2>2, <2>3, <3>1
  <2>4. CASE ~ (k # 1 /\ i = 0)
    <3> DEFINE j == i + 1 - s(k)
    <3>1. i \in Nat /\ i <= s(k) + c(k) - 1 /\ s(k) \in 0..1 /\ (s(k) = 1 => i # 0) /\ c(k) \in Nat
      BY <1>7, <2>2, <2>4 DEF s
    <3>2. j \in 1..c(k) /\ j \in Nat /\ s(k) + j - 1 = i
      BY <3>1
    <3>3. p = PlaceOf(k, j)
      BY <1>5, <2>2, <3>2
    <3> QED BY <3>2, <3>3
  <2> QED BY <2>3, <2>4
<1> QED BY <1>8, <1>9, <1>10 DEF c

\* A set that is listed without repetition has as many elements as the list.
LEMMA ListedOnce ==
  ASSUME NEW n \in Nat, NEW f, DOMAIN f = 1..n,
         \A k, l \in 1..n : f[k] = f[l] => k = l
  PROVE  Cardinality({f[k] : k \in 1..n}) = n
<1> DEFINE S == {f[k] : k \in 1..n}
           g == [k \in 1..n |-> f[k]]
<1>1. IsFiniteSet(1..n) /\ Cardinality(1..n) = n
  BY UptoFinite
<1>2. g \in Bijection(1..n, S)
  BY DEF Bijection, Injection, IsInjective, Surjection
<1>3. Cardinality(S) = Cardinality(1..n)
  <2> HIDE DEF S, g
  <2>1. ExistsBijection(1..n, S)
    BY <1>2 DEF ExistsBijection
  <2> QED BY <1>1, <2>1, FS_Bijection
<1> QED BY <1>1, <1>3

\* The windows with a channel are those that end a pipeline, one each, and the
\* loops come to them in the order of the pipelines.
LEMMA ChannelsInOrder ==
  ASSUME Finished
  PROVE  /\ DOMAIN ChannelWindows = 1..Len(pipelines) - 1
         /\ \A k \in 1..Len(pipelines) - 1 : ChannelWindows[k] = End(k)
<1> DEFINE m == Len(pipelines)
           E(k) == PlaceOf(k, Len(Ops(k)))
           S == {E(k) : k \in 1..m - 1}
<1>1. /\ m \in Nat /\ m >= 1 /\ 0 \notin Ids
      /\ \A k \in 1..m - 1 : k \in 1..m /\ Len(Ops(k)) \in 1..Len(Ops(k)) /\ k + 1 \in 1..m
  <2>1. m \in Nat /\ m >= 1
    BY DEF Finished
  <2>2. \A k \in 1..m - 1 : k \in 1..m /\ k + 1 \in 1..m
    BY <2>1
  <2> QED BY <2>1, <2>2 DEF Finished, Ids
<1>2. \A k \in 1..m - 1 : E(k) \in Places /\ At(E(k)) = End(k) /\ End(k) # 0
  BY <1>1, PlacesAre DEF End
<1>3. ChannelPlaces = S
  <2>1. ASSUME NEW p \in ChannelPlaces PROVE p \in S
    <3>1. p \in Places /\ At(p) # 0
      BY DEF ChannelPlaces
    <3>2. PICK l \in 1..m : pipelines[l].reads = At(p)
      BY DEF ChannelPlaces
    <3>3. PICK k \in 1..m : \E j \in 1..Len(Ops(k)) : p = PlaceOf(k, j)
      BY <3>1, PlacesAre
    <3>4. PICK j \in 1..Len(Ops(k)) : p = PlaceOf(k, j)
      BY <3>3
    <3>5. At(p) = Ops(k)[j]
      BY <3>4, PlacesAre
    <3>6. l # 1
      BY <3>1, <3>2 DEF Finished
    <3>7. l - 1 \in 1..m - 1 /\ (l - 1) + 1 = l
      BY <1>1, <3>6
    <3>8. Ops(k)[j] = End(l - 1)
      BY <3>2, <3>5, <3>7 DEF Finished
    <3>9. k = l - 1 /\ j = Len(Ops(k))
      BY <3>7, <3>8, EndOnce
    <3> QED BY <3>4, <3>7, <3>9
  <2>2. ASSUME NEW k \in 1..m - 1 PROVE E(k) \in ChannelPlaces
    <3>1. pipelines[k + 1].reads = End(k)
      BY DEF Finished
    <3> QED BY <1>1, <1>2, <3>1 DEF ChannelPlaces
  <2> QED BY <2>1, <2>2
<1>4. \A k, l \in 1..m - 1 : /\ E(k) = E(l) => k = l
                             /\ Earlier(E(k), E(l)) <=> k < l
  BY <1>1 DEF PlaceOf, Earlier
<1>5. ASSUME NEW n \in 0..m - 1 PROVE Cardinality({E(k) : k \in 1..n}) = n
  <2> DEFINE f == [k \in 1..n |-> E(k)]
  <2>1. n \in Nat /\ DOMAIN f = 1..n /\ \A k \in 1..n : k \in 1..m - 1
    BY <1>1
  <2>2. \A k, l \in 1..n : f[k] = f[l] => k = l
    BY <1>4, <2>1
  <2>3. {E(k) : k \in 1..n} = {f[k] : k \in 1..n}
    OBVIOUS
  <2> HIDE DEF f
  <2>4. Cardinality({f[k] : k \in 1..n}) = n
    BY <2>1, <2>2, ListedOnce
  <2> QED BY <2>3, <2>4
<1>6. Cardinality(S) = m - 1
  BY <1>1, <1>5
<1> HIDE DEF E
<1> DEFINE before(x) == Cardinality({y \in S : Earlier(y, x)})
<1>7. ASSUME NEW k \in 1..m - 1 PROVE before(E(k)) = k - 1
  <2>1. {y \in S : Earlier(y, E(k))} = {E(l) : l \in 1..k - 1}
    <3>1. \A l \in 1..m - 1 : l < k <=> l \in 1..k - 1
      BY <1>1
    <3>2. \A l \in 1..k - 1 : l \in 1..m - 1
      BY <1>1
    <3> QED BY <1>4, <3>1, <3>2
  <2>2. k - 1 \in 0..m - 1
    BY <1>1
  <2> QED BY <1>5, <2>1, <2>2
<1> DEFINE sorted == Sorted(S, Earlier)
<1>8. sorted = [k \in 1..m - 1 |-> CHOOSE x \in S : before(x) = k - 1]
  BY <1>6 DEF Sorted
<1> HIDE DEF before, sorted
<1>9. ASSUME NEW k \in 1..m - 1 PROVE sorted[k] = E(k)
  <2>1. \A x \in S : before(x) = k - 1 <=> x = E(k)
    <3> SUFFICES ASSUME NEW l \in 1..m - 1, before(E(l)) = k - 1 PROVE l = k
      BY <1>7
    <3>1. l - 1 = k - 1
      BY <1>7
    <3> QED BY <1>1, <3>1
  <2>2. E(k) \in S
    OBVIOUS
  <2> HIDE DEF S
  <2> QED BY <1>8, <2>1, <2>2
<1>10. ChannelWindows = [k \in 1..m - 1 |-> At(sorted[k])]
  <2>1. DOMAIN sorted = 1..m - 1
    BY <1>8
  <2>2. ChannelWindows = [k \in DOMAIN sorted |-> At(sorted[k])]
    BY <1>3 DEF ChannelWindows, sorted
  <2> QED BY <2>1, <2>2
<1>11. m - 1 \in Nat
  BY <1>1
<1> HIDE DEF m
<1> QED BY <1>2, <1>9, <1>10, <1>11 DEF m

\* The id of the channel behind a pipeline counts the channels before it: the
\* loop comes to each once.
LEMMA ChannelsNumbered ==
  ASSUME Finished, NEW k \in 1..Len(pipelines) - 1
  PROVE  ChannelId(End(k)) = k - 1
<1> DEFINE m == Len(pipelines)
           W == ChannelWindows
<1>1. DOMAIN W = 1..m - 1 /\ \A n \in 1..m - 1 : W[n] = End(n)
  BY ChannelsInOrder
<1>2. \A n, l \in 1..m - 1 : End(n) = End(l) => n = l
  <2> SUFFICES ASSUME NEW n \in 1..m - 1, NEW l \in 1..m - 1, End(n) = End(l) PROVE n = l
    OBVIOUS
  <2>1. l \in 1..m /\ Len(Ops(l)) \in 1..Len(Ops(l))
    BY DEF Finished
  <2> QED BY <2>1, EndOnce DEF End
<1>3. m \in Nat /\ k - 1 \in Nat /\ \A n \in 1..k - 1 : n \in 1..m - 1
  BY DEF Finished
<1> HIDE DEF m, W
<1>4. LastTurn(End(k)) = k
  <2>1. {n \in DOMAIN W : W[n] = End(k)} = {k}
    BY <1>1, <1>2 DEF m
  <2>2. LastTurn(End(k)) = Max({k})
    BY <2>1 DEF LastTurn, W
  <2>3. k \in Int
    BY <1>3 DEF m
  <2> QED BY <2>2, <2>3 DEF Max
<1>5. ChannelId(End(k)) = Cardinality({W[n] : n \in 1..k - 1})
  BY <1>4 DEF ChannelId, W
<1> DEFINE f == [n \in 1..k - 1 |-> End(n)]
<1>6. {W[n] : n \in 1..k - 1} = {f[n] : n \in 1..k - 1}
  BY <1>1, <1>3
<1>7. DOMAIN f = 1..k - 1 /\ \A n, l \in 1..k - 1 : f[n] = f[l] => n = l
  BY <1>2, <1>3
<1> HIDE DEF f
<1>8. Cardinality({f[n] : n \in 1..k - 1}) = k - 1
  <2> DEFINE c == k - 1
  <2>1. c \in Nat /\ DOMAIN f = 1..c /\ \A n, l \in 1..c : f[n] = f[l] => n = l
    BY <1>3, <1>7
  <2> HIDE DEF c
  <2>2. Cardinality({f[n] : n \in 1..c}) = c
    BY <2>1, ListedOnce
  <2> QED BY <2>2 DEF c
<1> QED BY <1>5, <1>6, <1>8

\* The link drawn from the end of a pipeline to the start of the next.
LinkAfter(k) == [id |-> k - 1, from |-> PlaceOf(k, Len(Ops(k))), to |-> <<k + 1, 0>>]

\* The channels are drawn from each pipeline to the next, numbered from 0.
LEMMA ChannelsDrawn ==
  ASSUME Finished
  PROVE  ChannelLinks = {LinkAfter(k) : k \in 1..Len(pipelines) - 1}
<1> DEFINE m == Len(pipelines)
<1>1. /\ m \in Nat /\ m >= 1 /\ 0 \notin Ids
      /\ \A k \in 1..m - 1 : /\ k \in 1..m /\ Len(Ops(k)) \in 1..Len(Ops(k)) /\ k + 1 \in 2..m
  <2>1. m \in Nat /\ m >= 1
    BY DEF Finished
  <2>2. \A k \in 1..m - 1 : k \in 1..m /\ k + 1 \in 2..m
    BY <2>1
  <2> QED BY <2>1, <2>2 DEF Finished, Ids
<1>2. \A k \in 1..m - 1 : /\ End(k) \in Ids /\ End(k) # 0
                         /\ pipelines[k + 1].reads = End(k)
  BY <1>1 DEF Finished
<1>3. ASSUME NEW link \in ChannelLinks PROVE \E k \in 1..m - 1 : link = LinkAfter(k)
  <2>1. PICK ends \in ChannelEnds :
          link = [id |-> ChannelId(At(ends[1])), from |-> ends[1], to |-> ends[2]]
    BY DEF ChannelLinks
  <2>2. /\ link.from \in ChannelPlaces /\ link.to \in Places /\ At(link.to) = 0
        /\ pipelines[link.to[1]].reads = At(link.from)
    BY <2>1 DEF ChannelEnds
  <2>3. link.from \in Places /\ At(link.from) # 0
    BY <2>2 DEF ChannelPlaces
  <2>4. PICK k \in 1..m - 1 : At(link.from) = End(k)
    <3>1. PICK l \in 1..m : pipelines[l].reads = At(link.from)
      BY <2>2 DEF ChannelPlaces
    <3>2. l # 1
      BY <2>3, <3>1 DEF Finished
    <3>3. l - 1 \in 1..m - 1 /\ (l - 1) + 1 = l
      BY <1>1, <3>2
    <3> QED BY <1>2, <3>1, <3>3
  <2>5. link.from = PlaceOf(k, Len(Ops(k)))
    <3>1. PICK l \in 1..m : \E j \in 1..Len(Ops(l)) : link.from = PlaceOf(l, j)
      <4>2. \A l \in 2..m : At(<<l, 0>>) = 0
        BY PlacesAre
      <4>3. \/ \E l \in 1..m : \E j \in 1..Len(Ops(l)) : link.from = PlaceOf(l, j)
            \/ \E l \in 2..m : link.from = <<l, 0>>
        BY <2>3, PlacesAre
      <4> QED BY <2>3, <4>2, <4>3
    <3>2. PICK j \in 1..Len(Ops(l)) : link.from = PlaceOf(l, j)
      BY <3>1
    <3>3. Ops(l)[j] = End(k)
      BY <2>4, <3>2, PlacesAre
    <3>4. l = k /\ j = Len(Ops(k))
      BY <3>3, EndOnce
    <3> QED BY <3>2, <3>4
  <2>6. link.to = <<k + 1, 0>>
    <3> DEFINE q == link.to
    <3>0. q \in Places /\ At(q) = 0
      BY <2>2
    <3> HIDE DEF q
    <3>1. PICK l \in 2..m : q = <<l, 0>>
      <4>1. \A h \in 1..m : \A j \in 1..Len(Ops(h)) : q # PlaceOf(h, j)
        BY <3>0, PlacesAre
      <4> QED BY <3>0, <4>1, PlacesAre
    <3>2. l - 1 \in 1..m - 1 /\ (l - 1) + 1 = l
      BY <1>1
    <3>3. End(l - 1) = End(k)
      BY <1>2, <2>2, <2>4, <3>1, <3>2 DEF q
    <3>4. l - 1 \in 1..m /\ Len(Ops(l - 1)) \in 1..Len(Ops(l - 1))
      BY <1>1, <3>2
    <3>5. l - 1 = k
      BY <3>3, <3>4, EndOnce DEF End
    <3> QED BY <3>1, <3>2, <3>5 DEF q
  <2>7. ChannelId(At(link.from)) = k - 1
    BY <2>4, ChannelsNumbered
  <2>8. link = LinkAfter(k)
    BY <2>1, <2>5, <2>6, <2>7 DEF LinkAfter
  <2> QED BY <2>8
<1>4. ASSUME NEW k \in 1..m - 1 PROVE LinkAfter(k) \in ChannelLinks
  <2>1. /\ PlaceOf(k, Len(Ops(k))) \in Places /\ At(PlaceOf(k, Len(Ops(k)))) = End(k)
        /\ <<k + 1, 0>> \in Places /\ At(<<k + 1, 0>>) = 0
    BY <1>1, PlacesAre DEF End
  <2> DEFINE from == PlaceOf(k, Len(Ops(k)))
             to == <<k + 1, 0>>
  <2> HIDE DEF from, to
  <2>2. from \in ChannelPlaces
    <3>1. pipelines[k + 1].reads = At(from) /\ k + 1 \in 1..m
      BY <1>1, <1>2, <2>1 DEF from
    <3> QED BY <1>2, <2>1, <3>1 DEF ChannelPlaces, from
  <2>3. <<from, to>> \in ChannelEnds
    <3>1. to \in Places /\ At(to) = 0 /\ to[1] = k + 1 /\ At(from) = End(k)
      BY <2>1 DEF from, to
    <3> QED BY <1>2, <2>2, <3>1 DEF ChannelEnds
  <2>4. [id |-> ChannelId(At(from)), from |-> from, to |-> to] \in ChannelLinks
    BY <2>3 DEF ChannelLinks
  <2>5. ChannelId(At(from)) = k - 1
    BY <2>1, ChannelsNumbered DEF from
  <2> QED BY <2>4, <2>5 DEF LinkAfter, from, to
<1> QED BY <1>3, <1>4

\* What a reader follows are links that compile() set.
LEMMA FollowedAreLinks ==
  ASSUME Finished, NEW l \in FollowedLinks
  PROVE  \E x \in Ids : LinkAll[x] # 0 /\ l = <<x, LinkAll[x]>>
<1> DEFINE m == Len(pipelines)
<1>1. m \in Nat /\ 0 \notin Ids
  BY DEF Finished, Ids
<1>2. CASE \E c \in ChainLinks : At(c[1]) # 0 /\ l = <<At(c[1]), At(c[2])>>
  <2>1. PICK p \in Places : After(p) \in Places /\ At(p) # 0 /\ l = <<At(p), At(After(p))>>
    BY <1>2 DEF ChainLinks
  <2>2. PICK k \in 1..m : \E j \in 1..Len(Ops(k)) : p = PlaceOf(k, j)
    BY <2>1, PlacesAre
  <2>3. PICK j \in 1..Len(Ops(k)) : p = PlaceOf(k, j)
    BY <2>2
  <2>4. j < Len(Ops(k)) /\ At(p) = Ops(k)[j] /\ After(p) = PlaceOf(k, j + 1)
    BY <2>1, <2>3, PlacesAre
  <2>5. j + 1 \in 1..Len(Ops(k)) /\ Len(Ops(k)) \in Nat /\ j # Len(Ops(k))
    BY <2>4 DEF Finished
  <2>6. At(After(p)) = Ops(k)[j + 1]
    BY <2>4, <2>5, PlacesAre
  <2>7. next[Ops(k)[j]] = Ops(k)[j + 1] /\ Ops(k)[j] \in Ids /\ Ops(k)[j + 1] \in Ids
    BY <2>5 DEF Finished, IsChain
  <2>8. LinkAll[Ops(k)[j]] = Ops(k)[j + 1]
    <3> SUFFICES ASSUME NEW h \in 1..m - 1, End(h) = Ops(k)[j] PROVE FALSE
      BY <2>7 DEF Finished
    <3>1. next[End(h)] = 0
      BY DEF Finished
    <3> QED BY <1>1, <2>7, <3>1
  <2> QED BY <1>1, <2>1, <2>4, <2>6, <2>7, <2>8
<1>3. CASE \E c \in ChannelLinks : After(c.to) \in Places
                                   /\ l = <<At(c.from), At(After(c.to))>>
  <2>1. PICK c \in ChannelLinks : After(c.to) \in Places /\ l = <<At(c.from), At(After(c.to))>>
    BY <1>3
  <2>2. PICK k \in 1..m - 1 : c = LinkAfter(k)
    BY ChannelsDrawn
  <2>3. k \in 1..m /\ k + 1 \in 2..m /\ k + 1 \in 1..m /\ Len(Ops(k)) \in 1..Len(Ops(k))
    BY <1>1 DEF Finished
  <2>4. c.from = PlaceOf(k, Len(Ops(k))) /\ c.to = <<k + 1, 0>>
    BY <2>2 DEF LinkAfter
  <2>5. At(c.from) = End(k) /\ After(c.to) = PlaceOf(k + 1, 1) /\ 1 <= Len(Ops(k + 1))
    BY <2>1, <2>3, <2>4, PlacesAre DEF End
  <2>6. 1 \in 1..Len(Ops(k + 1)) /\ Ops(k + 1) # << >> /\ Ops(k + 1)[1] \in Ids
    BY <2>3, <2>5 DEF Finished
  <2>7. At(After(c.to)) = Ops(k + 1)[1]
    BY <2>3, <2>5, <2>6, PlacesAre
  <2>8. Ops(k + 1)[1] = pipelines[k + 1].first
    <3>1. IsChain(next, Len(nodes), pipelines[k + 1].first, Ops(k + 1))
      BY <2>3 DEF Finished
    <3> QED BY <2>6, <3>1 DEF IsChain
  <2>9. pipelines[k + 1].first = LinkAll[End(k)] /\ End(k) \in Ids
    BY DEF Finished
  <2> QED BY <1>1, <2>1, <2>5, <2>6, <2>7, <2>8, <2>9
<1> QED BY <1>2, <1>3 DEF FollowedLinks

\* The links that compile() set are edges.
LEMMA LinksAreEdges ==
  ASSUME BuilderInv, NEW x \in Ids, LinkAll[x] # 0
  PROVE  <<x, LinkAll[x]>> \in EdgeSet
<1>1. OutEdges(x) # {} /\ LinkAll[x] = edges[Max(OutEdges(x))][2]
  BY DEF LinkAll
<1> DEFINE O == OutEdges(x)
           j == Max(O)
<1>2. j \in O
  <2>1. O \subseteq Nat /\ O # {} /\ \A y \in O : y <= Len(edges)
    BY <1>1, GraphTypes DEF OutEdges
  <2> HIDE DEF O
  <2> QED BY <2>1, GraphTypes, MaxProperties
<1>3. j \in 1..Len(edges) /\ edges[j][1] = x
  BY <1>2 DEF OutEdges
<1>4. edges[j] = <<edges[j][1], edges[j][2]>>
  BY <1>3, GraphTypes
<1> HIDE DEF j
<1>5. edges[j] = <<x, LinkAll[x]>>
  BY <1>1, <1>3, <1>4 DEF j
<1> QED BY <1>3, <1>5 DEF EdgeSet

\* In one chain each operator but the last is linked to the one after it, and
\* the only source is the first.
LEMMA LinearGraph ==
  ASSUME BuilderInv, nodes # << >>, Linear
  PROVE  /\ EdgeSet = {<<x, x + 1>> : x \in 1..Len(nodes) - 1}
         /\ \A x \in 1..Len(nodes) - 1 : LinkAll[x] = x + 1
         /\ \A x \in Ids : nodes[x].kind = "source" => x = 1
<1> DEFINE n == Len(nodes)
<1>1. n \in Nat /\ n >= 1 /\ Ids = 1..n
  BY GraphTypes DEF Ids, BuilderInv
<1>2. Len(edges) = n - 1 /\ \A j \in 1..n - 1 : edges[j] = <<j, j + 1>>
  BY <1>1 DEF Linear
<1>3. EdgeSet = {<<x, x + 1>> : x \in 1..n - 1}
  BY <1>2 DEF EdgeSet
<1>4. ASSUME NEW x \in 1..n - 1 PROVE LinkAll[x] = x + 1
  <2>1. x \in Ids /\ x \in Nat
    BY <1>1
  <2>2. OutEdges(x) = {x}
    BY <1>2, <1>1 DEF OutEdges
  <2>3. Max({x}) = x
    BY <2>1, MaxProperties
  <2>4. LinkAll[x] = edges[Max(OutEdges(x))][2]
    BY <2>1, <2>2 DEF LinkAll
  <2>5. edges[x] = <<x, x + 1>>
    BY <1>2
  <2>6. LinkAll[x] = edges[x][2]
    BY <2>2, <2>3, <2>4
  <2> QED BY <2>5, <2>6
<1>5. ASSUME NEW x \in Ids, nodes[x].kind = "source" PROVE x = 1
  <2> SUFFICES ASSUME x # 1 PROVE FALSE
    OBVIOUS
  <2>1. x - 1 \in 1..n - 1 /\ (x - 1) + 1 = x
    BY <1>1
  <2>2. x - 1 \in InEdges(x)
    BY <1>2, <2>1 DEF InEdges
  <2> QED BY <1>5, <2>2 DEF BuilderInv, Fed
<1> QED BY <1>3, <1>4, <1>5

\* If the graph is one chain, whoever follows the links misses none.
LEMMA LinearFollowed ==
  ASSUME BuilderInv, Finished, nodes # << >>, Linear, pipelines[1].first = 1
  PROVE  \A x \in 1..Len(nodes) - 1 : <<x, x + 1>> \in FollowedLinks
<1> DEFINE n == Len(nodes)
           m == Len(pipelines)
           Placed(x) == \E k \in 1..m : \E j \in 1..Len(Ops(k)) : Ops(k)[j] = x
<1>1. n \in Nat /\ n >= 1 /\ Ids = 1..n /\ m \in Nat /\ m >= 1
  BY GraphTypes DEF Ids, Finished
<1>2. \A k \in 1..m : /\ IsChain(next, n, pipelines[k].first, Ops(k)) /\ Len(Ops(k)) \in Nat
                      /\ Ops(k) # << >> => Len(Ops(k)) >= 1
                      /\ \A j \in 1..Len(Ops(k)) : Ops(k)[j] \in Ids
  <2> SUFFICES ASSUME NEW k \in 1..m PROVE Ops(k) # << >> => Len(Ops(k)) >= 1
    BY DEF Finished
  <2>1. Ops(k) \in Seq(1..n)
    BY DEF Finished, IsChain
  <2> QED BY <2>1
<1>3. ASSUME NEW x \in 1..n - 1, Placed(x)
      PROVE  Placed(x + 1) /\ <<x, x + 1>> \in FollowedLinks
  <2>1. PICK k \in 1..m : \E j \in 1..Len(Ops(k)) : Ops(k)[j] = x
    BY <1>3
  <2>2. PICK j \in 1..Len(Ops(k)) : Ops(k)[j] = x
    BY <2>1
  <2>3. x \in Ids /\ LinkAll[x] = x + 1 /\ x + 1 # 0
    BY <1>1, LinearGraph
  <2>4. /\ PlaceOf(k, j) \in Places /\ At(PlaceOf(k, j)) = x /\ x # 0
        /\ After(PlaceOf(k, j)) = PlaceOf(k, j + 1)
        /\ PlaceOf(k, j + 1) \in Places <=> j < Len(Ops(k))
    BY <2>2, PlacesAre
  <2>5. CASE next[x] = LinkAll[x]
    <3>1. j # Len(Ops(k)) /\ next[x] = Ops(k)[j + 1]
      BY <1>2, <2>2, <2>3, <2>5 DEF IsChain
    <3>2. j + 1 \in 1..Len(Ops(k)) /\ j < Len(Ops(k)) /\ Ops(k)[j + 1] = x + 1
      BY <1>2, <2>3, <2>5, <3>1
    <3>3. At(PlaceOf(k, j + 1)) = x + 1
      BY <3>2, PlacesAre
    <3>4. <<PlaceOf(k, j), PlaceOf(k, j + 1)>> \in ChainLinks
      BY <2>4, <3>2 DEF ChainLinks
    <3>5. <<x, x + 1>> \in FollowedLinks
      <4> DEFINE p == PlaceOf(k, j)
                 q == PlaceOf(k, j + 1)
      <4>1. <<p, q>> \in ChainLinks /\ At(p) = x /\ At(q) = x + 1 /\ x # 0
        BY <2>4, <3>3, <3>4
      <4> HIDE DEF p, q
      <4>2. <<p, q>>[1] = p /\ <<p, q>>[2] = q
        OBVIOUS
      <4> QED BY <4>1, <4>2 DEF FollowedLinks
    <3> QED BY <3>2, <3>5
  <2>6. CASE next[x] # LinkAll[x]
    <3>1. PICK h \in 1..m - 1 : End(h) = x
      BY <2>3, <2>6 DEF Finished
    <3>2. /\ h \in 1..m /\ h + 1 \in 1..m /\ h + 1 \in 2..m /\ pipelines[h + 1].first = x + 1
          /\ Len(Ops(h)) \in 1..Len(Ops(h))
      BY <1>1, <2>3, <3>1 DEF Finished
    <3>3. 1 \in 1..Len(Ops(h + 1)) /\ Ops(h + 1)[1] = x + 1 /\ 1 <= Len(Ops(h + 1))
      <4>1. IsChain(next, n, x + 1, Ops(h + 1)) /\ Len(Ops(h + 1)) \in Nat
        BY <1>2, <3>2
      <4> QED BY <2>3, <4>1 DEF IsChain
    <3> DEFINE c == LinkAfter(h)
    <3>4. /\ c \in ChannelLinks /\ At(c.from) = x /\ After(c.to) \in Places
          /\ At(After(c.to)) = x + 1
      <4>1. c.from = PlaceOf(h, Len(Ops(h))) /\ c.to = <<h + 1, 0>>
        BY DEF LinkAfter
      <4>2. At(c.from) = x
        BY <3>1, <3>2, <4>1, PlacesAre DEF End
      <4>3. After(c.to) = PlaceOf(h + 1, 1) /\ After(c.to) \in Places
        BY <3>2, <3>3, <4>1, PlacesAre
      <4>4. At(After(c.to)) = x + 1
        BY <3>2, <3>3, <4>3, PlacesAre
      <4> QED BY <4>2, <4>3, <4>4, ChannelsDrawn
    <3> HIDE DEF c
    <3>5. <<x, x + 1>> \in FollowedLinks
      BY <3>4 DEF FollowedLinks
    <3> QED BY <3>2, <3>3, <3>5
  <2> QED BY <2>5, <2>6
<1> DEFINE T == {x \in Nat : x + 1 \in 1..n => Placed(x + 1)}
<1>4. \A x \in Nat : x \in T
  <2>1. 0 \in T
    <3>1. 1 \in 1..m /\ Len(Ops(1)) >= 1 /\ Ops(1)[1] = 1
      BY <1>1, <1>2 DEF IsChain
    <3> QED BY <1>2, <3>1
  <2>2. ASSUME NEW x \in Nat, x \in T PROVE x + 1 \in T
    <3> SUFFICES ASSUME (x + 1) + 1 \in 1..n PROVE Placed((x + 1) + 1)
      OBVIOUS
    <3>1. x + 1 \in 1..n - 1 /\ x + 1 \in 1..n
      BY <1>1
    <3> HIDE DEF Placed
    <3> QED BY <1>3, <2>2, <3>1
  <2> HIDE DEF T
  <2> QED BY <2>1, <2>2, Induction
<1>5. ASSUME NEW x \in 1..n - 1 PROVE Placed(x)
  <2>1. x - 1 \in Nat /\ (x - 1) + 1 = x /\ x \in 1..n
    BY <1>1
  <2>2. x - 1 \in T
    BY <1>4, <2>1
  <2> HIDE DEF Placed
  <2> QED BY <2>1, <2>2
<1> QED BY <1>3, <1>5

\* The printed pipelines.
LEMMA DrawnRight ==
  ASSUME BuilderInv, CutInv, LinkInv, nodes # << >>, phase = "done"
  PROVE  DrawingFaithful
<1> DEFINE m == Len(pipelines)
<1>1. Finished
  BY BuildFinishes
<1>2. m \in Nat /\ m >= 1
  BY <1>1 DEF Finished
<1>3. ChannelLinks = {LinkAfter(k) : k \in 1..m - 1}
  BY <1>1, ChannelsDrawn
<1>4. \A k \in 1..m - 1 : /\ LinkAfter(k).id = k - 1 /\ LinkAfter(k).from[1] = k
                          /\ LinkAfter(k).to[1] = k + 1
  BY DEF LinkAfter, PlaceOf
<1>5. {<<c.id, c.from[1], c.to[1]>> : c \in ChannelLinks}
        = {<<k - 1, k, k + 1>> : k \in 1..m - 1}
  <2> DEFINE ends(c) == <<c.id, c.from[1], c.to[1]>>
  <2>1. \A k \in 1..m - 1 : ends(LinkAfter(k)) = <<k - 1, k, k + 1>>
    BY <1>4
  <2> HIDE DEF ends
  <2>2. {ends(c) : c \in ChannelLinks} = {<<k - 1, k, k + 1>> : k \in 1..m - 1}
    BY <1>3, <2>1
  <2> QED BY <2>2 DEF ends
<1>6. Cardinality(ChannelLinks) = m - 1
  <2> DEFINE f == [k \in 1..m - 1 |-> LinkAfter(k)]
  <2>1. ChannelLinks = {f[k] : k \in 1..m - 1}
    BY <1>3
  <2>2. \A k, l \in 1..m - 1 : f[k] = f[l] => k = l
    <3> SUFFICES ASSUME NEW k \in 1..m - 1, NEW l \in 1..m - 1, LinkAfter(k) = LinkAfter(l)
                 PROVE  k = l
      OBVIOUS
    <3>1. k - 1 = l - 1
      BY <1>4
    <3> QED BY <1>2, <3>1
  <2>3. m - 1 \in Nat /\ DOMAIN f = 1..m - 1
    BY <1>2
  <2> HIDE DEF f
  <2> QED BY <2>1, <2>2, <2>3, ListedOnce
<1>7. FollowedLinks \subseteq EdgeSet
  BY <1>1, FollowedAreLinks, LinksAreEdges
<1>8. ASSUME Linear PROVE FollowedLinks = EdgeSet
  <2>1. pipelines[1].first \in Ids /\ nodes[pipelines[1].first].kind = "source"
    BY DEF CutInv, AllRoots
  <2>2. pipelines[1].first = 1
    BY <1>8, <2>1, LinearGraph
  <2>3. \A x \in 1..Len(nodes) - 1 : <<x, x + 1>> \in FollowedLinks
    BY <1>1, <1>8, <2>2, LinearFollowed
  <2>4. EdgeSet \subseteq FollowedLinks
    BY <1>8, <2>3, LinearGraph
  <2> QED BY <1>7, <2>4
<1> QED BY <1>5, <1>6, <1>7, <1>8 DEF DrawingFaithful

-----------------------------------------------------------------------------
(* 9. Which graphs keep all their operators                                *)

\* Only a join has two inputs.
OneInput ==
  \A j, l \in 1..Len(edges) :
    edges[j][2] = edges[l][2] /\ nodes[edges[j][2]].kind \notin Joins => j = l

LEMMA OneInputKept ==
  ASSUME BuilderInv, OneInput, [Next]_vars
  PROVE  OneInput'
<1> DEFINE m == Len(edges)
           new == Len(nodes) + 1
<1>1. /\ m \in Nat /\ Len(nodes) \in Nat /\ Ids = 1..Len(nodes)
      /\ \A j \in 1..m : edges[j][2] \in Ids
  BY GraphTypes DEF Ids
<1>2. \A n \in Seq([kind : {"source"} \cup Transforms \cup Joins, lateness : Nat]) : \A x :
        /\ \A i \in 1..Len(n) : Append(n, x)[i] = n[i]
        /\ Append(n, x)[Len(n) + 1] = x
  OBVIOUS
<1>3. nodes \in Seq([kind : {"source"} \cup Transforms \cup Joins, lateness : Nat])
      /\ edges \in Seq(Nat \X Nat)
  BY DEF BuilderInv
<1>4. ASSUME Len(edges') \in Nat, \A j \in 1..m : edges'[j] = edges[j],
             \A j \in 1..Len(edges') : j > m => edges'[j][2] = new,
             \A i \in Ids : nodes'[i].kind = nodes[i].kind,
             Len(edges') <= m + 1 \/ nodes'[new].kind \in Joins
      PROVE  OneInput'
  <2> SUFFICES ASSUME NEW j \in 1..Len(edges'), NEW l \in 1..Len(edges'),
                      edges'[j][2] = edges'[l][2], nodes'[edges'[j][2]].kind \notin Joins
               PROVE  j = l
    BY DEF OneInput
  <2>1. CASE j <= m /\ l <= m
    <3>1. j \in 1..m /\ l \in 1..m
      BY <1>1, <1>4, <2>1
    <3>2. edges[j][2] = edges[l][2] /\ nodes[edges[j][2]].kind \notin Joins
      BY <1>1, <1>4, <3>1
    <3> QED BY <3>1, <3>2 DEF OneInput
  <2>2. CASE j > m /\ l > m
    BY <1>1, <1>4, <2>2
  <2>3. CASE (j <= m /\ l > m) \/ (j > m /\ l <= m)
    BY <1>1, <1>4, <2>3
  <2> QED BY <1>1, <1>4, <2>1, <2>2, <2>3
<1>5. ASSUME NEW kind, AddNode(kind)
      PROVE  (\A i \in Ids : nodes'[i].kind = nodes[i].kind) /\ nodes'[new].kind = kind
  <2>1. nodes' = Append(nodes, [kind |-> kind, lateness |-> 0])
    BY <1>5 DEF AddNode
  <2> QED BY <1>1, <1>2, <1>3, <2>1
<1>6. CASE Source
  <2>1. edges' = edges /\ \A i \in Ids : nodes'[i].kind = nodes[i].kind
    BY <1>5, <1>6 DEF Source
  <2> QED BY <1>1, <1>4, <2>1
<1>7. ASSUME NEW h \in Ids, NEW kind, Transform(h, kind) PROVE OneInput'
  <2>1. edges' = Append(edges, <<h, new>>) /\ \A i \in Ids : nodes'[i].kind = nodes[i].kind
    BY <1>5, <1>7 DEF Transform, NewId
  <2>2. /\ Len(edges') = m + 1 /\ edges'[m + 1] = <<h, new>>
        /\ \A j \in 1..m : edges'[j] = edges[j]
    BY <1>3, <2>1
  <2>3. \A j \in 1..Len(edges') : j > m => j = m + 1
    BY <1>1, <2>2
  <2>4. \A j \in 1..Len(edges') : j > m => edges'[j][2] = new
    BY <2>2, <2>3
  <2> QED BY <1>1, <1>4, <2>1, <2>2, <2>4
<1>8. ASSUME NEW h \in Ids, NEW kind \in Joins, NEW other, Join(h, other, kind)
      PROVE  OneInput'
  <2> DEFINE two == << <<h, new>>, <<other, new>> >>
  <2>1. /\ edges' = edges \o two /\ nodes'[new].kind \in Joins
        /\ \A i \in Ids : nodes'[i].kind = nodes[i].kind
    BY <1>5, <1>8 DEF Join, NewId
  <2>2. Len(two) = 2 /\ two[1][2] = new /\ two[2][2] = new
    OBVIOUS
  <2>3. \A j \in 1..Len(two) : two[j][2] = new
    BY <2>2
  <2>4. two \in Seq({<<h, new>>, <<other, new>>})
    OBVIOUS
  <2> HIDE DEF two
  <2>5. /\ Len(edges') = m + Len(two)
        /\ \A j \in 1..Len(edges') : edges'[j] = IF j <= m THEN edges[j] ELSE two[j - m]
    BY <1>3, <2>1, <2>4
  <2>6. \A j \in 1..Len(edges') : j > m => j - m \in 1..Len(two)
    BY <1>1, <2>2, <2>5
  <2>7. Len(edges') \in Nat /\ \A j \in 1..m : j \in 1..Len(edges')
    BY <1>1, <2>2, <2>5
  <2>8. \A j \in 1..m : edges'[j] = edges[j]
    BY <1>1, <2>5, <2>7
  <2>9. \A j \in 1..Len(edges') : j > m => edges'[j][2] = new
    <3> SUFFICES ASSUME NEW j \in 1..Len(edges'), j > m PROVE edges'[j][2] = new
      OBVIOUS
    <3>1. edges'[j] = two[j - m]
      BY <1>1, <2>5
    <3> QED BY <2>3, <2>6, <3>1
  <2> QED BY <1>4, <2>1, <2>7, <2>8, <2>9
<1>9. ASSUME NEW h \in Ids, NEW lateness, WithWatermark(h, lateness) PROVE OneInput'
  <2>1. /\ edges' = edges
        /\ \A i \in Ids : nodes'[i].kind = nodes[i].kind
    BY <1>9, GraphTypes DEF WithWatermark, Ids, BuilderInv
  <2> QED BY <1>1, <1>4, <2>1
<1>10. CASE UNCHANGED vars
  BY <1>10 DEF OneInput, vars
<1> QED BY <1>6, <1>7, <1>8, <1>9, <1>10 DEF Next

\* The operators of all pipelines, by their places.
LEMMA AllOpsAre ==
  ASSUME Finished, NEW x
  PROVE  x \in AllOps <=>
           \E k \in 1..Len(pipelines) : \E j \in 1..Len(Ops(k)) : Ops(k)[j] = x
<1>1. \A k \in 1..Len(pipelines) : Ops(k) \in Seq(1..Len(nodes))
  BY DEF Finished, IsChain
<1>2. \A k \in 1..Len(pipelines) : ToSet(Ops(k)) = {Ops(k)[j] : j \in 1..Len(Ops(k))}
  BY <1>1 DEF ToSet
<1> QED BY <1>2 DEF AllOps

\* With an operator the pipelines hold the one that compile() linked it to.
LEMMA LinkedKept ==
  ASSUME Finished, NEW x \in Ids, x \in AllOps, LinkAll[x] # 0
  PROVE  LinkAll[x] \in AllOps
<1> DEFINE m == Len(pipelines)
<1>1. PICK k \in 1..m : \E j \in 1..Len(Ops(k)) : Ops(k)[j] = x
  BY AllOpsAre
<1>2. PICK j \in 1..Len(Ops(k)) : Ops(k)[j] = x
  BY <1>1
<1>3. m \in Nat /\ Len(Ops(k)) \in Nat /\ IsChain(next, Len(nodes), pipelines[k].first, Ops(k))
  BY DEF Finished
<1>4. CASE next[x] = LinkAll[x]
  <2>1. j # Len(Ops(k)) /\ next[x] = Ops(k)[j + 1]
    BY <1>2, <1>3, <1>4 DEF IsChain
  <2>2. j + 1 \in 1..Len(Ops(k)) /\ Ops(k)[j + 1] = LinkAll[x]
    BY <1>3, <1>4, <2>1
  <2> QED BY <2>2, AllOpsAre
<1>5. CASE next[x] # LinkAll[x]
  <2>1. PICK h \in 1..m - 1 : End(h) = x
    BY <1>5 DEF Finished
  <2>2. h + 1 \in 1..m /\ pipelines[h + 1].first = LinkAll[x]
    <3>1. pipelines[h + 1].first = LinkAll[End(h)]
      BY DEF Finished
    <3> QED BY <1>3, <2>1, <3>1
  <2>3. IsChain(next, Len(nodes), LinkAll[x], Ops(h + 1)) /\ Len(Ops(h + 1)) \in Nat
    BY <2>2 DEF Finished
  <2>4. 1 \in 1..Len(Ops(h + 1)) /\ Ops(h + 1)[1] = LinkAll[x]
    BY <2>3 DEF IsChain
  <2> QED BY <2>2, <2>4, AllOpsAre
<1> QED BY <1>4, <1>5

\* Every operator of the pipelines but the root is linked to by another.
LEMMA KeptLinked ==
  ASSUME Finished, NEW x \in AllOps, x # pipelines[1].first
  PROVE  \E w \in Ids : LinkAll[w] = x /\ x # 0
<1> DEFINE m == Len(pipelines)
<1>1. PICK k \in 1..m : \E j \in 1..Len(Ops(k)) : Ops(k)[j] = x
  BY AllOpsAre
<1>2. PICK j \in 1..Len(Ops(k)) : Ops(k)[j] = x
  BY <1>1
<1>3. /\ m \in Nat /\ Len(Ops(k)) \in Nat /\ Len(nodes) \in Nat
      /\ IsChain(next, Len(nodes), pipelines[k].first, Ops(k))
      /\ \A i \in 1..Len(Ops(k)) : Ops(k)[i] \in Ids
  BY DEF Finished
<1>4. x # 0
  BY <1>2, <1>3 DEF Ids
<1>5. CASE j > 1
  <2> DEFINE w == Ops(k)[j - 1]
  <2>1. j - 1 \in 1..Len(Ops(k)) /\ j - 1 # Len(Ops(k)) /\ (j - 1) + 1 = j
    BY <1>3, <1>5
  <2>2. w \in Ids /\ next[w] = x
    BY <1>2, <1>3, <2>1 DEF IsChain
  <2>3. next[w] = LinkAll[w]
    <3> SUFFICES ASSUME NEW h \in 1..m - 1, End(h) = w PROVE FALSE
      BY <2>2 DEF Finished
    <3>1. next[End(h)] = 0
      BY DEF Finished
    <3> QED BY <1>4, <2>2, <3>1
  <2> QED BY <1>4, <2>2, <2>3
<1>6. CASE j = 1
  <2>1. x = pipelines[k].first
    BY <1>2, <1>3, <1>6 DEF IsChain
  <2>2. k # 1 /\ k - 1 \in 1..m - 1 /\ (k - 1) + 1 = k
    BY <1>3, <2>1
  <2>3. End(k - 1) \in Ids /\ pipelines[k].first = LinkAll[End(k - 1)]
    BY <2>2 DEF Finished
  <2> QED BY <1>4, <2>1, <2>3
<1> QED BY <1>3, <1>5, <1>6

\* The link of an operator is the last of the edges out of it.
LEMMA LinkIsLast ==
  ASSUME BuilderInv, NEW x \in Ids, OutEdges(x) # {}
  PROVE  /\ Max(OutEdges(x)) \in OutEdges(x) /\ LinkAll[x] = edges[Max(OutEdges(x))][2]
         /\ \A j \in OutEdges(x) : j \in 1..Len(edges) /\ edges[j][1] = x
<1> DEFINE O == OutEdges(x)
<1>1. O \subseteq Nat /\ O # {} /\ \A y \in O : y <= Len(edges)
  BY GraphTypes DEF OutEdges
<1>2. Max(O) \in O
  <2> HIDE DEF O
  <2> QED BY <1>1, GraphTypes, MaxProperties
<1> QED BY <1>2 DEF LinkAll, OutEdges

\* From one source, along operators that feed one other at most, everything
\* is reached.
LEMMA ChainKeepsAll ==
  ASSUME BuilderInv, Finished, Valid, ~ HasJoin, OneSource, NoFanOut,
         pipelines[1].first \in Ids, nodes[pipelines[1].first].kind = "source"
  PROVE  Ids \subseteq AllOps
<1> DEFINE Lost == {x \in Ids : x \notin AllOps}
<1> SUFFICES ASSUME Lost # {} PROVE FALSE
  OBVIOUS
<1>1. Len(nodes) \in Nat /\ Ids = 1..Len(nodes) /\ Lost \subseteq Nat
  BY GraphTypes DEF Ids
<1>2. PICK x \in Lost : x \in Nat /\ \A y \in Nat : y < x => y \notin Lost
  <2> HIDE DEF Lost
  <2> QED BY <1>1, Least
<1>3. pipelines[1].first \in AllOps
  <2>1. /\ 1 \in 1..Len(pipelines) /\ Len(Ops(1)) \in Nat
        /\ IsChain(next, Len(nodes), pipelines[1].first, Ops(1))
    BY DEF Finished
  <2>2. pipelines[1].first # 0
    BY <1>1
  <2>3. 1 \in 1..Len(Ops(1)) /\ Ops(1)[1] = pipelines[1].first
    BY <2>1, <2>2 DEF IsChain
  <2> QED BY <2>1, <2>3, AllOpsAre
<1>4. x \in Ids /\ nodes[x].kind # "source"
  BY <1>2, <1>3 DEF OneSource
<1>5. PICK j \in InEdges(x) : TRUE
  BY <1>4 DEF BuilderInv, Fed
<1>6. j \in 1..Len(edges) /\ edges[j][2] = x
  BY <1>5 DEF InEdges
<1> DEFINE w == edges[j][1]
<1>7. w \in Ids
  BY <1>6 DEF Valid, EdgesKnown, EdgeSet
<1>8. w < x
  BY <1>4, <1>6 DEF BuilderInv, InputsFirst, HasJoin
<1>9. w \in AllOps
  BY <1>1, <1>2, <1>7, <1>8
<1>10. LinkAll[w] = x
  <2>1. j \in OutEdges(w)
    BY <1>6 DEF OutEdges
  <2>2. /\ Max(OutEdges(w)) \in OutEdges(w) /\ LinkAll[w] = edges[Max(OutEdges(w))][2]
        /\ \A l \in OutEdges(w) : l \in 1..Len(edges) /\ edges[l][1] = w
    BY <1>7, <2>1, LinkIsLast
  <2>3. Max(OutEdges(w)) = j
    BY <2>1, <2>2 DEF NoFanOut
  <2> QED BY <1>6, <2>2, <2>3
<1>11. x # 0
  BY <1>1, <1>4
<1>12. x \in AllOps
  <2> HIDE DEF w
  <2> QED BY <1>7, <1>9, <1>10, <1>11, LinkedKept
<1> QED BY <1>2, <1>12

\* A second source, or a second edge out of an operator, leads to an operator
\* that no link leads to.
LEMMA AllKeptChain ==
  ASSUME BuilderInv, OneInput, Finished, ~ HasJoin, Ids \subseteq AllOps,
         pipelines[1].first \in Ids, nodes[pipelines[1].first].kind = "source"
  PROVE  OneSource /\ NoFanOut
<1> DEFINE root == pipelines[1].first
<1>1. \A x \in Ids : InEdges(x) = {} <=> nodes[x].kind = "source"
  BY DEF BuilderInv, Fed
<1>2. ASSUME NEW x \in Ids, x # root
      PROVE  \E w \in Ids : /\ Max(OutEdges(w)) \in 1..Len(edges)
                            /\ edges[Max(OutEdges(w))][1] = w
                            /\ edges[Max(OutEdges(w))][2] = x
  <2>1. PICK w \in Ids : LinkAll[w] = x /\ x # 0
    BY <1>2, KeptLinked
  <2>2. OutEdges(w) # {}
    BY <2>1 DEF LinkAll
  <2> QED BY <2>1, <2>2, LinkIsLast
<1>3. ASSUME NEW x \in Ids, nodes[x].kind = "source" PROVE x = root
  <2> SUFFICES ASSUME x # root PROVE FALSE
    OBVIOUS
  <2>1. PICK w \in Ids : /\ Max(OutEdges(w)) \in 1..Len(edges)
                         /\ edges[Max(OutEdges(w))][2] = x
    BY <1>2
  <2>2. Max(OutEdges(w)) \in InEdges(x)
    BY <2>1 DEF InEdges
  <2> QED BY <1>1, <1>3, <2>2
<1>4. ASSUME NEW j \in 1..Len(edges) PROVE j = Max(OutEdges(edges[j][1]))
  <2> DEFINE x == edges[j][2]
  <2>1. x \in Ids /\ nodes[x].kind \notin Joins
    BY GraphTypes DEF HasJoin
  <2>2. x # root
    <3>1. j \in InEdges(x)
      BY DEF InEdges
    <3> QED BY <1>1, <2>1, <3>1
  <2>3. PICK w \in Ids : /\ Max(OutEdges(w)) \in 1..Len(edges)
                         /\ edges[Max(OutEdges(w))][1] = w
                         /\ edges[Max(OutEdges(w))][2] = x
    BY <1>2, <2>1, <2>2
  <2>4. j = Max(OutEdges(w))
    <3> DEFINE l == Max(OutEdges(w))
    <3>1. l \in 1..Len(edges) /\ edges[l][2] = edges[j][2]
      BY <2>3
    <3> HIDE DEF l
    <3>2. j = l
      BY <2>1, <3>1 DEF OneInput
    <3> QED BY <3>2 DEF l
  <2>5. edges[j][1] = w
    BY <2>3, <2>4
  <2> QED BY <2>4, <2>5
<1>5. OneSource
  BY <1>3 DEF OneSource
<1>6. NoFanOut
  BY <1>4 DEF NoFanOut
<1> QED BY <1>5, <1>6

-----------------------------------------------------------------------------
(* 10. The inductive invariant                                             *)

GInv ==
  /\ BuilderInv
  /\ phase \in {"building", "ordering", "cutting", "done"}
  /\ phase = "building" => queue = << >> /\ order = << >> /\ inDegree = << >>
  /\ phase \in {"building", "ordering"} =>
       next = << >> /\ pipelines = << >> /\ current = [reads |-> 0, first |-> 0]
  /\ phase # "building" => OrderInv
  /\ phase \in {"cutting", "done"} => CutInv /\ LinkInv /\ current \in Root

\* The invariant holds at the start.
LEMMA GraphStart == GraphInit => GInv
BY InitBuilder DEF GraphInit, GInv

\* Every step keeps the invariant.
LEMMA GraphStep == GInv /\ [GraphNext]_allVars => GInv'
<1> SUFFICES ASSUME GInv, [GraphNext]_allVars PROVE GInv'
  OBVIOUS
<1>1. BuilderInv
  BY DEF GInv
<1>2. CASE Build
  <2>1. Next /\ UNCHANGED graphVars /\ phase = "building"
    BY <1>2 DEF Build
  <2>2. BuilderInv'
    BY <1>1, <2>1, NextBuilder
  <2>3. UNCHANGED <<phase, queue, inDegree, order, next, current, pipelines>>
    BY <2>1 DEF graphVars
  <2> QED BY <2>1, <2>2, <2>3 DEF GInv
<1>3. CASE StartOrdering
  <2>1. phase = "building" /\ phase' = "ordering" /\ UNCHANGED <<next, current, pipelines>>
        /\ UNCHANGED vars
    BY <1>3 DEF StartOrdering
  <2>2. OrderInv'
    BY <1>1, <1>3, <2>1, StartOrder DEF GInv
  <2> QED BY <1>1, <2>1, <2>2, GraphKept DEF GInv
<1>4. CASE VisitNode
  <2>1. phase = "ordering" /\ UNCHANGED <<phase, next, current, pipelines>> /\ UNCHANGED vars
    BY <1>4 DEF VisitNode
  <2>2. OrderInv'
    BY <1>1, <1>4, <2>1, VisitKeeps DEF GInv
  <2> QED BY <1>1, <2>1, <2>2, GraphKept DEF GInv
<1>5. CASE Compile
  <2>1. phase = "ordering" /\ phase' = "cutting" /\ UNCHANGED vars
        /\ UNCHANGED <<queue, inDegree, order>>
    BY <1>5 DEF Compile
  <2>2. OrderInv /\ pipelines = << >>
    BY <2>1 DEF GInv
  <2>3. CutInv' /\ LinkInv' /\ current' \in Root
    BY <1>1, <1>5, <2>2, CompileCuts, CompileLinks
  <2>4. Root' = Root
    BY <2>1, GraphKept DEF Root, vars
  <2> QED BY <1>1, <2>1, <2>2, <2>3, <2>4, GraphKept DEF GInv
<1>6. CASE CutAtWindow
  <2>1. phase = "cutting" /\ phase' = phase /\ UNCHANGED vars
        /\ UNCHANGED <<queue, inDegree, order>>
    BY <1>6 DEF CutAtWindow
  <2>2. OrderInv /\ CutInv /\ LinkInv /\ current \in Root
    BY <2>1 DEF GInv
  <2>3. CutInv' /\ LinkInv' /\ current' \in Root
    BY <1>1, <1>6, <2>2, CutKeeps, CutLinks
  <2>4. Root' = Root
    BY <2>1, GraphKept DEF Root, vars
  <2> QED BY <1>1, <2>1, <2>2, <2>3, <2>4, GraphKept DEF GInv
<1>7. CASE LastPipeline
  <2>1. phase = "cutting" /\ phase' = "done" /\ UNCHANGED vars
        /\ UNCHANGED <<queue, inDegree, order>>
    BY <1>7 DEF LastPipeline
  <2>2. OrderInv /\ CutInv /\ LinkInv /\ current \in Root
    BY <2>1 DEF GInv
  <2>3. CutInv' /\ current' \in Root
    BY <1>1, <1>7, <2>2, LastKeeps
  <2>5. LinkInv'
    <3>1. UNCHANGED <<nodes, edges, next>> /\ AllRoots' = AllRoots
      BY <1>7 DEF LastPipeline, AllRoots, vars
    <3> QED BY <2>2, <3>1, LinksKept
  <2>4. Root' = Root
    BY <2>1, GraphKept DEF Root, vars
  <2> QED BY <1>1, <2>1, <2>2, <2>3, <2>4, <2>5, GraphKept DEF GInv
<1>8. CASE UNCHANGED allVars
  <2>1. UNCHANGED vars /\ UNCHANGED <<phase, queue, inDegree, order, next, current, pipelines>>
    BY <1>8 DEF allVars, graphVars
  <2>2. Root' = Root /\ AllRoots' = AllRoots
    BY <2>1, GraphKept DEF Root, AllRoots, vars
  <2>3. ASSUME CutInv PROVE CutInv'
    <3>1. UNCHANGED <<nodes, edges>> /\ Ids' = Ids
      BY <2>1, GraphKept DEF vars
    <3>2. (\A k \in 1..Len(AllRoots) - 1 : EndsAtWindow(AllRoots, next, k))'
      <4>1. \A k \in 1..Len(AllRoots) - 1 : EndsAtWindow(AllRoots, next, k)
        BY <2>3 DEF CutInv
      <4>2. \A k \in 1..Len(AllRoots) - 1 :
              EndsAtWindow(AllRoots, next, k)' = EndsAtWindow(AllRoots, next, k)
        BY <2>1, <2>2, <3>1 DEF EndsAtWindow, WindowsOf, IsWindow, ChainOf, Last
      <4> QED BY <2>2, <4>1, <4>2
    <3>3. (phase = "done" =>
             WindowsOf(ChainOf(next, Len(nodes), AllRoots[Len(AllRoots)].first)) = {})'
      <4>1. WindowsOf(ChainOf(next, Len(nodes), AllRoots[Len(AllRoots)].first))'
              = WindowsOf(ChainOf(next, Len(nodes), AllRoots[Len(AllRoots)].first))
        BY <2>1, <2>2, <3>1 DEF WindowsOf, IsWindow, ChainOf
      <4>2. phase = "done" =>
              WindowsOf(ChainOf(next, Len(nodes), AllRoots[Len(AllRoots)].first)) = {}
        BY <2>3 DEF CutInv
      <4> QED BY <2>1, <4>1, <4>2
    <3>4. (Rising(next, Len(nodes)))'
      BY <2>1, <2>3, <3>1 DEF CutInv, Rising
    <3> QED BY <2>1, <2>2, <2>3, <3>1, <3>2, <3>3, <3>4 DEF CutInv
  <2>4. LinkInv => LinkInv'
    BY <2>1, <2>2, LinksKept DEF vars
  <2> QED BY <1>1, <2>1, <2>2, <2>3, <2>4, GraphKept DEF GInv
<1> QED BY <1>2, <1>3, <1>4, <1>5, <1>6, <1>7, <1>8 DEF GraphNext, Translate

\* The invariant always holds.
LEMMA GraphInvariance == GraphSpec => []GInv
BY GraphStart, GraphStep, PTL DEF GraphSpec

-----------------------------------------------------------------------------
(* 10. The theorems                                                        *)

\* Every state has the types that the code declares: ids of operators in the
\* queue and in the result, counts that never fall below zero, links and
\* roots that are operators or null.
THEOREM GraphTypeCorrect == GraphSpec => []GraphTypeOK
<1>1. GInv => GraphTypeOK
  <2> SUFFICES ASSUME GInv PROVE GraphTypeOK
    OBVIOUS
  <2>1. BuilderInv /\ TypeOK /\ Len(nodes) \in Nat
    BY GraphTypes DEF GInv, BuilderInv
  <2>2. ToSet(<< >>) = {} /\ << >> \in [DOMAIN << >> -> Nat] /\ << >> \in [DOMAIN << >> -> 0..Len(nodes)]
    BY DEF ToSet
  <2>3. ASSUME OrderInv
        PROVE  /\ ToSet(queue) \subseteq Ids /\ ToSet(order) \subseteq Ids
               /\ inDegree \in [DOMAIN inDegree -> Nat]
    <3>1. queue \in Seq(Ids) /\ order \in Seq(Ids)
      BY <2>3 DEF OrderInv
    <3>2. inDegree = [i \in Ids |-> Cardinality(Unvisited(i))]
      BY <2>3 DEF OrderInv
    <3>3. \A i \in Ids : Cardinality(Unvisited(i)) \in Nat
      BY <2>1, EdgeSets
    <3> QED BY <3>1, <3>2, <3>3, ToSetElements
  <2>4. ASSUME CutInv, current \in Root
        PROVE  /\ next \in [DOMAIN next -> 0..Len(nodes)]
               /\ current.reads \in 0..Len(nodes) /\ current.first \in 0..Len(nodes)
    BY <2>4 DEF CutInv, Rising, Root
  <2>5. CASE phase = "building"
    BY <2>1, <2>2, <2>5 DEF GInv, GraphTypeOK
  <2>6. CASE phase = "ordering"
    BY <2>1, <2>2, <2>3, <2>6 DEF GInv, GraphTypeOK
  <2>7. CASE phase \in {"cutting", "done"}
    BY <2>1, <2>3, <2>4, <2>7 DEF GInv, GraphTypeOK
  <2> QED BY <2>5, <2>6, <2>7 DEF GInv
<1> QED BY <1>1, GraphInvariance, PTL

\* validate() accepts a graph exactly if it has operators, its edges join
\* operators of its own, and it has no cycle, whatever calls built it: the
\* rounds of check_no_cycles() come to a standstill after at most as many
\* rounds as there are operators, and what they leave out is a cycle.
THEOREM ValidatesExactly == GraphSpec => []ValidExactlyBuilt
<1>1. GInv => ValidExactlyBuilt
  BY ValidExact, GraphTypes DEF GInv, ValidExactlyBuilt
<1> QED BY <1>1, GraphInvariance, PTL

\* When topological_order() returns, its result has each operator once, and
\* after all operators that feed it, in whatever order the hash table gave
\* the first ones.
THEOREM OrdersTopologically == GraphSpec => []OrderIsTopological
<1>1. GInv => OrderIsTopological
  BY OrderedTopologically DEF GInv, OrderIsTopological
<1> QED BY <1>1, GraphInvariance, PTL

\* When build() returns, the first pipeline starts with a source, every other
\* one reads the channel of the window that ends the one before it, there is
\* no window elsewhere, and no operator is in two pipelines or twice in one:
\* what module SlotEngine and its threads take for granted.
THEOREM PairsPipelines == GraphSpec => []PipelinesPaired
<1>1. GInv => PipelinesPaired
  <2> SUFFICES ASSUME GInv, phase = "done" PROVE PipelinesPaired
    BY DEF PipelinesPaired
  <2> DEFINE m == Len(pipelines)
             C(k) == ChainOf(next, Len(nodes), pipelines[k].first)
  <2>1. CutInv /\ AllRoots = pipelines
    BY DEF GInv, AllRoots
  <2>2. m \in Nat /\ m >= 1
    BY <2>1 DEF CutInv
  <2>3. \A k : Ops(k) = C(k)
    BY ChainFromIs DEF Ops
  <2>4. /\ \A k \in 1..m - 1 : WindowsOf(C(k)) = {Len(C(k))}
        /\ \A k \in 1..m - 1 : pipelines[k + 1].reads = Last(C(k))
        /\ WindowsOf(C(m)) = {}
    BY <2>1 DEF CutInv, EndsAtWindow
  <2>5. pipelines[1].reads = 0 /\ nodes[pipelines[1].first].kind = "source"
    BY <2>1 DEF CutInv
  <2> HIDE DEF C
  <2>6. \A k \in 1..m : WindowsOf(Ops(k)) = IF k = m THEN {} ELSE {Len(Ops(k))}
    <3>1. \A k \in 1..m : k = m \/ k \in 1..m - 1
      BY <2>2
    <3> QED BY <2>3, <2>4, <3>1
  <2>7. \A k \in 2..m : pipelines[k].reads = Last(Ops(k - 1))
    <3>1. \A k \in 2..m : k - 1 \in 1..m - 1 /\ (k - 1) + 1 = k
      BY <2>2
    <3> QED BY <2>3, <2>4, <3>1
  <2>8. OneThreadEach
    <3>1. BuilderInv /\ LinkInv
      BY DEF GInv
    <3> QED BY <2>1, <3>1, BuildFinishes, ThreadsApart
  <2> QED BY <2>5, <2>6, <2>7, <2>8 DEF PipelinesPaired
<1> QED BY <1>1, GraphInvariance, PTL

\* On every graph that can be built the queries agree with each other:
\* whoever follows targets_of() from the roots, or sources_of() from the
\* leaves, gets to each operator and to no id that op() does not know; the
\* roots are the sources in the order they were made; and the two ends of
\* an edge report it as often.
THEOREM QueriesAlwaysAgree == GraphSpec => []QueriesAgreeBuilt
<1>1. GInv => QueriesAgreeBuilt
  BY QueriesRight DEF GInv, QueriesAgreeBuilt
<1> QED BY <1>1, GraphInvariance, PTL

\* When build() has returned, the printed pipelines show the graph they were
\* built from, with any number of windows: the channels have different ids
\* and go from each pipeline to the next, whoever follows the links from
\* operator to operator finds edges of the dataflow graph only, and all of
\* them if it is one chain.
THEOREM DrawsFaithfully == GraphSpec => []DrawingFaithful
<1>1. GInv => DrawingFaithful
  <2> SUFFICES ASSUME GInv, phase = "done" PROVE DrawingFaithful
    BY DEF DrawingFaithful
  <2>1. BuilderInv /\ CutInv /\ LinkInv /\ nodes # << >>
    BY DEF GInv, OrderInv, Valid
  <2> QED BY <2>1, DrawnRight
<1> QED BY <1>1, GraphInvariance, PTL

\* Exactly the graphs with one source in which no operator feeds two others
\* are compiled without loss: the positive side of what is said about
\* set_next() in compile(), which keeps one link of several, and about its
\* root, which is one source of several.
THEOREM CompilesWhole == GraphSpec => []CompiledWhole
<1>1. ASSUME GInv, OneInput PROVE CompiledWhole
  <2> SUFFICES ASSUME phase = "done" PROVE AllOps = Ids <=> OneSource /\ NoFanOut
    BY DEF CompiledWhole
  <2>1. BuilderInv /\ CutInv /\ LinkInv /\ Valid /\ ~ HasJoin
    BY <1>1 DEF GInv, OrderInv, LinkInv
  <2>2. Finished
    BY <2>1, BuildFinishes
  <2>3. pipelines[1].first \in Ids /\ nodes[pipelines[1].first].kind = "source"
    BY <2>1 DEF CutInv, AllRoots
  <2>4. AllOps \subseteq Ids
    <3> SUFFICES ASSUME NEW x \in AllOps PROVE x \in Ids
      OBVIOUS
    <3>1. \E k \in 1..Len(pipelines) : \E j \in 1..Len(Ops(k)) : Ops(k)[j] = x
      BY <2>2, AllOpsAre
    <3> QED BY <2>2, <3>1 DEF Finished
  <2> QED BY <1>1, <2>1, <2>2, <2>3, <2>4, ChainKeepsAll, AllKeptChain
<1>2. GraphInit => OneInput
  <2> SUFFICES ASSUME edges = << >> PROVE OneInput
    BY DEF GraphInit, Init
  <2>1. 1..Len(edges) = {}
    OBVIOUS
  <2> QED BY <2>1 DEF OneInput
<1>3. GInv /\ OneInput /\ [GraphNext]_allVars => OneInput'
  <2> SUFFICES ASSUME GInv, OneInput, [GraphNext]_allVars PROVE OneInput'
    OBVIOUS
  <2>1. CASE Build
    BY <2>1, OneInputKept DEF Build, GInv
  <2>2. CASE Translate \/ UNCHANGED allVars
    <3>1. UNCHANGED <<nodes, edges>>
      BY <2>2 DEF Translate, StartOrdering, VisitNode, Compile, CutAtWindow, LastPipeline,
         allVars, vars
    <3> QED BY <3>1 DEF OneInput
  <2> QED BY <2>1, <2>2 DEF GraphNext
<1> QED BY GraphInvariance, <1>1, <1>2, <1>3, PTL DEF GraphSpec
=============================================================================
