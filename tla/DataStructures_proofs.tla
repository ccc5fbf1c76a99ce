----------------------- MODULE DataStructures_proofs -----------------------
(***************************************************************************)
(* The two data structures that a program uses by plain calls, under every *)
(* sequence of their calls: EventBuffer keeps its vector ordered and       *)
(* implements EventSet, for any latest timestamp and any number of events; *)
(* a Record and the StrictInt numbers in it stay exact, for integer types  *)
(* of any widths.                                                          *)
(***************************************************************************)
EXTENDS EventBuffer, Record, EventBufferOps_proofs

-----------------------------------------------------------------------------
(* 1. The buffer                                                           *)

\* The inductive invariant.  The arrival numbers are part of it: that a new
\* event is newer than all those held is what keeps ties in order.
IInv == TypeOK /\ Ordered(events)

LEMMA EventIsEventSet == IsEventSet(Event)
  BY EventBufferAssumption DEF Event, IsEventSet

\* The answer to a range query, for any range of times.
LEMMA QueryAnswer ==
  ASSUME IInv, NEW start \in Int, NEW end \in Int
  PROVE  /\ Queried(events, start, end) \in Seq(Event)
         /\ IsListing(Queried(events, start, end),
                      InRange(ToSet(events), start, end))
  BY EventIsEventSet, QueriedIsRange DEF IInv, TypeOK

\* The elements of a vector whose set of elements shrank are still among
\* the events that arrived.
LEMMA SubsetArrived ==
  ASSUME IInv, NEW s \in Seq(Event), ToSet(s) \subseteq ToSet(events)
  PROVE  \A i \in 1..Len(s) : s[i].id <= arrived
<1>1. \A i \in 1..Len(s) : s[i] \in ToSet(events)
  BY ToSetElements
<1>2. \A e \in ToSet(events) : e.id <= arrived
  BY ToSetElements DEF IInv, TypeOK
<1>. QED BY <1>1, <1>2

LEMMA InsertStep ==
  ASSUME IInv, NEW t \in 0..MaxTs, Insert(t)
  PROVE  IInv' /\ ToSet(events') = ToSet(events) \cup {[id |-> arrived + 1, ts |-> t]}
<1>. DEFINE e == [id |-> arrived + 1, ts |-> t]
<1>1. arrived + 1 \in 1..MaxEvents /\ arrived \in Nat
  BY EventBufferAssumption DEF IInv, TypeOK, Insert
<1>2. e \in Event /\ e.id = arrived + 1
  BY <1>1 DEF Event
<1>3. events \in Seq(Event) /\ \A i \in 1..Len(events) : events[i] \in Event
  BY DEF IInv, TypeOK
<1>4. \A i \in 1..Len(events) : events[i].id \in Int /\ events[i].id < e.id
  BY <1>1, <1>2, <1>3 DEF IInv, TypeOK, Event
<1>. HIDE DEF e
<1>5. /\ Inserted(events, e) \in Seq(Event)
      /\ Len(Inserted(events, e)) = Len(events) + 1
      /\ ToSet(Inserted(events, e)) = ToSet(events) \cup {e}
      /\ Ordered(Inserted(events, e))
  BY <1>2, <1>3, <1>4, EventIsEventSet, InsertedProperties DEF IInv
<1>6. events' = Inserted(events, e) /\ arrived' = arrived + 1 /\ answer' = << >>
  BY DEF Insert, e
<1>7. \A i \in 1..Len(events') : events'[i].id <= arrived'
  <2>1. \A f \in ToSet(events) : f.id <= arrived + 1
    BY <1>1, <1>2, <1>3, <1>4 DEF ToSet
  <2>2. \A i \in 1..Len(events') : events'[i] \in ToSet(events) \cup {e}
    BY <1>5, <1>6, ToSetElements
  <2>. QED BY <1>1, <1>2, <1>6, <2>1, <2>2
<1>8. TypeOK'
  <2>1. arrived' \in 0..MaxEvents
    BY <1>1, <1>6
  <2>2. Len(events') <= arrived'
    BY <1>1, <1>3, <1>5, <1>6 DEF IInv, TypeOK
  <2>. QED BY <1>5, <1>6, <1>7, <2>1, <2>2 DEF TypeOK
<1>. QED BY <1>5, <1>6, <1>8 DEF IInv, e

LEMMA QueryStep ==
  ASSUME IInv, NEW start \in Int, NEW end \in Int, Query(start, end)
  PROVE  IInv' /\ IsListing(answer', InRange(ToSet(events), start, end))
  BY QueryAnswer DEF IInv, TypeOK, Query

LEMMA ExtractStep ==
  ASSUME IInv, NEW start \in Int, NEW end \in Int, start <= end,
         Extract(start, end)
  PROVE  /\ IInv'
         /\ IsListing(answer', InRange(ToSet(events), start, end))
         /\ ToSet(events') = ToSet(events) \ InRange(ToSet(events), start, end)
<1>1. events \in Seq(Event) /\ Ordered(events)
  BY DEF IInv, TypeOK
<1>2. /\ events' \in Seq(Event) /\ Len(events') <= Len(events) /\ Ordered(events')
      /\ ToSet(events') = ToSet(events) \ InRange(ToSet(events), start, end)
  BY <1>1, EventIsEventSet, ExtractedIsRest DEF Extract
<1>3. \A i \in 1..Len(events') : events'[i].id <= arrived
  BY <1>2, SubsetArrived
<1>4. Len(events') <= arrived
  BY <1>1, <1>2, EventBufferAssumption DEF IInv, TypeOK
<1>. QED BY <1>2, <1>3, <1>4, QueryAnswer DEF Extract, IInv, TypeOK

LEMMA CleanupStep ==
  ASSUME IInv, NEW t \in Int, CleanupBefore(t)
  PROVE  /\ IInv'
         /\ ToSet(events') = {e \in ToSet(events) : e.ts >= t}
<1>1. events \in Seq(Event) /\ Ordered(events)
  BY DEF IInv, TypeOK
<1>2. /\ events' \in Seq(Event) /\ Len(events') <= Len(events) /\ Ordered(events')
      /\ ToSet(events') = {e \in ToSet(events) : e.ts >= t}
  BY <1>1, EventIsEventSet, CleanedIsSuffix DEF CleanupBefore
<1>3. \A i \in 1..Len(events') : events'[i].id <= arrived
  BY <1>2, SubsetArrived
<1>4. Len(events') <= arrived
  BY <1>1, <1>2, EventBufferAssumption DEF IInv, TypeOK
<1>. QED BY <1>2, <1>3, <1>4 DEF CleanupBefore, IInv, TypeOK

LEMMA InitIInv == Init => IInv
  BY EventBufferAssumption DEF Init, IInv, TypeOK, Ordered

LEMMA NextIInv == IInv /\ [Next]_vars => IInv'
<1>. SUFFICES ASSUME IInv, [Next]_vars PROVE IInv'
  OBVIOUS
<1>1. ASSUME NEW t \in 0..MaxTs, Insert(t) PROVE IInv'
  BY <1>1, InsertStep
<1>2. ASSUME NEW start \in 0..MaxTs + 1, NEW end \in start..MaxTs + 1,
             Query(start, end) \/ Extract(start, end)
      PROVE  IInv'
  <2>1. start \in Int /\ end \in Int /\ start <= end
    BY EventBufferAssumption
  <2>. QED BY <1>2, <2>1, QueryStep, ExtractStep
<1>3. ASSUME NEW t \in 0..MaxTs + 1, CleanupBefore(t) PROVE IInv'
  BY <1>3, CleanupStep, EventBufferAssumption
<1>4. CASE UNCHANGED vars
  BY <1>4 DEF IInv, TypeOK, Ordered, vars
<1>. QED BY <1>1, <1>2, <1>3, <1>4 DEF Next

\* The vector is always well typed: what it holds and returns did arrive.
THEOREM TypeCorrect == Spec => []TypeOK
<1>1. IInv => TypeOK
  BY DEF IInv
<1>. QED BY InitIInv, NextIInv, <1>1, PTL DEF Spec

\* The vector is sorted at every binary search, whatever the order in which
\* the events arrived, and ties stay latest arrival first.
THEOREM OrderKept == Spec => []AlwaysOrdered
<1>1. IInv => AlwaysOrdered
  BY DEF IInv, AlwaysOrdered
<1>. QED BY InitIInv, NextIInv, <1>1, PTL DEF Spec

\* The abstract specification speaks of the same listings and ranges.
LEMMA SameListing ==
  ASSUME NEW s, NEW S, NEW start, NEW end
  PROVE  /\ Abstract!InRange(S, start, end) = InRange(S, start, end)
         /\ Abstract!IsListing(s, S) <=> IsListing(s, S)
  BY DEF IsListing, InRange, Ordered, Precedes, ToSet, Abstract!ToSet,
         Abstract!IsListing, Abstract!InRange, Abstract!Ordered, Abstract!Precedes

\* The sorted vector implements the abstract set of events.
THEOREM Refinement == Spec => ImplementsEventSet
<1>1. Init => Abstract!Init
  BY DEF Init, Abstract!Init, ToSet
<1>2. IInv /\ [Next]_vars => [Abstract!Next]_Abstract!vars
  <2>. SUFFICES ASSUME IInv, [Next]_vars PROVE [Abstract!Next]_Abstract!vars
    OBVIOUS
  <2>. USE DEF Abstract!Next, Abstract!vars
  <2>1. ASSUME NEW t \in 0..MaxTs, Insert(t) PROVE Abstract!Insert
    BY <2>1, InsertStep DEF Insert, Abstract!Insert
  <2>2. ASSUME NEW start \in 0..MaxTs + 1, NEW end \in start..MaxTs + 1,
               Query(start, end)
        PROVE  Abstract!Query
    <3>1. IsListing(answer', InRange(ToSet(events), start, end))
      BY <2>2, QueryStep, EventBufferAssumption
    <3>2. Abstract!IsListing(answer', Abstract!InRange(ToSet(events), start, end))
      BY <3>1, SameListing
    <3>3. UNCHANGED <<ToSet(events), arrived>>
      BY <2>2 DEF Query
    <3>. QED BY <3>2, <3>3 DEF Abstract!Query
  <2>3. ASSUME NEW start \in 0..MaxTs + 1, NEW end \in start..MaxTs + 1,
               Extract(start, end)
        PROVE  Abstract!Extract
    <3>1. /\ IsListing(answer', InRange(ToSet(events), start, end))
          /\ ToSet(events') = ToSet(events) \ InRange(ToSet(events), start, end)
      BY <2>3, ExtractStep, EventBufferAssumption
    <3>2. /\ Abstract!IsListing(answer', Abstract!InRange(ToSet(events), start, end))
          /\ ToSet(events') = ToSet(events) \ Abstract!InRange(ToSet(events), start, end)
      BY <3>1, SameListing
    <3>3. arrived' = arrived
      BY <2>3 DEF Extract
    <3>. QED BY <3>2, <3>3 DEF Abstract!Extract
  <2>4. ASSUME NEW t \in 0..MaxTs + 1, CleanupBefore(t)
        PROVE  Abstract!CleanupBefore
    <3>1. ToSet(events') = {e \in ToSet(events) : e.ts >= t}
      BY <2>4, CleanupStep, EventBufferAssumption
    <3>. QED BY <2>4, <3>1 DEF CleanupBefore, Abstract!CleanupBefore
  <2>5. CASE UNCHANGED vars
    BY <2>5 DEF vars
  <2>. QED BY <2>1, <2>2, <2>3, <2>4, <2>5 DEF Next
<1>. QED BY InitIInv, NextIInv, <1>1, <1>2, PTL DEF Spec, ImplementsEventSet, Abstract!Spec

-----------------------------------------------------------------------------
(* 2. The recursive functions of StrictInt                                 *)

\* They obey their equations.
LEMMA Pow2Equation ==
  /\ Pow2 \in [Nat -> Nat \ {0}] /\ Pow2[0] = 1
  /\ \A n \in Nat : Pow2[n + 1] = 2 * Pow2[n]
<1>. DEFINE Body(f) == [n \in Nat |-> IF n = 0 THEN 1 ELSE 2 * f[n - 1]]
            S == Nat \ {0}
            g == [p \in S |-> 2 * p]
<1>1. 1 \in S /\ g \in [S -> S]
  OBVIOUS
<1>2. PICK f : f \in [Nat -> S] /\ f[0] = 1 /\ \A n \in Nat : f[n + 1] = g[f[n]]
  <2>. HIDE DEF S, g
  <2>1. Iterated(S, 1, g)
    BY <1>1, Iterates
  <2>. QED BY <2>1 DEF Iterated
<1>3. f = Body(f)
  <2>1. ASSUME NEW n \in Nat PROVE f[n] = Body(f)[n]
    <3>1. CASE n = 0
      BY <1>2, <3>1
    <3>2. CASE n # 0
      <4>1. n - 1 \in Nat /\ (n - 1) + 1 = n
        BY <3>2
      <4>2. f[n] = g[f[n - 1]] /\ f[n - 1] \in S
        BY <1>2, <4>1
      <4>. QED BY <3>2, <4>2
    <3>. QED BY <3>1, <3>2
  <2>. QED BY <1>2, <2>1
<1>4. Pow2 = CHOOSE h : h = Body(h)
  BY DEF Pow2
<1>5. Pow2 = Body(Pow2)
  BY <1>3, <1>4
<1>6. Pow2[0] = 1 /\ \A n \in Nat : Pow2[n + 1] = 2 * Pow2[n]
  <2>1. \A n \in Nat : Pow2[n] = IF n = 0 THEN 1 ELSE 2 * Pow2[n - 1]
    BY <1>5
  <2>2. \A n \in Nat : n + 1 \in Nat /\ n + 1 # 0 /\ (n + 1) - 1 = n
    OBVIOUS
  <2>. HIDE DEF Body
  <2>. QED BY <2>1, <2>2
<1>. DEFINE T == {n \in Nat : Pow2[n] \in S}
<1>7. \A n \in Nat : n \in T
  <2>1. 0 \in T
    BY <1>6
  <2>2. \A n \in Nat : n \in T => n + 1 \in T
    BY <1>6
  <2>. QED BY <2>1, <2>2, Induction
<1>8. Pow2 \in [Nat -> S]
  BY <1>5, <1>7
<1>. QED BY <1>6, <1>8

LEMMA BitSumEquation ==
  /\ BitSum \in [Nat -> [SUBSET Nat -> Nat]]
  /\ \A S \in SUBSET Nat : BitSum[0][S] = 0
  /\ \A n \in Nat, S \in SUBSET Nat :
       BitSum[n + 1][S] = BitSum[n][S] + (IF n \in S THEN Pow2[n] ELSE 0)
<1>. DEFINE Sums == [SUBSET Nat -> Nat]
            Body(f) == [n \in Nat |-> [S \in SUBSET Nat |->
                          IF n = 0 THEN 0
                          ELSE f[n - 1][S] + (IF n - 1 \in S THEN Pow2[n - 1] ELSE 0)]]
            Up(n, a) == [S \in SUBSET Nat |-> a[S] + (IF n \in S THEN Pow2[n] ELSE 0)]
            zero == [S \in SUBSET Nat |-> 0]
            P == Nat \X Sums
            g == [p \in P |-> <<p[1] + 1, Up(p[1], p[2])>>]
<1>1. zero \in Sums /\ \A n \in Nat, a \in Sums : Up(n, a) \in Sums
  <2>1. \A n \in Nat : Pow2[n] \in Nat
    BY Pow2Equation
  <2>2. ASSUME NEW n \in Nat, NEW a \in Sums PROVE Up(n, a) \in Sums
    <3>1. \A S \in SUBSET Nat : a[S] + (IF n \in S THEN Pow2[n] ELSE 0) \in Nat
      BY <2>1
    <3>. QED BY <3>1
  <2>. QED BY <2>2
<1>. HIDE DEF Sums, Up, zero
<1>2. <<0, zero>> \in P /\ g \in [P -> P]
  BY <1>1
<1>3. PICK h : /\ h \in [Nat -> P] /\ h[0] = <<0, zero>>
               /\ \A n \in Nat : h[n + 1] = g[h[n]]
  <2>. HIDE DEF P, g
  <2>1. Iterated(P, <<0, zero>>, g)
    BY <1>2, Iterates
  <2>. QED BY <2>1 DEF Iterated
<1>4. \A n \in Nat : /\ h[n][1] \in Nat /\ h[n][2] \in Sums
                     /\ h[n + 1][1] = h[n][1] + 1 /\ h[n + 1][2] = Up(h[n][1], h[n][2])
  <2>1. ASSUME NEW n \in Nat PROVE h[n] \in P /\ h[n + 1] = g[h[n]]
    <3>. HIDE DEF P, g
    <3>. QED BY <1>3
  <2>2. ASSUME NEW n \in Nat PROVE h[n + 1] = <<h[n][1] + 1, Up(h[n][1], h[n][2])>>
    BY <2>1
  <2>3. ASSUME NEW n \in Nat PROVE h[n][1] \in Nat /\ h[n][2] \in Sums
    BY <2>1
  <2>. HIDE DEF P, g
  <2>. QED BY <2>2, <2>3
<1>5. h[0][1] = 0 /\ h[0][2] = zero
  BY <1>3
<1>6. \A n \in Nat : h[n][1] = n
  <2>. DEFINE T == {n \in Nat : h[n][1] = n}
  <2>1. 0 \in T
    BY <1>5
  <2>2. \A n \in Nat : n \in T => n + 1 \in T
    BY <1>4
  <2>3. \A n \in Nat : n \in T
    <3>. HIDE DEF T
    <3>. QED BY <2>1, <2>2, Induction
  <2>. QED BY <2>3
<1>. DEFINE f == [n \in Nat |-> h[n][2]]
<1>7. f[0] = zero /\ \A n \in Nat : f[n] \in Sums /\ f[n + 1] = Up(n, f[n])
  BY <1>4, <1>5, <1>6
<1>8. f = Body(f)
  <2>1. ASSUME NEW n \in Nat PROVE f[n] = Body(f)[n]
    <3>1. CASE n = 0
      BY <1>7, <3>1 DEF zero
    <3>2. CASE n # 0
      <4>1. n - 1 \in Nat /\ (n - 1) + 1 = n
        BY <3>2
      <4>2. f[n] = Up(n - 1, f[n - 1])
        BY <1>7, <4>1
      <4>. HIDE DEF f
      <4>. QED BY <3>2, <4>1, <4>2 DEF Up
    <3>. QED BY <3>1, <3>2
  <2>2. DOMAIN f = Nat /\ f = [n \in Nat |-> f[n]]
    OBVIOUS
  <2>. HIDE DEF f
  <2>. QED BY <2>1, <2>2
<1>9. BitSum = CHOOSE e : e = Body(e)
  BY DEF BitSum
<1>10. BitSum = Body(BitSum)
  <2>. HIDE DEF Body, f
  <2>. QED BY <1>8, <1>9
<1>11. \A n \in Nat : n = 0 => BitSum[n] = zero
  BY <1>10 DEF zero
<1>12. ASSUME NEW n \in Nat PROVE BitSum[n + 1] = Up(n, BitSum[n])
  <2>1. n + 1 \in Nat /\ n + 1 # 0 /\ (n + 1) - 1 = n
    OBVIOUS
  <2>2. BitSum[n + 1] = Body(BitSum)[n + 1]
    <3>. HIDE DEF Body
    <3>. QED BY <1>10
  <2>. QED BY <2>1, <2>2 DEF Up
<1>. DEFINE T == {n \in Nat : BitSum[n] \in Sums}
<1>13. \A n \in Nat : n \in T
  <2>1. 0 \in T
    BY <1>1, <1>11
  <2>2. \A n \in Nat : n \in T => n + 1 \in T
    BY <1>1, <1>12
  <2>3. \A n \in Nat : n \in T
    <3>. HIDE DEF T
    <3>. QED BY <2>1, <2>2, Induction
  <2>. QED BY <2>3
<1>14. BitSum \in [Nat -> Sums]
  BY <1>10, <1>13
<1>15. \A S \in SUBSET Nat : BitSum[0][S] = 0
  BY <1>11 DEF zero
<1>16. ASSUME NEW n \in Nat, NEW S \in SUBSET Nat
       PROVE  BitSum[n + 1][S] = BitSum[n][S] + (IF n \in S THEN Pow2[n] ELSE 0)
  BY <1>12 DEF Up
<1>. QED BY <1>14, <1>15, <1>16 DEF Sums

-----------------------------------------------------------------------------
(* 3. Remainders                                                           *)

LEMMA DivRem ==
  ASSUME NEW M \in Nat \ {0}, NEW a \in Int
  PROVE  a \div M \in Int /\ a % M \in 0..M - 1 /\ a = M * (a \div M) + (a % M)
  OBVIOUS

LEMMA ProductGrows ==
  ASSUME NEW M \in Nat \ {0}, NEW d \in Int, -M < d * M, d * M < M
  PROVE  d = 0
<1>1. CASE d >= 1
  BY <1>1
<1>2. CASE d <= -1
  BY <1>2
<1>. QED BY <1>1, <1>2

\* a and b leave the same remainder.
Congruent(a, b, M) == \E k \in Int : a = b + k * M

LEMMA CongruentSum ==
  ASSUME NEW M \in Int, NEW a \in Int, NEW b \in Int, Congruent(a, b, M), NEW c \in Int
  PROVE  /\ Congruent(b, a, M) /\ Congruent(a + c, b + c, M)
         /\ Congruent(a * c, b * c, M) /\ Congruent(c - a, c - b, M)
<1>1. PICK k \in Int : a = b + k * M
  BY DEF Congruent
<1>2. b = a + (-k) * M /\ -k \in Int
  BY <1>1
<1>3. a + c = b + c + k * M
  BY <1>1
<1>4. a * c = b * c + (k * c) * M /\ k * c \in Int
  BY <1>1
<1>5. c - a = c - b + (-k) * M
  BY <1>1
<1>. QED BY <1>2, <1>3, <1>4, <1>5 DEF Congruent

LEMMA CongruentTransitive ==
  ASSUME NEW M \in Int, NEW a \in Int, NEW b \in Int, NEW c \in Int,
         Congruent(a, b, M), Congruent(b, c, M)
  PROVE  Congruent(a, c, M)
<1>1. PICK k \in Int : a = b + k * M
  BY DEF Congruent
<1>2. PICK l \in Int : b = c + l * M
  BY DEF Congruent
<1>3. a = c + (k + l) * M /\ k + l \in Int
  BY <1>1, <1>2
<1>. QED BY <1>3 DEF Congruent

LEMMA CongruentUnique ==
  ASSUME NEW M \in Nat \ {0}, NEW a \in Int, NEW b \in Int, Congruent(a, b, M),
         -M < a - b, a - b < M
  PROVE  a = b
<1>1. PICK k \in Int : a = b + k * M
  BY DEF Congruent
<1>2. a - b = k * M
  BY <1>1
<1>3. k = 0
  BY <1>2, ProductGrows
<1>. QED BY <1>2, <1>3

-----------------------------------------------------------------------------
(* 4. The types of integers                                                *)

IntType == [signed : BOOLEAN, bits : Nat \ {0}]
Size(t) == Pow2[t.bits]

LEMMA TypeRange ==
  ASSUME NEW t \in IntType
  PROVE  /\ Size(t) \in Nat \ {0} /\ Lowest(t) \in Int /\ Highest(t) \in Int
         /\ Highest(t) = Lowest(t) + Size(t) - 1
         /\ Lowest(t) <= 0 /\ 0 <= Highest(t)
         /\ t.signed => Size(t) = -2 * Lowest(t) /\ Highest(t) = -Lowest(t) - 1
         /\ ~ t.signed => Lowest(t) = 0
<1>1. t.bits \in Nat /\ t.bits - 1 \in Nat /\ (t.bits - 1) + 1 = t.bits
  BY DEF IntType
<1>2. Pow2[t.bits - 1] \in Nat \ {0} /\ Pow2[t.bits] = 2 * Pow2[t.bits - 1]
  <2>. QED BY <1>1, Pow2Equation
<1>. QED BY <1>2 DEF Size, Lowest, Highest

LEMMA WrapInType ==
  ASSUME NEW t \in IntType, NEW n \in Int
  PROVE  Wrap(t, n) \in Values(t) /\ Congruent(Wrap(t, n), n, Size(t))
<1>. DEFINE M == Size(t)
            L == Lowest(t)
            a == n - L
            q == a \div M
            r == a % M
<1>1. M \in Nat \ {0} /\ L \in Int /\ Highest(t) = L + M - 1
  BY TypeRange
<1>2. q \in Int /\ r \in 0..M - 1 /\ a = M * q + r
  <2>1. a \in Int
    BY <1>1
  <2>. HIDE DEF M, a
  <2>. QED BY <1>1, <2>1, DivRem
<1>3. Wrap(t, n) = L + r
  BY DEF Wrap, Size
<1>. HIDE DEF M, L, q, r
<1>4. Wrap(t, n) = n + (-q) * M /\ -q \in Int
  BY <1>1, <1>2, <1>3
<1>5. L + r \in L..L + M - 1
  BY <1>1, <1>2
<1>. QED BY <1>1, <1>3, <1>4, <1>5 DEF Congruent, Values, M, L

LEMMA WrapUnique ==
  ASSUME NEW t \in IntType, NEW n \in Int, NEW v \in Values(t), Congruent(v, n, Size(t))
  PROVE  Wrap(t, n) = v
<1>1. Size(t) \in Nat \ {0} /\ Lowest(t) \in Int /\ Highest(t) = Lowest(t) + Size(t) - 1
  BY TypeRange
<1>2. Wrap(t, n) \in Values(t) /\ Congruent(Wrap(t, n), n, Size(t))
  BY WrapInType
<1>3. Wrap(t, n) \in Int /\ v \in Int
  BY <1>1, <1>2 DEF Values
<1>4. Congruent(n, v, Size(t))
  BY <1>1, <1>3, CongruentSum
<1>5. Congruent(Wrap(t, n), v, Size(t))
  BY <1>1, <1>2, <1>3, <1>4, CongruentTransitive
<1>6. -Size(t) < Wrap(t, n) - v /\ Wrap(t, n) - v < Size(t)
  BY <1>1, <1>2 DEF Values
<1>. QED BY <1>1, <1>3, <1>5, <1>6, CongruentUnique

LEMMA WrapFits ==
  ASSUME NEW t \in IntType, NEW v \in Values(t)
  PROVE  v \in Int /\ Wrap(t, v) = v
<1>1. v \in Int /\ Size(t) \in Int
  BY TypeRange DEF Values
<1>2. v = v + 0 * Size(t) /\ 0 \in Int
  BY <1>1
<1>3. Congruent(v, v, Size(t))
  BY <1>2 DEF Congruent
<1>. QED BY <1>1, <1>3, WrapUnique

LEMMA WrapCongruent ==
  ASSUME NEW t \in IntType, NEW m \in Int, NEW n \in Int, Congruent(m, n, Size(t))
  PROVE  Wrap(t, m) = Wrap(t, n)
<1>1. Size(t) \in Int /\ Wrap(t, m) \in Values(t) /\ Congruent(Wrap(t, m), m, Size(t))
  BY TypeRange, WrapInType
<1>2. Wrap(t, m) \in Int
  BY <1>1, WrapFits
<1>3. Congruent(Wrap(t, m), n, Size(t))
  BY <1>1, <1>2, CongruentTransitive
<1>. QED BY <1>1, <1>3, WrapUnique

\* Computing with wrapped numbers and wrapping the result is as good as
\* computing with the integers they stand for.
LEMMA WrapComputes ==
  ASSUME NEW t \in IntType, NEW m \in Int, NEW b \in Int
  PROVE  /\ Wrap(t, Wrap(t, m) + b) = Wrap(t, m + b)
         /\ Wrap(t, Wrap(t, m) - b) = Wrap(t, m - b)
         /\ Wrap(t, Wrap(t, m) * b) = Wrap(t, m * b)
         /\ Wrap(t, b - Wrap(t, m)) = Wrap(t, b - m)
<1>. DEFINE w == Wrap(t, m)
<1>1. Size(t) \in Int /\ w \in Int /\ Congruent(w, m, Size(t))
  BY TypeRange, WrapInType, WrapFits
<1>. HIDE DEF w
<1>2. /\ Congruent(w + b, m + b, Size(t)) /\ Congruent(w * b, m * b, Size(t))
      /\ Congruent(b - w, b - m, Size(t))
  BY <1>1, CongruentSum
<1>3. Congruent(w + (-b), m + (-b), Size(t))
  BY <1>1, CongruentSum
<1>4. Congruent(w - b, m - b, Size(t))
  BY <1>1, <1>3 DEF Congruent
<1>5. w + b \in Int /\ w * b \in Int /\ b - w \in Int /\ w - b \in Int
      /\ m + b \in Int /\ m * b \in Int /\ b - m \in Int /\ m - b \in Int
  BY <1>1
<1>6. \A x, y \in Int : Congruent(x, y, Size(t)) => Wrap(t, x) = Wrap(t, y)
  BY WrapCongruent
<1>7. /\ Wrap(t, w + b) = Wrap(t, m + b) /\ Wrap(t, w * b) = Wrap(t, m * b)
      /\ Wrap(t, b - w) = Wrap(t, b - m)
  BY <1>2, <1>5, <1>6
<1>8. Wrap(t, w - b) = Wrap(t, m - b)
  BY <1>4, <1>5, <1>6
<1>. QED BY <1>7, <1>8 DEF w

-----------------------------------------------------------------------------
(* 5. The operators of StrictInt                                           *)

LEMMA ResultExact ==
  ASSUME NEW t \in IntType, NEW n \in Int, NEW o \in Checked(t, n)
  PROVE  \/ /\ o.status = "running" /\ o.value = Wrap(t, n) /\ o.value \in Values(t)
            /\ t.signed => o.value = n
         \/ /\ o.status = "overflow" /\ o.value = 0
            /\ t.signed /\ n \notin Values(t)
<1>1. CASE t.signed /\ n \notin Values(t)
  BY <1>1 DEF Checked, Ends
<1>2. CASE ~ (t.signed /\ n \notin Values(t))
  <2>1. o.status = "running" /\ o.value = Wrap(t, n)
    BY <1>2 DEF Checked, Returns
  <2>. QED BY <1>2, <2>1, WrapInType, WrapFits
<1>. QED BY <1>1, <1>2

\* Division rounds toward zero.
LEMMA QuotientFacts ==
  ASSUME NEW a \in Int, NEW b \in Int, b # 0
  PROVE  \E q \in Nat, r \in Nat :
           /\ r < Magnitude(b) /\ q <= Magnitude(a)
           /\ (q = Magnitude(a) /\ a # 0) => Magnitude(b) = 1
           /\ Quotient(a, b) = IF (a < 0) <=> (b < 0) THEN q ELSE -q
           /\ Remainder(a, b) = IF a < 0 THEN -r ELSE r
<1>. DEFINE p == Magnitude(a)
            d == Magnitude(b)
            q == p \div d
            r == p % d
<1>1. /\ p \in Nat /\ d \in Nat \ {0} /\ (p = 0 => a = 0)
      /\ (a < 0 => p = -a) /\ (~ (a < 0) => p = a)
      /\ (b < 0 => d = -b) /\ (~ (b < 0) => d = b)
  BY DEF Magnitude
<1>2. Quotient(a, b) = IF (a < 0) <=> (b < 0) THEN q ELSE -q
  BY DEF Quotient
<1>. HIDE DEF p, d
<1>3. q \in Int /\ r \in 0..d - 1 /\ p = d * q + r
  BY <1>1, DivRem
<1>. HIDE DEF q, r
<1>4. q \in Nat
  <2>. SUFFICES ASSUME q <= -1 PROVE FALSE
    BY <1>3
  <2>1. d * q <= -d
    BY <1>1, <1>3
  <2>. QED BY <1>1, <1>3, <2>1
<1>5. q <= p
  <2>1. d * q >= q
    BY <1>1, <1>4
  <2>2. d * q \in Int
    BY <1>1, <1>4
  <2>. QED BY <1>1, <1>3, <1>4, <2>1, <2>2
<1>6. ASSUME q = p, a # 0 PROVE d = 1
  <2>. SUFFICES ASSUME d >= 2 PROVE FALSE
    BY <1>1
  <2>1. p >= 1
    BY <1>1, <1>6
  <2>2. d * q >= 2 * q
    BY <1>1, <1>4
  <2>3. d * q \in Int
    BY <1>1, <1>4
  <2>. QED BY <1>1, <1>3, <1>4, <1>6, <2>1, <2>2, <2>3
<1>7. Remainder(a, b) = IF a < 0 THEN -r ELSE r
  <2>1. Remainder(a, b) = a - b * Quotient(a, b)
    BY DEF Remainder
  <2>2. CASE a < 0 /\ b < 0
    BY <1>1, <1>2, <1>3, <1>4, <2>1, <2>2
  <2>3. CASE a < 0 /\ ~ (b < 0)
    <3>1. Quotient(a, b) = -q /\ b * (-q) = -(b * q)
      BY <1>2, <1>4, <2>3
    <3>. QED BY <1>1, <1>3, <1>4, <2>1, <2>3, <3>1
  <2>4. CASE ~ (a < 0) /\ b < 0
    <3>1. Quotient(a, b) = -q /\ b * (-q) = (-b) * q
      BY <1>2, <1>4, <2>4
    <3>. QED BY <1>1, <1>3, <1>4, <2>1, <2>4, <3>1
  <2>5. CASE ~ (a < 0) /\ ~ (b < 0)
    BY <1>1, <1>2, <1>3, <1>4, <2>1, <2>5
  <2>. QED BY <2>2, <2>3, <2>4, <2>5
<1>. QED BY <1>1, <1>2, <1>3, <1>4, <1>5, <1>6, <1>7 DEF p, d

LEMMA DivisionExact ==
  ASSUME NEW t \in IntType, NEW a \in Values(t), NEW b \in Values(t), b # 0
  PROVE  /\ Quotient(a, b) \in Int /\ Remainder(a, b) \in Values(t)
         /\ Quotient(a, b) \in Values(t) <=> ~ (t.signed /\ a = Lowest(t) /\ b = -1)
<1>. DEFINE L == Lowest(t)
            H == Highest(t)
<1>1. /\ L \in Int /\ H \in Int /\ L <= 0 /\ 0 <= H /\ t.signed \in BOOLEAN
      /\ (t.signed => H = -L - 1) /\ (~ t.signed => L = 0)
  BY TypeRange DEF IntType
<1>2. /\ Values(t) = L..H /\ a \in Int /\ b \in Int
      /\ L <= a /\ a <= H /\ L <= b /\ b <= H
  BY <1>1 DEF Values
<1>. HIDE DEF L, H
<1>3. PICK q \in Nat, r \in Nat :
        /\ r < Magnitude(b) /\ q <= Magnitude(a)
        /\ (q = Magnitude(a) /\ a # 0) => Magnitude(b) = 1
        /\ Quotient(a, b) = IF (a < 0) <=> (b < 0) THEN q ELSE -q
        /\ Remainder(a, b) = IF a < 0 THEN -r ELSE r
  BY <1>2, QuotientFacts
<1>4. Quotient(a, b) \in Int
  BY <1>3
<1>5. Remainder(a, b) \in L..H
  BY <1>1, <1>2, <1>3 DEF Magnitude
<1>6. ASSUME ~ (t.signed /\ a = L /\ b = -1) PROVE Quotient(a, b) \in L..H
  BY <1>1, <1>2, <1>3, <1>6 DEF Magnitude
<1>7. ASSUME t.signed, a = L, b = -1 PROVE Quotient(a, b) \notin L..H
  <2>1. Magnitude(b) = 1 /\ L < 0
    <3>1. L < 0 /\ b < 0
      BY <1>1, <1>7
    <3>2. Magnitude(b) = -b
      BY <3>1 DEF Magnitude
    <3>. QED BY <1>2, <1>7, <3>1, <3>2
  <2>2. Remainder(a, b) = 0 /\ Remainder(a, b) = a - b * Quotient(a, b)
    BY <1>3, <2>1 DEF Remainder
  <2>3. Quotient(a, b) = -L
    BY <1>1, <1>4, <1>7, <2>2
  <2>. QED BY <1>1, <1>7, <2>3
<1>. QED BY <1>2, <1>4, <1>5, <1>6, <1>7 DEF L

LEMMA DivideAnswers ==
  ASSUME NEW t \in IntType, NEW a \in Values(t), NEW b \in Values(t), NEW o \in Divide(t, a, b)
  PROVE  \/ o.status = "zero" /\ o.value = 0 /\ b = 0
         \/ /\ o.status = "overflow" /\ o.value = 0 /\ b # 0
            /\ t.signed /\ Quotient(a, b) \in Int /\ Quotient(a, b) \notin Values(t)
         \/ /\ o.status = "running" /\ b # 0
            /\ o.value = Quotient(a, b) /\ o.value \in Values(t)
<1>1. CASE b = 0
  BY <1>1 DEF Divide, Ends
<1>2. CASE b # 0 /\ t.signed /\ a = Lowest(t) /\ b = -1
  BY <1>2, DivisionExact DEF Divide, Ends
<1>3. CASE b # 0 /\ ~ (t.signed /\ a = Lowest(t) /\ b = -1)
  BY <1>3, DivisionExact DEF Divide, Returns
<1>. QED BY <1>1, <1>2, <1>3

LEMMA ModuloAnswers ==
  ASSUME NEW t \in IntType, NEW a \in Values(t), NEW b \in Values(t), NEW o \in Modulo(t, a, b)
  PROVE  \/ o.status = "zero" /\ o.value = 0 /\ b = 0
         \/ o.status = "trap" /\ o.value = 0 /\ b # 0 /\ Remainder(a, b) \in Int
         \/ /\ o.status = "running" /\ b # 0
            /\ o.value = Remainder(a, b) /\ o.value \in Values(t)
<1>1. CASE b = 0
  BY <1>1 DEF Modulo, Ends
<1>2. CASE b # 0 /\ t.signed /\ a = Lowest(t) /\ b = -1
  <2>1. o.status \in {"trap", "running"} /\ o.value = 0
    BY <1>2 DEF Modulo, Ends, Returns
  <2>2. Remainder(a, b) \in Values(t) /\ Remainder(a, b) \in Int
    BY <1>2, DivisionExact, WrapFits
  <2>3. Remainder(a, b) = 0
    <3>1. a \in Int /\ b \in Int
      BY WrapFits
    <3>2. PICK r \in Nat : r < Magnitude(b) /\ Remainder(a, b) = IF a < 0 THEN -r ELSE r
      <4>1. \E q \in Nat, r \in Nat :
              r < Magnitude(b) /\ Remainder(a, b) = IF a < 0 THEN -r ELSE r
        <5>1. b # 0
          BY <1>2
        <5>2. \E q \in Nat, r \in Nat :
                /\ r < Magnitude(b) /\ q <= Magnitude(a)
                /\ (q = Magnitude(a) /\ a # 0) => Magnitude(b) = 1
                /\ Quotient(a, b) = IF (a < 0) <=> (b < 0) THEN q ELSE -q
                /\ Remainder(a, b) = IF a < 0 THEN -r ELSE r
          BY <3>1, <5>1, QuotientFacts
        <5>. QED BY <5>2
      <4>. QED BY <4>1
    <3>. QED BY <1>2, <3>2 DEF Magnitude
  <2>. QED BY <1>2, <2>1, <2>2, <2>3
<1>3. CASE b # 0 /\ ~ (t.signed /\ a = Lowest(t) /\ b = -1)
  <2>1. o.status = "running" /\ o.value = Remainder(a, b)
    BY <1>3 DEF Modulo, Returns
  <2>. QED BY <1>3, <2>1, DivisionExact
<1>. QED BY <1>1, <1>2, <1>3

-----------------------------------------------------------------------------
(* 6. Its bits                                                             *)

LEMMA RemainderUnique ==
  ASSUME NEW M \in Nat \ {0}, NEW a \in Int, NEW r \in 0..M - 1, Congruent(a, r, M)
  PROVE  a % M = r
<1>. DEFINE q == a \div M
            x == a % M
<1>1. q \in Int /\ x \in 0..M - 1 /\ a = M * q + x
  BY DivRem
<1>. HIDE DEF q, x
<1>2. x = a + (-q) * M /\ x \in Int
  BY <1>1
<1>3. Congruent(x, a, M)
  BY <1>1, <1>2 DEF Congruent
<1>4. Congruent(x, r, M)
  BY <1>2, <1>3, CongruentTransitive
<1>5. -M < x - r /\ x - r < M
  BY <1>1
<1>6. x = r
  <2>1. r \in Int
    OBVIOUS
  <2>. QED BY <1>2, <1>4, <1>5, <2>1, CongruentUnique
<1>. QED BY <1>6 DEF x

\* One more binary digit of a number.
LEMMA NextDigit ==
  ASSUME NEW P \in Nat \ {0}, NEW n \in Int
  PROVE  n % (2 * P) = (n % P) + (IF (n \div P) % 2 = 1 THEN P ELSE 0)
<1>. DEFINE q == n \div P
            r == n % P
            h == q \div 2
            c == q % 2
            x == IF c = 1 THEN r + P ELSE r
<1>1. q \in Int /\ r \in 0..P - 1 /\ n = P * q + r
  BY DivRem
<1>2. h \in Int /\ c \in {0, 1} /\ q = 2 * h + c
  <2>. HIDE DEF q
  <2>. QED BY <1>1
<1>. HIDE DEF q, r, h, c
<1>3. P * q = h * (2 * P) + P * c
  BY <1>1, <1>2
<1>4. x \in 0..(2 * P) - 1 /\ n = x + h * (2 * P)
  <2>1. CASE c = 1
    BY <1>1, <1>2, <1>3, <2>1
  <2>2. CASE c = 0
    BY <1>1, <1>2, <1>3, <2>2
  <2>. QED BY <1>2, <2>1, <2>2
<1>5. Congruent(n, x, 2 * P) /\ 2 * P \in Nat \ {0}
  BY <1>2, <1>4 DEF Congruent
<1>. HIDE DEF x
<1>6. n % (2 * P) = x
  BY <1>4, <1>5, RemainderUnique
<1>. QED BY <1>1, <1>2, <1>6 DEF x, c, q, r

LEMMA OfBitsInType ==
  ASSUME NEW t \in IntType, NEW S \in SUBSET Nat
  PROVE  OfBits(t, S) \in Values(t)
<1>1. BitSum[t.bits][S] \in Int
  <2>1. t.bits \in Nat /\ BitSum \in [Nat -> [SUBSET Nat -> Nat]]
    BY BitSumEquation DEF IntType
  <2>2. BitSum[t.bits] \in [SUBSET Nat -> Nat]
    BY <2>1
  <2>3. BitSum[t.bits][S] \in Nat
    BY <2>2, Zenon
  <2>. QED BY <2>3
<1>. QED BY <1>1, WrapInType DEF OfBits

LEMMA BitwiseInType ==
  ASSUME NEW t \in IntType, NEW a \in Int, NEW b \in Int,
         NEW o \in And(t, a, b) \cup Or(t, a, b) \cup Xor(t, a, b)
  PROVE  o.status = "running" /\ o.value \in Values(t)
<1>. DEFINE x == BitsOf(t, a)
            y == BitsOf(t, b)
<1>1. x \in SUBSET Nat /\ y \in SUBSET Nat
  BY DEF BitsOf, IntType
<1>2. o.status = "running" /\ \E S \in SUBSET Nat : o.value = OfBits(t, S)
  BY <1>1 DEF And, Or, Xor, Returns
<1>. QED BY <1>2, OfBitsInType

\* Inverting every bit of a number gives the number whose sum with it is -1.
LEMMA NotAnswers ==
  ASSUME NEW t \in IntType, NEW n \in Int, NEW o \in Not(t, n)
  PROVE  o.status = "running" /\ o.value = Wrap(t, -1 - n) /\ o.value \in Values(t)
<1>. DEFINE S == (0..t.bits - 1) \ BitsOf(t, n)
            T == {m \in Nat : m <= t.bits => BitSum[m][S] = Pow2[m] - 1 - (n % Pow2[m])}
<1>1. t.bits \in Nat /\ S \in SUBSET Nat
  BY DEF IntType
<1>2. \A m \in Nat : m < t.bits => (m \in S <=> (n \div Pow2[m]) % 2 # 1)
  BY <1>1 DEF BitsOf
<1>. HIDE DEF S
<1>3. 0 \in T
  <2>1. n % 1 = 0
    OBVIOUS
  <2>2. BitSum[0][S] = 0 /\ Pow2[0] = 1
    BY <1>1, BitSumEquation, Pow2Equation
  <2>. QED BY <2>1, <2>2
<1>4. ASSUME NEW m \in Nat, m \in T PROVE m + 1 \in T
  <2>. SUFFICES ASSUME m + 1 <= t.bits
                PROVE  BitSum[m + 1][S] = Pow2[m + 1] - 1 - (n % Pow2[m + 1])
    OBVIOUS
  <2>. DEFINE P == Pow2[m]
              s == BitSum[m][S]
              r == n % P
              c == (n \div P) % 2
  <2>1. m < t.bits /\ P \in Nat \ {0} /\ Pow2[m + 1] = 2 * P
    BY <1>1, Pow2Equation
  <2>2. s = P - 1 - r
    BY <1>1, <1>4, <2>1
  <2>3. BitSum[m + 1][S] = s + (IF m \in S THEN P ELSE 0)
    BY <1>1, BitSumEquation
  <2>4. m \in S <=> c # 1
    BY <1>2, <2>1
  <2>. HIDE DEF P
  <2>5. n % (2 * P) = r + (IF c = 1 THEN P ELSE 0)
    BY <2>1, NextDigit
  <2>6. r \in Int
    BY <2>1, DivRem
  <2>. HIDE DEF s, r, c
  <2>. QED BY <2>1, <2>2, <2>3, <2>4, <2>5, <2>6
<1>5. t.bits \in T
  <2>. HIDE DEF T
  <2>. QED BY <1>1, <1>3, <1>4, Induction
<1>. DEFINE M == Size(t)
            q == n \div M
            r == n % M
<1>6. M \in Nat \ {0} /\ M = Pow2[t.bits]
  BY TypeRange DEF Size
<1>7. BitSum[t.bits][S] = M - 1 - r
  BY <1>1, <1>5, <1>6
<1>. HIDE DEF M
<1>8. q \in Int /\ r \in Int /\ n = M * q + r
  BY <1>6, DivRem
<1>. HIDE DEF q, r
<1>9. M - 1 - r = (-1 - n) + (q + 1) * M /\ q + 1 \in Int /\ M - 1 - r \in Int /\ -1 - n \in Int
  BY <1>6, <1>8
<1>10. Congruent(M - 1 - r, -1 - n, M)
  BY <1>9 DEF Congruent
<1>11. OfBits(t, S) = Wrap(t, -1 - n)
  BY <1>7, <1>9, <1>10, WrapCongruent DEF OfBits, M
<1>12. o.status = "running" /\ o.value = OfBits(t, S)
  BY DEF Not, Returns, S
<1>. QED BY <1>9, <1>11, <1>12, WrapInType

LEMMA ShiftInType ==
  ASSUME NEW t \in IntType, NEW a \in Int, NEW b \in Int,
         NEW o \in ShiftLeft(t, a, b) \cup ShiftRight(t, a, b)
  PROVE  o.status = "running" /\ o.value \in Values(t)
<1>1. ASSUME NEW n \in Int, NEW x \in Shifted(t, n, b)
      PROVE  x.status = "running" /\ x.value \in Values(t)
  BY <1>1, WrapInType DEF Shifted, Returns
<1>2. b < 0 \/ Pow2[b] \in Nat \ {0}
  BY Pow2Equation
<1>3. (IF b < 0 THEN a ELSE a * Pow2[b]) \in Int /\ (IF b < 0 THEN a ELSE a \div Pow2[b]) \in Int
  <2>1. CASE b < 0
    BY <2>1
  <2>2. CASE ~ (b < 0)
    <3>1. Pow2[b] \in Nat \ {0}
      BY <1>2, <2>2
    <3>2. a \div Pow2[b] \in Int
      BY <3>1, DivRem
    <3>. QED BY <2>2, <3>1, <3>2
  <2>. QED BY <2>1, <2>2
<1>. QED BY <1>1, <1>3 DEF ShiftLeft, ShiftRight

-----------------------------------------------------------------------------
(* 7. Its storage in a field                                               *)

LEMMA Pow2Grows == \A m, n \in Nat : m <= n => Pow2[m] <= Pow2[n]
<1>. SUFFICES ASSUME NEW m \in Nat PROVE \A n \in Nat : m <= n => Pow2[m] <= Pow2[n]
  OBVIOUS
<1>. DEFINE T == {n \in Nat : m <= n => Pow2[m] <= Pow2[n]}
<1>1. \A n \in Nat : Pow2[n] \in Nat /\ Pow2[n + 1] = 2 * Pow2[n]
  BY Pow2Equation
<1>2. 0 \in T
  BY <1>1
<1>3. ASSUME NEW n \in Nat, n \in T PROVE n + 1 \in T
  <2>1. CASE m = n + 1
    BY <1>1, <2>1
  <2>2. CASE m <= n
    BY <1>1, <1>3, <2>2
  <2>3. CASE m > n + 1
    BY <2>3
  <2>. QED BY <2>1, <2>2, <2>3
<1>. HIDE DEF T
<1>4. \A n \in Nat : n \in T
  BY <1>2, <1>3, Induction
<1>. QED BY <1>4 DEF T

LEMMA KindsAreTypes ==
  /\ Kinds \subseteq IntType /\ I64 \in Kinds
  /\ \A k \in Kinds : k = U64 \/ Values(k) \subseteq Values(I64)
  /\ Size(U64) = Size(I64)
<1>1. /\ Bits32 \in Nat /\ Bits64 \in Nat /\ 1 < Bits32 /\ Bits32 < Bits64
      /\ Bits32 - 1 \in Nat /\ Bits64 - 1 \in Nat /\ Bits32 <= Bits64 - 1
  BY RecordAssumption
<1>2. Kinds \subseteq IntType /\ I64 \in Kinds /\ Size(U64) = Size(I64)
  BY <1>1 DEF Kinds, IntType, I32, I64, U32, U64, Size
<1>3. /\ Pow2[Bits32] <= Pow2[Bits64 - 1] /\ Pow2[Bits32 - 1] <= Pow2[Bits64 - 1]
      /\ Pow2[Bits32] \in Nat /\ Pow2[Bits32 - 1] \in Nat /\ Pow2[Bits64 - 1] \in Nat
  BY <1>1, Pow2Equation, Pow2Grows
<1>4. Values(I32) \subseteq Values(I64) /\ Values(U32) \subseteq Values(I64)
  BY <1>3 DEF Values, Lowest, Highest, I32, I64, U32
<1>. QED BY <1>2, <1>4 DEF Kinds

\* A number of any kind survives being stored as an int64_t.
LEMMA StorageKeeps ==
  ASSUME NEW k \in Kinds, NEW v \in Values(k)
  PROVE  Wrap(I64, v) \in Values(I64) /\ Wrap(k, Wrap(I64, v)) = v
<1>. DEFINE w == Wrap(I64, v)
<1>1. k \in IntType /\ I64 \in IntType
  BY KindsAreTypes
<1>2. v \in Int /\ Wrap(k, v) = v
  BY <1>1, WrapFits
<1>3. w \in Values(I64) /\ Congruent(w, v, Size(I64))
  BY <1>1, <1>2, WrapInType
<1>4. CASE k = U64
  <2>1. w \in Int
    BY <1>1, <1>3, WrapFits
  <2>. HIDE DEF w
  <2>2. Wrap(k, w) = Wrap(k, v)
    BY <1>1, <1>2, <1>3, <1>4, <2>1, KindsAreTypes, WrapCongruent
  <2>. QED BY <1>2, <1>3, <2>2 DEF w
<1>5. CASE k # U64
  <2>1. v \in Values(I64)
    BY <1>5, KindsAreTypes
  <2>2. w = v
    BY <1>1, <2>1, WrapFits
  <2>. QED BY <1>2, <1>3, <2>2
<1>. QED BY <1>4, <1>5

-----------------------------------------------------------------------------
(* 8. The program                                                          *)

\* How the number is left by every call: Exact, and within its type.
Settled ==
  /\ type \in Kinds /\ value \in Int /\ meant \in Int
  /\ status \in {"running", "overflow", "zero", "trap", "kind", "index", "name"}
  /\ status = "running" => value \in Values(type)
  /\ Exact

Field == [kind : Kinds \cup Opaque, storage : Int, meant : Int]

\* How a field holds a number: as the int64_t it wraps to.
Holds(f) ==
  /\ f \in Field /\ f.storage \in Values(I64)
  /\ f.kind \in Kinds => f.meant \in Values(f.kind) /\ f.storage = Wrap(I64, f.meant)

RecordIInv ==
  /\ Settled
  /\ calls \in 0..MaxCalls
  /\ fields \in Seq(Field) /\ Len(fields) <= MaxFields
  /\ \A i \in 1..Len(fields) : Holds(fields[i])

LEMMA NumberKeeps ==
  ASSUME RecordIInv, calls < MaxCalls, calls' = calls + 1, fields' = fields, Settled'
  PROVE  RecordIInv'
<1>1. calls' \in 0..MaxCalls
  BY RecordAssumption DEF RecordIInv
<1>. QED BY <1>1 DEF RecordIInv, Holds

LEMMA TypeFacts ==
  ASSUME RecordIInv
  PROVE  /\ type \in Kinds /\ type \in IntType /\ value \in Int /\ meant \in Int
         /\ status = "running" => /\ value \in Values(type) /\ value = Wrap(type, meant)
                                  /\ type.signed => value = meant
  BY KindsAreTypes DEF RecordIInv, Settled, Exact

\* The number becomes a value of type t, and stands for itself.
LEMMA FreshSettles ==
  ASSUME type' \in Kinds, status' = "running", value' \in Values(type'), meant' = value'
  PROVE  Settled'
<1>1. value' \in Int /\ Wrap(type', value') = value'
  BY KindsAreTypes, WrapFits
<1>. QED BY <1>1 DEF Settled, Exact

\* The program ends other than by an overflow.
LEMMA EndSettles ==
  ASSUME type' \in Kinds, value' \in Int, meant' \in Int,
         status' \in {"zero", "trap", "kind", "index", "name"}
  PROVE  Settled'
  BY DEF Settled, Exact

\* The number becomes the result n of an operator that stands for m.
LEMMA ResultSettles ==
  ASSUME RecordIInv, NEW n \in Int, NEW m \in Int,
         Wrap(type, n) = Wrap(type, m), type.signed => n = m,
         NEW o \in Checked(type, n),
         type' = type, status' = o.status, value' = o.value, meant' = m
  PROVE  Settled'
<1>1. type \in Kinds /\ type \in IntType
  BY TypeFacts
<1>2. CASE o.status = "running" /\ o.value = Wrap(type, n) /\ o.value \in Values(type)
           /\ (type.signed => o.value = n)
  BY <1>1, <1>2, WrapFits DEF Settled, Exact
<1>3. CASE o.status = "overflow" /\ o.value = 0 /\ type.signed /\ n \notin Values(type)
  BY <1>1, <1>3 DEF Settled, Exact
<1>. QED BY <1>1, <1>2, <1>3, ResultExact

LEMMA SumKeeps ==
  ASSUME RecordIInv, NEW b \in Int,
         Add(b) \/ Subtract(b) \/ Multiply(b)
  PROVE  RecordIInv'
<1>1. /\ status = "running" /\ calls < MaxCalls /\ calls' = calls + 1
      /\ type' = type /\ fields' = fields
  BY DEF Add, Subtract, Multiply, Call, Same
<1>2. /\ type \in IntType /\ value \in Int /\ meant \in Int
      /\ value = Wrap(type, meant) /\ (type.signed => value = meant)
  BY <1>1, TypeFacts
<1>3. ASSUME Add(b) PROVE Settled'
  <2>1. PICK o \in Checked(type, value + b) :
          status' = o.status /\ value' = o.value /\ meant' = meant + b
    BY <1>3 DEF Add, Call
  <2>2. Wrap(type, value + b) = Wrap(type, meant + b)
    BY <1>2, WrapComputes
  <2>. QED BY <1>1, <1>2, <2>1, <2>2, ResultSettles
<1>4. ASSUME Subtract(b) PROVE Settled'
  <2>1. PICK o \in Checked(type, value - b) :
          status' = o.status /\ value' = o.value /\ meant' = meant - b
    BY <1>4 DEF Subtract, Call
  <2>2. Wrap(type, value - b) = Wrap(type, meant - b)
    BY <1>2, WrapComputes
  <2>. QED BY <1>1, <1>2, <2>1, <2>2, ResultSettles
<1>5. ASSUME Multiply(b) PROVE Settled'
  <2>1. PICK o \in Checked(type, value * b) :
          status' = o.status /\ value' = o.value /\ meant' = meant * b
    BY <1>5 DEF Multiply, Call
  <2>2. Wrap(type, value * b) = Wrap(type, meant * b)
    BY <1>2, WrapComputes
  <2>. QED BY <1>1, <1>2, <2>1, <2>2, ResultSettles
<1>. QED BY <1>1, <1>3, <1>4, <1>5, NumberKeeps

LEMMA NegateKeeps == ASSUME RecordIInv, Negate PROVE RecordIInv'
<1>1. /\ status = "running" /\ calls < MaxCalls /\ calls' = calls + 1
      /\ type' = type /\ fields' = fields
  BY DEF Negate, Call, Same
<1>2. /\ type \in IntType /\ value \in Int /\ meant \in Int
      /\ value = Wrap(type, meant) /\ (type.signed => value = meant)
  BY <1>1, TypeFacts
<1>3. PICK o \in Checked(type, 0 - value) :
        status' = o.status /\ value' = o.value /\ meant' = 0 - meant
  BY DEF Negate, Call
<1>4. Wrap(type, 0 - value) = Wrap(type, 0 - meant)
  BY <1>2, WrapComputes
<1>5. Settled'
  BY <1>1, <1>2, <1>3, <1>4, ResultSettles
<1>. QED BY <1>1, <1>5, NumberKeeps

LEMMA DivisionKeeps ==
  ASSUME RecordIInv, NEW b \in Values(type), DivideBy(b) \/ ModuloBy(b)
  PROVE  RecordIInv'
<1>1. /\ status = "running" /\ calls < MaxCalls /\ calls' = calls + 1
      /\ type' = type /\ fields' = fields
  BY DEF DivideBy, ModuloBy, Call, Same
<1>2. /\ type \in Kinds /\ type \in IntType /\ value \in Values(type)
      /\ meant \in Int
  BY <1>1, TypeFacts
<1>3. ASSUME DivideBy(b) PROVE Settled'
  <2>1. PICK o \in Divide(type, value, b) :
          /\ status' = o.status /\ value' = o.value
          /\ meant' = IF b = 0 THEN meant ELSE Quotient(value, b)
    BY <1>3 DEF DivideBy, Call
  <2>2. CASE o.status = "zero" /\ o.value = 0 /\ b = 0
    BY <1>1, <1>2, <2>1, <2>2, EndSettles
  <2>3. CASE /\ o.status = "overflow" /\ o.value = 0 /\ b # 0
             /\ type.signed /\ Quotient(value, b) \in Int
             /\ Quotient(value, b) \notin Values(type)
    BY <1>1, <1>2, <2>1, <2>3 DEF Settled, Exact
  <2>4. CASE /\ o.status = "running" /\ b # 0
             /\ o.value = Quotient(value, b) /\ o.value \in Values(type)
    BY <1>1, <1>2, <2>1, <2>4, FreshSettles
  <2>. QED BY <1>2, <2>1, <2>2, <2>3, <2>4, DivideAnswers
<1>4. ASSUME ModuloBy(b) PROVE Settled'
  <2>1. PICK o \in Modulo(type, value, b) :
          /\ status' = o.status /\ value' = o.value
          /\ meant' = IF b = 0 THEN meant ELSE Remainder(value, b)
    BY <1>4 DEF ModuloBy, Call
  <2>2. CASE o.status = "zero" /\ o.value = 0 /\ b = 0
    BY <1>1, <1>2, <2>1, <2>2, EndSettles
  <2>3. CASE o.status = "trap" /\ o.value = 0 /\ b # 0 /\ Remainder(value, b) \in Int
    BY <1>1, <1>2, <2>1, <2>3, EndSettles
  <2>4. CASE /\ o.status = "running" /\ b # 0
             /\ o.value = Remainder(value, b) /\ o.value \in Values(type)
    BY <1>1, <1>2, <2>1, <2>4, FreshSettles
  <2>. QED BY <1>2, <2>1, <2>2, <2>3, <2>4, ModuloAnswers
<1>. QED BY <1>1, <1>3, <1>4, NumberKeeps

\* The operators on bits leave a number that stands for itself.
LEMMA BitwiseKeeps ==
  ASSUME RecordIInv, NEW outcomes, Bitwise(outcomes),
         type \in IntType =>
           \A o \in outcomes : o.status = "running" /\ o.value \in Values(type)
  PROVE  RecordIInv'
<1>1. /\ status = "running" /\ calls < MaxCalls /\ calls' = calls + 1
      /\ type' = type /\ fields' = fields
      /\ \E o \in outcomes : status' = o.status /\ value' = o.value /\ meant' = o.value
  BY DEF Bitwise, Call, Same
<1>2. type \in Kinds /\ type \in IntType
  BY TypeFacts
<1>3. Settled'
  BY <1>1, <1>2, FreshSettles
<1>. QED BY <1>1, <1>3, NumberKeeps

LEMMA BitsKeep ==
  ASSUME RecordIInv, NEW b \in Values(type),
         \/ Bitwise(And(type, value, b)) \/ Bitwise(Or(type, value, b))
         \/ Bitwise(Xor(type, value, b))
         \/ Bitwise(ShiftLeft(type, value, b)) \/ Bitwise(ShiftRight(type, value, b))
  PROVE  RecordIInv'
<1>1. type \in IntType /\ value \in Int /\ b \in Int
  BY TypeFacts, WrapFits
<1>2. \A o \in And(type, value, b) \cup Or(type, value, b) \cup Xor(type, value, b) :
        o.status = "running" /\ o.value \in Values(type)
  BY <1>1, BitwiseInType
<1>3. \A o \in ShiftLeft(type, value, b) \cup ShiftRight(type, value, b) :
        o.status = "running" /\ o.value \in Values(type)
  BY <1>1, ShiftInType
<1>4. CASE Bitwise(And(type, value, b))
  BY <1>2, <1>4, BitwiseKeeps
<1>5. CASE Bitwise(Or(type, value, b))
  BY <1>2, <1>5, BitwiseKeeps
<1>6. CASE Bitwise(Xor(type, value, b))
  BY <1>2, <1>6, BitwiseKeeps
<1>7. CASE Bitwise(ShiftLeft(type, value, b))
  BY <1>3, <1>7, BitwiseKeeps
<1>8. CASE Bitwise(ShiftRight(type, value, b))
  BY <1>3, <1>8, BitwiseKeeps
<1>. QED BY <1>4, <1>5, <1>6, <1>7, <1>8

LEMMA ComplementKeeps == ASSUME RecordIInv, Complement PROVE RecordIInv'
<1>1. /\ status = "running" /\ calls < MaxCalls /\ calls' = calls + 1
      /\ type' = type /\ fields' = fields
  BY DEF Complement, Call, Same
<1>2. PICK o \in Not(type, value) :
        status' = o.status /\ value' = o.value /\ meant' = -1 - meant
  BY DEF Complement, Call
<1>3. /\ type \in Kinds /\ type \in IntType /\ value \in Int /\ meant \in Int
      /\ value \in Values(type)
      /\ value = Wrap(type, meant) /\ (type.signed => value = meant)
  BY <1>1, TypeFacts
<1>4. o.status = "running" /\ o.value = Wrap(type, -1 - value) /\ o.value \in Values(type)
  BY <1>3, NotAnswers
<1>5. Wrap(type, -1 - value) = Wrap(type, -1 - meant)
  BY <1>3, WrapComputes
<1>6. ASSUME type.signed PROVE Wrap(type, -1 - value) = -1 - meant
  <2>1. -1 - value \in Values(type)
    BY <1>3, <1>6, TypeRange DEF Values
  <2>. QED BY <1>3, <1>6, <2>1, WrapFits
<1>7. value' \in Int /\ meant' \in Int
  <2>1. o.value \in Int
    BY <1>3, <1>4, WrapFits
  <2>2. -1 - meant \in Int
    BY <1>3
  <2>. QED BY <1>2, <2>1, <2>2
<1>8. Settled'
  BY <1>1, <1>2, <1>3, <1>4, <1>5, <1>6, <1>7 DEF Settled, Exact
<1>. QED BY <1>1, <1>8, NumberKeeps

LEMMA ConvertKeeps == ASSUME RecordIInv, NEW k \in Kinds, Convert(k) PROVE RecordIInv'
<1>1. /\ status = "running" /\ calls < MaxCalls /\ calls' = calls + 1
      /\ type' = k /\ fields' = fields
      /\ status' = "running" /\ value' = Wrap(k, value) /\ meant' = value'
  BY DEF Convert, Call, Returns
<1>2. Wrap(k, value) \in Values(k)
  BY TypeFacts, KindsAreTypes, WrapInType
<1>3. Settled'
  BY <1>1, <1>2, FreshSettles
<1>. QED BY <1>1, <1>3, NumberKeeps

\* The number stays while a field is added.
LEMMA AppendKeeps ==
  ASSUME RecordIInv, NEW f, Holds(f), fields' = Append(fields, f),
         Len(fields) < MaxFields, calls < MaxCalls, calls' = calls + 1, Settled'
  PROVE  RecordIInv'
<1>1. fields \in Seq(Field) /\ f \in Field /\ Len(fields) \in Nat /\ MaxFields \in Nat
  BY RecordAssumption DEF RecordIInv, Holds
<1>2. /\ fields' \in Seq(Field) /\ Len(fields') = Len(fields) + 1
      /\ \A i \in 1..Len(fields) : fields'[i] = fields[i]
      /\ fields'[Len(fields) + 1] = f
  BY <1>1
<1>3. ASSUME NEW i \in 1..Len(fields') PROVE Holds(fields'[i])
  <2>1. i \in 1..Len(fields) \/ i = Len(fields) + 1
    BY <1>1, <1>2
  <2>. QED BY <1>2, <2>1 DEF RecordIInv
<1>4. calls' \in 0..MaxCalls
  BY RecordAssumption DEF RecordIInv
<1>5. Len(fields') <= MaxFields
  BY <1>1, <1>2
<1>. QED BY <1>2, <1>3, <1>4, <1>5 DEF RecordIInv, Holds

LEMMA AddFieldKeeps == ASSUME RecordIInv, AddField PROVE RecordIInv'
<1>. DEFINE f == [kind |-> type, storage |-> Wrap(I64, value), meant |-> value]
<1>1. /\ status = "running" /\ calls < MaxCalls /\ calls' = calls + 1
      /\ type' = type /\ Len(fields) < MaxFields /\ fields' = Append(fields, f)
      /\ status' = "running" /\ value' = value /\ meant' = meant
  BY DEF AddField, Quietly, Call, Returns
<1>2. type \in Kinds /\ value \in Int /\ value \in Values(type)
  BY <1>1, TypeFacts
<1>3. Wrap(I64, value) \in Values(I64) /\ Wrap(I64, value) \in Int
  BY <1>2, StorageKeeps, KindsAreTypes, WrapFits
<1>4. Holds(f)
  BY <1>2, <1>3 DEF Holds, Field
<1>. HIDE DEF f
<1>5. Settled'
  BY <1>1 DEF RecordIInv, Settled, Exact
<1>. QED BY <1>1, <1>4, <1>5, AppendKeeps

LEMMA AddOpaqueKeeps == ASSUME RecordIInv, NEW k \in Opaque, AddOpaque(k) PROVE RecordIInv'
<1>. DEFINE f == [kind |-> k, storage |-> 0, meant |-> 0]
<1>1. /\ status = "running" /\ calls < MaxCalls /\ calls' = calls + 1
      /\ type' = type /\ Len(fields) < MaxFields /\ fields' = Append(fields, f)
      /\ status' = "running" /\ value' = value /\ meant' = meant
  BY DEF AddOpaque, Quietly, Call, Returns
<1>2. \A t \in Kinds : 0 \in Values(t) /\ Wrap(t, 0) = 0
  <2>1. \A t \in Kinds : 0 \in Values(t)
    BY KindsAreTypes, TypeRange DEF Values
  <2>. QED BY <2>1, KindsAreTypes, WrapFits
<1>3. Holds(f)
  BY <1>2, KindsAreTypes DEF Holds, Field
<1>. HIDE DEF f
<1>4. Settled'
  BY <1>1 DEF RecordIInv, Settled, Exact
<1>. QED BY <1>1, <1>3, <1>4, AppendKeeps

LEMMA AsKindKeeps ==
  ASSUME RecordIInv, NEW k \in Kinds, NEW i \in 1..Len(fields), AsKind(k, fields[i])
  PROVE  RecordIInv'
<1>. DEFINE f == fields[i]
<1>1. Holds(f) /\ f.meant \in Int
  BY DEF RecordIInv, Holds, Field
<1>. HIDE DEF f
<1>2. /\ status = "running" /\ calls < MaxCalls /\ calls' = calls + 1
      /\ type' = k /\ fields' = fields
      /\ \E o \in (IF f.kind = k THEN Returns(Wrap(k, f.storage)) ELSE Ends("kind")) :
           status' = o.status /\ value' = o.value /\ meant' = f.meant
  BY DEF AsKind, Call, f
<1>3. CASE f.kind = k
  <2>1. status' = "running" /\ value' = Wrap(k, f.storage) /\ meant' = f.meant
    BY <1>2, <1>3 DEF Returns
  <2>2. f.meant \in Values(k) /\ f.storage = Wrap(I64, f.meant)
    BY <1>1, <1>3 DEF Holds
  <2>3. value' = f.meant
    BY <2>1, <2>2, StorageKeeps
  <2>. QED BY <1>2, <2>1, <2>2, <2>3, FreshSettles, NumberKeeps
<1>4. CASE f.kind # k
  <2>1. status' = "kind" /\ value' = 0 /\ meant' = f.meant
    BY <1>2, <1>4 DEF Ends
  <2>. QED BY <1>1, <1>2, <2>1, EndSettles, NumberKeeps
<1>. QED BY <1>3, <1>4

\* A call that leaves the number alone, or ends the program.
LEMMA QuietKeeps ==
  ASSUME RecordIInv, NEW outcomes, Quietly(outcomes), Same,
         \A o \in outcomes : \/ o.status = "running" /\ o.value = value
                             \/ o.status \in {"kind", "index", "name"} /\ o.value = 0
  PROVE  RecordIInv'
<1>1. /\ status = "running" /\ calls < MaxCalls /\ calls' = calls + 1
      /\ type' = type /\ fields' = fields
      /\ \E o \in outcomes : status' = o.status /\ value' = o.value /\ meant' = meant
  BY DEF Quietly, Call, Same
<1>2. type \in Kinds /\ meant \in Int
  BY TypeFacts
<1>3. CASE status' = "running" /\ value' = value
  <2>1. Settled'
    BY <1>1, <1>3 DEF RecordIInv, Settled, Exact
  <2>. QED BY <1>1, <2>1, NumberKeeps
<1>4. CASE status' \in {"kind", "index", "name"} /\ value' = 0
  BY <1>1, <1>2, <1>4, EndSettles, NumberKeeps
<1>. QED BY <1>1, <1>3, <1>4

LEMMA ReadOpaqueKeeps ==
  ASSUME RecordIInv, NEW k \in Opaque, NEW i \in 1..MaxFields + 1, ReadOpaque(i, k)
  PROVE  RecordIInv'
  BY QuietKeeps DEF ReadOpaque, Returns, Ends

LEMMA ReadAtKeeps ==
  ASSUME RecordIInv, NEW k \in Kinds, NEW i \in 1..MaxFields + 1, ReadAt(i, k)
  PROVE  RecordIInv'
<1>1. CASE i \in 1..Len(fields)
  BY <1>1, AsKindKeeps DEF ReadAt
<1>2. CASE i \notin 1..Len(fields)
  BY <1>2, QuietKeeps DEF ReadAt, Ends
<1>. QED BY <1>1, <1>2

LEMMA ReadNamedKeeps ==
  ASSUME RecordIInv, NEW k \in Kinds, NEW name \in Names, ReadNamed(name, k)
  PROVE  RecordIInv'
<1>1. CASE FieldIndex(name) = {}
  BY <1>1, QuietKeeps DEF ReadNamed, Ends
<1>2. CASE FieldIndex(name) # {}
  <2>1. PICK i \in FieldIndex(name) :
          IF i <= Len(fields) THEN AsKind(k, fields[i])
          ELSE /\ Call(Ends("kind") \cup UNION {Returns(v) : v \in Values(k)}, LAMBDA v : v)
               /\ type' = k
               /\ UNCHANGED fields
    BY <1>2 DEF ReadNamed
  <2>2. CASE i <= Len(fields)
    <3>1. i \in 1..Len(fields)
      BY <2>2 DEF FieldIndex
    <3>. QED BY <2>1, <2>2, <3>1, AsKindKeeps
  <2>3. CASE ~ (i <= Len(fields))
    <3>1. /\ status = "running" /\ calls < MaxCalls /\ calls' = calls + 1
          /\ type' = k /\ fields' = fields
          /\ \E o \in Ends("kind") \cup UNION {Returns(v) : v \in Values(k)} :
               status' = o.status /\ value' = o.value /\ meant' = o.value
      BY <2>1, <2>3 DEF Call
    <3>2. \/ status' = "kind" /\ value' = 0 /\ meant' = 0
          \/ status' = "running" /\ value' \in Values(k) /\ meant' = value'
      BY <3>1 DEF Ends, Returns
    <3>3. Settled'
      BY <3>1, <3>2, FreshSettles, EndSettles
    <3>. QED BY <3>1, <3>3, NumberKeeps
  <2>. QED BY <2>2, <2>3
<1>. QED BY <1>1, <1>2

LEMMA InitRecordIInv == RecordInit => RecordIInv
<1>. SUFFICES ASSUME RecordInit PROVE RecordIInv
  OBVIOUS
<1>1. type \in Kinds /\ value \in Values(type) /\ meant = value /\ status = "running"
  BY DEF RecordInit
<1>2. value \in Int /\ Wrap(type, value) = value
  BY <1>1, KindsAreTypes, WrapFits
<1>3. Settled
  BY <1>1, <1>2 DEF Settled, Exact
<1>. QED BY <1>3, RecordAssumption DEF RecordInit, RecordIInv

LEMMA NextRecordIInv == RecordIInv /\ [RecordNext]_recordVars => RecordIInv'
<1>. SUFFICES ASSUME RecordIInv, [RecordNext]_recordVars PROVE RecordIInv'
  OBVIOUS
<1>1. ASSUME NEW b \in Values(type), Add(b) \/ Subtract(b) \/ Multiply(b)
      PROVE  RecordIInv'
  <2>1. b \in Int
    BY TypeFacts, WrapFits
  <2>. QED BY <1>1, <2>1, SumKeeps
<1>2. ASSUME NEW b \in Values(type), DivideBy(b) \/ ModuloBy(b) PROVE RecordIInv'
  BY <1>2, DivisionKeeps
<1>3. ASSUME NEW b \in Values(type),
             \/ Bitwise(And(type, value, b)) \/ Bitwise(Or(type, value, b))
             \/ Bitwise(Xor(type, value, b))
             \/ Bitwise(ShiftLeft(type, value, b)) \/ Bitwise(ShiftRight(type, value, b))
      PROVE  RecordIInv'
  BY <1>3, BitsKeep
<1>4. ASSUME Increment \/ Decrement PROVE RecordIInv'
  BY <1>4, SumKeeps DEF Increment, Decrement
<1>5. ASSUME Negate \/ Complement \/ AddField PROVE RecordIInv'
  BY <1>5, NegateKeeps, ComplementKeeps, AddFieldKeeps
<1>6. ASSUME NEW k \in Kinds,
             \/ Convert(k)
             \/ \E i \in 1..MaxFields + 1 : ReadAt(i, k)
             \/ \E name \in Names : ReadNamed(name, k)
      PROVE  RecordIInv'
  BY <1>6, ConvertKeeps, ReadAtKeeps, ReadNamedKeeps
<1>7. ASSUME NEW k \in Opaque, AddOpaque(k) \/ \E i \in 1..MaxFields + 1 : ReadOpaque(i, k)
      PROVE  RecordIInv'
  BY <1>7, AddOpaqueKeeps, ReadOpaqueKeeps
<1>8. CASE UNCHANGED recordVars
  BY <1>8 DEF recordVars, RecordIInv, Settled, Exact, Holds
<1>. QED BY <1>1, <1>2, <1>3, <1>4, <1>5, <1>6, <1>7, <1>8 DEF RecordNext

\* No number is ever outside its type, in a record or out of it, whatever
\* operators, conversions and reads of fields led to it.
THEOREM RecordTypeCorrect == RecordSpec => []RecordTypeOK
<1>1. RecordIInv => RecordTypeOK
  BY DEF RecordIInv, Settled, Holds, Field, RecordTypeOK
<1>. QED BY InitRecordIInv, NextRecordIInv, <1>1, PTL DEF RecordSpec

\* However the calls are ordered, a signed number is the integer they stand
\* for, or an assert of StrictInt has stopped the program on one that does
\* not fit; an unsigned number is that integer modulo its range; and what is
\* read from a field is what was stored in it, through FieldValue's int64_t.
THEOREM ComputesExactly == RecordSpec => []Exact
<1>1. RecordIInv => Exact
  BY DEF RecordIInv, Settled
<1>. QED BY InitRecordIInv, NextRecordIInv, <1>1, PTL DEF RecordSpec
=============================================================================
