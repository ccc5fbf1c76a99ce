----------------------- MODULE EventBufferOps_proofs -----------------------
(***************************************************************************)
(* What the EventBuffer operations compute, for vectors of any length over *)
(* any set E of events.  The facts are stated on the set of elements and   *)
(* on the order, so that a proof about a module using the buffer never has *)
(* to look at positions.                                                   *)
(***************************************************************************)
EXTENDS EventBufferOps, SequenceTheorems, FiniteSetTheorems, WellFoundedInduction, TLAPS

\* A set of events whose times and arrival numbers are integers.
IsEventSet(E) == \A e \in E : e.ts \in Int /\ e.id \in Int

-----------------------------------------------------------------------------
(* The elements of a vector, by position and as a set.                     *)
LEMMA ToSetElements ==
  ASSUME NEW E, NEW s \in Seq(E)
  PROVE  /\ \A i \in 1..Len(s) : s[i] \in ToSet(s)
         /\ \A e \in ToSet(s) : e \in E /\ \E i \in 1..Len(s) : e = s[i]
<1>1. DOMAIN s = 1..Len(s) /\ \A i \in 1..Len(s) : s[i] \in E
  OBVIOUS
<1>. QED BY <1>1 DEF ToSet

LEMMA ElementType ==
  ASSUME NEW E, NEW s \in Seq(E)
  PROVE  DOMAIN s = 1..Len(s) /\ Len(s) \in Nat /\ \A i \in 1..Len(s) : s[i] \in E
  OBVIOUS

(* A nonempty set of naturals has a least element, and it is its Min.      *)
LEMMA MinProperties ==
  ASSUME NEW S, S \subseteq Nat, S # {}
  PROVE  Min(S) \in S /\ \A y \in S : Min(S) <= y
<1>. DEFINE R == {ss \in Nat \X Nat : ss[1] < ss[2]}
<1>1. IsWellFoundedOn(R, Nat)
  BY NatLessThanWellFounded DEF OpToRel
<1>2. PICK x \in S : \A y \in S : ~ (<<y, x>> \in R)
  <2>. HIDE DEF R
  <2>. QED BY <1>1, WFMin
<1>3. ASSUME NEW y \in S PROVE x <= y
  <2>1. <<y, x>> \notin R
    BY <1>2
  <2>2. ~ (y < x)
    BY <2>1
  <2>. QED BY <2>2
<1>. QED
  BY <1>3 DEF Min

\* A nonempty set of naturals has a least element.
LEMMA Least ==
  ASSUME NEW T, T \subseteq Nat, T # {}
  PROVE  \E m \in T : /\ m \in Nat
                       /\ \A n \in Nat : n < m => n \notin T
<1>1. Min(T) \in T /\ \A n \in T : Min(T) <= n
  BY MinProperties
<1>2. Min(T) \in Nat
  BY <1>1
<1>3. \A n \in Nat : n < Min(T) => ~ (Min(T) <= n)
  BY <1>2
<1> QED BY <1>1, <1>2, <1>3

\* Induction, over the set of the numbers that have the property.
LEMMA Induction ==
  ASSUME NEW T, 0 \in T, \A n \in Nat : n \in T => n + 1 \in T
  PROVE  \A n \in Nat : n \in T
<1> DEFINE Others == {n \in Nat : n \notin T}
<1> SUFFICES ASSUME Others # {} PROVE FALSE
  OBVIOUS
<1>1. PICK m \in Others : m \in Nat /\ \A n \in Nat : n < m => n \notin Others
  <2>1. Others \subseteq Nat
    OBVIOUS
  <2> HIDE DEF Others
  <2> QED BY <2>1, Least
<1>2. m \in Nat /\ m \notin T /\ m # 0
  BY <1>1
<1>3. m - 1 \in Nat /\ m - 1 < m /\ (m - 1) + 1 = m
  BY <1>2
<1>4. m - 1 \notin Others
  <2> HIDE DEF Others
  <2> QED BY <1>1, <1>3
<1>5. m \in T
  BY <1>3, <1>4
<1> QED BY <1>2, <1>5

\* What is reached from x by applying g again and again.
Iterated(S, x, g) == \E f \in [Nat -> S] : f[0] = x /\ \A k \in Nat : f[k + 1] = g[f[k]]

\* A function can be applied again and again: the recursive functions of the
\* modules, which are all of this kind, are well defined.
LEMMA Iterates ==
  ASSUME NEW S, NEW x \in S, NEW g \in [S -> S]
  PROVE  Iterated(S, x, g)
<1> DEFINE Upto(n, h) == /\ h \in [0..n -> S] /\ h[0] = x
                         /\ \A k \in 0..n - 1 : h[k + 1] = g[h[k]]
           T == {n \in Nat : \E h : Upto(n, h)}
           H == [n \in Nat |-> CHOOSE h : Upto(n, h)]
           f == [n \in Nat |-> H[n][n]]
<1>1. \A n \in Nat : n \in T
  <2>1. 0 \in T
    <3>1. Upto(0, [k \in 0..0 |-> x])
      OBVIOUS
    <3> QED BY <3>1
  <2>2. ASSUME NEW n \in Nat, n \in T PROVE n + 1 \in T
    <3>1. PICK h : Upto(n, h)
      BY <2>2
    <3> DEFINE e == [k \in 0..n + 1 |-> IF k = n + 1 THEN g[h[n]] ELSE h[k]]
    <3>2. g[h[n]] \in S /\ \A k \in 0..n : h[k] \in S
      BY <3>1
    <3>3. e \in [0..n + 1 -> S] /\ e[0] = x
      BY <3>1, <3>2
    <3>4. ASSUME NEW k \in 0..n PROVE e[k + 1] = g[e[k]]
      <4>1. CASE k = n
        BY <4>1
      <4>2. CASE k # n
        <5>1. k \in 0..n - 1 /\ k + 1 # n + 1 /\ k # n + 1 /\ k + 1 \in 0..n + 1 /\ k \in 0..n + 1
          BY <4>2
        <5> QED BY <3>1, <5>1
      <4> QED BY <4>1, <4>2
    <3>5. 0..(n + 1) - 1 = 0..n
      OBVIOUS
    <3> HIDE DEF e
    <3>6. Upto(n + 1, e)
      BY <3>3, <3>4, <3>5
    <3> QED BY <3>6
  <2> HIDE DEF T
  <2> QED BY <2>1, <2>2, Induction
<1>2. \A n \in Nat : Upto(n, H[n])
  BY <1>1
<1> HIDE DEF H
<1>3. ASSUME NEW n \in Nat PROVE H[n + 1][n] = H[n][n]
  <2> DEFINE a == H[n]
             b == H[n + 1]
             Same == {k \in Nat : k <= n => a[k] = b[k]}
  <2>1. Upto(n, a) /\ Upto(n + 1, b)
    BY <1>2
  <2> HIDE DEF a, b
  <2>2. 0 \in Same
    BY <2>1
  <2>3. ASSUME NEW k \in Nat, k \in Same PROVE k + 1 \in Same
    <3> SUFFICES ASSUME k + 1 <= n PROVE a[k + 1] = b[k + 1]
      OBVIOUS
    <3>1. k \in 0..n - 1 /\ k \in 0..(n + 1) - 1 /\ a[k] = b[k]
      BY <2>3
    <3> QED BY <2>1, <3>1
  <2>4. n \in Same
    <3> HIDE DEF Same
    <3> QED BY <2>2, <2>3, Induction
  <2> QED BY <2>4 DEF a, b
<1>4. ASSUME NEW n \in Nat PROVE f[n] \in S /\ f[n + 1] = g[f[n]]
  <2>1. n \in 0..n /\ n \in 0..(n + 1) - 1 /\ n + 1 \in Nat
    OBVIOUS
  <2>2. H[n][n] \in S
    BY <1>2, <2>1
  <2>3. H[n + 1][n + 1] = g[H[n + 1][n]]
    BY <1>2, <2>1
  <2> QED BY <1>3, <2>1, <2>2, <2>3
<1>5. f[0] = x
  BY <1>2
<1>6. f \in [Nat -> S]
  BY <1>4
<1> QED BY <1>4, <1>5, <1>6 DEF Iterated

(* lower_bound returns a position within the vector such that every        *)
(* element before it is earlier than the key and the element at it is not. *)
LEMMA LowerBoundProperties ==
  ASSUME NEW E, IsEventSet(E), NEW s \in Seq(E), NEW t \in Int
  PROVE  /\ LowerBound(s, t) \in 0..Len(s)
         /\ \A i \in 1..LowerBound(s, t) : s[i].ts < t
         /\ LowerBound(s, t) < Len(s) => s[LowerBound(s, t) + 1].ts >= t
<1>. DEFINE S == {k \in 0..Len(s) : k = Len(s) \/ s[k + 1].ts >= t}
<1>1. Len(s) \in Nat /\ \A i \in 1..Len(s) : s[i] \in E /\ s[i].ts \in Int
  BY DEF IsEventSet
<1>2. S \subseteq Nat /\ Len(s) \in S
  BY <1>1
<1>3. Min(S) \in S /\ \A y \in S : Min(S) <= y
  <2>. HIDE DEF S
  <2>. QED BY <1>2, MinProperties
<1>4. ASSUME NEW i \in 1..Min(S) PROVE s[i].ts < t
  <2>1. Min(S) \in 0..Len(s)
    BY <1>3
  <2>2. i - 1 \in 0..Len(s) /\ ~ (Min(S) <= i - 1)
    BY <1>1, <2>1
  <2>3. i - 1 \notin S
    <3>. HIDE DEF S
    <3>. QED BY <1>3, <2>2
  <2>. QED BY <1>1, <2>2, <2>3
<1>. QED
  BY <1>1, <1>3, <1>4 DEF LowerBound

(* In a vector sorted by time, lower_bound separates the earlier elements  *)
(* from all the others.                                                    *)
LEMMA LowerBoundSeparates ==
  ASSUME NEW E, IsEventSet(E), NEW s \in Seq(E), SortedByTime(s), NEW t \in Int
  PROVE  \A i \in 1..Len(s) : (s[i].ts < t) <=> (i <= LowerBound(s, t))
<1>1. \A i \in 1..Len(s) : s[i] \in E /\ s[i].ts \in Int
  BY DEF IsEventSet
<1>2. /\ LowerBound(s, t) \in 0..Len(s)
      /\ \A i \in 1..LowerBound(s, t) : s[i].ts < t
      /\ LowerBound(s, t) < Len(s) => s[LowerBound(s, t) + 1].ts >= t
  BY LowerBoundProperties
<1>3. ASSUME NEW i \in 1..Len(s), i > LowerBound(s, t) PROVE s[i].ts >= t
  <2>1. s[LowerBound(s, t) + 1].ts >= t /\ LowerBound(s, t) + 1 \in 1..Len(s)
    BY <1>2, <1>3
  <2>2. s[LowerBound(s, t) + 1].ts <= s[i].ts
    BY <1>1, <1>2, <1>3, <2>1 DEF SortedByTime
  <2>. QED BY <1>1, <2>1, <2>2
<1>. QED BY <1>1, <1>2, <1>3

(* The buffer's order implies the order by time.                           *)
LEMMA OrderedIsSorted ==
  ASSUME NEW E, IsEventSet(E), NEW s \in Seq(E), Ordered(s)
  PROVE  SortedByTime(s)
<1>1. \A i \in 1..Len(s) : s[i] \in E /\ s[i].ts \in Int
  BY DEF IsEventSet
<1>. QED BY <1>1 DEF Ordered, SortedByTime, Precedes

-----------------------------------------------------------------------------
(* A slice of an ordered vector is an ordered vector of the elements at    *)
(* the positions it covers.                                                *)
LEMMA SliceProperties ==
  ASSUME NEW E, NEW s \in Seq(E),
         NEW lo \in 0..Len(s), NEW hi \in 0..Len(s)
  PROVE  /\ Slice(s, lo, hi) \in Seq(E)
         /\ Len(Slice(s, lo, hi)) = IF lo < hi THEN hi - lo ELSE 0
         /\ \A i \in 1..Len(Slice(s, lo, hi)) : Slice(s, lo, hi)[i] = s[lo + i]
         /\ ToSet(Slice(s, lo, hi)) = {s[k] : k \in lo + 1..hi}
         /\ Ordered(s) => Ordered(Slice(s, lo, hi))
<1>. DEFINE r == Slice(s, lo, hi)
<1>1. Len(s) \in Nat /\ \A i \in lo + 1..hi : s[i] \in E
  OBVIOUS
<1>2. /\ r \in Seq(E)
      /\ Len(r) = IF lo + 1 <= hi THEN hi - (lo + 1) + 1 ELSE 0
      /\ \A i \in 1..hi - (lo + 1) + 1 : r[i] = s[lo + 1 + i - 1]
  BY <1>1, SubSeqProperties DEF Slice
<1>3. /\ Len(r) = IF lo < hi THEN hi - lo ELSE 0
      /\ DOMAIN r = 1..Len(r)
      /\ \A i \in 1..Len(r) : r[i] = s[lo + i]
  <2>. HIDE DEF r
  <2>. QED BY <1>1, <1>2
<1>4. ToSet(r) = {s[k] : k \in lo + 1..hi}
  <2>1. ASSUME NEW k \in lo + 1..hi PROVE \E i \in DOMAIN r : r[i] = s[k]
    <3>1. k - lo \in DOMAIN r /\ lo + (k - lo) = k
      BY <1>1, <1>3
    <3>. QED BY <1>3, <3>1
  <2>2. ASSUME NEW i \in DOMAIN r PROVE \E k \in lo + 1..hi : r[i] = s[k]
    BY <1>1, <1>3
  <2>. QED BY <2>1, <2>2 DEF ToSet
<1>5. ASSUME Ordered(s) PROVE Ordered(r)
  <2>. SUFFICES ASSUME NEW i \in 1..Len(r), NEW j \in 1..Len(r), i < j
                PROVE  Precedes(r[i], r[j])
    BY DEF Ordered
  <2>1. r[i] = s[lo + i] /\ r[j] = s[lo + j]
    BY <1>3
  <2>2. lo + i \in 1..Len(s) /\ lo + j \in 1..Len(s) /\ lo + i < lo + j
    BY <1>1, <1>3
  <2>. HIDE DEF r
  <2>. QED BY <1>5, <2>1, <2>2 DEF Ordered
<1>. QED BY <1>2, <1>3, <1>4, <1>5

(* The two slices an insertion or an erasure leaves at the ends.           *)
LEMMA PrefixProperties ==
  ASSUME NEW E, NEW s \in Seq(E), NEW p \in 0..Len(s)
  PROVE  /\ Slice(s, 0, p) \in Seq(E)
         /\ Len(Slice(s, 0, p)) = p
         /\ \A i \in 1..p : Slice(s, 0, p)[i] = s[i]
<1>1. Len(s) \in Nat /\ 0 \in 0..Len(s) /\ p \in Nat
  OBVIOUS
<1>. DEFINE r == Slice(s, 0, p)
<1>2. /\ r \in Seq(E) /\ Len(r) = IF 0 < p THEN p - 0 ELSE 0
      /\ \A i \in 1..Len(r) : r[i] = s[0 + i]
  <2>. HIDE DEF r
  <2>. QED BY <1>1, SliceProperties DEF r
<1>. HIDE DEF r
<1>3. Len(r) = p
  BY <1>1, <1>2
<1>. QED BY <1>1, <1>2, <1>3 DEF r

LEMMA SuffixProperties ==
  ASSUME NEW E, NEW s \in Seq(E), NEW p \in 0..Len(s)
  PROVE  /\ Slice(s, p, Len(s)) \in Seq(E)
         /\ Len(Slice(s, p, Len(s))) = Len(s) - p
         /\ \A i \in 1..Len(s) - p : Slice(s, p, Len(s))[i] = s[p + i]
<1>1. Len(s) \in Nat /\ Len(s) \in 0..Len(s) /\ p \in Nat /\ p <= Len(s)
  OBVIOUS
<1>. DEFINE r == Slice(s, p, Len(s))
<1>2. /\ r \in Seq(E) /\ Len(r) = IF p < Len(s) THEN Len(s) - p ELSE 0
      /\ \A i \in 1..Len(r) : r[i] = s[p + i]
  <2>. HIDE DEF r
  <2>. QED BY <1>1, SliceProperties DEF r
<1>. HIDE DEF r
<1>3. Len(r) = Len(s) - p
  BY <1>1, <1>2
<1>. QED BY <1>2, <1>3 DEF r

-----------------------------------------------------------------------------
(* query returns exactly the events of the half-open range, in order.      *)
LEMMA QueriedIsRange ==
  ASSUME NEW E, IsEventSet(E), NEW s \in Seq(E), Ordered(s),
         NEW start \in Int, NEW end \in Int
  PROVE  /\ Queried(s, start, end) \in Seq(E)
         /\ IsListing(Queried(s, start, end), InRange(ToSet(s), start, end))
<1>. DEFINE lo == LowerBound(s, start)
            hi == LowerBound(s, end)
<1>1. /\ lo \in 0..Len(s) /\ \A i \in 1..Len(s) : (s[i].ts < start) <=> (i <= lo)
      /\ hi \in 0..Len(s) /\ \A i \in 1..Len(s) : (s[i].ts < end) <=> (i <= hi)
  BY OrderedIsSorted, LowerBoundProperties, LowerBoundSeparates
<1>2. Len(s) \in Nat /\ \A i \in 1..Len(s) : s[i].ts \in Int
  BY DEF IsEventSet
<1>. HIDE DEF lo, hi
<1>3. {s[k] : k \in lo + 1..hi} = InRange(ToSet(s), start, end)
  <2>1. \A k \in 1..Len(s) :
          (k \in lo + 1..hi) <=> (start <= s[k].ts /\ s[k].ts < end)
    BY <1>1, <1>2
  <2>2. lo + 1..hi \subseteq 1..Len(s) /\ DOMAIN s = 1..Len(s)
    BY <1>1, <1>2
  <2>. QED BY <2>1, <2>2 DEF InRange, ToSet
<1>4. /\ Slice(s, lo, hi) \in Seq(E)
      /\ ToSet(Slice(s, lo, hi)) = {s[k] : k \in lo + 1..hi}
      /\ Ordered(Slice(s, lo, hi))
  BY <1>1, SliceProperties
<1>. QED BY <1>3, <1>4 DEF Queried, IsListing, lo, hi

(* cleanup_before keeps exactly the events at or after its time, in order. *)
LEMMA CleanedIsSuffix ==
  ASSUME NEW E, IsEventSet(E), NEW s \in Seq(E), Ordered(s), NEW t \in Int
  PROVE  /\ CleanedBefore(s, t) \in Seq(E)
         /\ Ordered(CleanedBefore(s, t))
         /\ ToSet(CleanedBefore(s, t)) = {e \in ToSet(s) : e.ts >= t}
         /\ Len(CleanedBefore(s, t)) <= Len(s)
<1>. DEFINE lo == LowerBound(s, t)
<1>1. lo \in 0..Len(s) /\ \A i \in 1..Len(s) : (s[i].ts < t) <=> (i <= lo)
  BY OrderedIsSorted, LowerBoundProperties, LowerBoundSeparates
<1>2. Len(s) \in Nat /\ \A i \in 1..Len(s) : s[i].ts \in Int
  BY DEF IsEventSet
<1>. HIDE DEF lo
<1>3. {s[k] : k \in lo + 1..Len(s)} = {e \in ToSet(s) : e.ts >= t}
  <2>1. \A k \in 1..Len(s) : (k \in lo + 1..Len(s)) <=> (s[k].ts >= t)
    BY <1>1, <1>2
  <2>2. lo + 1..Len(s) \subseteq 1..Len(s) /\ DOMAIN s = 1..Len(s)
    BY <1>1, <1>2
  <2>. QED BY <2>1, <2>2 DEF ToSet
<1>4. /\ Slice(s, lo, Len(s)) \in Seq(E)
      /\ ToSet(Slice(s, lo, Len(s))) = {s[k] : k \in lo + 1..Len(s)}
      /\ Ordered(Slice(s, lo, Len(s)))
      /\ Len(Slice(s, lo, Len(s))) = IF lo < Len(s) THEN Len(s) - lo ELSE 0
  <2>1. lo \in 0..Len(s) /\ Len(s) \in 0..Len(s)
    BY <1>1, <1>2
  <2>. QED BY <2>1, SliceProperties
<1>5. Len(Slice(s, lo, Len(s))) <= Len(s)
  BY <1>1, <1>2, <1>4
<1>. QED BY <1>3, <1>4, <1>5 DEF CleanedBefore, lo

-----------------------------------------------------------------------------
(* insert adds one event and nothing else; when the event arrived after    *)
(* all those in the buffer, the buffer stays ordered.                      *)
LEMMA InsertedProperties ==
  ASSUME NEW E, IsEventSet(E), NEW s \in Seq(E), Ordered(s), NEW e \in E,
         \A i \in 1..Len(s) : s[i].id < e.id
  PROVE  /\ Inserted(s, e) \in Seq(E)
         /\ Len(Inserted(s, e)) = Len(s) + 1
         /\ ToSet(Inserted(s, e)) = ToSet(s) \cup {e}
         /\ Ordered(Inserted(s, e))
<1>. DEFINE p == LowerBound(s, e.ts)
            r == Inserted(s, e)
<1>1. /\ Len(s) \in Nat /\ DOMAIN s = 1..Len(s)
      /\ e.ts \in Int /\ e.id \in Int
      /\ \A i \in 1..Len(s) : s[i] \in E /\ s[i].ts \in Int /\ s[i].id \in Int
  BY DEF IsEventSet
<1>2. p \in 0..Len(s) /\ \A i \in 1..Len(s) : (s[i].ts < e.ts) <=> (i <= p)
  BY <1>1, OrderedIsSorted, LowerBoundProperties, LowerBoundSeparates
<1>. HIDE DEF p, r
<1>3. /\ Slice(s, 0, p) \in Seq(E) /\ Len(Slice(s, 0, p)) = p
      /\ \A i \in 1..p : Slice(s, 0, p)[i] = s[i]
  BY <1>2, PrefixProperties
<1>4. /\ Slice(s, p, Len(s)) \in Seq(E) /\ Len(Slice(s, p, Len(s))) = Len(s) - p
      /\ \A i \in 1..Len(s) - p : Slice(s, p, Len(s))[i] = s[p + i]
  BY <1>2, SuffixProperties
<1>5. r = Slice(s, 0, p) \o <<e>> \o Slice(s, p, Len(s))
  <2>1. /\ SubSeq(s, 1, (p + 1) - 1) = Slice(s, 0, p)
        /\ SubSeq(s, p + 1, Len(s)) = Slice(s, p, Len(s))
    BY <1>1, <1>2 DEF Slice
  <2>2. InsertAt(s, p + 1, e) = Slice(s, 0, p) \o <<e>> \o Slice(s, p, Len(s))
    BY <2>1 DEF InsertAt
  <2>. QED BY <2>2 DEF Inserted, p, r
<1>6. /\ r \in Seq(E) /\ Len(r) = Len(s) + 1
      /\ \A i \in 1..Len(s) + 1 :
           r[i] = IF i <= p THEN s[i] ELSE IF i = p + 1 THEN e ELSE s[i - 1]
  <2>. DEFINE a == Slice(s, 0, p)
              b == a \o <<e>>
              c == Slice(s, p, Len(s))
  <2>1. <<e>> \in Seq(E) /\ Len(<<e>>) = 1 /\ <<e>>[1] = e
    OBVIOUS
  <2>2. /\ b \in Seq(E) /\ Len(b) = p + 1
        /\ \A i \in 1..p + 1 : b[i] = IF i <= p THEN a[i] ELSE <<e>>[i - p]
    BY <1>2, <1>3, <2>1, ConcatProperties
  <2>. HIDE DEF a, b, c
  <2>3. /\ b \o c \in Seq(E) /\ Len(b \o c) = Len(b) + Len(c)
        /\ \A i \in 1..Len(b) + Len(c) :
             (b \o c)[i] = IF i <= Len(b) THEN b[i] ELSE c[i - Len(b)]
    BY <1>4, <2>2, ConcatProperties DEF c
  <2>4. r = b \o c
    BY <1>5 DEF a, b, c
  <2>5. Len(r) = Len(s) + 1
    BY <1>1, <1>2, <1>4, <2>2, <2>3, <2>4 DEF c
  <2>6. ASSUME NEW i \in 1..Len(s) + 1
        PROVE  r[i] = IF i <= p THEN s[i] ELSE IF i = p + 1 THEN e ELSE s[i - 1]
    <3>1. Len(b) + Len(c) = Len(s) + 1
      BY <2>3, <2>4, <2>5
    <3>2. r[i] = IF i <= p + 1 THEN b[i] ELSE c[i - (p + 1)]
      BY <2>2, <2>3, <2>4, <3>1
    <3>3. CASE i <= p
      <4>1. r[i] = a[i]
        BY <1>1, <1>2, <2>2, <3>2, <3>3
      <4>. QED BY <1>2, <1>3, <3>3, <4>1 DEF a
    <3>4. CASE i = p + 1
      BY <1>1, <1>2, <2>1, <2>2, <3>2, <3>4
    <3>5. CASE i > p + 1
      <4>1. i - (p + 1) \in 1..Len(s) - p /\ p + (i - (p + 1)) = i - 1
        BY <1>1, <1>2, <3>5
      <4>2. r[i] = s[p + (i - (p + 1))]
        BY <1>2, <1>4, <3>2, <3>5, <4>1 DEF c
      <4>3. ~ (i <= p) /\ i # p + 1
        BY <1>2, <3>5
      <4>. QED BY <4>1, <4>2, <4>3
    <3>. QED BY <1>2, <3>3, <3>4, <3>5
  <2>. QED BY <2>3, <2>4, <2>5, <2>6
<1>7. ToSet(r) = ToSet(s) \cup {e}
  <2>. DOMAIN r = 1..Len(s) + 1
    BY <1>6
  <2>1. ASSUME NEW i \in 1..Len(s) + 1 PROVE r[i] \in ToSet(s) \cup {e}
    <3>1. i # p + 1 => \/ r[i] = s[i] /\ i \in DOMAIN s
                       \/ r[i] = s[i - 1] /\ i - 1 \in DOMAIN s
      BY <1>1, <1>2, <1>6
    <3>. QED BY <1>2, <1>6, <3>1 DEF ToSet
  <2>2. ASSUME NEW i \in 1..Len(s) PROVE s[i] \in ToSet(r)
    <3>1. r[IF i <= p THEN i ELSE i + 1] = s[i]
      BY <1>1, <1>2, <1>6
    <3>2. (IF i <= p THEN i ELSE i + 1) \in DOMAIN r
      BY <1>1, <1>2
    <3>. QED BY <3>1, <3>2 DEF ToSet
  <2>3. e \in ToSet(r)
    <3>1. p + 1 \in DOMAIN r /\ r[p + 1] = e
      BY <1>1, <1>2, <1>6
    <3>. QED BY <3>1 DEF ToSet
  <2>. QED BY <1>1, <2>1, <2>2, <2>3 DEF ToSet
<1>8. Ordered(r)
  <2>. SUFFICES ASSUME NEW i \in 1..Len(s) + 1, NEW j \in 1..Len(s) + 1, i < j
                PROVE  Precedes(r[i], r[j])
    BY <1>6 DEF Ordered
  <2>1. CASE i = p + 1
    <3>1. r[i] = e /\ r[j] = s[j - 1] /\ j - 1 \in 1..Len(s) /\ ~ (j - 1 <= p)
      BY <1>1, <1>2, <1>6, <2>1
    <3>2. ~ (s[j - 1].ts < e.ts) /\ s[j - 1].id < e.id
      BY <1>2, <3>1
    <3>. QED BY <1>1, <3>1, <3>2 DEF Precedes
  <2>2. CASE j = p + 1
    <3>1. r[j] = e /\ r[i] = s[i] /\ i \in 1..Len(s) /\ i <= p
      BY <1>1, <1>2, <1>6, <2>2
    <3>. QED BY <1>2, <3>1 DEF Precedes
  <2>3. CASE i # p + 1 /\ j # p + 1
    <3>. DEFINE k == IF i <= p THEN i ELSE i - 1
                l == IF j <= p THEN j ELSE j - 1
    <3>1. k \in 1..Len(s) /\ l \in 1..Len(s) /\ k < l /\ r[i] = s[k] /\ r[j] = s[l]
      BY <1>1, <1>2, <1>6, <2>3
    <3>. QED BY <3>1 DEF Ordered
  <2>. QED BY <2>1, <2>2, <2>3
<1>. QED BY <1>6, <1>7, <1>8 DEF r

-----------------------------------------------------------------------------
(* What extract leaves is exactly what lies outside its range, in order,   *)
(* provided the range is not reversed.                                     *)
LEMMA ExtractedIsRest ==
  ASSUME NEW E, IsEventSet(E), NEW s \in Seq(E), Ordered(s),
         NEW start \in Int, NEW end \in Int, start <= end
  PROVE  /\ Extracted(s, start, end) \in Seq(E)
         /\ Len(Extracted(s, start, end)) <= Len(s)
         /\ Ordered(Extracted(s, start, end))
         /\ ToSet(Extracted(s, start, end))
              = ToSet(s) \ InRange(ToSet(s), start, end)
<1>. DEFINE lo == LowerBound(s, start)
            hi == LowerBound(s, end)
            a == Slice(s, 0, lo)
            b == Slice(s, hi, Len(s))
            r == a \o b
<1>1. /\ lo \in 0..Len(s) /\ \A i \in 1..Len(s) : (s[i].ts < start) <=> (i <= lo)
      /\ hi \in 0..Len(s) /\ \A i \in 1..Len(s) : (s[i].ts < end) <=> (i <= hi)
  BY OrderedIsSorted, LowerBoundProperties, LowerBoundSeparates
<1>2. /\ Len(s) \in Nat /\ DOMAIN s = 1..Len(s)
      /\ \A i \in 1..Len(s) : s[i].ts \in Int
  BY DEF IsEventSet
<1>. HIDE DEF lo, hi
<1>3. lo <= hi
  <2>1. SUFFICES ASSUME hi < lo PROVE FALSE
    BY <1>1
  <2>2. lo \in 1..Len(s) /\ s[lo].ts < start /\ ~ (s[lo].ts < end)
    BY <1>1, <1>2, <2>1
  <2>. QED BY <1>2, <2>2
<1>4. /\ a \in Seq(E) /\ Len(a) = lo /\ \A i \in 1..lo : a[i] = s[i]
  BY <1>1, PrefixProperties
<1>5. /\ b \in Seq(E) /\ Len(b) = Len(s) - hi
      /\ \A i \in 1..Len(s) - hi : b[i] = s[hi + i]
  BY <1>1, SuffixProperties
<1>. HIDE DEF a, b
<1>6. /\ r \in Seq(E) /\ Len(r) = lo + (Len(s) - hi) /\ DOMAIN r = 1..Len(r)
      /\ \A i \in 1..lo + (Len(s) - hi) :
           r[i] = s[IF i <= lo THEN i ELSE hi + (i - lo)]
  <2>1. /\ r \in Seq(E) /\ Len(r) = Len(a) + Len(b)
        /\ \A i \in 1..Len(a) + Len(b) :
             r[i] = IF i <= Len(a) THEN a[i] ELSE b[i - Len(a)]
    BY <1>4, <1>5, ConcatProperties
  <2>. HIDE DEF r
  <2>2. /\ Len(r) = lo + (Len(s) - hi)
        /\ \A i \in 1..lo + (Len(s) - hi) :
             r[i] = IF i <= lo THEN a[i] ELSE b[i - lo]
    BY <1>4, <1>5, <2>1
  <2>3. ASSUME NEW i \in 1..lo + (Len(s) - hi)
        PROVE  r[i] = s[IF i <= lo THEN i ELSE hi + (i - lo)]
    <3>1. CASE i <= lo
      BY <1>1, <1>2, <1>4, <2>2, <3>1
    <3>2. CASE ~ (i <= lo)
      <4>1. i - lo \in 1..Len(s) - hi
        BY <1>1, <1>2, <3>2
      <4>. QED BY <1>5, <2>2, <3>2, <4>1
    <3>. QED BY <3>1, <3>2
  <2>4. DOMAIN r = 1..Len(r)
    BY <2>1
  <2>. QED BY <2>1, <2>2, <2>3, <2>4
<1>. HIDE DEF r
<1>7. Len(r) <= Len(s)
  BY <1>1, <1>2, <1>3, <1>6
<1>. DEFINE kept == {k \in 1..Len(s) : k <= lo \/ hi < k}
<1>8. \A i \in 1..Len(r) : (IF i <= lo THEN i ELSE hi + (i - lo)) \in kept
  BY <1>1, <1>2, <1>3, <1>6
<1>9. ToSet(r) = {s[k] : k \in kept}
  <2>1. ASSUME NEW k \in kept PROVE \E i \in DOMAIN r : r[i] = s[k]
    <3>. DEFINE i == IF k <= lo THEN k ELSE lo + (k - hi)
    <3>1. i \in 1..lo + (Len(s) - hi) /\ (IF i <= lo THEN i ELSE hi + (i - lo)) = k
      BY <1>1, <1>2, <1>3
    <3>. QED BY <1>6, <3>1
  <2>2. ASSUME NEW i \in DOMAIN r PROVE \E k \in kept : r[i] = s[k]
    BY <1>6, <1>8
  <2>. QED BY <2>1, <2>2 DEF ToSet
<1>10. {s[k] : k \in kept} = ToSet(s) \ InRange(ToSet(s), start, end)
  <2>1. \A k \in 1..Len(s) :
          (k \in kept) <=> ~ (start <= s[k].ts /\ s[k].ts < end)
    BY <1>1, <1>2
  <2>. QED BY <1>2, <2>1 DEF InRange, ToSet
<1>11. Ordered(r)
  <2>. SUFFICES ASSUME NEW i \in 1..Len(r), NEW j \in 1..Len(r), i < j
                PROVE  Precedes(r[i], r[j])
    BY DEF Ordered
  <2>. DEFINE k == IF i <= lo THEN i ELSE hi + (i - lo)
              l == IF j <= lo THEN j ELSE hi + (j - lo)
  <2>1. k \in 1..Len(s) /\ l \in 1..Len(s) /\ k < l
    <3>1. k \in 1..Len(s) /\ l \in 1..Len(s)
      BY <1>8
    <3>2. i \in Nat /\ j \in Nat /\ lo \in Nat /\ hi \in Nat /\ lo <= hi
      BY <1>1, <1>2, <1>3, <1>6
    <3>3. k < l
      BY <3>2
    <3>. QED BY <3>1, <3>3
  <2>2. r[i] = s[k]
    BY <1>1, <1>2, <1>3, <1>6
  <2>3. r[j] = s[l]
    BY <1>1, <1>2, <1>3, <1>6
  <2>. QED BY <2>1, <2>2, <2>3 DEF Ordered
<1>. QED BY <1>6, <1>7, <1>9, <1>10, <1>11 DEF Extracted, r, a, b, lo, hi

-----------------------------------------------------------------------------
(* Sequences in a strict order R, a set of pairs, whose order is that of   *)
(* the indices.                                                            *)
InOrder(s, n, R) == \A i, j \in 1..n : <<s[i], s[j]>> \in R <=> i < j

FirstOf(s, k) == {s[i] : i \in 1..k}

Before(S, R, x) == {y \in S : <<y, x>> \in R}

(* The first k elements are k.                                             *)
LEMMA FirstElements ==
  ASSUME NEW n \in Nat, NEW s, NEW R, InOrder(s, n, R), NEW k \in 0..n
  PROVE  IsFiniteSet(FirstOf(s, k)) /\ Cardinality(FirstOf(s, k)) = k
<1>. DEFINE f == [i \in 1..k |-> s[i]]
<1>1. f \in Bijection(1..k, FirstOf(s, k))
  <2>1. ASSUME NEW i \in 1..k, NEW j \in 1..k, f[i] = f[j] PROVE i = j
    <3>1. s[i] = s[j] /\ i \in 1..n /\ j \in 1..n /\ i \in Int /\ j \in Int
      BY <2>1
    <3>2. (<<s[i], s[i]>> \in R <=> i < j) /\ (<<s[i], s[i]>> \in R <=> j < i)
      BY <3>1 DEF InOrder
    <3>. QED BY <3>1, <3>2
  <2>2. f \in [1..k -> FirstOf(s, k)] /\ \A x \in FirstOf(s, k) : \E i \in 1..k : f[i] = x
    BY DEF FirstOf
  <2>. QED BY <2>1, <2>2 DEF Bijection, Injection, Surjection, IsInjective
<1>2. k \in Nat /\ IsFiniteSet(1..k) /\ Cardinality(1..k) = k
  BY FS_Interval
<1>3. ExistsBijection(1..k, FirstOf(s, k))
  BY <1>1 DEF ExistsBijection
<1>. QED BY <1>2, <1>3, FS_Bijection

(* Before the k-th element there are k - 1 others.                         *)
LEMMA RankOf ==
  ASSUME NEW n \in Nat, NEW s, NEW R, InOrder(s, n, R), NEW k \in 1..n
  PROVE  Cardinality(Before(FirstOf(s, n), R, s[k])) = k - 1
<1>1. k - 1 \in 0..n /\ 1..k - 1 \subseteq 1..n /\ \A i \in 1..n : i < k <=> i \in 1..k - 1
  OBVIOUS
<1>2. \A i \in 1..n : <<s[i], s[k]>> \in R <=> i \in 1..k - 1
  BY <1>1 DEF InOrder
<1>3. Before(FirstOf(s, n), R, s[k]) = FirstOf(s, k - 1)
  BY <1>1, <1>2 DEF FirstOf, Before
<1>. QED BY <1>1, <1>3, FirstElements

(* Such a sequence is determined by its elements.                          *)
LEMMA RankChooses ==
  ASSUME NEW n \in Nat, NEW s, NEW R, InOrder(s, n, R),
         NEW rank, \A x \in FirstOf(s, n) :
                     rank[x] = Cardinality(Before(FirstOf(s, n), R, x))
  PROVE  \A k \in 1..n : s[k] = CHOOSE x \in FirstOf(s, n) : rank[x] = k - 1
<1>1. \A k \in 1..n : s[k] \in FirstOf(s, n)
  BY DEF FirstOf
<1>2. \A k \in 1..n : rank[s[k]] = k - 1
  BY <1>1, RankOf
<1>3. ASSUME NEW k \in 1..n PROVE s[k] = CHOOSE x \in FirstOf(s, n) : rank[x] = k - 1
  <2>1. ASSUME NEW x \in FirstOf(s, n), rank[x] = k - 1 PROVE x = s[k]
    <3>1. PICK j \in 1..n : x = s[j]
      BY DEF FirstOf
    <3>2. j - 1 = k - 1 /\ j \in Int /\ k \in Int
      BY <1>2, <2>1, <3>1
    <3>. QED BY <3>1, <3>2
  <2>. QED BY <1>1, <1>2, <2>1
<1>. QED BY <1>3

(* A strictly increasing sequence of numbers is what sorting its elements  *)
(* gives.                                                                  *)
LEMMA AscendingUnique ==
  ASSUME NEW n \in Nat, NEW s, s = [i \in 1..n |-> s[i]],
         \A i \in 1..n : s[i] \in Int,
         \A i, j \in 1..n : i < j => s[i] < s[j]
  PROVE  Ascending(FirstOf(s, n)) = s
<1>. DEFINE S == FirstOf(s, n)
            R == {p \in Int \X Int : p[1] < p[2]}
            rank == [x \in S |-> Cardinality({y \in S : y < x})]
<1>1. \A i, j \in 1..n : <<s[i], s[j]>> \in R <=> i < j
  <2>. TAKE i, j \in 1..n
  <2>1. s[i] \in Int /\ s[j] \in Int /\ (i < j => s[i] < s[j]) /\ (j < i => s[j] < s[i])
        /\ i \in Int /\ j \in Int
    OBVIOUS
  <2>2. <<s[i], s[j]>> \in R <=> s[i] < s[j]
    BY <2>1
  <2>. QED BY <2>1, <2>2
<1>2. InOrder(s, n, R)
  BY <1>1 DEF InOrder
<1>3. Cardinality(S) = n
  <2>1. n \in 0..n
    OBVIOUS
  <2>. HIDE DEF R
  <2>. QED BY <1>2, <2>1, FirstElements
<1>4. \A x \in S : rank[x] = Cardinality(Before(S, R, x))
  <2>1. \A x \in S : x \in Int
    BY DEF FirstOf
  <2>2. \A x \in S : {y \in S : y < x} = Before(S, R, x)
    BY <2>1 DEF Before
  <2>. QED BY <2>2
<1>5. \A k \in 1..n : s[k] = CHOOSE x \in S : rank[x] = k - 1
  <2>. HIDE DEF R, rank
  <2>. QED BY <1>2, <1>4, RankChooses
<1>6. \A k \in 1..n : (CHOOSE x \in S : rank[x] = k - 1)
                       = CHOOSE x \in S : Cardinality({y \in S : y < x}) = k - 1
  <2>. HIDE DEF S
  <2>. QED OBVIOUS
<1>. QED BY <1>3, <1>5, <1>6 DEF Ascending, Sorted

(* The order of the numbers lists every finite set of them.                *)
LEMMA AscendingRanks ==
  ASSUME NEW S \in SUBSET Int, IsFiniteSet(S)
  PROVE  /\ Cardinality(S) \in Nat /\ DOMAIN Ascending(S) = 1..Cardinality(S)
         /\ \A k \in 1..Cardinality(S) :
              /\ Ascending(S)[k] \in S
              /\ Cardinality({y \in S : y < Ascending(S)[k]}) = k - 1
         /\ \A x \in S : /\ Cardinality({y \in S : y < x}) + 1 \in 1..Cardinality(S)
                         /\ Ascending(S)[Cardinality({y \in S : y < x}) + 1] = x
<1>. DEFINE n == Cardinality(S)
            Below(x) == {y \in S : y < x}
            f == [x \in S |-> Cardinality(Below(x)) + 1]
            s == Ascending(S)
<1>1. n \in Nat /\ IsFiniteSet(1..n) /\ Cardinality(1..n) = n
  BY FS_CardinalityType, FS_Interval
<1>2. ASSUME NEW x \in S
      PROVE  IsFiniteSet(Below(x)) /\ Cardinality(Below(x)) \in Nat /\ f[x] \in 1..n
  <2>1. Below(x) \in SUBSET S /\ Below(x) # S
    <3>1. x \notin Below(x)
      OBVIOUS
    <3>. QED BY <3>1
  <2>2. IsFiniteSet(Below(x)) /\ Cardinality(Below(x)) <= n /\ Cardinality(Below(x)) # n
    <3>. HIDE DEF Below
    <3>. QED BY <2>1, FS_Subset
  <2>3. Cardinality(Below(x)) \in Nat
    BY <2>2, FS_CardinalityType
  <2>. HIDE DEF Below
  <2>. QED BY <1>1, <2>2, <2>3
<1>3. ASSUME NEW x \in S, NEW y \in S, x < y PROVE f[x] < f[y]
  <2>1. Below(x) \in SUBSET Below(y) /\ x \in Below(y) /\ x \notin Below(x)
    <3>1. x \in Int /\ y \in Int /\ \A z \in S : z \in Int
      OBVIOUS
    <3>2. \A z \in S : z < x => z < y
      BY <1>3, <3>1
    <3>3. Below(x) \subseteq Below(y)
      BY <3>2
    <3>4. x \in Below(y) /\ x \notin Below(x)
      BY <1>3, <3>1
    <3>. QED BY <3>3, <3>4
  <2>2. Cardinality(Below(x)) <= Cardinality(Below(y))
        /\ Cardinality(Below(x)) # Cardinality(Below(y))
    <3>. HIDE DEF Below
    <3>. QED BY <1>2, <2>1, FS_Subset
  <2>. HIDE DEF Below
  <2>. QED BY <1>2, <2>2
<1>4. f \in [S -> 1..n]
  <2>. HIDE DEF n, Below
  <2>. QED BY <1>2
<1>5. \A x, y \in S : f[x] = f[y] => x = y
  <2>. HIDE DEF f
  <2>1. ASSUME NEW x \in S, NEW y \in S, f[x] = f[y] PROVE x = y
    <3>1. f[x] \in Int /\ f[y] \in Int /\ x \in Int /\ y \in Int
      BY <1>1, <1>4
    <3>2. ~ (x < y) /\ ~ (y < x)
      BY <1>3, <2>1, <3>1
    <3>. QED BY <3>1, <3>2
  <2>. QED BY <2>1
<1>6. f \in Surjection(S, 1..n)
  <2>1. f \in Injection(S, 1..n)
    BY <1>4, <1>5 DEF Injection, IsInjective
  <2>. HIDE DEF f, n
  <2>. QED BY <1>1, <2>1, FS_Injection DEF n
<1>7. ASSUME NEW x \in S PROVE x = CHOOSE y \in S : Cardinality(Below(y)) = f[x] - 1
  <2>1. Cardinality(Below(x)) = f[x] - 1
    <3>. HIDE DEF Below
    <3>. QED BY <1>2
  <2>2. ASSUME NEW y \in S, Cardinality(Below(y)) = f[x] - 1 PROVE y = x
    <3>1. f[y] = f[x]
      <4>. HIDE DEF Below
      <4>. QED BY <1>2, <2>1, <2>2
    <3>. QED BY <1>5, <3>1
  <2>. HIDE DEF f, Below
  <2>. QED BY <2>1, <2>2
<1>8. ASSUME NEW x \in S PROVE s[f[x]] = x
  <2>1. s[f[x]] = CHOOSE y \in S : Cardinality(Below(y)) = f[x] - 1
    <3>1. f[x] \in 1..n
      BY <1>4
    <3>. HIDE DEF f
    <3>. QED BY <3>1 DEF Ascending, Sorted
  <2>. QED BY <1>7, <2>1
<1>9. ASSUME NEW k \in 1..n PROVE s[k] \in S /\ Cardinality(Below(s[k])) = k - 1
  <2>1. PICK x \in S : f[x] = k
    BY <1>6 DEF Surjection
  <2>2. s[k] = x
    BY <1>8, <2>1
  <2>3. Cardinality(Below(x)) + 1 = k
    BY <2>1
  <2>. HIDE DEF Below, f, s
  <2>. QED BY <1>2, <2>2, <2>3
<1>10. DOMAIN s = 1..n
  BY DEF Ascending, Sorted
<1>. QED BY <1>1, <1>4, <1>8, <1>9, <1>10

(* Up to a bound, the listings of two sets that agree there are the same.  *)
LEMMA AscendingAgree ==
  ASSUME NEW S \in SUBSET Int, IsFiniteSet(S), NEW T \in SUBSET Int, IsFiniteSet(T),
         NEW t \in Int, \A x \in Int : x <= t => (x \in S <=> x \in T),
         NEW k \in DOMAIN Ascending(S), Ascending(S)[k] <= t
  PROVE  k \in DOMAIN Ascending(T) /\ Ascending(T)[k] = Ascending(S)[k]
<1>. DEFINE s == Ascending(S)
            u == Ascending(T)
            Below(U, x) == {y \in U : y < x}
<1>1. /\ s[k] \in S /\ Cardinality(Below(S, s[k])) = k - 1 /\ k \in Int
      /\ DOMAIN u = 1..Cardinality(T)
      /\ \A x \in T : /\ Cardinality(Below(T, x)) + 1 \in 1..Cardinality(T)
                      /\ u[Cardinality(Below(T, x)) + 1] = x
  <2>1. k \in 1..Cardinality(S) /\ Cardinality(S) \in Nat
    BY AscendingRanks
  <2>2. k \in Int
    BY <2>1
  <2>3. s[k] \in S /\ Cardinality(Below(S, s[k])) = k - 1
    BY <2>1, AscendingRanks
  <2>4. /\ DOMAIN u = 1..Cardinality(T)
        /\ \A x \in T : /\ Cardinality(Below(T, x)) + 1 \in 1..Cardinality(T)
                        /\ u[Cardinality(Below(T, x)) + 1] = x
    BY AscendingRanks
  <2>. QED BY <2>2, <2>3, <2>4
<1>2. s[k] \in T
  BY <1>1
<1>3. Below(S, s[k]) = Below(T, s[k])
  <2>1. ASSUME NEW y \in Int, y < s[k] PROVE y \in S <=> y \in T
    <3>1. s[k] \in Int
      BY <1>1
    <3>. HIDE DEF s
    <3>2. y <= t
      BY <2>1, <3>1 DEF s
    <3>. QED BY <3>2
  <2>2. (\A y \in S : y \in Int) /\ (\A y \in T : y \in Int)
    OBVIOUS
  <2>. HIDE DEF s
  <2>. QED BY <2>1, <2>2
<1>4. (k - 1) + 1 = k
  BY <1>1
<1>. HIDE DEF s, u, Below
<1>5. k \in 1..Cardinality(T) /\ u[k] = s[k]
  BY <1>1, <1>2, <1>3, <1>4
<1>. QED BY <1>1, <1>5 DEF s, u

(* The one listing of a set in the buffer's order is what sorting it gives. *)
LEMMA SortedEvents ==
  ASSUME NEW E, IsEventSet(E), NEW s \in Seq(E), NEW T, IsListing(s, T)
  PROVE  Sorted(T, Precedes) = s
<1>. DEFINE n == Len(s)
            R == {p \in E \X E : Precedes(p[1], p[2])}
            rank == [x \in T |-> Cardinality({y \in T : Precedes(y, x)})]
<1>1. /\ n \in Nat /\ s = [i \in 1..n |-> s[i]]
      /\ \A i \in 1..n : s[i] \in E /\ s[i].ts \in Int /\ s[i].id \in Int
      /\ \A i, j \in 1..n : i < j => Precedes(s[i], s[j])
  BY DEF IsEventSet, IsListing, Ordered
<1>2. InOrder(s, n, R)
  <2>1. ASSUME NEW i \in 1..n, NEW j \in 1..n PROVE <<s[i], s[j]>> \in R <=> i < j
    <3>1. /\ s[i] \in E /\ s[j] \in E /\ i \in Int /\ j \in Int
          /\ (i < j => Precedes(s[i], s[j])) /\ (j < i => Precedes(s[j], s[i]))
      BY <1>1
    <3>2. /\ ~ (Precedes(s[i], s[j]) /\ Precedes(s[j], s[i]))
          /\ ~ Precedes(s[i], s[i])
      BY <1>1 DEF Precedes
    <3>3. <<s[i], s[j]>> \in R <=> Precedes(s[i], s[j])
      BY <3>1
    <3>. HIDE DEF R
    <3>. QED BY <3>1, <3>2, <3>3
  <2>. QED BY <2>1 DEF InOrder
<1>3. T = FirstOf(s, n) /\ \A x \in T : x \in E
  BY <1>1 DEF IsListing, ToSet, FirstOf
<1>4. Cardinality(T) = n
  <2>1. n \in 0..n
    BY <1>1
  <2>. HIDE DEF R, n
  <2>. QED BY <1>1, <1>2, <1>3, <2>1, FirstElements
<1>5. \A x \in T : rank[x] = Cardinality(Before(T, R, x))
  <2>1. \A x \in T : {y \in T : Precedes(y, x)} = Before(T, R, x)
    BY <1>3 DEF Before
  <2>. QED BY <2>1
<1>6. \A k \in 1..n : s[k] = CHOOSE x \in T : rank[x] = k - 1
  <2>. HIDE DEF R, rank, n
  <2>. QED BY <1>1, <1>2, <1>3, <1>5, RankChooses
<1>7. \A k \in 1..n : (CHOOSE x \in T : rank[x] = k - 1)
                       = CHOOSE x \in T : Cardinality({y \in T : Precedes(y, x)}) = k - 1
  OBVIOUS
<1>. HIDE DEF n
<1>. QED BY <1>1, <1>4, <1>6, <1>7 DEF Sorted
=============================================================================
