------------------------- MODULE CountWindow_proofs -------------------------
(***************************************************************************)
(* The windows of CountWindowPhysicalOperator, for every window            *)
(* specification and any number of events.                                 *)
(***************************************************************************)
EXTENDS CountWindow, SequenceTheorems, TLAPS

\* Where the window after the first n begins, minus one.
Offset(n) == n * Stride

\* Until close(), the buffer is the beginning of the window after the last
\* one sent, and that window is not complete.
BufferInv ==
  /\ arrived < Offset(Len(out)) + Size
  /\ ~ closed =>
       /\ Offset(Len(out)) <= arrived
       /\ buffer = Run(Offset(Len(out)) + 1, arrived)
       /\ \A k \in 1..Len(out) :
            out[k] = Run(Offset(k - 1) + 1, Offset(k - 1) + Size)

IInv == TypeOK /\ BufferInv /\ WindowsAreSlices

-----------------------------------------------------------------------------
LEMMA StrideFacts ==
  ASSUME spec \in Specs
  PROVE  /\ Size \in Nat \ {0} /\ Advance \in Nat \ {0}
         /\ Stride \in Nat \ {0} /\ Stride <= Size
         /\ HasChannel \in BOOLEAN
  BY CountWindowAssumption DEF Specs, Size, Advance, HasChannel, Stride

\* Offsets grow by one stride per window.
LEMMA OffsetFacts ==
  ASSUME spec \in Specs
  PROVE  /\ Offset(0) = 0
         /\ \A n \in Nat : Offset(n) \in Nat /\ Offset(n + 1) = Offset(n) + Stride
         /\ \A m, n \in Nat : m <= n => Offset(m) <= Offset(n)
<1>1. \A d \in Nat, n \in Nat : (n + 1) * d = n * d + d
  OBVIOUS
<1>2. \A d \in Nat, m, n \in Nat : m <= n => m * d <= n * d
  <2> SUFFICES ASSUME NEW d \in Nat, NEW m \in Nat, NEW n \in Nat, m <= n
               PROVE  m * d <= n * d
    OBVIOUS
  <2>1. PICK e \in Nat : n = m + e
    <3>1. n - m \in Nat /\ n = m + (n - m)
      OBVIOUS
    <3> QED BY <3>1
  <2>2. n * d = m * d + e * d /\ e * d \in Nat /\ m * d \in Nat
    BY <2>1
  <2> QED BY <2>2
<1> QED BY <1>1, <1>2, StrideFacts DEF Offset

\* Runs of consecutive events: their length, their members, and what
\* appending the next event or dropping the first ones makes of them.
LEMMA RunType ==
  ASSUME NEW from \in Nat \ {0}, NEW to \in Nat, from <= to + 1
  PROVE  /\ Run(from, to) \in Seq(1..to) /\ Len(Run(from, to)) = to - from + 1
         /\ \A i \in 1..to - from + 1 : Run(from, to)[i] = from + i - 1
<1>1. to - from + 1 \in Nat
  OBVIOUS
<1>2. \A i \in 1..to - from + 1 : from + i - 1 \in 1..to
  OBVIOUS
<1> QED BY <1>1, <1>2 DEF Run

LEMMA RunGrows ==
  ASSUME NEW from \in Nat \ {0}, NEW to \in Nat, from <= to + 1
  PROVE  Append(Run(from, to), to + 1) = Run(from, to + 1)
<1> DEFINE s == Append(Run(from, to), to + 1)
           r == Run(from, to + 1)
<1>1. to + 1 \in Nat /\ from <= to + 1 + 1
  OBVIOUS
<1>2. /\ r \in Seq(1..to + 1) /\ Len(r) = to + 1 - from + 1
      /\ \A i \in 1..to + 1 - from + 1 : r[i] = from + i - 1
  BY <1>1, RunType
<1>3. /\ Run(from, to) \in Seq(1..to + 1) /\ Len(Run(from, to)) = to - from + 1
      /\ \A i \in 1..to - from + 1 : Run(from, to)[i] = from + i - 1
  <2>1. /\ Run(from, to) \in Seq(1..to) /\ Len(Run(from, to)) = to - from + 1
        /\ \A i \in 1..to - from + 1 : Run(from, to)[i] = from + i - 1
    BY RunType
  <2>2. \A x \in 1..to : x \in 1..to + 1
    OBVIOUS
  <2>3. \A q : q \in Seq(1..to) => q \in Seq(1..to + 1)
    BY <2>2
  <2> QED BY <2>1, <2>3
<1>4. /\ s \in Seq(1..to + 1) /\ Len(s) = to - from + 1 + 1
      /\ s[to - from + 1 + 1] = to + 1
      /\ \A i \in 1..to - from + 1 : s[i] = from + i - 1
  BY <1>3, AppendProperties
<1>5. Len(s) = Len(r) /\ \A i \in 1..Len(s) : s[i] = r[i]
  BY <1>2, <1>4
<1> QED BY <1>2, <1>4, <1>5, SeqEqual

LEMMA RunDropped ==
  ASSUME NEW from \in Nat \ {0}, NEW to \in Nat, NEW d \in Nat, from + d <= to
  PROVE  SubSeq(Run(from, to), d + 1, to - from + 1) = Run(from + d, to)
<1> DEFINE s == SubSeq(Run(from, to), d + 1, to - from + 1)
           r == Run(from + d, to)
<1>1. /\ from + d \in Nat \ {0} /\ from <= to + 1 /\ from + d <= to + 1
      /\ to - from + 1 - (d + 1) + 1 = to - (from + d) + 1
  OBVIOUS
<1>2. r \in Seq(1..to) /\ Len(r) = to - (from + d) + 1
      /\ \A i \in 1..to - (from + d) + 1 : r[i] = from + d + i - 1
  BY <1>1, RunType
<1>3. Run(from, to) \in Seq(1..to) /\ Len(Run(from, to)) = to - from + 1
      /\ \A i \in 1..to - from + 1 : Run(from, to)[i] = from + i - 1
  BY <1>1, RunType
<1>4. s \in Seq(1..to) /\ Len(s) = to - (from + d) + 1
      /\ \A i \in 1..to - (from + d) + 1 : s[i] = from + d + i - 1
  BY <1>1, <1>3
<1> QED BY <1>2, <1>4, SeqEqual

-----------------------------------------------------------------------------
LEMMA InitIInv == Init => IInv
<1> SUFFICES ASSUME Init PROVE IInv
  OBVIOUS
<1>1. Offset(0) = 0 /\ Size \in Nat \ {0}
  BY OffsetFacts, StrideFacts DEF Init
<1>2. Run(1, 0) = << >>
  BY DEF Run
<1>3. TypeOK
  <2>1. buffer \in Seq(1..MaxEvents) /\ out \in Seq(Seq(1..MaxEvents))
    BY EmptySeq DEF Init
  <2>2. Len(buffer) < Size
    BY <1>1, EmptySeq DEF Init
  <2>3. arrived \in 0..MaxEvents
    BY CountWindowAssumption DEF Init
  <2> QED BY <2>1, <2>2, <2>3 DEF Init, TypeOK
<1>4. BufferInv /\ WindowsAreSlices
  BY <1>1, <1>2 DEF Init, BufferInv, WindowsAreSlices
<1> QED BY <1>3, <1>4 DEF IInv

LEMMA CollectKeeps == ASSUME IInv, Collect PROVE IInv'
<1> USE DEF IInv
<1> DEFINE from == Offset(Len(out)) + 1
<1>1. /\ spec \in Specs /\ UNCHANGED <<spec, out>> /\ arrived \in Nat
      /\ Len(out) \in Nat /\ ~ closed /\ arrived' = arrived + 1
  BY DEF TypeOK, Collect
<1>2. Offset(Len(out)) \in Nat /\ Size \in Nat
  <2>1. Len(out) \in Nat /\ spec \in Specs
    BY <1>1
  <2> QED BY <2>1, OffsetFacts, StrideFacts
<1>3. /\ buffer = Run(from, arrived) /\ Offset(Len(out)) <= arrived
      /\ arrived < Offset(Len(out)) + Size
  BY <1>1 DEF BufferInv
<1>4. from \in Nat \ {0} /\ from <= arrived + 1
  BY <1>1, <1>2, <1>3
<1>5. /\ Len(buffer) = arrived - from + 1
      /\ buffer' = Run(from, arrived + 1)
  <2>1. Collect => buffer' = Append(buffer, arrived + 1)
    BY DEF Collect
  <2> HIDE DEF from
  <2> QED BY <1>1, <1>3, <1>4, <2>1, RunType, RunGrows
<1>6. TypeOK'
  <2>1. /\ arrived + 1 \in 1..MaxEvents /\ buffer \in Seq(1..MaxEvents)
        /\ buffer' = Append(buffer, arrived + 1)
    BY CountWindowAssumption DEF TypeOK, Collect
  <2>2. buffer' \in Seq(1..MaxEvents) /\ Len(buffer') = Len(buffer) + 1
    BY <2>1, AppendProperties
  <2>3. Len(buffer') < Size
    BY <1>2, <2>1, <2>2 DEF TypeOK, Collect
  <2> QED BY <1>1, <2>1, <2>2, <2>3 DEF TypeOK, Collect, Size
<1>7. arrived + 1 < Offset(Len(out)) + Size /\ Offset(Len(out)) <= arrived + 1
  <2>1. arrived - from + 1 + 1 # Size
    BY <1>5 DEF Collect
  <2> QED BY <1>1, <1>2, <1>3, <2>1
<1>8. BufferInv'
  BY <1>1, <1>5, <1>7 DEF BufferInv, Offset, Stride, Size, Advance
<1>9. WindowsAreSlices'
  BY <1>1 DEF Collect, WindowsAreSlices, Stride, Size, Advance, HasChannel
<1> QED BY <1>6, <1>8, <1>9

\* An event that completes a window: the window is the run of its events,
\* and the buffer becomes the beginning of the next.
LEMMA FireWindow ==
  ASSUME IInv, Fire, NEW window, window = Append(buffer, arrived + 1)
  PROVE  /\ arrived + 1 = Offset(Len(out)) + Size
         /\ window = Run(Offset(Len(out)) + 1, arrived + 1)
         /\ window \in Seq(1..arrived + 1)
         /\ buffer' = Run(Offset(Len(out) + 1) + 1, arrived + 1)
         /\ buffer' \in Seq(1..arrived + 1) /\ Len(buffer') < Size
         /\ Offset(Len(out) + 1) <= arrived + 1
         /\ arrived + 1 < Offset(Len(out) + 1) + Size
<1> DEFINE n == Len(out)
           from == Offset(n) + 1
           next == Offset(n + 1) + 1
<1>1. spec \in Specs /\ arrived \in Nat /\ n \in Nat /\ ~ closed
  BY DEF IInv, TypeOK, Fire
<1>2. /\ Offset(n) \in Nat /\ Offset(n + 1) \in Nat
      /\ Offset(n + 1) = Offset(n) + Stride
  BY <1>1, OffsetFacts
<1>3. /\ Size \in Nat \ {0} /\ Advance \in Nat \ {0}
      /\ Stride \in Nat \ {0} /\ Stride <= Size
  BY <1>1, StrideFacts
<1>4. from \in Nat \ {0} /\ next \in Nat \ {0} /\ next = from + Stride
  BY <1>2, <1>3
<1>5. buffer = Run(from, arrived) /\ from <= arrived + 1
  BY <1>1, <1>2 DEF IInv, BufferInv
<1>6. Len(buffer) = arrived - from + 1
  <2> HIDE DEF from, next
  <2> QED BY <1>1, <1>4, <1>5, RunType
<1>7. arrived + 1 = from + Size - 1
  <2>1. Len(buffer) + 1 = Size
    BY DEF Fire
  <2> HIDE DEF from
  <2> QED BY <1>1, <1>3, <1>4, <1>6, <2>1
<1>8. window = Run(from, arrived + 1)
  <2>1. from \in Nat \ {0} /\ arrived \in Nat /\ from <= arrived + 1
    BY <1>1, <1>4, <1>5
  <2> HIDE DEF from
  <2>2. Append(Run(from, arrived), arrived + 1) = Run(from, arrived + 1)
    BY <2>1, RunGrows
  <2> QED BY <1>5, <2>2
<1> DEFINE last == arrived + 1
<1> HIDE DEF from, next, last
<1>9. /\ last \in Nat /\ from <= last + 1 /\ next <= last + 1
      /\ from \in Nat \ {0} /\ next \in Nat \ {0}
  BY <1>1, <1>3, <1>4, <1>7 DEF last
<1>10. last - from + 1 = Size /\ last - next + 1 < Size
  BY <1>1, <1>3, <1>4, <1>7 DEF last
<1>11. window = Run(from, last)
  BY <1>8 DEF last
<1>12. window \in Seq(1..last) /\ Len(window) = last - from + 1
  BY <1>9, <1>11, RunType
<1>13. Len(window) = Size
  BY <1>10, <1>12
<1>14. buffer' = Slide(window)
  BY DEF Fire
<1>15. buffer' = Run(next, last)
  <2>1. CASE Advance >= Size
    <3>1. Stride = Size /\ buffer' = << >>
      BY <1>3, <1>13, <1>14, <2>1 DEF Slide, Stride
    <3>2. next = last + 1
      BY <1>1, <1>3, <1>4, <1>7, <3>1 DEF last
    <3>3. Run(last + 1, last) = << >>
      BY <1>9 DEF Run
    <3> QED BY <3>1, <3>2, <3>3
  <2>2. CASE Advance < Size
    <3>1. Advance \in Nat /\ from + Advance <= last
      BY <1>1, <1>3, <1>4, <1>7, <2>2 DEF last
    <3>2. ~ Advance >= Size
      BY <1>3, <2>2
    <3>3. buffer' = SubSeq(window, Advance + 1, last - from + 1)
      BY <1>12, <1>13, <1>14, <3>2 DEF Slide
    <3>4. SubSeq(Run(from, last), Advance + 1, last - from + 1)
            = Run(from + Advance, last)
      BY <1>9, <3>1, RunDropped
    <3>5. next = from + Advance
      BY <1>4, <2>2 DEF Stride
    <3> QED BY <1>11, <3>3, <3>4, <3>5
  <2> QED BY <1>3, <2>1, <2>2
<1>16. buffer' \in Seq(1..last) /\ Len(buffer') = last - next + 1
  BY <1>9, <1>15, RunType
<1>17. Len(buffer') < Size
  BY <1>10, <1>16
<1>18. /\ arrived + 1 = Offset(n) + Size
       /\ Offset(n + 1) <= arrived + 1 /\ arrived + 1 < Offset(n + 1) + Size
  BY <1>1, <1>2, <1>3, <1>7 DEF from
<1> QED BY <1>11, <1>12, <1>15, <1>16, <1>17, <1>18 DEF from, next, last

LEMMA FireKeeps == ASSUME IInv, Fire PROVE IInv'
<1> DEFINE n == Len(out)
           window == Append(buffer, arrived + 1)
<1>1. /\ spec \in Specs /\ UNCHANGED <<spec, closed>> /\ arrived \in Nat
      /\ n \in Nat /\ arrived' = arrived + 1 /\ ~ closed
      /\ out' = Append(out, window) /\ out \in Seq(Seq(1..MaxEvents))
  BY DEF IInv, TypeOK, Fire
<1>2. Stride' = Stride /\ Size' = Size /\ HasChannel' = HasChannel
  BY <1>1 DEF Stride, Size, Advance, HasChannel
<1>3. /\ arrived + 1 = Offset(n) + Size
      /\ window = Run(Offset(n) + 1, arrived + 1)
      /\ window \in Seq(1..arrived + 1)
      /\ buffer' = Run(Offset(n + 1) + 1, arrived + 1)
      /\ buffer' \in Seq(1..arrived + 1) /\ Len(buffer') < Size
      /\ Offset(n + 1) <= arrived + 1 /\ arrived + 1 < Offset(n + 1) + Size
  BY FireWindow
<1>4. arrived + 1 \in 0..MaxEvents
  BY CountWindowAssumption DEF Fire, IInv, TypeOK
<1>5. window \in Seq(1..MaxEvents) /\ buffer' \in Seq(1..MaxEvents)
  <2>1. \A s : s \in Seq(1..arrived + 1) => s \in Seq(1..MaxEvents)
    BY <1>1, <1>4, CountWindowAssumption
  <2> QED BY <1>3, <2>1
<1> HIDE DEF window
<1>6. /\ out' \in Seq(Seq(1..MaxEvents)) /\ Len(out') = n + 1
      /\ out'[n + 1] = window /\ \A k \in 1..n : out'[k] = out[k]
  BY <1>1, <1>5, AppendProperties
<1>7. TypeOK'
  <2>1. spec' \in Specs /\ closed' \in BOOLEAN /\ arrived' \in 0..MaxEvents
    BY <1>1, <1>4 DEF IInv, TypeOK
  <2>2. Len(buffer') < Size'
    BY <1>2, <1>3
  <2> QED BY <1>5, <1>6, <2>1, <2>2 DEF TypeOK
<1>8. \A k \in 1..n + 1 :
        out'[k] = Run(Offset(k - 1) + 1, Offset(k - 1) + Size)
  <2>1. \A k \in 1..n : out[k] = Run(Offset(k - 1) + 1, Offset(k - 1) + Size)
    BY <1>1 DEF IInv, BufferInv
  <2>2. n + 1 - 1 = n
    BY <1>1
  <2>3. \A k \in 1..n + 1 : k \in 1..n \/ k = n + 1
    BY <1>1
  <2>4. out'[n + 1] = Run(Offset(n + 1 - 1) + 1, Offset(n + 1 - 1) + Size)
    BY <1>3, <1>6, <2>2
  <2> QED BY <1>6, <2>1, <2>3, <2>4
<1>9. BufferInv'
  BY <1>1, <1>2, <1>3, <1>6, <1>8 DEF BufferInv, Offset
<1>10. WindowsAreSlices'
  <2>1. \A k \in 1..n + 1 :
          (k - 1) * Stride + 1 + Size - 1 = Offset(k - 1) + Size
    <3>1. \A k \in 1..n + 1 : (k - 1) * Stride \in Nat
      BY <1>1, StrideFacts
    <3> QED BY <3>1, <1>1, StrideFacts DEF Offset
  <2> QED BY <1>2, <1>6, <1>8, <2>1 DEF WindowsAreSlices, Offset
<1> QED BY <1>7, <1>9, <1>10 DEF IInv

LEMMA CloseKeeps == ASSUME IInv, Close PROVE IInv'
<1> USE DEF IInv
<1> DEFINE n == Len(out)
<1>1. /\ spec \in Specs /\ UNCHANGED <<spec, buffer, arrived>> /\ arrived \in Nat
      /\ n \in Nat /\ ~ closed /\ closed'
  BY DEF TypeOK, Close
<1>2. /\ Offset(n) \in Nat /\ Offset(n + 1) = Offset(n) + Stride
      /\ Size \in Nat \ {0} /\ Stride \in Nat \ {0}
  BY <1>1, OffsetFacts, StrideFacts
<1>3. Stride' = Stride /\ Size' = Size /\ HasChannel' = HasChannel
  BY <1>1 DEF Stride, Size, Advance, HasChannel
<1>4. /\ buffer = Run(Offset(n) + 1, arrived)
      /\ \A k \in 1..n : out[k] = Run(Offset(k - 1) + 1, Offset(k - 1) + Size)
  BY <1>1 DEF BufferInv
<1>5. \A k \in Nat \ {0} : (k - 1) * Stride + 1 + Size - 1 = Offset(k - 1) + Size
  <2>1. \A k \in Nat \ {0} : (k - 1) * Stride \in Nat
    BY <1>2
  <2> QED BY <2>1, <1>2 DEF Offset
<1>6. CASE HasChannel /\ buffer # << >>
  <2>1. /\ out' = Append(out, buffer) /\ Len(out') = n + 1
        /\ out'[n + 1] = buffer /\ \A k \in 1..n : out'[k] = out[k]
    BY <1>6 DEF Close, TypeOK
  <2>2. TypeOK'
    BY <1>1, <1>3, <2>1 DEF TypeOK
  <2>3. BufferInv'
    BY <1>1, <1>2, <1>3, <2>1 DEF BufferInv, Offset
  <2>4. WindowsAreSlices'
    BY <1>1, <1>3, <1>4, <1>5, <1>6, <2>1 DEF WindowsAreSlices, Offset
  <2> QED BY <2>2, <2>3, <2>4
<1>7. CASE ~ (HasChannel /\ buffer # << >>)
  <2>1. out' = out
    BY <1>7 DEF Close
  <2>2. TypeOK'
    BY <1>1, <1>3, <2>1 DEF TypeOK
  <2>3. BufferInv'
    BY <1>1, <1>3, <2>1 DEF BufferInv, Offset
  <2>4. WindowsAreSlices'
    BY <1>1, <1>3, <1>4, <1>5, <2>1 DEF WindowsAreSlices, Offset
  <2> QED BY <2>2, <2>3, <2>4
<1> QED BY <1>6, <1>7

LEMMA Invariance == Spec => []IInv
<1>1. IInv /\ [Next]_vars => IInv'
  <2>1. IInv /\ UNCHANGED vars => IInv'
    BY DEF vars, IInv, TypeOK, BufferInv, WindowsAreSlices, Offset, Stride,
       Size, Advance, HasChannel
  <2> QED BY <2>1, CollectKeeps, FireKeeps, CloseKeeps DEF Next, Terminated
<1> QED BY InitIInv, <1>1, PTL DEF Spec

-----------------------------------------------------------------------------
\* Type correctness, and a buffer always short of a window between calls.
THEOREM TypeCorrect == Spec => []TypeOK
  BY Invariance, PTL DEF IInv

\* The windows sent are the slices of the stream a batch computation gives.
THEOREM SlicesSent == Spec => []WindowsAreSlices
  BY Invariance, PTL DEF IInv

\* A complete window is never held back.
THEOREM NoneHeldBack == Spec => []NoWindowHeldBack
<1>1. IInv => NoWindowHeldBack
  <2> SUFFICES ASSUME IInv, NEW k \in 1..MaxEvents, k > Len(out)
               PROVE  arrived < (k - 1) * Stride + Size
    BY StrideFacts DEF NoWindowHeldBack, IInv, TypeOK
  <2>1. spec \in Specs /\ Len(out) \in Nat /\ k - 1 \in Nat /\ arrived \in Nat
    BY CountWindowAssumption DEF IInv, TypeOK
  <2>2. Offset(Len(out)) \in Nat /\ Offset(k - 1) \in Nat /\ Size \in Nat
    BY <2>1, OffsetFacts, StrideFacts
  <2>3. Offset(Len(out)) <= Offset(k - 1)
    BY <2>1, OffsetFacts
  <2>4. arrived < Offset(Len(out)) + Size
    BY DEF IInv, BufferInv
  <2>5. arrived < Offset(k - 1) + Size
    BY <2>1, <2>2, <2>3, <2>4
  <2> QED BY <2>5 DEF Offset
<1> QED BY Invariance, <1>1, PTL

-----------------------------------------------------------------------------
\* A window sent adds its events to those emitted.
LEMMA EmittedGrows ==
  ASSUME NEW S, out \in Seq(Seq(S)), NEW w \in Seq(S), out' = Append(out, w)
  PROVE  Emitted' = Emitted \cup {w[i] : i \in 1..Len(w)}
<1>1. /\ Len(out') = Len(out) + 1 /\ out'[Len(out) + 1] = w
      /\ \A k \in 1..Len(out) : out'[k] = out[k]
  BY AppendProperties
<1>2. Len(out) \in Nat
  BY LenProperties
<1>3. 1..Len(out) + 1 = 1..Len(out) \cup {Len(out) + 1}
  BY <1>2
<1> DEFINE Of(q) == {q[i] : i \in 1..Len(q)}
<1>4. Emitted = UNION {Of(out[k]) : k \in 1..Len(out)}
      /\ Emitted' = UNION {Of(out'[k]) : k \in 1..Len(out')}
  BY DEF Emitted
<1>5. {Of(out'[k]) : k \in 1..Len(out) + 1}
        = {Of(out[k]) : k \in 1..Len(out)} \cup {Of(w)}
  <2>1. Of(out'[Len(out) + 1]) = Of(w) /\ \A k \in 1..Len(out) : Of(out'[k]) = Of(out[k])
    BY <1>1
  <2> HIDE DEF Of
  <2> QED BY <1>3, <2>1
<1> QED BY <1>1, <1>4, <1>5

\* An event that arrives joins those in the buffer.
LEMMA PendingGrows ==
  ASSUME NEW S, buffer \in Seq(S), NEW x \in S
  PROVE  LET w == Append(buffer, x)
         IN  w \in Seq(S) /\ {w[i] : i \in 1..Len(w)} = Pending \cup {x}
<1> DEFINE w == Append(buffer, x)
<1>1. /\ w \in Seq(S) /\ Len(w) = Len(buffer) + 1 /\ w[Len(buffer) + 1] = x
      /\ \A i \in 1..Len(buffer) : w[i] = buffer[i]
  BY AppendProperties
<1>2. 1..Len(buffer) + 1 = 1..Len(buffer) \cup {Len(buffer) + 1}
  BY LenProperties
<1> HIDE DEF w
<1>3. {w[i] : i \in 1..Len(w)} = Pending \cup {x}
  BY <1>1, <1>2 DEF Pending
<1> QED BY <1>1, <1>3 DEF w

LEMMA NextNoEventLost ==
  ASSUME TypeOK, NoEventLost, [Next]_vars
  PROVE  NoEventLost'
<1>1. /\ buffer \in Seq(1..MaxEvents) /\ out \in Seq(Seq(1..MaxEvents))
      /\ arrived \in 0..MaxEvents /\ MaxEvents \in Nat
      /\ 1..arrived = Emitted \cup Pending
  BY CountWindowAssumption DEF TypeOK, NoEventLost
<1>2. arrived < MaxEvents =>
        arrived + 1 \in 1..MaxEvents /\ 1..arrived + 1 = 1..arrived \cup {arrived + 1}
  BY <1>1
<1>3. CASE Collect
  <2>1. Pending' = Pending \cup {arrived + 1}
    <3>1. buffer' = Append(buffer, arrived + 1) /\ arrived + 1 \in 1..MaxEvents
      BY <1>2, <1>3 DEF Collect
    <3> DEFINE w == Append(buffer, arrived + 1)
    <3>2. {w[i] : i \in 1..Len(w)} = Pending \cup {arrived + 1}
      BY <1>1, <3>1, PendingGrows
    <3> QED BY <3>1, <3>2 DEF Pending
  <2>2. Emitted' = Emitted /\ arrived' = arrived + 1 /\ ~ closed'
    BY <1>3 DEF Collect, Emitted
  <2> QED BY <1>1, <1>2, <1>3, <2>1, <2>2 DEF Collect, NoEventLost
<1>4. CASE Fire
  <2> DEFINE w == Append(buffer, arrived + 1)
             Events == {w[i] : i \in 1..Len(w)}
  <2>1. w \in Seq(1..MaxEvents) /\ Events = Pending \cup {arrived + 1}
    <3>1. arrived + 1 \in 1..MaxEvents
      BY <1>2, <1>4 DEF Fire
    <3> QED BY <1>1, <3>1, PendingGrows
  <2>2. out' = Append(out, w) /\ buffer' = Slide(w) /\ arrived' = arrived + 1 /\ ~ closed'
    BY <1>4 DEF Fire
  <2> HIDE DEF w
  <2>3. Emitted' = Emitted \cup Events
    <3>1. out \in Seq(Seq(1..MaxEvents)) /\ w \in Seq(1..MaxEvents) /\ out' = Append(out, w)
      BY <1>1, <2>1, <2>2
    <3> QED BY <3>1, EmittedGrows
  <2>4. Pending' \subseteq Events
    <3>1. CASE Slide(w) = << >>
      BY <2>2, <3>1 DEF Pending
    <3>2. CASE Slide(w) # << >>
      <4>1. Slide(w) = SubSeq(w, Advance + 1, Len(w)) /\ Advance \in Nat
            /\ Advance < Len(w) /\ Len(w) \in Nat
        <5>1. Advance \in Nat /\ Len(w) \in Nat
          BY <2>1, StrideFacts, LenProperties DEF TypeOK
        <5> QED BY <3>2, <5>1 DEF Slide
      <4>2. /\ Len(SubSeq(w, Advance + 1, Len(w))) = Len(w) - Advance
            /\ \A i \in 1..Len(w) - Advance :
                 SubSeq(w, Advance + 1, Len(w))[i] = w[Advance + i]
        BY <2>1, <4>1
      <4>3. \A i \in 1..Len(w) - Advance : Advance + i \in 1..Len(w)
        BY <4>1
      <4> QED BY <2>2, <4>1, <4>2, <4>3 DEF Pending
    <3> QED BY <3>1, <3>2
  <2>5. 1..arrived + 1 = 1..arrived \cup {arrived + 1}
    BY <1>2, <1>4 DEF Fire
  <2> HIDE DEF Events
  <2> QED BY <1>1, <2>1, <2>2, <2>3, <2>4, <2>5 DEF NoEventLost
<1>5. CASE Close
  <2>1. Pending' = Pending /\ arrived' = arrived /\ HasChannel' = HasChannel
    BY <1>5 DEF Close, Pending, HasChannel
  <2>2. CASE HasChannel /\ buffer # << >>
    <3>1. Emitted' = Emitted \cup Pending
      BY <1>1, <1>5, <2>2, EmittedGrows DEF Close, Pending
    <3> QED BY <1>1, <2>1, <3>1 DEF NoEventLost
  <2>3. CASE ~ (HasChannel /\ buffer # << >>)
    <3>1. Emitted' = Emitted
      BY <1>5, <2>3 DEF Close, Emitted
    <3>2. HasChannel => Pending = {}
      BY <1>1, <2>3 DEF Pending
    <3> QED BY <1>1, <2>1, <3>1, <3>2 DEF NoEventLost
  <2> QED BY <2>2, <2>3
<1>6. CASE Terminated \/ UNCHANGED vars
  BY <1>6 DEF Terminated, vars, NoEventLost, Emitted, Pending, HasChannel
<1> QED BY <1>3, <1>4, <1>5, <1>6 DEF Next

\* No event is lost by a slide or by close().
THEOREM NothingLost == Spec => []NoEventLost
<1>1. Init => NoEventLost
  BY DEF Init, NoEventLost, Emitted, Pending
<1>2. TypeOK /\ NoEventLost /\ [Next]_vars => NoEventLost'
  BY NextNoEventLost
<1> QED BY TypeCorrect, <1>1, <1>2, PTL DEF Spec
=============================================================================
