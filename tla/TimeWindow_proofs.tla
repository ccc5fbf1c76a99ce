-------------------------- MODULE TimeWindow_proofs --------------------------
(***************************************************************************)
(* The windows a TimeWindow operator emits are exact, each is emitted once *)
(* and none is skipped, for every window length, advance, range of times   *)
(* and number of events, as long as the u64 arithmetic does not wrap.      *)
(***************************************************************************)
EXTENDS TimeWindow, EventBufferOps_proofs

\* The events received so far, as the buffer stores them.
Arrived == {[id |-> i, ts |-> received[i].ts] : i \in DOMAIN received}

\* Before the first event nothing has happened.
UntouchedBeforeFirst ==
  ~ initialized =>
    nextEnd = 0 /\ received = << >> /\ out = << >> /\ pc # "firing"

\* What holds the buffer and the history together: nothing foreign is in
\* the buffer, and every event a window still to be fired needs is.
BufferComplete ==
  /\ Ordered(buffer)
  /\ ToSet(buffer) \subseteq Arrived
  /\ \A i \in DOMAIN received :
       received[i].ts >= StartOf(nextEnd) =>
         [id |-> i, ts |-> received[i].ts] \in ToSet(buffer)

\* How far the next window can be: one Advance past the last watermark, and
\* while flushing, one Advance past the last window an event falls into.
EndBounded ==
  /\ pc \in {"idle", "firing"} => nextEnd <= MaxTs + Advance
  /\ nextEnd <= MaxTs + Size + 2 * Advance
  /\ nextEnd <= MaxTs + Advance \/ \A e \in ToSet(buffer) : e.ts >= StartOf(nextEnd)

\* Fired windows are behind the next one, which no event was late for.
HistoryBehind ==
  /\ \A i \in DOMAIN received : received[i].due <= nextEnd
  /\ \A k \in 1..Len(out) : /\ out[k].end < nextEnd
                            /\ out[k].start = StartOf(out[k].end)

\* The inductive invariant.
IInv ==
  /\ TypeOK
  /\ UntouchedBeforeFirst
  /\ BufferComplete
  /\ EndBounded
  /\ HistoryBehind
  /\ WindowsExact
  /\ WindowsInOrder

-----------------------------------------------------------------------------
LEMMA EventIsEventSet == IsEventSet(Event)
  BY WindowAssumption, StreamAssumption DEF Event, IsEventSet

LEMMA PlusNoWrap ==
  ASSUME NEW a \in Nat, NEW b \in Nat, a + b <= MaxU64
  PROVE  Plus(a, b) = a + b
<1>1. MaxU64 \in Nat /\ a + b \in 0..MaxU64
  BY WindowAssumption, StreamAssumption
<1>. QED BY <1>1 DEF Plus

LEMMA StartOfMonotone ==
  ASSUME NEW a \in Nat, NEW b \in Nat, a <= b
  PROVE  StartOf(a) \in Nat /\ StartOf(a) <= StartOf(b) /\ StartOf(a) <= a
  BY WindowAssumption, StreamAssumption DEF StartOf

LEMMA InitIInv == Init => IInv
<1>. SUFFICES ASSUME Init PROVE IInv
  OBVIOUS
<1>. USE WindowAssumption, StreamAssumption DEF Init
<1>1. TypeOK
  <2>1. buffer \in Seq(Event) /\ out \in Seq(Window)
        /\ received \in Seq([ts : 0..MaxTs, due : Time]) /\ Len(received) = 0
    OBVIOUS
  <2>2. nextEnd \in Time /\ wm \in 0..MaxTs /\ Len(received) <= MaxEvents
    BY <2>1 DEF Time
  <2>3. initialized \in BOOLEAN /\ pc \in {"idle", "firing", "flushing", "closed"}
    OBVIOUS
  <2>. HIDE DEF Init
  <2>. QED BY <2>1, <2>2, <2>3 DEF TypeOK
<1>2. BufferComplete
  BY DEF BufferComplete, Ordered, ToSet
<1>3. EndBounded
  BY DEF EndBounded
<1>4. WindowsExact /\ WindowsInOrder /\ HistoryBehind /\ UntouchedBeforeFirst
  BY DEF WindowsExact, WindowsInOrder, HistoryBehind, UntouchedBeforeFirst
<1>. QED BY <1>1, <1>2, <1>3, <1>4 DEF IInv

\* The history and the output, element by element.
LEMMA ReceivedType ==
  ASSUME TypeOK
  PROVE  /\ DOMAIN received = 1..Len(received) /\ Len(received) \in Nat
         /\ \A i \in DOMAIN received : /\ received[i].ts \in 0..MaxTs
                                       /\ received[i].ts \in Nat
                                       /\ received[i].due \in Nat
<1>. DEFINE R == [ts : 0..MaxTs, due : Time]
<1>1. received \in Seq(R)
  BY DEF TypeOK
<1>2. 0..MaxTs \subseteq Nat /\ Time \subseteq Nat
  BY WindowAssumption, StreamAssumption DEF Time
<1>3. \A r \in R : r.ts \in 0..MaxTs /\ r.ts \in Nat /\ r.due \in Nat
  BY <1>2
<1>. HIDE DEF R
<1>. QED BY <1>1, <1>3

LEMMA OutType ==
  ASSUME TypeOK
  PROVE  /\ Len(out) \in Nat
         /\ \A k \in 1..Len(out) : /\ out[k] \in Window
                                   /\ out[k].end \in Nat /\ out[k].start \in Nat
                                   /\ out[k].events \in Seq(Event)
<1>1. Len(out) \in Nat /\ \A k \in 1..Len(out) : out[k] \in Window
  BY DEF TypeOK
<1>2. Time \subseteq Nat
  BY WindowAssumption, StreamAssumption DEF Time
<1>. QED BY <1>1, <1>2 DEF Window

-----------------------------------------------------------------------------
(* The heart of the argument: the query for the window that is next to     *)
(* fire returns exactly the events that belong to it.                      *)
LEMMA NextWindowExact ==
  ASSUME IInv
  PROVE  LET events == Queried(buffer, StartOf(nextEnd), nextEnd)
         IN  events \in Seq(Event) /\ IsListing(events, Belonging(StartOf(nextEnd), nextEnd))
<1>. DEFINE start == StartOf(nextEnd)
            events == Queried(buffer, start, nextEnd)
<1>1. nextEnd \in Nat /\ start \in Nat
  <2>1. nextEnd \in Nat
    BY WindowAssumption, StreamAssumption DEF IInv, TypeOK, Time
  <2>. QED BY <2>1, StartOfMonotone
<1>2. events \in Seq(Event) /\ IsListing(events, InRange(ToSet(buffer), start, nextEnd))
  <2>1. buffer \in Seq(Event) /\ Ordered(buffer)
    BY DEF IInv, TypeOK, BufferComplete
  <2>. HIDE DEF start
  <2>. QED BY <1>1, <2>1, EventIsEventSet, QueriedIsRange
<1>3. InRange(ToSet(buffer), start, nextEnd) = Belonging(start, nextEnd)
  <2>1. ASSUME NEW e \in InRange(ToSet(buffer), start, nextEnd)
        PROVE  e \in Belonging(start, nextEnd)
    <3>1. PICK i \in DOMAIN received : e = [id |-> i, ts |-> received[i].ts]
      BY DEF IInv, BufferComplete, Arrived, InRange
    <3>2. received[i].due <= nextEnd
      BY DEF IInv, HistoryBehind
    <3>. QED BY <3>1, <3>2 DEF InRange, Belonging
  <2>2. ASSUME NEW e \in Belonging(start, nextEnd)
        PROVE  e \in InRange(ToSet(buffer), start, nextEnd)
    <3>1. PICK i \in DOMAIN received :
            /\ e = [id |-> i, ts |-> received[i].ts]
            /\ start <= received[i].ts /\ received[i].ts < nextEnd
      BY DEF Belonging
    <3>2. received[i].ts \in Nat
      BY ReceivedType DEF IInv
    <3>3. e \in ToSet(buffer)
      BY <1>1, <3>1, <3>2 DEF IInv, BufferComplete
    <3>. QED BY <3>1, <3>3 DEF InRange
  <2>. QED BY <2>1, <2>2
<1>. QED BY <1>2, <1>3

-----------------------------------------------------------------------------
(* A step that fires the next window, whatever it does to the buffer as    *)
(* long as it keeps what the following windows need.                       *)
LEMMA FiringStep ==
  ASSUME IInv, nextEnd' = nextEnd + Advance, initialized,
         Emit(StartOf(nextEnd), nextEnd), nextEnd' \in Time,
         UNCHANGED <<initialized, received>>
  PROVE  /\ out' \in Seq(Window)
         /\ HistoryBehind' /\ WindowsExact' /\ WindowsInOrder'
         /\ UntouchedBeforeFirst'
<1>. DEFINE start == StartOf(nextEnd)
            events == Queried(buffer, start, nextEnd)
            w == [start |-> start, end |-> nextEnd, events |-> events]
<1>1. /\ nextEnd \in Nat /\ nextEnd < nextEnd' /\ nextEnd' \in Nat
      /\ nextEnd \in Time /\ start \in Nat /\ start \in Time
  BY WindowAssumption, StreamAssumption, StartOfMonotone DEF IInv, TypeOK, Time
<1>2. events \in Seq(Event) /\ IsListing(events, Belonging(start, nextEnd))
  BY NextWindowExact
<1>3. out' = IF events = << >> THEN out ELSE Append(out, w)
  BY DEF Emit
<1>4. w \in Window /\ w.start = start /\ w.end = nextEnd /\ w.events = events
  BY <1>1, <1>2 DEF Window
<1>5. out \in Seq(Window)
  BY DEF IInv, TypeOK
<1>. HIDE DEF events, w, start
<1>6. CASE events = << >>
  <2>1. out' = out
    BY <1>3, <1>6
  <2>2. HistoryBehind'
    <3>1. /\ \A k \in 1..Len(out) : out[k].end \in Nat
          /\ \A i \in DOMAIN received : received[i].due \in Nat
      BY OutType, ReceivedType DEF IInv
    <3>2. \A i \in DOMAIN received : received[i].due <= nextEnd'
      BY <1>1, <3>1 DEF IInv, HistoryBehind
    <3>3. \A k \in 1..Len(out) : out[k].end < nextEnd'
      BY <1>1, <3>1 DEF IInv, HistoryBehind
    <3>. QED BY <2>1, <3>2, <3>3 DEF IInv, HistoryBehind
  <2>3. WindowsExact' /\ WindowsInOrder' /\ UntouchedBeforeFirst'
    BY <2>1 DEF IInv, WindowsExact, Belonging, WindowsInOrder, UntouchedBeforeFirst
  <2>. QED BY <1>5, <2>1, <2>2, <2>3
<1>7. CASE events # << >>
  <2>1. /\ out' \in Seq(Window) /\ Len(out') = Len(out) + 1 /\ Len(out) \in Nat
        /\ \A k \in 1..Len(out) : out'[k] = out[k]
        /\ out'[Len(out) + 1] = w
    BY <1>3, <1>4, <1>5, <1>7, AppendProperties
  <2>2. \A k \in 1..Len(out') : k \in 1..Len(out) \/ k = Len(out) + 1
    BY <2>1
  <2>3. \A k \in 1..Len(out) : out[k].end < nextEnd /\ out[k].end \in Nat
                              /\ out[k].start = StartOf(out[k].end)
    BY OutType DEF IInv, HistoryBehind
  <2>4. HistoryBehind'
    <3>1. ASSUME NEW k \in 1..Len(out')
          PROVE  out'[k].end < nextEnd' /\ out'[k].start = StartOf(out'[k].end)
      <4>1. CASE k \in 1..Len(out)
        BY <1>1, <2>1, <2>3, <4>1
      <4>2. CASE k = Len(out) + 1
        BY <1>1, <1>4, <2>1, <4>2 DEF start
      <4>. QED BY <2>2, <4>1, <4>2
    <3>2. \A i \in DOMAIN received : received[i].due <= nextEnd'
      BY <1>1, ReceivedType DEF IInv, HistoryBehind
    <3>. QED BY <3>1, <3>2 DEF HistoryBehind
  <2>5. WindowsExact'
    <3>1. ASSUME NEW k \in 1..Len(out')
          PROVE  /\ IsListing(out'[k].events, Belonging(out'[k].start, out'[k].end))
                 /\ out'[k].events # << >>
      BY <1>2, <1>4, <1>7, <2>1, <2>2 DEF IInv, WindowsExact
    <3>2. \A k \in 1..Len(out') :
            Belonging(out'[k].start, out'[k].end) = Belonging(out[k].start, out[k].end)'
      BY DEF Belonging
    <3>. QED BY <3>1, <3>2 DEF WindowsExact
  <2>6. WindowsInOrder'
    <3>1. ASSUME NEW k \in 1..Len(out'), NEW l \in 1..Len(out'), k < l
          PROVE  out'[k].end < out'[l].end
      <4>1. k \in 1..Len(out)
        BY <2>1, <3>1
      <4>2. CASE l \in 1..Len(out)
        BY <2>1, <3>1, <4>1, <4>2 DEF IInv, WindowsInOrder
      <4>3. CASE l = Len(out) + 1
        BY <1>4, <2>1, <2>3, <4>1, <4>3
      <4>. QED BY <2>2, <4>2, <4>3
    <3>. QED BY <3>1 DEF WindowsInOrder
  <2>7. UntouchedBeforeFirst'
    BY DEF UntouchedBeforeFirst
  <2>. QED BY <2>1, <2>4, <2>5, <2>6, <2>7
<1>. QED BY <1>6, <1>7

\* What every step of the proof uses of the constants and the numbers.
LEMMA Numbers ==
  ASSUME NoOverflow, IInv
  PROVE  /\ Size \in Nat /\ Advance \in Nat \ {0} /\ MaxTs \in Nat
         /\ MaxU64 \in Nat /\ MaxEvents \in Nat
         /\ MaxTs + Size + 2 * Advance <= MaxU64
         /\ nextEnd \in Nat /\ nextEnd \in Time /\ wm \in 0..MaxTs
         /\ StartOf(nextEnd) \in Nat
<1>1. /\ Size \in Nat /\ Advance \in Nat \ {0} /\ MaxTs \in Nat
      /\ MaxU64 \in Nat /\ MaxEvents \in Nat
      /\ MaxTs + Size + 2 * Advance <= MaxU64
  BY WindowAssumption, StreamAssumption DEF NoOverflow
<1>2. nextEnd \in Nat /\ nextEnd \in Time /\ wm \in 0..MaxTs
  BY <1>1 DEF IInv, TypeOK, Time
<1>3. StartOf(nextEnd) \in Nat
  BY <1>2, StartOfMonotone
<1>. QED BY <1>1, <1>2, <1>3

\* Moving the next window forward only shrinks what the buffer must hold.
LEMMA CompleteMonotone ==
  ASSUME IInv, nextEnd' \in Nat, nextEnd <= nextEnd', nextEnd \in Nat,
         UNCHANGED <<buffer, received>>
  PROVE  BufferComplete'
<1>1. StartOf(nextEnd) <= StartOf(nextEnd') /\ StartOf(nextEnd) \in Nat /\ StartOf(nextEnd') \in Nat
  BY StartOfMonotone
<1>2. \A i \in DOMAIN received : received[i].ts >= StartOf(nextEnd') =>
        received[i].ts >= StartOf(nextEnd)
  BY <1>1, ReceivedType DEF IInv
<1>. QED BY <1>2 DEF IInv, BufferComplete, Arrived, Ordered

LEMMA FireWindowStep ==
  ASSUME NoOverflow, IInv, FireWindow
  PROVE  IInv' /\ nextEnd' = nextEnd + Advance
<1>1. nextEnd <= MaxTs /\ nextEnd + Advance <= MaxU64
  BY Numbers DEF FireWindow
<1>2. nextEnd' = nextEnd + Advance
  BY <1>1, Numbers, PlusNoWrap DEF FireWindow
<1>3. nextEnd' \in Time /\ nextEnd' \in Nat
  BY <1>1, <1>2, Numbers DEF Time
<1>4. initialized /\ UNCHANGED <<buffer, initialized, pc, wm, received>>
  BY DEF FireWindow, IInv, UntouchedBeforeFirst
<1>5. /\ out' \in Seq(Window)
      /\ HistoryBehind' /\ WindowsExact' /\ WindowsInOrder' /\ UntouchedBeforeFirst'
  BY <1>2, <1>3, <1>4, FiringStep DEF FireWindow
<1>6. TypeOK'
  BY <1>3, <1>4, <1>5 DEF IInv, TypeOK
<1>7. BufferComplete'
  BY <1>2, <1>3, <1>4, Numbers, CompleteMonotone
<1>8. EndBounded'
  BY <1>1, <1>2, <1>4, Numbers DEF EndBounded
<1>. QED BY <1>2, <1>5, <1>6, <1>7, <1>8 DEF IInv

\* Cleaning up before the start of the next window takes nothing away that
\* is still needed.
LEMMA CleanupStep ==
  ASSUME IInv, nextEnd \in Nat, nextEnd' \in Nat, nextEnd <= nextEnd',
         buffer' = CleanedBefore(buffer, StartOf(nextEnd')),
         received' = received
  PROVE  /\ buffer' \in Seq(Event)
         /\ BufferComplete'
         /\ ToSet(buffer') = {e \in ToSet(buffer) : e.ts >= StartOf(nextEnd')}
<1>1. StartOf(nextEnd) <= StartOf(nextEnd') /\ StartOf(nextEnd) \in Nat /\ StartOf(nextEnd') \in Nat
  BY StartOfMonotone
<1>2. buffer \in Seq(Event) /\ Ordered(buffer)
  BY DEF IInv, TypeOK, BufferComplete
<1>. DEFINE t == StartOf(nextEnd')
<1>3. /\ buffer' \in Seq(Event) /\ Ordered(buffer')
      /\ ToSet(buffer') = {e \in ToSet(buffer) : e.ts >= t}
  <2>. HIDE DEF t
  <2>1. t \in Int
    BY <1>1 DEF t
  <2>2. /\ CleanedBefore(buffer, t) \in Seq(Event)
        /\ Ordered(CleanedBefore(buffer, t))
        /\ ToSet(CleanedBefore(buffer, t)) = {e \in ToSet(buffer) : e.ts >= t}
    BY <1>2, <2>1, EventIsEventSet, CleanedIsSuffix
  <2>. QED BY <2>2 DEF t
<1>4. ASSUME NEW i \in DOMAIN received, received[i].ts >= t
      PROVE  [id |-> i, ts |-> received[i].ts] \in ToSet(buffer')
  <2>1. received[i].ts >= StartOf(nextEnd)
    BY <1>1, <1>4, ReceivedType DEF IInv
  <2>2. [id |-> i, ts |-> received[i].ts] \in ToSet(buffer)
    BY <2>1 DEF IInv, BufferComplete
  <2>. QED BY <1>3, <1>4, <2>2
<1>5. ToSet(buffer') \subseteq Arrived'
  BY <1>3 DEF IInv, BufferComplete, Arrived
<1>. QED BY <1>3, <1>4, <1>5 DEF BufferComplete

LEMMA FinishWatermarkStep == ASSUME NoOverflow, IInv, FinishWatermark PROVE IInv'
<1>1. UNCHANGED <<nextEnd, initialized, wm, out, received>> /\ pc' = "idle" /\ pc = "firing"
  BY DEF FinishWatermark
<1>2. /\ buffer' \in Seq(Event) /\ BufferComplete'
      /\ ToSet(buffer') = {e \in ToSet(buffer) : e.ts >= StartOf(nextEnd')}
  BY <1>1, Numbers, CleanupStep DEF FinishWatermark
<1>3. TypeOK'
  BY <1>1, <1>2 DEF IInv, TypeOK
<1>4. EndBounded'
  BY <1>1, <1>2 DEF IInv, EndBounded
<1>5. UntouchedBeforeFirst' /\ HistoryBehind' /\ WindowsExact' /\ WindowsInOrder'
  BY <1>1 DEF IInv, UntouchedBeforeFirst, HistoryBehind, WindowsExact, WindowsInOrder, Belonging
<1>. QED BY <1>2, <1>3, <1>4, <1>5 DEF IInv

LEMMA FlushWindowStep ==
  ASSUME NoOverflow, IInv, FlushWindow
  PROVE  IInv' /\ nextEnd' = nextEnd + Advance
<1>1. nextEnd <= MaxTs + Advance \/ nextEnd <= MaxTs + Size
  <2>1. CASE \A e \in ToSet(buffer) : e.ts >= StartOf(nextEnd)
    <3>1. buffer \in Seq(Event) /\ buffer # << >>
      BY DEF IInv, TypeOK, FlushWindow
    <3>2. 1 \in 1..Len(buffer) /\ buffer[1] \in Event
      BY <3>1
    <3>3. buffer[1] \in ToSet(buffer)
      BY <3>1, <3>2, ToSetElements
    <3>4. buffer[1].ts \in 0..MaxTs /\ buffer[1].ts >= StartOf(nextEnd)
      BY <2>1, <3>2, <3>3 DEF Event
    <3>. QED BY <3>4, Numbers DEF StartOf
  <2>. QED BY <2>1 DEF IInv, EndBounded
<1>2. nextEnd + Advance <= MaxTs + Size + 2 * Advance /\ nextEnd + Advance <= MaxU64
  BY <1>1, Numbers
<1>3. nextEnd' = nextEnd + Advance
  BY <1>2, Numbers, PlusNoWrap DEF FlushWindow
<1>4. nextEnd' \in Time /\ nextEnd' \in Nat
  BY <1>2, <1>3, Numbers DEF Time
<1>5. initialized /\ UNCHANGED <<initialized, pc, wm, received>> /\ pc = "flushing"
  BY DEF FlushWindow
<1>6. /\ out' \in Seq(Window)
      /\ HistoryBehind' /\ WindowsExact' /\ WindowsInOrder' /\ UntouchedBeforeFirst'
  BY <1>3, <1>4, <1>5, FiringStep DEF FlushWindow
<1>7. /\ buffer' \in Seq(Event) /\ BufferComplete'
      /\ ToSet(buffer') = {e \in ToSet(buffer) : e.ts >= StartOf(nextEnd')}
  BY <1>3, <1>4, <1>5, Numbers, CleanupStep DEF FlushWindow
<1>8. TypeOK'
  BY <1>4, <1>5, <1>6, <1>7 DEF IInv, TypeOK
<1>9. EndBounded'
  BY <1>2, <1>3, <1>5, <1>7 DEF EndBounded
<1>. QED BY <1>3, <1>6, <1>7, <1>8, <1>9 DEF IInv

\* An event is added to the buffer and to the history; it is late for no
\* window still to fire, and the windows already fired do not change.
LEMMA ReceiveEventStep ==
  ASSUME NoOverflow, IInv, NEW t \in 0..MaxTs, ReceiveEvent(t)
  PROVE  IInv'
<1>. DEFINE n == Len(received) + 1
            e == NewEvent(t)
            r == [ts |-> t, due |-> nextEnd']
<1>1. /\ DOMAIN received = 1..Len(received) /\ Len(received) \in Nat
      /\ n \in 1..MaxEvents /\ t \in Nat
  <2>1. DOMAIN received = 1..Len(received) /\ Len(received) \in Nat
    BY ReceivedType DEF IInv
  <2>2. Len(received) < MaxEvents
    BY DEF ReceiveEvent
  <2>. QED BY <2>1, <2>2, Numbers
<1>2. e \in Event /\ e.id = n /\ e.ts = t /\ e = [id |-> n, ts |-> t]
  BY <1>1 DEF NewEvent, Event
<1>3. /\ nextEnd' \in Nat /\ nextEnd' \in Time /\ nextEnd <= nextEnd'
      /\ nextEnd' <= MaxTs + Advance /\ nextEnd' <= MaxTs + Size + 2 * Advance
  <2>1. CASE initialized
    BY <2>1, Numbers DEF IInv, EndBounded, ReceiveEvent
  <2>2. CASE ~ initialized
    <3>1. nextEnd = 0 /\ nextEnd' = Advance
      BY <2>2 DEF IInv, UntouchedBeforeFirst, ReceiveEvent
    <3>. QED BY <3>1, Numbers DEF Time, NoOverflow
  <2>. QED BY <2>1, <2>2 DEF IInv, TypeOK
<1>4. ~ initialized => received = << >> /\ out = << >>
  BY DEF IInv, UntouchedBeforeFirst
<1>5. initialized => nextEnd' = nextEnd
  BY DEF ReceiveEvent
<1>6. /\ r \in [ts : 0..MaxTs, due : Time]
      /\ received' = Append(received, r) /\ initialized' = TRUE
      /\ UNCHANGED <<pc, wm, out>> /\ pc = "idle"
      /\ buffer' = Inserted(buffer, e)
  BY <1>3 DEF ReceiveEvent
<1>7. buffer \in Seq(Event) /\ Ordered(buffer) /\ received \in Seq([ts : 0..MaxTs, due : Time])
  BY DEF IInv, TypeOK, BufferComplete
<1>8. \A i \in 1..Len(buffer) : buffer[i].id < e.id
  <2>1. \A i \in 1..Len(buffer) : buffer[i] \in Arrived
    BY <1>7, ToSetElements DEF IInv, BufferComplete
  <2>2. \A f \in Arrived : f.id \in 1..Len(received)
    BY <1>1 DEF Arrived
  <2>. QED BY <1>1, <1>2, <2>1, <2>2
<1>. HIDE DEF e, n, r
<1>9. /\ buffer' \in Seq(Event) /\ Ordered(buffer')
      /\ ToSet(buffer') = ToSet(buffer) \cup {e}
  <2>1. e \in Event
    BY <1>2
  <2>2. buffer \in Seq(Event) /\ Ordered(buffer)
    BY <1>7
  <2>3. /\ Inserted(buffer, e) \in Seq(Event) /\ Ordered(Inserted(buffer, e))
        /\ ToSet(Inserted(buffer, e)) = ToSet(buffer) \cup {e}
    BY <2>1, <2>2, <1>8, EventIsEventSet, InsertedProperties
  <2>. QED BY <1>6, <2>3
<1>10. /\ received' \in Seq([ts : 0..MaxTs, due : Time]) /\ Len(received') = n
       /\ DOMAIN received' = 1..n /\ 1..n = (DOMAIN received) \cup {n}
       /\ \A i \in DOMAIN received : received'[i] = received[i]
       /\ received'[n] = r /\ r.ts = t /\ r.due = nextEnd'
  <2>1. /\ received' \in Seq([ts : 0..MaxTs, due : Time]) /\ Len(received') = Len(received) + 1
        /\ \A i \in 1..Len(received) : received'[i] = received[i]
        /\ received'[Len(received) + 1] = r
    BY <1>6, <1>7, AppendProperties
  <2>2. DOMAIN received' = 1..Len(received')
    BY <2>1
  <2>3. 1..n = (1..Len(received)) \cup {n}
    BY <1>1 DEF n
  <2>. QED BY <1>1, <2>1, <2>2, <2>3 DEF n, r
<1>11. TypeOK'
  <2>1. Len(received') <= MaxEvents
    BY <1>1, <1>10
  <2>. QED BY <1>3, <1>6, <1>9, <1>10, <2>1 DEF IInv, TypeOK
<1>12. BufferComplete'
  <2>1. ToSet(buffer') \subseteq Arrived'
    <3>1. \A f \in Arrived : f \in Arrived'
      BY <1>10 DEF Arrived
    <3>2. e \in Arrived'
      BY <1>2, <1>10 DEF Arrived
    <3>. QED BY <1>9, <3>1, <3>2 DEF IInv, BufferComplete
  <2>2. ASSUME NEW i \in DOMAIN received', received'[i].ts >= StartOf(nextEnd')
        PROVE  [id |-> i, ts |-> received'[i].ts] \in ToSet(buffer')
    <3>1. CASE i = n
      BY <1>2, <1>9, <1>10, <3>1
    <3>2. CASE i \in DOMAIN received
      <4>1. initialized /\ nextEnd' = nextEnd
        BY <1>1, <1>4, <1>5, <3>2
      <4>. QED BY <1>9, <1>10, <2>2, <3>2, <4>1 DEF IInv, BufferComplete
    <3>. QED BY <1>10, <3>1, <3>2
  <2>. QED BY <1>9, <2>1, <2>2 DEF BufferComplete
<1>13. EndBounded'
  BY <1>3 DEF EndBounded
<1>14. UntouchedBeforeFirst'
  BY <1>6 DEF UntouchedBeforeFirst
<1>15. HistoryBehind'
  <2>1. ASSUME NEW i \in DOMAIN received' PROVE received'[i].due <= nextEnd'
    <3>1. CASE i = n
      BY <1>3, <1>10, <3>1
    <3>2. CASE i \in DOMAIN received
      <4>1. received[i].due <= nextEnd /\ received[i].due \in Nat /\ nextEnd \in Nat
        BY <3>2, ReceivedType, Numbers DEF IInv, HistoryBehind
      <4>. QED BY <1>3, <1>10, <3>2, <4>1
    <3>. QED BY <1>10, <3>1, <3>2
  <2>2. ASSUME NEW k \in 1..Len(out)
        PROVE  out[k].end < nextEnd' /\ out[k].start = StartOf(out[k].end)
    <3>1. /\ out[k].end < nextEnd /\ out[k].end \in Nat /\ nextEnd \in Nat
          /\ out[k].start = StartOf(out[k].end)
      BY OutType, Numbers DEF IInv, HistoryBehind
    <3>. QED BY <1>3, <3>1
  <2>. QED BY <1>6, <2>1, <2>2 DEF HistoryBehind
<1>16. WindowsExact'
  <2>1. ASSUME NEW k \in 1..Len(out)
        PROVE  Belonging(out[k].start, out[k].end)' = Belonging(out[k].start, out[k].end)
    <3>1. out[k].end \in Nat /\ out[k].end < nextEnd' /\ nextEnd' \in Nat
      BY <1>3, <1>6, <1>15, OutType DEF IInv, HistoryBehind
    <3>2. ~ (received'[n].due <= out[k].end)
      BY <1>10, <3>1
    <3>. QED BY <1>6, <1>10, <3>2 DEF Belonging
  <2>. QED BY <1>6, <2>1 DEF IInv, WindowsExact
<1>17. WindowsInOrder'
  BY <1>6 DEF IInv, WindowsInOrder
<1>. QED BY <1>11, <1>12, <1>13, <1>14, <1>15, <1>16, <1>17 DEF IInv

LEMMA ControlStep ==
  ASSUME IInv,
         \/ \E w \in 0..MaxTs : ReceiveWatermark(w)
         \/ Close \/ FinishClose \/ UNCHANGED vars
  PROVE  IInv'
<1>1. /\ UNCHANGED <<buffer, nextEnd, initialized, out, received>>
      /\ wm' \in 0..MaxTs
      /\ \/ pc' = "firing" /\ pc = "idle" /\ initialized
         \/ pc' \in {"flushing", "closed"}
         \/ pc' = pc
  BY DEF IInv, TypeOK, ReceiveWatermark, Close, FinishClose, vars
<1>2. TypeOK'
  BY <1>1 DEF IInv, TypeOK
<1>3. EndBounded' /\ UntouchedBeforeFirst'
  BY <1>1 DEF IInv, EndBounded, UntouchedBeforeFirst
<1>4. BufferComplete' /\ HistoryBehind'
  BY <1>1 DEF IInv, BufferComplete, Arrived, Ordered, HistoryBehind
<1>5. WindowsExact' /\ WindowsInOrder'
  BY <1>1 DEF IInv, WindowsExact, Belonging, WindowsInOrder
<1>. QED BY <1>2, <1>3, <1>4, <1>5 DEF IInv

LEMMA NextIInv == ASSUME NoOverflow PROVE IInv /\ [Next]_vars => IInv'
<1>. SUFFICES ASSUME IInv, [Next]_vars PROVE IInv'
  OBVIOUS
<1>1. ASSUME NEW t \in 0..MaxTs, ReceiveEvent(t) PROVE IInv'
  BY <1>1, ReceiveEventStep
<1>2. ASSUME NEW t \in 0..MaxTs, ReceiveWatermark(t) PROVE IInv'
  BY <1>2, ControlStep
<1>3. CASE Close \/ FinishClose \/ Terminated \/ UNCHANGED vars
  BY <1>3, ControlStep DEF Terminated
<1>4. CASE FireWindow
  BY <1>4, FireWindowStep
<1>5. CASE FinishWatermark
  BY <1>5, FinishWatermarkStep
<1>6. CASE FlushWindow
  BY <1>6, FlushWindowStep
<1>. QED BY <1>1, <1>2, <1>3, <1>4, <1>5, <1>6 DEF Next, Loop

-----------------------------------------------------------------------------
\* Type correctness, for every stream and every sequence of watermarks.
THEOREM TypeCorrect == ASSUME NoOverflow PROVE Spec => []TypeOK
<1>1. IInv => TypeOK
  BY DEF IInv
<1>. QED BY InitIInv, NextIInv, <1>1, PTL DEF Spec

\* Every window the operator emits, by a watermark or by close, holds
\* exactly the events in its range that had arrived.
THEOREM EmittedWindowsExact == ASSUME NoOverflow PROVE Spec => []WindowsExact
<1>1. IInv => WindowsExact
  BY DEF IInv
<1>. QED BY InitIInv, NextIInv, <1>1, PTL DEF Spec

\* No window is emitted twice or out of order.
THEOREM EmittedOnceInOrder == ASSUME NoOverflow PROVE Spec => []WindowsInOrder
<1>1. IInv => WindowsInOrder
  BY DEF IInv
<1>. QED BY InitIInv, NextIInv, <1>1, PTL DEF Spec

\* Without overflow every step of on_watermark and of close() ends the call or
\* brings it closer to its end.
THEOREM CallsProgress == ASSUME NoOverflow PROVE Spec => LoopsProgress
<1>1. ASSUME IInv, Next, pc \in {"firing", "flushing"}
      PROVE  StepProgresses \/ UNCHANGED vars
  <2>1. CASE FireWindow \/ FlushWindow
    <3>1. IInv' /\ nextEnd' = nextEnd + Advance
      <4>1. CASE FireWindow
        BY <1>1, <4>1, FireWindowStep
      <4>2. CASE FlushWindow
        BY <1>1, <4>2, FlushWindowStep
      <4>. QED BY <2>1, <4>1, <4>2
    <3>. QED BY <3>1 DEF IInv, EndBounded, StepProgresses
  <2>2. CASE FinishWatermark \/ FinishClose
    BY <2>2 DEF FinishWatermark, FinishClose, StepProgresses
  <2>3. CASE ~ Loop
    BY <1>1, <2>3 DEF Next, ReceiveEvent, ReceiveWatermark, Close, Terminated
  <2>. QED BY <2>1, <2>2, <2>3 DEF Loop
<1>2. IInv /\ [Next]_vars => [StepProgresses]_vars
  BY <1>1 DEF StepProgresses
<1>. QED BY InitIInv, NextIInv, <1>2, PTL DEF Spec, LoopsProgress

-----------------------------------------------------------------------------
(* The grid of the window ends: the multiples of Advance.                  *)
LEMMA DivMod ==
  ASSUME NEW n \in Nat \ {0}, NEW a \in Nat
  PROVE  a = n * (a \div n) + (a % n) /\ a % n \in 0..n - 1 /\ a \div n \in Nat
  OBVIOUS

LEMMA SameMultiple ==
  ASSUME NEW n \in Nat \ {0}, NEW p \in Nat, NEW q \in Nat,
         n * p <= n * q, n * q < n * p + n
  PROVE  p = q
  OBVIOUS

LEMMA NextOnGrid ==
  ASSUME NEW n \in Nat \ {0}, NEW a \in Nat, a % n = 0
  PROVE  (a + n) % n = 0
<1>. DEFINE b == a + n
            p == a \div n
            q == b \div n
            r == b % n
<1>1. b \in Nat
  OBVIOUS
<1>2. a = n * p /\ p \in Nat /\ n * (p + 1) = b
  BY DivMod
<1>3. b = n * q + r /\ r \in 0..n - 1 /\ q \in Nat
  <2>. HIDE DEF b
  <2>. QED BY <1>1, DivMod
<1>. HIDE DEF b, p, q, r
<1>4. n * q \in Nat /\ n * (p + 1) \in Nat /\ p + 1 \in Nat
  BY <1>2, <1>3
<1>5. n * q <= n * (p + 1) /\ n * (p + 1) < n * q + n
  BY <1>2, <1>3, <1>4
<1>6. q = p + 1
  BY <1>3, <1>4, <1>5, SameMultiple
<1>7. r = 0
  BY <1>2, <1>3, <1>4, <1>6
<1>. QED BY <1>7 DEF b, r

LEMMA NothingBetween ==
  ASSUME NEW n \in Nat \ {0}, NEW a \in Nat, NEW b \in Nat,
         a % n = 0, b % n = 0, a <= b, b < a + n
  PROVE  a = b
<1>. DEFINE p == a \div n
            q == b \div n
<1>1. a = n * p /\ b = n * q /\ p \in Nat /\ q \in Nat
  BY DivMod
<1>. HIDE DEF p, q
<1>2. p = q
  BY <1>1, SameMultiple
<1>. QED BY <1>1, <1>2

-----------------------------------------------------------------------------
\* The second inductive invariant, on top of the first.
EmptyWhenClosed == pc = "closed" => ~ initialized \/ buffer = << >>

OutOnGrid == \A k \in 1..Len(out) : out[k].end % Advance = 0

JInv ==
  /\ nextEnd % Advance = 0
  /\ OutOnGrid
  /\ EmptyWhenClosed
  /\ NoWindowSkipped

LEMMA EndsCoveringType ==
  ASSUME NEW t \in Nat, NEW end \in EndsCovering(t)
  PROVE  end \in Nat /\ end % Advance = 0 /\ t < end /\ end <= t + Size
  BY WindowAssumption, StreamAssumption DEF EndsCovering

\* That event i is in an emitted window that ends at end.
InWindow(i, end) ==
  \E k \in 1..Len(out) :
    out[k].end = end /\ [id |-> i, ts |-> received[i].ts] \in ToSet(out[k].events)

LEMMA InitJInv == Init => JInv
<1>1. 0 % Advance = 0
  BY WindowAssumption, StreamAssumption
<1>. QED BY <1>1 DEF Init, JInv, OutOnGrid, EmptyWhenClosed, NoWindowSkipped

\* Firing the next window serves every event that was waiting for it.
LEMMA FiringServes ==
  ASSUME NoOverflow, IInv, JInv, nextEnd' = nextEnd + Advance, received' = received,
         pc \in {"firing", "flushing"}, pc' = pc, Emit(StartOf(nextEnd), nextEnd)
  PROVE  JInv'
<1>. DEFINE events == Queried(buffer, StartOf(nextEnd), nextEnd)
            w == [start |-> StartOf(nextEnd), end |-> nextEnd, events |-> events]
<1>1. nextEnd' % Advance = 0
  BY Numbers, NextOnGrid DEF JInv
<1>2. events \in Seq(Event) /\ ToSet(events) = Belonging(StartOf(nextEnd), nextEnd)
  BY NextWindowExact DEF IsListing
<1>3. out' = IF events = << >> THEN out ELSE Append(out, w)
  BY DEF Emit
<1>4. w.end = nextEnd /\ w.events = events
  OBVIOUS
<1>5. w \in Window
  <2>1. nextEnd \in Time /\ nextEnd \in Nat
    BY Numbers DEF IInv, TypeOK, Time
  <2>2. StartOf(nextEnd) \in Time
    BY <2>1, Numbers, StartOfMonotone DEF Time
  <2>. QED BY <1>2, <2>1, <2>2 DEF Window
<1>6. Len(out) \in Nat /\ out \in Seq(Window)
  BY OutType DEF IInv, TypeOK
<1>. HIDE DEF events, w
<1>7. /\ Len(out') \in Nat /\ Len(out) <= Len(out')
      /\ \A k \in 1..Len(out) : out'[k] = out[k]
      /\ events # << >> => Len(out') = Len(out) + 1 /\ out'[Len(out) + 1] = w
  <2>1. CASE events = << >>
    BY <1>3, <1>6, <2>1
  <2>2. CASE events # << >>
    BY <1>3, <1>5, <1>6, <2>2, AppendProperties
  <2>. QED BY <2>1, <2>2
<1>8. ASSUME NEW i \in DOMAIN received, NEW end \in EndsCovering(received[i].ts),
             received[i].due <= end, end < nextEnd'
      PROVE  InWindow(i, end)'
  <2>1. /\ received[i].ts \in Nat /\ received[i].due \in Nat /\ end \in Nat
        /\ end % Advance = 0 /\ received[i].ts < end /\ end <= received[i].ts + Size
    <3>1. received[i].ts \in Nat /\ received[i].due \in Nat
      BY ReceivedType DEF IInv
    <3>. QED BY <3>1, EndsCoveringType
  <2>2. CASE end < nextEnd
    <3>1. InWindow(i, end)
      BY <1>8, <2>2 DEF JInv, NoWindowSkipped, InWindow
    <3>2. PICK k \in 1..Len(out) : /\ out[k].end = end
                                  /\ [id |-> i, ts |-> received[i].ts] \in ToSet(out[k].events)
      BY <3>1 DEF InWindow
    <3>3. k \in 1..Len(out') /\ out'[k] = out[k]
      BY <1>6, <1>7, <3>2
    <3>. QED BY <3>2, <3>3 DEF InWindow
  <2>3. CASE ~ (end < nextEnd)
    <3>1. nextEnd = end
      BY <1>8, <2>1, <2>3, Numbers, NothingBetween DEF JInv
    <3>2. StartOf(nextEnd) <= received[i].ts
      BY <2>1, <3>1, Numbers DEF StartOf
    <3>3. [id |-> i, ts |-> received[i].ts] \in Belonging(StartOf(nextEnd), nextEnd)
      BY <1>8, <2>1, <3>1, <3>2 DEF Belonging
    <3>4. [id |-> i, ts |-> received[i].ts] \in ToSet(events) /\ events # << >>
      BY <1>2, <3>3 DEF ToSet
    <3>5. Len(out) + 1 \in 1..Len(out') /\ out'[Len(out) + 1] = w
      BY <1>6, <1>7, <3>4
    <3>. QED BY <1>4, <3>1, <3>4, <3>5 DEF InWindow
  <2>. QED BY <2>2, <2>3
<1>9. NoWindowSkipped'
  BY <1>8 DEF NoWindowSkipped, InWindow, EndsCovering
<1>10. OutOnGrid'
  <2>1. CASE events = << >>
    BY <1>3, <2>1 DEF JInv, OutOnGrid
  <2>2. CASE events # << >>
    <3>1. \A k \in 1..Len(out') : k \in 1..Len(out) \/ k = Len(out) + 1
      BY <1>6, <1>7, <2>2
    <3>. QED BY <1>4, <1>7, <2>2, <3>1 DEF JInv, OutOnGrid
  <2>. QED BY <2>1, <2>2
<1>. QED BY <1>1, <1>9, <1>10 DEF JInv, EmptyWhenClosed

\* The first event starts the grid; an event is due in no window fired.
LEMMA ReceiveEventServes ==
  ASSUME NoOverflow, IInv, IInv', JInv, NEW t \in 0..MaxTs, ReceiveEvent(t)
  PROVE  JInv'
<1>1. received \in Seq([ts : 0..MaxTs, due : Time]) /\ [ts |-> t, due |-> nextEnd'] \in [ts : 0..MaxTs, due : Time]
  BY Numbers DEF IInv, TypeOK, ReceiveEvent
<1>2. /\ \A i \in DOMAIN received' : i \in DOMAIN received \/ received'[i].due = nextEnd'
      /\ \A i \in DOMAIN received : received'[i] = received[i]
      /\ pc' = "idle" /\ out' = out
  <2>1. received' = Append(received, [ts |-> t, due |-> nextEnd'])
    BY DEF ReceiveEvent
  <2>2. /\ Len(received') = Len(received) + 1 /\ Len(received) \in Nat
        /\ DOMAIN received' = 1..Len(received') /\ DOMAIN received = 1..Len(received)
        /\ \A i \in 1..Len(received) : received'[i] = received[i]
        /\ received'[Len(received) + 1] = [ts |-> t, due |-> nextEnd']
    BY <1>1, <2>1, AppendProperties
  <2>. QED BY <2>2 DEF ReceiveEvent
<1>3. \/ initialized /\ nextEnd' = nextEnd
      \/ received = << >> /\ nextEnd' = Advance
  BY DEF ReceiveEvent, IInv, UntouchedBeforeFirst
<1>4. nextEnd' % Advance = 0
  <2>1. Advance % Advance = 0
    BY WindowAssumption, StreamAssumption, DivMod, NextOnGrid
  <2>. QED BY <1>3, <2>1 DEF JInv
<1>5. ASSUME NEW i \in DOMAIN received', NEW end \in EndsCovering(received'[i].ts),
             received'[i].due <= end, end < nextEnd'
      PROVE  InWindow(i, end)'
  <2>1. i \in DOMAIN received /\ nextEnd' = nextEnd
    <3>1. received'[i].due \in Nat /\ end \in Nat /\ nextEnd' \in Nat
      <4>. DEFINE R == [ts : 0..MaxTs, due : Time]
      <4>1. received' \in Seq(R) /\ nextEnd' \in Nat
        BY WindowAssumption, StreamAssumption DEF IInv, TypeOK, Time
      <4>2. \A r \in R : r.due \in Nat /\ r.ts \in Nat
        BY WindowAssumption, StreamAssumption DEF Time
      <4>3. received'[i] \in R
        <5>. HIDE DEF R
        <5>. QED BY <4>1
      <4>4. received'[i].due \in Nat /\ received'[i].ts \in Nat
        BY <4>2, <4>3
      <4>. QED BY <4>1, <4>4, EndsCoveringType
    <3>2. received'[i].due # nextEnd'
      BY <1>5, <3>1
    <3>. QED BY <1>2, <1>3, <3>2
  <2>2. InWindow(i, end)
    BY <1>2, <1>5, <2>1 DEF JInv, NoWindowSkipped, InWindow
  <2>. QED BY <1>2, <2>1, <2>2 DEF InWindow
<1>6. NoWindowSkipped'
  BY <1>2, <1>5 DEF NoWindowSkipped, InWindow, EndsCovering
<1>. QED BY <1>2, <1>4, <1>6 DEF JInv, OutOnGrid, EmptyWhenClosed

\* close() only ends when no event needs another window.
LEMMA FinishCloseServes ==
  ASSUME NoOverflow, IInv, JInv, FinishClose PROVE JInv'
<1>1. UNCHANGED <<buffer, nextEnd, initialized, out, received>> /\ pc' = "closed"
      /\ (~ initialized \/ buffer = << >>)
  BY DEF FinishClose
<1>2. ASSUME NEW i \in DOMAIN received, NEW end \in EndsCovering(received[i].ts),
             received[i].due <= end
      PROVE  InWindow(i, end)
  <2>1. /\ received[i].ts \in Nat /\ received[i].due \in Nat /\ end \in Nat
        /\ end <= received[i].ts + Size
    <3>1. received[i].ts \in Nat /\ received[i].due \in Nat
      BY ReceivedType DEF IInv
    <3>. QED BY <3>1, EndsCoveringType
  <2>2. buffer = << >>
    BY <1>1 DEF IInv, UntouchedBeforeFirst
  <2>3. ~ (received[i].ts >= StartOf(nextEnd))
    BY <2>2 DEF IInv, BufferComplete, ToSet
  <2>4. end < nextEnd
    BY <2>1, <2>3, Numbers DEF StartOf
  <2>. QED BY <1>2, <2>4 DEF JInv, NoWindowSkipped, InWindow
<1>3. NoWindowSkipped'
  BY <1>1, <1>2 DEF NoWindowSkipped, InWindow, EndsCovering
<1>. QED BY <1>1, <1>3 DEF JInv, OutOnGrid, EmptyWhenClosed

LEMMA NextJInv ==
  ASSUME NoOverflow PROVE IInv /\ IInv' /\ JInv /\ [Next]_vars => JInv'
<1>. SUFFICES ASSUME IInv, IInv', JInv, [Next]_vars PROVE JInv'
  OBVIOUS
<1>1. ASSUME NEW t \in 0..MaxTs, ReceiveEvent(t) PROVE JInv'
  BY <1>1, ReceiveEventServes
<1>2. ASSUME NEW t \in 0..MaxTs, ReceiveWatermark(t) PROVE JInv'
  BY <1>2 DEF ReceiveWatermark, JInv, OutOnGrid, EmptyWhenClosed,
     NoWindowSkipped, EndsCovering
<1>3. CASE Close \/ FinishWatermark
  BY <1>3 DEF Close, FinishWatermark, JInv, OutOnGrid, EmptyWhenClosed,
     NoWindowSkipped, EndsCovering
<1>4. CASE FireWindow
  <2>1. nextEnd' = nextEnd + Advance
    BY <1>4, FireWindowStep
  <2>. QED BY <1>4, <2>1, FiringServes DEF FireWindow
<1>5. CASE FlushWindow
  <2>1. nextEnd' = nextEnd + Advance
    BY <1>5, FlushWindowStep
  <2>. QED BY <1>5, <2>1, FiringServes DEF FlushWindow
<1>6. CASE FinishClose
  BY <1>6, FinishCloseServes
<1>7. CASE UNCHANGED vars
  BY <1>7 DEF vars, JInv, OutOnGrid, EmptyWhenClosed,
     NoWindowSkipped, EndsCovering
<1>. QED BY <1>1, <1>2, <1>3, <1>4, <1>5, <1>6, <1>7 DEF Next, Loop, Terminated

\* Every event is emitted in every window that covers it and was not yet
\* fired when it arrived: no watermark, clean-up or flush skips a window.
THEOREM NoneSkipped == ASSUME NoOverflow PROVE Spec => []NoWindowSkipped
<1>1. JInv => NoWindowSkipped
  BY DEF JInv
<1>. QED BY InitIInv, NextIInv, InitJInv, NextJInv, <1>1, PTL DEF Spec

-----------------------------------------------------------------------------
(* The whole stream of windows, against the batch computation.             *)

\* No event arrived after one of its windows had been fired.
NoneLate ==
  \A i \in DOMAIN received :
    \A end \in EndsCovering(received[i].ts) : received[i].due <= end

\* An event in the range of a window on the grid is one the window covers.
LEMMA InRangeIsCovered ==
  ASSUME NEW t \in Nat, NEW end \in Nat, end % Advance = 0, StartOf(end) <= t, t < end
  PROVE  end \in EndsCovering(t)
<1>1. Size \in Nat /\ end <= t + Size /\ t + 1 <= end
  BY WindowAssumption DEF StartOf
<1>2. end \in t + 1..t + Size
  BY <1>1
<1>. QED BY <1>2 DEF EndsCovering

\* The emitted windows are those that cover some event.
LEMMA BatchEndsEmitted ==
  ASSUME NoOverflow, IInv, JInv, pc = "closed", NoneLate
  PROVE  BatchEnds(Times(received)) = FirstOf([k \in 1..Len(out) |-> out[k].end], Len(out))
<1>. DEFINE e == [k \in 1..Len(out) |-> out[k].end]
<1>1. DOMAIN Times(received) = DOMAIN received
      /\ \A i \in DOMAIN received : Times(received)[i] = received[i].ts
  BY DEF Times
<1>2. ASSUME NEW i \in DOMAIN received, NEW end \in EndsCovering(received[i].ts)
      PROVE  end \in FirstOf(e, Len(out))
  <2>1. received[i].due <= end
    BY DEF NoneLate
  <2>2. PICK k \in 1..Len(out) : out[k].end = end
    BY <2>1 DEF JInv, NoWindowSkipped
  <2>3. e[k] = end
    BY <2>2
  <2>. HIDE DEF e
  <2>. QED BY <2>2, <2>3 DEF FirstOf
<1>3. ASSUME NEW k \in 1..Len(out)
      PROVE  \E i \in DOMAIN received : e[k] \in EndsCovering(received[i].ts)
  <2>1. /\ out[k].end \in Nat /\ out[k].events \in Seq(Event) /\ out[k].events # << >>
        /\ ToSet(out[k].events) = Belonging(out[k].start, out[k].end)
        /\ out[k].start = StartOf(out[k].end) /\ out[k].end % Advance = 0
    BY OutType DEF IInv, HistoryBehind, WindowsExact, IsListing, JInv, OutOnGrid
  <2>2. out[k].events[1] \in Belonging(out[k].start, out[k].end)
    <3>1. 1 \in 1..Len(out[k].events)
      BY <2>1, EmptySeq, LenProperties
    <3>. QED BY <2>1, <3>1, ToSetElements
  <2>3. PICK i \in DOMAIN received :
          StartOf(out[k].end) <= received[i].ts /\ received[i].ts < out[k].end
    BY <2>1, <2>2 DEF Belonging
  <2>4. received[i].ts \in Nat
    BY ReceivedType DEF IInv
  <2>. QED BY <2>1, <2>3, <2>4, InRangeIsCovered
<1>4. ASSUME NEW x PROVE x \in FirstOf(e, Len(out)) <=> \E k \in 1..Len(out) : x = e[k]
  BY DEF FirstOf
<1>5. ASSUME NEW x
      PROVE  x \in BatchEnds(Times(received))
               <=> \E i \in DOMAIN received : x \in EndsCovering(received[i].ts)
  BY <1>1 DEF BatchEnds
<1>. HIDE DEF e
<1>6. \A x : x \in BatchEnds(Times(received)) <=> x \in FirstOf(e, Len(out))
  BY <1>2, <1>3, <1>4, <1>5
<1>. QED BY <1>6 DEF e

\* Each of them is the one the batch computation makes for that end.
LEMMA WindowIsBatch ==
  ASSUME NoOverflow, IInv, JInv, NoneLate, NEW k \in 1..Len(out)
  PROVE  out[k] = BatchWindow(Times(received), out[k].end)
<1>. DEFINE end == out[k].end
<1>1. /\ end \in Nat /\ out[k] \in Window /\ out[k].events \in Seq(Event)
      /\ IsListing(out[k].events, Belonging(StartOf(end), end))
      /\ out[k].start = StartOf(end) /\ end % Advance = 0
  BY OutType DEF IInv, HistoryBehind, WindowsExact, JInv, OutOnGrid
<1>2. Belonging(StartOf(end), end) = BatchEvents(Times(received), end)
  <2>1. ASSUME NEW i \in DOMAIN received, StartOf(end) <= received[i].ts, received[i].ts < end
        PROVE  received[i].due <= end
    <3>1. received[i].ts \in Nat
      BY ReceivedType DEF IInv
    <3>2. end \in EndsCovering(received[i].ts)
      BY <1>1, <2>1, <3>1, InRangeIsCovered
    <3>. QED BY <3>2 DEF NoneLate
  <2>. HIDE DEF end
  <2>. QED BY <2>1 DEF Belonging, BatchEvents, Times
<1>3. out[k].events = Sorted(BatchEvents(Times(received), end), Precedes)
  BY <1>1, <1>2, EventIsEventSet, SortedEvents
<1>4. out[k] = [start |-> out[k].start, end |-> out[k].end, events |-> out[k].events]
  BY <1>1 DEF Window
<1>. QED BY <1>1, <1>3, <1>4 DEF BatchWindow

\* With no late event, what has come out when the operator is closed is what
\* the batch computation gives.
LEMMA OutIsBatch ==
  ASSUME NoOverflow, IInv, JInv, pc = "closed", NoneLate
  PROVE  out = BatchOf(Times(received))
<1>. DEFINE n == Len(out)
            e == [k \in 1..n |-> out[k].end]
<1>1. n \in Nat /\ \A k \in 1..n : out[k].end \in Int
  BY OutType DEF IInv
<1>2. out = [k \in 1..n |-> out[k]]
  BY DEF IInv, TypeOK
<1>3. Ascending(FirstOf(e, n)) = e
  <2>1. /\ e = [k \in 1..n |-> e[k]] /\ \A k \in 1..n : e[k] \in Int
        /\ \A k, l \in 1..n : k < l => e[k] < e[l]
    BY <1>1 DEF IInv, WindowsInOrder
  <2>. HIDE DEF n, e
  <2>. QED BY <1>1, <2>1, AscendingUnique
<1>4. Ascending(BatchEnds(Times(received))) = e
  BY <1>3, BatchEndsEmitted
<1>5. \A k \in 1..n : out[k] = BatchWindow(Times(received), e[k])
  BY WindowIsBatch
<1>6. DOMAIN e = 1..n
  OBVIOUS
<1>. HIDE DEF n, e
<1>. QED BY <1>2, <1>4, <1>5, <1>6 DEF BatchOf

-----------------------------------------------------------------------------
(* A stream in time order and a prefix of it have the same windows up to   *)
(* the last time of the prefix.                                            *)
LEMMA BatchEndsFinite ==
  ASSUME NEW q \in Seq(0..MaxTs)
  PROVE  BatchEnds(q) \in SUBSET Int /\ IsFiniteSet(BatchEnds(q))
<1>1. MaxTs \in Nat /\ Size \in Nat /\ IsFiniteSet(0..MaxTs + Size)
  BY WindowAssumption, StreamAssumption, FS_Interval
<1>2. ASSUME NEW i \in DOMAIN q, NEW end \in EndsCovering(q[i]) PROVE end \in 0..MaxTs + Size
  <2>1. q[i] \in 0..MaxTs
    BY ElementType
  <2>2. end \in Nat /\ end <= q[i] + Size
    BY <1>1, <2>1, EndsCoveringType
  <2>. QED BY <1>1, <2>1, <2>2
<1>3. BatchEnds(q) \in SUBSET (0..MaxTs + Size)
  BY <1>2 DEF BatchEnds
<1>4. 0..MaxTs + Size \subseteq Int
  OBVIOUS
<1>. QED BY <1>1, <1>3, <1>4, FS_Subset

\* p is the first m times of q, and the times of q never fall.
PrefixInOrder(p, q, m) ==
  /\ p \in Seq(0..MaxTs) /\ q \in Seq(0..MaxTs)
  /\ m \in 1..Len(q) /\ Len(p) = m /\ \A i \in 1..m : p[i] = q[i]
  /\ \A i, j \in 1..Len(q) : i < j => q[i] <= q[j]

\* What is before the last time of the prefix is in the prefix.
LEMMA EarlyInPrefix ==
  ASSUME NEW p, NEW q, NEW m, PrefixInOrder(p, q, m), NEW i \in DOMAIN q, q[i] < q[m]
  PROVE  i \in DOMAIN p /\ p[i] = q[i]
<1>1. /\ DOMAIN p = 1..m /\ DOMAIN q = 1..Len(q) /\ Len(q) \in Nat
      /\ i \in 1..Len(q) /\ m \in 1..Len(q) /\ i \in Int /\ m \in Int
      /\ q[i] \in Int /\ q[m] \in Int
  BY StreamAssumption DEF PrefixInOrder
<1>2. ~ (m < i) /\ m # i
  BY <1>1 DEF PrefixInOrder
<1>3. i \in 1..m
  BY <1>1, <1>2
<1>. QED BY <1>1, <1>3 DEF PrefixInOrder

LEMMA PrefixSame ==
  ASSUME NEW p, NEW q, NEW m, PrefixInOrder(p, q, m), NEW end \in Int, end <= q[m]
  PROVE  /\ end \in BatchEnds(p) <=> end \in BatchEnds(q)
         /\ BatchWindow(p, end) = BatchWindow(q, end)
<1>1. /\ DOMAIN p \subseteq DOMAIN q /\ \A i \in DOMAIN p : p[i] = q[i]
      /\ \A i \in DOMAIN q : q[i] \in Nat
      /\ q[m] \in Nat
  <2>1. DOMAIN p = 1..m /\ DOMAIN q = 1..Len(q) /\ 1..m \subseteq 1..Len(q) /\ m \in 1..Len(q)
    BY DEF PrefixInOrder
  <2>2. \A i \in 1..Len(q) : q[i] \in 0..MaxTs
    BY ElementType DEF PrefixInOrder
  <2>. QED BY <2>1, <2>2, StreamAssumption DEF PrefixInOrder
<1>2. ASSUME NEW i \in DOMAIN q, q[i] < end PROVE i \in DOMAIN p
  <2>1. q[i] < q[m]
    BY <1>1, <1>2
  <2>. QED BY <2>1, EarlyInPrefix
<1>3. end \in BatchEnds(p) => end \in BatchEnds(q)
  BY <1>1 DEF BatchEnds
<1>4. end \in BatchEnds(q) => end \in BatchEnds(p)
  <2>1. ASSUME NEW i \in DOMAIN q, end \in EndsCovering(q[i])
        PROVE  i \in DOMAIN p /\ p[i] = q[i]
    <3>1. q[i] < end
      BY <1>1, <2>1, EndsCoveringType
    <3>. QED BY <1>1, <1>2, <3>1
  <2>. QED BY <2>1 DEF BatchEnds
<1>5. BatchEvents(p, end) = BatchEvents(q, end)
  BY <1>1, <1>2 DEF BatchEvents
<1>. QED BY <1>3, <1>4, <1>5 DEF BatchWindow

LEMMA BatchOfPrefix ==
  ASSUME NEW p, NEW q, NEW m, PrefixInOrder(p, q, m), NEW k
  PROVE  /\ (k \in DOMAIN BatchOf(p) /\ BatchOf(p)[k].end <= q[m])
              <=> (k \in DOMAIN BatchOf(q) /\ BatchOf(q)[k].end <= q[m])
         /\ (k \in DOMAIN BatchOf(p) /\ BatchOf(p)[k].end <= q[m])
              => BatchOf(p)[k] = BatchOf(q)[k]
<1>. DEFINE s == Ascending(BatchEnds(p))
            u == Ascending(BatchEnds(q))
<1>1. /\ BatchEnds(p) \in SUBSET Int /\ IsFiniteSet(BatchEnds(p))
      /\ BatchEnds(q) \in SUBSET Int /\ IsFiniteSet(BatchEnds(q))
  BY BatchEndsFinite DEF PrefixInOrder
<1>2. q[m] \in Int
  BY StreamAssumption DEF PrefixInOrder
<1>3. \A end \in Int : end <= q[m] => (end \in BatchEnds(p) <=> end \in BatchEnds(q))
  BY PrefixSame
<1>4. k \in DOMAIN s /\ s[k] <= q[m] => k \in DOMAIN u /\ u[k] = s[k]
  BY <1>1, <1>2, <1>3, AscendingAgree
<1>5. k \in DOMAIN u /\ u[k] <= q[m] => k \in DOMAIN s /\ s[k] = u[k]
  BY <1>1, <1>2, <1>3, AscendingAgree
<1>6. (\A j \in DOMAIN s : s[j] \in Int) /\ (\A j \in DOMAIN u : u[j] \in Int)
  BY <1>1, AscendingRanks
<1>7. /\ DOMAIN BatchOf(p) = DOMAIN s /\ DOMAIN BatchOf(q) = DOMAIN u
      /\ \A j \in DOMAIN s : BatchOf(p)[j] = BatchWindow(p, s[j]) /\ BatchOf(p)[j].end = s[j]
      /\ \A j \in DOMAIN u : BatchOf(q)[j] = BatchWindow(q, u[j]) /\ BatchOf(q)[j].end = u[j]
  <2>. HIDE DEF s, u
  <2>1. \A times, end : BatchWindow(times, end).end = end
    BY DEF BatchWindow
  <2>. QED BY <2>1 DEF BatchOf, s, u
<1>. HIDE DEF s, u
<1>8. ASSUME k \in DOMAIN s, k \in DOMAIN u, s[k] = u[k], s[k] <= q[m]
      PROVE  BatchOf(p)[k] = BatchOf(q)[k]
  BY <1>6, <1>7, <1>8, PrefixSame
<1>. QED BY <1>4, <1>5, <1>7, <1>8
=============================================================================
