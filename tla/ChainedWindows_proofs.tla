------------------------ MODULE ChainedWindows_proofs ------------------------
(***************************************************************************)
(* From the source to two chained windows, in three parts, each resting on *)
(* the ones before it and on what TimeWindow_proofs shows of one window.   *)
(*                                                                         *)
(* 1. The source: its watermarks increase, trail the latest event by       *)
(*    exactly the allowed lateness and leave no event out.                 *)
(* 2. The pipeline Source -> Filter -> TimeWindow -> Sink: each of its     *)
(*    steps is a step of the source or none, and a step of the window or   *)
(*    none.  So what is proved of the two holds in it, and together they   *)
(*    give what neither promises alone: an event late by no more than the  *)
(*    allowed lateness is in all its windows, and without later ones the   *)
(*    output is that of a batch computation.                               *)
(* 3. Two pipelines joined by a channel: the second window is a TimeWindow *)
(*    of its own, so what is proved of one holds of it, with its own       *)
(*    constants and variables.                                             *)
(***************************************************************************)
EXTENDS ChainedWindows, TimeWindow_proofs

-----------------------------------------------------------------------------
(* 1. The source                                                           *)

\* max_ts_ is the latest time taken, and the one some event has.
MaxInv ==
  /\ \A i \in 1..Len(taken) : taken[i] <= maxTs
  /\ Len(taken) > 0 => \E i \in 1..Len(taken) : taken[i] = maxTs
  /\ Len(taken) = 0 => maxTs = 0

\* The members speak of the last watermark sent, which was computed from
\* events already sent.
LastMarkInv ==
  /\ \A k \in 1..Len(marks) : marks[k].after <= Len(taken)
  /\ \A k \in 1..Len(marks) : wmEmitted /\ marks[k].ts <= lastWm
  /\ lastWm # 0 => wmEmitted /\ lastWm + Lateness <= maxTs

\* events_since_watermark_ counts the events not yet reflected; within
\* execute() one more has been sent.
Uncounted == IF srcPc = "forwarded" THEN since + 1 ELSE since

SinceInv ==
  /\ since = 0 \/ since < Interval
  /\ Uncounted <= Len(taken)
  /\ srcPc # "closed" => \A i \in 1..Len(taken) - Uncounted : Reflected(i)
  /\ srcPc = "closed" => \A i \in 1..Len(taken) : Reflected(i)

\* The inductive invariant.
SrcInv ==
  /\ SrcTypeOK
  /\ MaxInv
  /\ LastMarkInv
  /\ SinceInv
  /\ WatermarksIncrease
  /\ WatermarkTrails

-----------------------------------------------------------------------------
\* What the histories hold.
LEMMA MarkTypes ==
  ASSUME SrcTypeOK
  PROVE  /\ \A k \in 1..Len(marks) : marks[k].ts \in Nat /\ marks[k].after \in Nat
         /\ \A i \in 1..Len(taken) : taken[i] \in Nat
<1>1. \A k \in 1..Len(marks) : marks[k] \in [ts : 0..MaxTs, after : 0..MaxEvents]
  BY ElementOfSeq DEF SrcTypeOK
<1>2. \A i \in 1..Len(taken) : taken[i] \in 0..MaxTs
  BY ElementOfSeq DEF SrcTypeOK
<1> QED BY <1>1, <1>2

LEMMA OneMore ==
  ASSUME NEW m \in Nat
  PROVE  /\ \A k \in 1..m + 1 : k \in 1..m \/ k = m + 1
         /\ \A k \in 1..m : k \in 1..m + 1 /\ k # m + 1
         /\ \A k, l \in 1..m + 1 : k < l => k \in 1..m
  OBVIOUS

LEMMA SrcInitInv == SrcInit => SrcInv
<1> SUFFICES ASSUME SrcInit PROVE SrcInv
  OBVIOUS
<1>1. Len(taken) = 0 /\ Len(marks) = 0 /\ since = 0 /\ Uncounted = 0
  BY DEF SrcInit, Uncounted
<1>2. SrcTypeOK
  <2>1. /\ taken \in Seq(0..MaxTs)
        /\ marks \in Seq([ts : 0..MaxTs, after : 0..MaxEvents])
    BY EmptySeq DEF SrcInit
  <2>2. done \in BOOLEAN /\ wmEmitted \in BOOLEAN
    BY DEF SrcInit
  <2>3. /\ maxTs \in 0..MaxTs /\ lastWm \in 0..MaxTs
        /\ since \in 0..MaxEvents /\ Len(taken) <= MaxEvents
    BY <1>1, StreamAssumption DEF SrcInit
  <2>4. srcPc \in {"ready", "forwarded", "closed"}
    BY DEF SrcInit
  <2> QED BY <2>1, <2>2, <2>3, <2>4 DEF SrcTypeOK
<1>3. MaxInv /\ LastMarkInv /\ WatermarksIncrease /\ WatermarkTrails
  BY <1>1 DEF SrcInit, MaxInv, LastMarkInv, WatermarksIncrease, WatermarkTrails
<1>4. SinceInv
  BY <1>1 DEF SrcInit, SinceInv
<1> QED BY <1>2, <1>3, <1>4 DEF SrcInv

\* An event is sent: what was said of the earlier ones stays.
LEMMA TakeEventKeeps ==
  ASSUME SrcInv, NEW t \in 0..MaxTs, TakeEvent(t)
  PROVE  SrcInv'
<1> DEFINE n == Len(taken)
<1>1. /\ taken \in Seq(0..MaxTs) /\ n \in Nat /\ n < MaxEvents /\ maxTs \in 0..MaxTs
      /\ t \in Nat /\ MaxTs \in Nat /\ MaxEvents \in Nat /\ Lateness \in Nat
      /\ since \in Nat /\ lastWm \in 0..MaxTs /\ Interval \in Nat
      /\ marks \in Seq([ts : 0..MaxTs, after : 0..MaxEvents])
  BY SourceAssumption, StreamAssumption DEF SrcInv, SrcTypeOK, TakeEvent
<1>2. /\ taken' \in Seq(0..MaxTs) /\ Len(taken') = n + 1 /\ taken'[n + 1] = t
      /\ \A i \in 1..n : taken'[i] = taken[i]
  BY <1>1, AppendProperties DEF TakeEvent
<1>3. /\ UNCHANGED <<done, since, lastWm, wmEmitted, marks>>
      /\ srcPc = "ready" /\ srcPc' = "forwarded"
      /\ maxTs' = IF maxTs < t THEN t ELSE maxTs
  BY DEF TakeEvent
<1>4. SrcTypeOK'
  BY <1>1, <1>2, <1>3 DEF SrcInv, SrcTypeOK
<1>5. MaxInv'
  <2>1. \A i \in 1..n + 1 : i \in 1..n \/ i = n + 1
    BY <1>1, OneMore
  <2>2. \A i \in 1..n : taken[i] <= maxTs /\ taken[i] \in Nat
    BY <1>1 DEF SrcInv, MaxInv
  <2>3. \A i \in 1..n + 1 : taken'[i] <= maxTs'
    <3>1. \A i \in 1..n : taken'[i] <= maxTs'
      <4> SUFFICES ASSUME NEW i \in 1..n PROVE taken'[i] <= maxTs'
        OBVIOUS
      <4>1. taken'[i] = taken[i] /\ taken[i] <= maxTs /\ taken[i] \in Nat
        BY <1>2, <2>2
      <4>2. maxTs <= maxTs' /\ maxTs \in Nat /\ maxTs' \in Nat
        BY <1>1, <1>3
      <4> QED BY <4>1, <4>2
    <3>2. taken'[n + 1] <= maxTs'
      BY <1>1, <1>2, <1>3
    <3> QED BY <2>1, <3>1, <3>2
  <2>4. \E i \in 1..n + 1 : taken'[i] = maxTs'
    <3>1. CASE maxTs < t
      <4>1. taken'[n + 1] = maxTs' /\ n + 1 \in 1..n + 1
        BY <3>1, <1>1, <1>2, <1>3
      <4> QED BY <4>1
    <3>2. CASE ~ maxTs < t /\ n > 0
      <4>1. PICK i \in 1..n : taken[i] = maxTs
        BY <3>2 DEF SrcInv, MaxInv
      <4>2. taken'[i] = maxTs' /\ i \in 1..n + 1
        BY <3>2, <4>1, <1>1, <1>2, <1>3
      <4> QED BY <4>2
    <3>3. CASE ~ maxTs < t /\ n = 0
      <4>1. t = maxTs
        \* max_ts_ is zero before the first event
        BY <3>3, <1>1 DEF SrcInv, MaxInv
      <4>2. taken'[n + 1] = maxTs' /\ n + 1 \in 1..n + 1
        BY <4>1, <1>1, <1>2, <1>3
      <4> QED BY <4>2
    <3> QED
      <4>1. n > 0 \/ n = 0
        BY <1>1
      <4> QED BY <3>1, <3>2, <3>3, <4>1
  <2> QED BY <1>2, <2>3, <2>4 DEF MaxInv
<1>6. LastMarkInv'
  <2>1. \A k \in 1..Len(marks) : marks[k].after <= n + 1
    <3>1. \A k \in 1..Len(marks) : marks[k].after \in Nat /\ marks[k].after <= n
      BY MarkTypes DEF SrcInv, LastMarkInv
    <3>2. \A a \in Nat : a <= n => a <= n + 1
      BY <1>1
    <3> QED BY <3>1, <3>2
  <2>2. lastWm # 0 => wmEmitted /\ lastWm + Lateness <= maxTs'
    <3>1. maxTs <= maxTs' /\ maxTs \in Nat /\ maxTs' \in Nat /\ lastWm \in Nat
      BY <1>1, <1>3
    <3>2. lastWm # 0 => wmEmitted /\ lastWm + Lateness <= maxTs
      BY DEF SrcInv, LastMarkInv
    <3> QED BY <3>1, <3>2, SourceAssumption
  <2> QED BY <1>2, <1>3, <2>1, <2>2 DEF SrcInv, LastMarkInv
<1>7. SinceInv'
  <2>1. Uncounted' = since + 1 /\ Uncounted = since
    BY <1>3 DEF Uncounted
  <2>2. /\ since = 0 \/ since < Interval
        /\ since <= n /\ \A i \in 1..n - since : Reflected(i)
    BY <1>3, <2>1 DEF SrcInv, SinceInv
  <2>3. \A i \in 1..n + 1 - (since + 1) : i \in 1..n - since /\ i \in 1..n
    BY <1>1
  <2>4. \A i \in 1..n + 1 - (since + 1) : Reflected(i)'
    BY <1>2, <1>3, <2>2, <2>3 DEF Reflected
  <2> QED BY <1>1, <1>2, <1>3, <2>1, <2>2, <2>4 DEF SinceInv
<1>8. WatermarksIncrease'
  BY <1>3 DEF SrcInv, WatermarksIncrease
<1>9. WatermarkTrails'
  <2>1. \A k \in 1..Len(marks) : \A i \in 1..marks[k].after : i \in 1..n
    BY <1>1, MarkTypes DEF SrcInv, LastMarkInv
  <2> QED BY <1>2, <1>3, <2>1 DEF SrcInv, WatermarkTrails
<1> QED BY <1>4, <1>5, <1>6, <1>7, <1>8, <1>9 DEF SrcInv

\* emit_watermark() after at least one event: afterwards every event sent is
\* reflected, whether or not a watermark was due.
LEMMA EmitKeeps ==
  ASSUME SrcInv, EmitWatermark, Len(taken) > 0, UNCHANGED <<maxTs, taken>>
  PROVE  /\ wmEmitted' \in BOOLEAN /\ lastWm' \in 0..MaxTs
         /\ marks' \in Seq([ts : 0..MaxTs, after : 0..MaxEvents])
         /\ LastMarkInv' /\ WatermarksIncrease' /\ WatermarkTrails'
         /\ \A i \in 1..Len(taken) : Reflected(i)'
<1> DEFINE n == Len(taken)
           m == Len(marks)
           mark == [ts |-> maxTs - Lateness, after |-> n]
<1>1. /\ taken \in Seq(0..MaxTs) /\ n \in 1..MaxEvents /\ maxTs \in 0..MaxTs
      /\ MaxTs \in Nat /\ MaxEvents \in Nat /\ Lateness \in Nat
      /\ lastWm \in 0..MaxTs /\ wmEmitted \in BOOLEAN /\ m \in Nat
      /\ marks \in Seq([ts : 0..MaxTs, after : 0..MaxEvents])
  BY SourceAssumption, StreamAssumption DEF SrcInv, SrcTypeOK
<1>2. \A i \in 1..n : taken[i] \in Nat /\ taken[i] <= maxTs
  BY <1>1 DEF SrcInv, MaxInv
<1>3. CASE EmitsWatermark /\ Send
  <2>1. /\ lastWm' = maxTs - Lateness /\ wmEmitted' = TRUE
        /\ marks' = Append(marks, mark) /\ maxTs >= Lateness
    BY <1>3 DEF Send, EmitsWatermark
  <2>2. mark \in [ts : 0..MaxTs, after : 0..MaxEvents]
    BY <1>1, <2>1
  <2>3. /\ marks' \in Seq([ts : 0..MaxTs, after : 0..MaxEvents])
        /\ Len(marks') = m + 1 /\ marks'[m + 1] = mark
        /\ \A k \in 1..m : marks'[k] = marks[k]
    BY <1>1, <2>1, <2>2, AppendProperties
  <2>4. \A k \in 1..m + 1 : k \in 1..m \/ k = m + 1
    <3> HIDE DEF m
    <3> QED BY <1>1, OneMore
  <2>5. \A k \in 1..m : marks[k].ts \in Nat /\ marks[k].ts <= lastWm
                        /\ lastWm < maxTs - Lateness
    <3> SUFFICES ASSUME NEW k \in 1..m
                 PROVE  marks[k].ts \in Nat /\ marks[k].ts <= lastWm
                        /\ lastWm < maxTs - Lateness
      OBVIOUS
    <3>1. wmEmitted /\ marks[k].ts <= lastWm
      BY DEF SrcInv, LastMarkInv
    <3>2. marks[k].ts \in Nat
      BY MarkTypes DEF SrcInv
    <3> QED BY <1>1, <1>3, <3>1, <3>2 DEF EmitsWatermark
  <2> DEFINE w == maxTs - Lateness
  <2>6. mark.ts = w /\ mark.after = n /\ w \in 0..MaxTs
    BY <1>1, <2>1
  <2> HIDE DEF mark
  <2>7. LastMarkInv'
    <3>1. \A k \in 1..m + 1 : marks'[k].after <= n
      <4>1. \A k \in 1..m : marks'[k].after <= n
        BY <2>3 DEF SrcInv, LastMarkInv
      <4>2. marks'[m + 1].after <= n
        BY <1>1, <2>3, <2>6
      <4> QED BY <2>4, <4>1, <4>2
    <3>2. \A k \in 1..m + 1 : marks'[k].ts <= lastWm'
      <4>1. \A k \in 1..m : marks'[k].ts <= w
        <5>1. \A k \in 1..m : marks'[k].ts = marks[k].ts
          BY <2>3
        <5>2. \A a \in Nat : a <= lastWm /\ lastWm < w => a <= w
          BY <1>1, <2>6
        <5> QED BY <2>5, <5>1, <5>2
      <4>2. marks'[m + 1].ts = w /\ lastWm' = w
        BY <2>1, <2>3, <2>6
      <4>3. w <= w
        BY <2>6
      <4> QED BY <2>4, <4>1, <4>2, <4>3
    <3>3. wmEmitted' /\ lastWm' + Lateness <= maxTs
      BY <1>1, <2>1
    <3> QED BY <2>1, <2>3, <3>1, <3>2, <3>3 DEF LastMarkInv
  <2>8. WatermarksIncrease'
    <3> SUFFICES ASSUME NEW k \in 1..m + 1, NEW l \in 1..m + 1, k < l
                 PROVE  marks'[k].ts < marks'[l].ts
      BY <2>3 DEF WatermarksIncrease
    <3>1. k \in 1..m
      <4> HIDE DEF m
      <4> QED BY <1>1, OneMore
    <3>2. CASE l \in 1..m
      BY <3>1, <3>2, <2>3 DEF SrcInv, WatermarksIncrease
    <3>3. CASE l = m + 1
      <4>1. marks'[k].ts = marks[k].ts /\ marks'[l].ts = w
        BY <3>1, <3>3, <2>3, <2>6
      <4>2. marks[k].ts \in Nat /\ marks[k].ts <= lastWm /\ lastWm < w
        BY <3>1, <2>5
      <4>3. lastWm \in Nat /\ w \in Nat
        BY <1>1, <2>6
      <4> HIDE DEF w
      <4> QED BY <4>1, <4>2, <4>3
    <3> QED BY <2>4, <3>2, <3>3
  <2>9. WatermarkTrails'
    <3> SUFFICES ASSUME NEW k \in 1..m + 1
                 PROVE  /\ \A i \in 1..marks'[k].after : taken[i] <= marks'[k].ts + Lateness
                        /\ \E i \in 1..marks'[k].after : taken[i] = marks'[k].ts + Lateness
      BY <2>3 DEF WatermarkTrails
    <3>1. CASE k \in 1..m
      BY <3>1, <2>3 DEF SrcInv, WatermarkTrails
    <3>2. CASE k = m + 1
      <4>1. marks'[k].after = n /\ marks'[k].ts + Lateness = maxTs
        BY <1>1, <3>2, <2>3, <2>6
      <4> QED BY <4>1, <1>1, <1>2 DEF SrcInv, MaxInv
    <3> QED BY <2>4, <3>1, <3>2
  <2>10. \A i \in 1..n : Reflected(i)'
    BY <1>1, <1>2, <2>1 DEF Reflected
  <2> QED BY <2>1, <2>3, <2>6, <2>7, <2>8, <2>9, <2>10
<1>4. CASE ~ EmitsWatermark /\ UNCHANGED <<lastWm, wmEmitted, marks>>
  <2>1. LastMarkInv' /\ WatermarksIncrease' /\ WatermarkTrails'
    BY <1>4 DEF SrcInv, LastMarkInv, WatermarksIncrease, WatermarkTrails
  <2>2. \A i \in 1..n : Reflected(i)'
    BY <1>1, <1>2, <1>4 DEF EmitsWatermark, Reflected
  <2> QED BY <1>1, <1>4, <2>1, <2>2
<1> QED BY <1>3, <1>4 DEF EmitWatermark

LEMMA CountEventKeeps == ASSUME SrcInv, CountEvent PROVE SrcInv'
<1>1. /\ UNCHANGED <<done, maxTs, lastWm, wmEmitted, taken, marks>>
      /\ since' = since + 1 /\ srcPc = "forwarded" /\ srcPc' = "ready"
      /\ since + 1 < Interval
      /\ since \in Nat /\ Len(taken) \in Nat /\ Len(taken) <= MaxEvents
      /\ Interval \in Nat /\ MaxEvents \in Nat
  BY SourceAssumption, StreamAssumption
     DEF SrcInv, SrcTypeOK, CountEvent, IntervalReached
<1>2. Uncounted' = since + 1 /\ Uncounted = since + 1
  BY <1>1 DEF Uncounted
<1>3. SinceInv'
  BY <1>1, <1>2 DEF SrcInv, SinceInv, Reflected
<1>4. SrcTypeOK'
  BY <1>1, <1>2 DEF SrcInv, SinceInv, SrcTypeOK
<1> QED
  BY <1>1, <1>3, <1>4
     DEF SrcInv, MaxInv, LastMarkInv, WatermarksIncrease, WatermarkTrails

LEMMA EndIntervalKeeps == ASSUME SrcInv, EndInterval PROVE SrcInv'
<1>1. /\ UNCHANGED <<done, maxTs, taken>> /\ EmitWatermark
      /\ since' = 0 /\ srcPc = "forwarded" /\ srcPc' = "ready"
      /\ since \in Nat /\ Len(taken) \in Nat /\ Interval \in Nat /\ MaxEvents \in Nat
  BY SourceAssumption, StreamAssumption DEF SrcInv, SrcTypeOK, EndInterval
<1>2. Len(taken) > 0
  BY <1>1 DEF SrcInv, SinceInv, Uncounted
<1>3. /\ wmEmitted' \in BOOLEAN /\ lastWm' \in 0..MaxTs
      /\ marks' \in Seq([ts : 0..MaxTs, after : 0..MaxEvents])
      /\ LastMarkInv' /\ WatermarksIncrease' /\ WatermarkTrails'
      /\ \A i \in 1..Len(taken) : Reflected(i)'
  BY <1>1, <1>2, EmitKeeps
<1>4. SrcTypeOK' /\ MaxInv'
  BY <1>1, <1>3 DEF SrcInv, SrcTypeOK, MaxInv
<1>5. SinceInv'
  <2>1. Uncounted' = 0
    BY <1>1 DEF Uncounted
  <2> QED BY <1>1, <1>3, <2>1 DEF SinceInv
<1> QED BY <1>3, <1>4, <1>5 DEF SrcInv

LEMMA CloseSourceKeeps == ASSUME SrcInv, CloseSource PROVE SrcInv'
<1>1. /\ UNCHANGED <<done, maxTs, taken, since>>
      /\ srcPc = "ready" /\ srcPc' = "closed"
      /\ since \in Nat /\ Len(taken) \in Nat
  BY DEF SrcInv, SrcTypeOK, CloseSource
<1>2. Uncounted = since /\ Uncounted' = since
  BY <1>1 DEF Uncounted
<1>3. CASE since > 0
  <2>1. EmitWatermark /\ Len(taken) > 0
    BY <1>1, <1>2, <1>3 DEF CloseSource, SrcInv, SinceInv
  <2>2. /\ wmEmitted' \in BOOLEAN /\ lastWm' \in 0..MaxTs
        /\ marks' \in Seq([ts : 0..MaxTs, after : 0..MaxEvents])
        /\ LastMarkInv' /\ WatermarksIncrease' /\ WatermarkTrails'
        /\ \A i \in 1..Len(taken) : Reflected(i)'
    BY <1>1, <2>1, EmitKeeps
  <2>3. SrcTypeOK' /\ MaxInv' /\ SinceInv'
    BY <1>1, <1>2, <2>2 DEF SrcInv, SrcTypeOK, MaxInv, SinceInv
  <2> QED BY <2>2, <2>3 DEF SrcInv
<1>4. CASE since = 0
  <2>1. UNCHANGED <<lastWm, wmEmitted, marks>>
    BY <1>4 DEF CloseSource
  <2>2. \A i \in 1..Len(taken) : Reflected(i)
    BY <1>1, <1>2, <1>4 DEF SrcInv, SinceInv
  <2>3. SinceInv'
    BY <1>1, <1>2, <2>1, <2>2 DEF SrcInv, SinceInv, Reflected
  <2>4. SrcTypeOK'
    BY <1>1, <2>1 DEF SrcInv, SrcTypeOK
  <2> QED
    BY <1>1, <2>1, <2>3, <2>4
       DEF SrcInv, MaxInv, LastMarkInv, WatermarksIncrease, WatermarkTrails
<1> QED BY <1>1, <1>3, <1>4

LEMMA SrcNextInv == SrcInv /\ [SrcNext]_srcVars => SrcInv'
<1> SUFFICES ASSUME SrcInv, [SrcNext]_srcVars PROVE SrcInv'
  OBVIOUS
<1>1. CASE EndOfStream
  BY <1>1
     DEF EndOfStream, SrcInv, SrcTypeOK, MaxInv, LastMarkInv, SinceInv,
         Uncounted, Reflected, WatermarksIncrease, WatermarkTrails
<1>2. CASE UNCHANGED srcVars
  BY <1>2
     DEF srcVars, SrcInv, SrcTypeOK, MaxInv, LastMarkInv, SinceInv,
         Uncounted, Reflected, WatermarksIncrease, WatermarkTrails
<1> QED
  BY <1>1, <1>2, TakeEventKeeps, CountEventKeeps, EndIntervalKeeps,
     CloseSourceKeeps DEF SrcNext, SrcTerminated

LEMMA SrcInvariance == SrcSpec => []SrcInv
  BY SrcInitInv, SrcNextInv, PTL DEF SrcSpec

-----------------------------------------------------------------------------
\* Type correctness: no watermark is computed below zero.
THEOREM SourceTypeCorrect == SrcSpec => []SrcTypeOK
  BY SrcInvariance, PTL DEF SrcInv

\* The watermarks emit_watermark() sends strictly increase.
THEOREM MarksIncrease == SrcSpec => []WatermarksIncrease
  BY SrcInvariance, PTL DEF SrcInv

\* Each trails the latest event sent before it by exactly allowed_lateness_.
THEOREM MarksTrail == SrcSpec => []WatermarkTrails
  BY SrcInvariance, PTL DEF SrcInv

\* No event is left out of the watermarks for longer than an interval, and
\* none at all after close().
THEOREM MarksFresh == SrcSpec => []WatermarkFresh
<1>1. SrcInv => WatermarkFresh
  BY DEF SrcInv, SinceInv, Uncounted, WatermarkFresh
<1> QED BY SrcInvariance, <1>1, PTL

-----------------------------------------------------------------------------
(* 2. One pipeline                                                         *)

\* What the window operator was told: no watermark above the last one sent,
\* and the next window is at most one Advance above that.
EndTrails ==
  /\ wm <= lastWm
  /\ pc \in {"idle", "firing"} => nextEnd <= wm + Advance

\* The histories of the window and of the source keep step.
HistoriesMatch ==
  /\ onTime \in Seq(BOOLEAN) /\ Len(onTime) = Len(received)
  /\ Len(received) <= Len(taken)

\* An event that was on time came before any of its windows had been fired.
OnTimeDue ==
  \A i \in DOMAIN received : onTime[i] =>
    \A end \in EndsCovering(received[i].ts) : received[i].due <= end

\* The inductive invariant, on top of those of the two operators.
PInv ==
  /\ counted \in BOOLEAN /\ phase \in {"loop", "closeSource", "closeWindow", "done"}
  /\ HistoriesMatch
  /\ EndTrails
  /\ OnTimeDue

-----------------------------------------------------------------------------
\* Every step of the pipeline is a step of its source, or none.
LEMMA SourceStep == [PipelineNext]_allVars => [SrcNext]_srcVars
  BY DEF PipelineNext, allVars, RunEvent, RunWatermark, RunEnd, RunStopped, Closing,
     WalkCloseSource, WalkCloseWindow, RunWindow, RunDone, SrcNext, srcVars

\* A watermark passed on is one the source has just sent.
LEMMA PassedOn ==
  ASSUME SrcInv, SrcInv', PassWatermark, CountEvent \/ EndInterval \/ CloseSource
  PROVE  /\ \/ initialized /\ ReceiveWatermark(lastWm')
            \/ UNCHANGED vars
         /\ lastWm <= lastWm' /\ lastWm' \in 0..MaxTs
<1>1. lastWm' \in 0..MaxTs /\ lastWm \in 0..MaxTs /\ MaxTs \in Nat
  BY StreamAssumption DEF SrcInv, SrcTypeOK
<1>2. EmitWatermark \/ UNCHANGED <<lastWm, wmEmitted, marks>>
  BY DEF CountEvent, EndInterval, CloseSource
<1>3. CASE EmitsWatermark /\ Send
  <2>1. lastWm' = maxTs - Lateness /\ (~ wmEmitted \/ maxTs - Lateness > lastWm)
    BY <1>3 DEF EmitsWatermark, Send
  <2>2. ~ wmEmitted => lastWm = 0
    BY DEF SrcInv, LastMarkInv
  <2> QED BY <1>1, <2>1, <2>2 DEF PassWatermark
<1>4. CASE UNCHANGED <<lastWm, wmEmitted, marks>>
  BY <1>1, <1>4 DEF PassWatermark
<1> QED BY <1>2, <1>3, <1>4 DEF EmitWatermark

\* Every step of the pipeline is a step of its window operator, or none.
LEMMA WindowStep ==
  ASSUME SrcInv, SrcInv', [PipelineNext]_allVars
  PROVE  [Next]_vars
<1>1. CASE RunWatermark \/ WalkCloseSource
  <2>1. lastWm' \in 0..MaxTs /\ (ReceiveWatermark(lastWm') \/ UNCHANGED vars)
    BY <1>1, PassedOn DEF RunWatermark, WalkCloseSource
  <2> QED BY <2>1 DEF Next
<1>2. ASSUME NEW t \in 0..MaxTs, RunEvent(t) PROVE [Next]_vars
  BY <1>2 DEF RunEvent, Forward, Drop, Next
<1>3. CASE RunEnd \/ RunStopped \/ RunDone \/ UNCHANGED allVars
  BY <1>3 DEF RunEnd, RunStopped, RunDone, allVars
<1>4. CASE WalkCloseWindow \/ RunWindow
  BY <1>4 DEF WalkCloseWindow, RunWindow, Next
<1> QED BY <1>1, <1>2, <1>3, <1>4 DEF PipelineNext, Closing

LEMMA InitPInv == PipelineInit => PInv
<1> SUFFICES ASSUME PipelineInit PROVE PInv
  OBVIOUS
<1>1. Len(received) = 0 /\ Len(taken) = 0 /\ Len(onTime) = 0 /\ DOMAIN received = {}
      /\ onTime \in Seq(BOOLEAN)
  BY EmptySeq DEF PipelineInit, Init, SrcInit
<1>2. EndTrails
  BY WindowAssumption DEF PipelineInit, Init, SrcInit, EndTrails
<1> QED BY <1>1, <1>2 DEF PipelineInit, PInv, HistoriesMatch, OnTimeDue

\* An event on time: the next window can still be one of its own.
LEMMA OnTimeIsDue ==
  ASSUME NoOverflow, IInv, JInv, SrcInv, EndTrails, pc = "idle", NEW t \in 0..MaxTs,
         t + Lateness >= maxTs, NEW end \in EndsCovering(t)
  PROVE  nextEnd <= end /\ Advance <= end
<1>1. /\ Advance \in Nat \ {0} /\ nextEnd \in Nat /\ t \in Nat /\ Lateness \in Nat
      /\ lastWm \in Nat /\ wm \in Nat /\ maxTs \in Nat
  BY Numbers, SourceAssumption, StreamAssumption DEF SrcInv, SrcTypeOK
<1>2. end \in Nat /\ end % Advance = 0 /\ t < end
  BY <1>1, EndsCoveringType
<1>3. Advance <= end
  <2>1. CASE end < Advance
    <3>1. 0 % Advance = 0 /\ end < 0 + Advance /\ 0 <= end
      BY <1>1, <1>2, <2>1
    <3>2. 0 = end
      BY <1>1, <1>2, <3>1, NothingBetween
    <3> QED BY <1>1, <1>2, <3>2
  <2> QED BY <1>1, <1>2, <2>1
<1>4. wm <= t \/ wm = 0
  <2>1. wm <= lastWm /\ (lastWm # 0 => lastWm + Lateness <= maxTs)
    BY DEF EndTrails, SrcInv, LastMarkInv
  <2> QED BY <1>1, <2>1
<1>5. CASE end < nextEnd
  <2>1. nextEnd <= wm + Advance /\ nextEnd % Advance = 0
    BY DEF EndTrails, JInv
  <2>2. nextEnd < end + Advance
    BY <1>1, <1>2, <1>4, <2>1
  <2>3. end = nextEnd
    <3>1. end <= nextEnd
      BY <1>1, <1>2, <1>5
    <3> QED BY <1>1, <1>2, <2>1, <2>2, <3>1, NothingBetween
  <2> QED BY <1>1, <1>5, <2>3
<1> QED BY <1>1, <1>2, <1>3, <1>5

LEMMA RunEventKeeps ==
  ASSUME NoOverflow, IInv, JInv, SrcInv, PInv, NEW t \in 0..MaxTs, RunEvent(t)
  PROVE  PInv'
<1>1. /\ pc = "idle" /\ UNCHANGED <<counted, phase, lastWm, wm, pc>>
      /\ Len(taken') = Len(taken) + 1
      /\ Forward(t) \/ Drop
  BY DEF RunEvent, Forward, Drop, TakeEvent, ReceiveEvent, vars, SrcInv, SrcTypeOK
<1>2. Len(taken) \in Nat /\ Len(received) \in Nat /\ Advance \in Nat /\ wm \in Nat
  <2>1. taken \in Seq(0..MaxTs) /\ received \in Seq([ts : 0..MaxTs, due : Time])
    BY DEF SrcInv, SrcTypeOK, IInv, TypeOK
  <2> QED BY <2>1, Numbers, LenProperties
<1>3. CASE Drop
  <2>1. UNCHANGED <<received, onTime, nextEnd>>
    BY <1>3 DEF Drop, vars
  <2> QED
    BY <1>1, <1>2, <2>1 DEF PInv, HistoriesMatch, EndTrails, OnTimeDue, EndsCovering
<1>4. CASE Forward(t)
  <2> DEFINE n == Len(received)
             timely == t + Lateness >= maxTs
             entry == [ts |-> t, due |-> nextEnd']
  <2>1. /\ nextEnd' = IF initialized THEN nextEnd ELSE Advance
        /\ received' = Append(received, entry) /\ onTime' = Append(onTime, timely)
    BY <1>4 DEF Forward, ReceiveEvent
  <2>2. /\ received \in Seq([ts : 0..MaxTs, due : Time]) /\ nextEnd' \in Time
        /\ onTime \in Seq(BOOLEAN) /\ Len(onTime) = n
    <3>1. Advance \in Time /\ nextEnd \in Time
      BY WindowAssumption, Numbers DEF Time
    <3> QED BY <2>1, <3>1 DEF IInv, TypeOK, PInv, HistoriesMatch
  <2>3. /\ Len(received') = n + 1 /\ received'[n + 1] = entry
        /\ \A i \in 1..n : received'[i] = received[i]
    <3>1. entry \in [ts : 0..MaxTs, due : Time]
      BY <2>2
    <3> QED BY <2>1, <2>2, <3>1, AppendProperties
  <2>4. /\ onTime' \in Seq(BOOLEAN) /\ Len(onTime') = n + 1 /\ onTime'[n + 1] = timely
        /\ \A i \in 1..n : onTime'[i] = onTime[i]
    <3>1. timely \in BOOLEAN
      OBVIOUS
    <3> HIDE DEF timely
    <3> QED BY <2>1, <2>2, <3>1, AppendProperties
  <2>5. HistoriesMatch'
    BY <1>1, <1>2, <2>3, <2>4 DEF PInv, HistoriesMatch
  <2>6. EndTrails'
    BY <1>1, <1>2, <2>1 DEF PInv, EndTrails
  <2>7. OnTimeDue'
    <3>1. DOMAIN received' = 1..n + 1 /\ DOMAIN received = 1..n
      <4>1. received' \in Seq([ts : 0..MaxTs, due : Time])
        BY <2>1, <2>2, AppendProperties
      <4> QED BY <2>2, <2>3, <4>1, LenProperties
    <3>2. \A i \in 1..n + 1 : i \in 1..n \/ i = n + 1
      BY <1>2
    <3>3. ASSUME NEW i \in 1..n, onTime'[i],
                 NEW end \in EndsCovering(received'[i].ts)
          PROVE  received'[i].due <= end
      BY <2>3, <2>4, <3>1, <3>3 DEF PInv, OnTimeDue
    <3>4. ASSUME timely, NEW end \in EndsCovering(t) PROVE nextEnd' <= end
      BY <1>1, <2>1, <3>4, OnTimeIsDue DEF PInv
    <3>5. entry.ts = t /\ entry.due = nextEnd'
      OBVIOUS
    <3> HIDE DEF entry, timely
    <3>6. ASSUME NEW i \in 1..n + 1, onTime'[i],
                 NEW end \in EndsCovering(received'[i].ts)
          PROVE  received'[i].due <= end
      <4>1. CASE i \in 1..n
        BY <3>3, <3>6, <4>1
      <4>2. CASE i = n + 1
        BY <2>3, <2>4, <3>4, <3>5, <3>6, <4>2
      <4> QED BY <3>2, <4>1, <4>2
    <3> QED BY <3>1, <3>6 DEF OnTimeDue, EndsCovering
  <2> QED BY <1>1, <2>5, <2>6, <2>7 DEF PInv
<1> QED BY <1>1, <1>3, <1>4

\* The watermark of an interval or of close() reaches the window, or none.
LEMMA PassKeeps ==
  ASSUME NoOverflow, IInv, SrcInv, SrcInv', PInv, PassWatermark, pc = "idle",
         CountEvent \/ EndInterval \/ CloseSource,
         counted' \in BOOLEAN, phase' \in {"loop", "closeSource", "closeWindow", "done"},
         UNCHANGED onTime
  PROVE  PInv'
<1>1. /\ UNCHANGED <<received, nextEnd, taken>> /\ wm \in Nat /\ wm' \in Nat
      /\ wm' = wm \/ (initialized /\ wm' = lastWm')
      /\ lastWm <= lastWm' /\ lastWm' \in Nat /\ lastWm \in Nat
      /\ pc' = "idle" \/ pc' = "firing"
  <2>1. /\ UNCHANGED <<received, nextEnd>>
        /\ wm' = wm \/ (initialized /\ wm' = lastWm')
        /\ pc' = "idle" \/ pc' = "firing"
    BY PassedOn DEF ReceiveWatermark, vars
  <2>2. lastWm <= lastWm' /\ lastWm' \in Nat /\ lastWm \in Nat /\ wm \in Nat
    BY PassedOn, Numbers, StreamAssumption DEF SrcInv, SrcTypeOK
  <2>3. taken' = taken
    BY DEF CountEvent, EndInterval, CloseSource
  <2> QED BY <2>1, <2>2, <2>3
<1>2. EndTrails'
  <2>1. nextEnd <= wm + Advance /\ wm <= lastWm
    BY DEF PInv, EndTrails
  <2> QED BY <1>1, <2>1, Numbers DEF EndTrails
<1>3. HistoriesMatch' /\ OnTimeDue'
  BY <1>1 DEF PInv, HistoriesMatch, OnTimeDue, EndsCovering
<1> QED BY <1>2, <1>3 DEF PInv

LEMMA RunWindowKeeps ==
  ASSUME NoOverflow, IInv, PInv, RunWindow
  PROVE  PInv'
<1>1. UNCHANGED <<counted, phase, onTime, taken, lastWm, received, wm>>
  BY DEF RunWindow, Loop, FireWindow, FinishWatermark, FlushWindow, FinishClose, srcVars
<1>2. EndTrails'
  <2>1. CASE FireWindow
    <3>1. nextEnd' = nextEnd + Advance /\ nextEnd <= wm
      BY <2>1, FireWindowStep DEF FireWindow
    <3> QED BY <1>1, <3>1, Numbers DEF PInv, EndTrails
  <2>2. CASE FinishWatermark
    BY <1>1, <2>2 DEF FinishWatermark, PInv, EndTrails
  <2>3. CASE FlushWindow \/ FinishClose
    BY <1>1, <2>3 DEF FlushWindow, FinishClose, PInv, EndTrails
  <2> QED BY <2>1, <2>2, <2>3 DEF RunWindow, Loop
<1> QED BY <1>1, <1>2 DEF PInv, HistoriesMatch, OnTimeDue, EndsCovering

\* The steps that leave the window and its histories alone.
LEMMA ControlKeeps ==
  ASSUME PInv, RunEnd \/ RunStopped \/ WalkCloseWindow \/ RunDone \/ UNCHANGED allVars
  PROVE  PInv'
<1>1. /\ UNCHANGED <<counted, onTime, taken, lastWm, received, wm, nextEnd>>
      /\ pc' = pc \/ pc' = "flushing"
      /\ phase' \in {"loop", "closeSource", "closeWindow", "done"}
  BY DEF PInv, RunEnd, RunStopped, WalkCloseWindow, RunDone, EndOfStream, Close,
     allVars, vars, srcVars
<1> QED BY <1>1 DEF PInv, HistoriesMatch, EndTrails, OnTimeDue, EndsCovering

\* The invariants of the two operators and of the composition together.
AllInv == IInv /\ JInv /\ SrcInv /\ PInv

LEMMA PipelineStep ==
  ASSUME NoOverflow, AllInv, [PipelineNext]_allVars
  PROVE  AllInv'
<1>1. SrcInv'
  BY SourceStep, SrcNextInv DEF AllInv
<1>2. [Next]_vars
  BY <1>1, WindowStep DEF AllInv
<1>3. IInv' /\ JInv'
  BY <1>2, NextIInv, NextJInv DEF AllInv
<1>4. PInv'
  <2>1. ASSUME NEW t \in 0..MaxTs, RunEvent(t) PROVE PInv'
    BY <2>1, RunEventKeeps DEF AllInv
  <2>2. CASE RunWatermark \/ WalkCloseSource
    BY <1>1, <2>2, PassKeeps DEF AllInv, PInv, RunWatermark, WalkCloseSource
  <2>3. CASE RunWindow
    BY <2>3, RunWindowKeeps DEF AllInv
  <2>4. CASE RunEnd \/ RunStopped \/ WalkCloseWindow \/ RunDone \/ UNCHANGED allVars
    BY <2>4, ControlKeeps DEF AllInv
  <2> QED BY <2>1, <2>2, <2>3, <2>4 DEF PipelineNext, Closing
<1> QED BY <1>1, <1>3, <1>4 DEF AllInv

LEMMA PipelineStart == PipelineInit => AllInv
  BY InitIInv, InitJInv, SrcInitInv, InitPInv DEF PipelineInit, AllInv

LEMMA PipelineInvariance == ASSUME NoOverflow PROVE PipelineSpec => []AllInv
  BY PipelineStart, PipelineStep, PTL DEF PipelineSpec

-----------------------------------------------------------------------------
\* Type correctness of the composition.
THEOREM PipelineTypeCorrect == ASSUME NoOverflow PROVE PipelineSpec => []PipelineTypeOK
<1>1. AllInv => PipelineTypeOK
  BY DEF AllInv, IInv, SrcInv, PInv, HistoriesMatch, PipelineTypeOK
<1> QED BY PipelineInvariance, <1>1, PTL

\* Within the pipeline the source sends what it sends alone, and the window
\* operator receives a stream it could receive alone.
THEOREM SourceInPipeline == PipelineSpec => SrcSpec
<1>1. PipelineInit => SrcInit
  BY DEF PipelineInit
<1> QED BY <1>1, SourceStep, PTL DEF PipelineSpec, SrcSpec

THEOREM WindowInPipeline == PipelineSpec => Spec
<1>1. PipelineInit => Init /\ SrcInv
  BY SrcInitInv DEF PipelineInit
<1>2. SrcInv /\ [PipelineNext]_allVars => SrcInv'
  BY SourceStep, SrcNextInv
<1>3. SrcInv /\ SrcInv' /\ [PipelineNext]_allVars => [Next]_vars
  BY WindowStep
<1> QED BY <1>1, <1>2, <1>3, PTL DEF PipelineSpec, Spec

\* Every event that is late by no more than allowed_lateness_ is in every
\* window that covers it when the pipeline has closed, stopped or not.
THEOREM NothingOnTimeLost == ASSUME NoOverflow PROVE PipelineSpec => []OnTimeComplete
<1>1. AllInv => OnTimeComplete
  BY DEF AllInv, PInv, OnTimeDue, JInv, NoWindowSkipped, OnTimeComplete
<1> QED BY PipelineInvariance, <1>1, PTL

LEMMA AllOnTime ==
  ASSUME AllInv, \A i \in DOMAIN onTime : onTime[i]
  PROVE  NoneLate
<1>1. DOMAIN onTime = DOMAIN received
  <2>1. onTime \in Seq(BOOLEAN) /\ received \in Seq([ts : 0..MaxTs, due : Time])
        /\ Len(onTime) = Len(received)
    BY DEF AllInv, PInv, HistoriesMatch, IInv, TypeOK
  <2> QED BY <2>1, LenProperties
<1> QED BY <1>1 DEF AllInv, PInv, OnTimeDue, NoneLate

\* With no event later than allowed, the windows that come out of the
\* pipeline, stopped or not, are those of a batch computation over the
\* events that passed the filter.
THEOREM StreamIsBatch == ASSUME NoOverflow PROVE PipelineSpec => []StreamingEqualsBatch
<1>1. AllInv => StreamingEqualsBatch
  BY AllOnTime, OutIsBatch DEF AllInv, StreamingEqualsBatch
<1> QED BY PipelineInvariance, <1>1, PTL

-----------------------------------------------------------------------------
(* 3. Two pipelines and the channel between them                           *)

\* What an emitted window holds, and its last event.
LEMMA LastEvent ==
  ASSUME IInv, NEW k \in 1..Len(out)
  PROVE  /\ out[k].end \in Nat /\ StartOf(out[k].end) \in Nat
         /\ Last(out[k].events) \in Belonging(StartOf(out[k].end), out[k].end)
         /\ \A e \in Belonging(StartOf(out[k].end), out[k].end) : e.ts <= Stamp(out[k])
         /\ Stamp(out[k]) \in 0..MaxTs
<1> DEFINE events == out[k].events
           n == Len(events)
           B == Belonging(StartOf(out[k].end), out[k].end)
<1>1. /\ out[k].end \in Nat /\ events \in Seq(Event) /\ events # << >>
      /\ out[k].start = StartOf(out[k].end)
      /\ ToSet(events) = B /\ Ordered(events)
  BY OutType DEF IInv, HistoryBehind, WindowsExact, IsListing
<1>2. StartOf(out[k].end) \in Nat
  BY <1>1, StartOfMonotone
<1> HIDE DEF events, B
<1>3. n \in Nat /\ n \in 1..n
  BY <1>1, EmptySeq, LenProperties
<1>4. Last(events) = events[n] /\ events[n] \in ToSet(events) /\ events[n] \in Event
  BY <1>1, <1>3, ToSetElements, ElementType DEF Last
<1>5. ASSUME NEW e \in B PROVE e.ts <= events[n].ts
  <2>1. PICK i \in 1..n : e = events[i]
    BY <1>1, ToSetElements
  <2>2. SortedByTime(events)
    BY <1>1, EventIsEventSet, OrderedIsSorted
  <2>3. events[n].ts \in Int /\ events[i].ts \in Int
    BY <1>1, <1>3, ElementType, EventIsEventSet DEF IsEventSet
  <2>4. i = n \/ i < n
    BY <1>3
  <2> QED BY <1>3, <2>1, <2>2, <2>3, <2>4 DEF SortedByTime
<1>6. events[n].ts \in 0..MaxTs
  BY <1>4 DEF Event
<1>7. Stamp(out[k]) = events[n].ts
  BY <1>4 DEF Stamp, events
<1> QED BY <1>1, <1>2, <1>4, <1>5, <1>6, <1>7 DEF events, B

\* The last event of an earlier window is before a later window or in it.
LEMMA StampsNeverFall == ASSUME IInv PROVE StampsInOrder
<1> SUFFICES ASSUME NEW k \in 1..Len(out), NEW l \in 1..Len(out), k < l
             PROVE  Stamp(out[k]) <= Stamp(out[l])
  BY DEF StampsInOrder, IInv, TypeOK
<1>1. out[k].end < out[l].end
  BY DEF IInv, WindowsInOrder
<1>2. PICK i \in DOMAIN received :
        /\ Last(out[k].events) = [id |-> i, ts |-> received[i].ts]
        /\ StartOf(out[k].end) <= received[i].ts /\ received[i].ts < out[k].end
        /\ received[i].due <= out[k].end
  BY LastEvent DEF Belonging
<1>3. PICK j \in DOMAIN received :
        /\ Last(out[l].events) = [id |-> j, ts |-> received[j].ts]
        /\ StartOf(out[l].end) <= received[j].ts
  BY LastEvent DEF Belonging
<1>4. Stamp(out[k]) = received[i].ts /\ Stamp(out[l]) = received[j].ts
  BY <1>2, <1>3 DEF Stamp
<1>5. /\ received[i].ts \in Nat /\ received[i].due \in Nat /\ received[j].ts \in Nat
      /\ out[k].end \in Nat /\ out[l].end \in Nat /\ StartOf(out[l].end) \in Nat
  BY ReceivedType, LastEvent DEF IInv
<1>6. CASE received[i].ts < StartOf(out[l].end)
  BY <1>3, <1>4, <1>5, <1>6
<1>7. CASE StartOf(out[l].end) <= received[i].ts
  <2>1. received[i].ts < out[l].end /\ received[i].due <= out[l].end
    BY <1>1, <1>2, <1>5
  <2>2. [id |-> i, ts |-> received[i].ts] \in Belonging(StartOf(out[l].end), out[l].end)
    BY <1>7, <2>1 DEF Belonging
  <2> QED BY <1>4, <2>2, LastEvent
<1> QED BY <1>5, <1>6, <1>7

\* What TimeWindow_proofs shows, of the second window.
SecondProofs == INSTANCE TimeWindow_proofs WITH
  Size <- Size2, Advance <- Advance2, MaxEvents <- MaxEvents * Size,
  buffer <- buffer2, nextEnd <- nextEnd2, initialized <- initialized2,
  pc <- pc2, wm <- wm2, out <- out2, received <- received2

SecondInv == SecondProofs!IInv /\ SecondProofs!JInv

\* The assumptions of TimeWindow, for the second window.
LEMMA SecondAssumptions ==
  /\ MaxTs \in Nat /\ MaxEvents * Size \in Nat
  /\ /\ Size2 \in Nat /\ Advance2 \in Nat \ {0}
     /\ MaxU64 \in Nat /\ MaxTs <= MaxU64
     /\ Size2 <= MaxU64 /\ Advance2 <= MaxU64
<1>1. MaxTs \in Nat /\ MaxEvents \in Nat /\ Size \in Nat
  BY StreamAssumption, WindowAssumption
<1>2. MaxEvents * Size \in Nat
  BY <1>1
<1> QED BY <1>1, <1>2, WindowAssumption, ChainAssumption

\* Second and SecondProofs are the same window.
LEMMA SameBound ==
  ASSUME NEW s, NEW t
  PROVE  SecondProofs!LowerBound(s, t) = Second!LowerBound(s, t)
  BY DEF SecondProofs!LowerBound, Second!LowerBound, SecondProofs!Min, Second!Min

LEMMA SameBuffer ==
  ASSUME NEW s, NEW t, NEW e
  PROVE  /\ SecondProofs!Inserted(s, e) = Second!Inserted(s, e)
         /\ SecondProofs!CleanedBefore(s, t) = Second!CleanedBefore(s, t)
         /\ SecondProofs!Queried(s, t, e) = Second!Queried(s, t, e)
<1>1. SecondProofs!Inserted(s, e) = Second!Inserted(s, e)
  BY SameBound DEF SecondProofs!Inserted, Second!Inserted, SecondProofs!InsertAt,
     Second!InsertAt
<1>2. SecondProofs!CleanedBefore(s, t) = Second!CleanedBefore(s, t)
  BY SameBound DEF SecondProofs!CleanedBefore, Second!CleanedBefore, SecondProofs!Slice,
     Second!Slice
<1>3. SecondProofs!Queried(s, t, e) = Second!Queried(s, t, e)
  BY SameBound DEF SecondProofs!Queried, Second!Queried, SecondProofs!Slice, Second!Slice
<1> QED BY <1>1, <1>2, <1>3

LEMMA SameStep ==
  /\ Second!Init <=> SecondProofs!Init
  /\ Second!Next <=> SecondProofs!Next
  /\ Second!vars = windowVars2 /\ SecondProofs!vars = windowVars2
  /\ Second!NoOverflow <=> SecondProofs!NoOverflow
<1>1. Second!Next <=> SecondProofs!Next
  BY SameBuffer
  DEF SecondProofs!Next, Second!Next, SecondProofs!Loop, Second!Loop,
      SecondProofs!ReceiveEvent, Second!ReceiveEvent,
      SecondProofs!ReceiveWatermark, Second!ReceiveWatermark,
      SecondProofs!FireWindow, Second!FireWindow,
      SecondProofs!FinishWatermark, Second!FinishWatermark,
      SecondProofs!Close, Second!Close,
      SecondProofs!FlushWindow, Second!FlushWindow,
      SecondProofs!FinishClose, Second!FinishClose,
      SecondProofs!Terminated, Second!Terminated,
      SecondProofs!Emit, Second!Emit, SecondProofs!Plus, Second!Plus,
      SecondProofs!NewEvent, Second!NewEvent, SecondProofs!StartOf, Second!StartOf,
      SecondProofs!vars, Second!vars
<1>2. Second!Init <=> SecondProofs!Init
  BY DEF Second!Init, SecondProofs!Init
<1> QED
  BY <1>1, <1>2 DEF Second!vars, SecondProofs!vars, windowVars2, Second!NoOverflow,
     SecondProofs!NoOverflow

LEMMA SameCount == ASSUME NEW S PROVE SecondProofs!Cardinality(S) = Second!Cardinality(S)
  BY DEF SecondProofs!Cardinality, Second!Cardinality

LEMMA SameAscending == ASSUME NEW S PROVE SecondProofs!Ascending(S) = Second!Ascending(S)
  BY DEF SecondProofs!Ascending, Second!Ascending, SecondProofs!Sorted, Second!Sorted,
     SecondProofs!Cardinality, Second!Cardinality

LEMMA SameProperties ==
  /\ SecondProofs!TypeOK => Second!TypeOK
  /\ \A q : SecondProofs!BatchOf(q) = Second!BatchOf(q)
<1>1. SecondProofs!TypeOK => Second!TypeOK
  BY DEF SecondProofs!TypeOK, Second!TypeOK, SecondProofs!Event, Second!Event,
     SecondProofs!Window, Second!Window, SecondProofs!Time, Second!Time
<1>3. ASSUME NEW q, NEW end
      PROVE  SecondProofs!BatchWindow(q, end) = Second!BatchWindow(q, end)
  BY DEF SecondProofs!BatchWindow, Second!BatchWindow, SecondProofs!BatchEvents,
     Second!BatchEvents, SecondProofs!StartOf, Second!StartOf, SecondProofs!Sorted,
     Second!Sorted, SecondProofs!Precedes, Second!Precedes, SecondProofs!Cardinality,
     Second!Cardinality
<1>4. \A q : SecondProofs!BatchEnds(q) = Second!BatchEnds(q)
  BY DEF SecondProofs!BatchEnds, Second!BatchEnds, SecondProofs!EndsCovering,
     Second!EndsCovering
<1> QED BY <1>1, SameAscending, <1>3, <1>4 DEF SecondProofs!BatchOf, Second!BatchOf

LEMMA SecondStart == Second!Init => SecondInv
  BY SecondAssumptions, SameStep, SecondProofs!InitIInv, SecondProofs!InitJInv
  DEF SecondInv, SecondProofs!InitIInv, SecondProofs!InitJInv

LEMMA SecondStep ==
  ASSUME Second!NoOverflow, SecondInv, [Second!Next]_windowVars2
  PROVE  SecondInv'
<1>1. SecondProofs!NoOverflow /\ [SecondProofs!Next]_(SecondProofs!vars)
  BY SameStep DEF SecondProofs!vars, windowVars2
<1>2. SecondProofs!IInv'
  BY <1>1, SecondAssumptions, SecondProofs!NextIInv DEF SecondProofs!NextIInv, SecondInv
<1>3. SecondProofs!JInv'
  BY <1>1, <1>2, SecondAssumptions, SecondProofs!NextJInv DEF SecondProofs!NextJInv, SecondInv
<1> QED BY <1>2, <1>3 DEF SecondInv

-----------------------------------------------------------------------------
\* What the two pipelines know of each other.  Where the second one is: its
\* window gets no watermark, is called until the end of the loop only, and
\* is closed after the first.
Phases ==
  /\ phase2 \in {"loop", "closing", "done"} /\ stopped2 \in BOOLEAN
  /\ pc2 # "firing"
  /\ phase2 # "done" => pc2 = "idle"
  /\ phase2 # "loop" => pc = "closed" /\ (~ stopped2 => Len(received2) = Len(out))

\* What it has read: the first results of the first window, in order, and
\* none of them after one of its own windows had been fired.
Reads ==
  /\ Len(received2) <= Len(out)
  /\ \A i \in DOMAIN received2 :
       received2[i].ts = Stamp(out[i]) /\ received2[i].due = Advance2
  /\ pc2 = "idle" /\ initialized2 => nextEnd2 = Advance2

\* The inductive invariant.
CInv == AllInv /\ SecondInv /\ Phases /\ Reads

\* The first pipeline does what it does alone.
LEMMA FirstStep == [ChainNext]_chainVars => [PipelineNext]_allVars
  BY DEF ChainNext, First, ReadEvent, ReadEnd, Stopped, CloseSecond, FlushSecond, ChainDone,
     chainVars

\* So does the second window: what it is given is the time of an event.
LEMMA SecondMoves == CInv /\ [ChainNext]_chainVars => [Second!Next]_windowVars2
<1> SUFFICES ASSUME CInv, [ChainNext]_chainVars PROVE [Second!Next]_windowVars2
  OBVIOUS
<1>1. CASE ReadEvent
  <2> DEFINE n == Len(received2) + 1
  <2>1. IInv /\ Len(out) \in Nat
    BY OutType DEF CInv, AllInv, IInv
  <2>2. received2 \in Seq([ts : 0..MaxTs, due : SecondProofs!Time])
    BY DEF CInv, SecondInv, SecondProofs!IInv, SecondProofs!TypeOK
  <2>3. n \in 1..Len(out)
    BY <1>1, <2>1, <2>2 DEF ReadEvent
  <2>4. Stamp(out[n]) \in 0..MaxTs
    BY <2>1, <2>3, LastEvent
  <2> QED BY <1>1, <2>4 DEF ReadEvent, Second!Next
<1>2. CASE CloseSecond \/ FlushSecond
  BY <1>2 DEF CloseSecond, FlushSecond, Second!Next
<1>3. CASE First \/ ReadEnd \/ Stopped \/ ChainDone \/ UNCHANGED chainVars
  BY <1>3 DEF First, ReadEnd, Stopped, ChainDone, chainVars, secondVars
<1> QED BY <1>1, <1>2, <1>3 DEF ChainNext

\* What a window operator has emitted stays.
LEMMA OutGrows ==
  ASSUME IInv, [Next]_vars
  PROVE  /\ Len(out) \in Nat /\ Len(out') \in Nat /\ Len(out) <= Len(out')
         /\ \A k \in 1..Len(out) : out'[k] = out[k]
<1>1. out \in Seq(Window) /\ Len(out) \in Nat
  BY DEF IInv, TypeOK
<1>2. \/ out' = out
      \/ FireWindow \/ FlushWindow
  BY DEF Next, Loop, ReceiveEvent, ReceiveWatermark, FinishWatermark, Close, FinishClose,
     Terminated, vars
<1>3. CASE out' = out
  BY <1>1, <1>3
<1>4. CASE FireWindow \/ FlushWindow
  <2> DEFINE w == [start |-> StartOf(nextEnd), end |-> nextEnd,
                   events |-> Queried(buffer, StartOf(nextEnd), nextEnd)]
  <2>1. out' = out \/ out' = Append(out, w)
    BY <1>4 DEF FireWindow, FlushWindow, Emit
  <2> HIDE DEF w
  <2>2. CASE out' = Append(out, w)
    BY <1>1, <2>2
  <2> QED BY <1>3, <2>1, <2>2
<1> QED BY <1>2, <1>3, <1>4

LEMMA ReceivedType2 ==
  ASSUME CInv
  PROVE  /\ received2 \in Seq([ts : 0..MaxTs, due : SecondProofs!Time])
         /\ Len(received2) \in Nat /\ DOMAIN received2 = 1..Len(received2)
         /\ \A i \in DOMAIN received2 : received2[i].ts \in 0..MaxTs
         /\ IInv /\ Len(out) \in Nat
<1>1. received2 \in Seq([ts : 0..MaxTs, due : SecondProofs!Time])
  BY DEF CInv, SecondInv, SecondProofs!IInv, SecondProofs!TypeOK
<1>2. IInv /\ Len(out) \in Nat
  BY OutType DEF CInv, AllInv, IInv
<1>3. DOMAIN received2 = 1..Len(received2) /\ Len(received2) \in Nat
  BY <1>1, LenProperties
<1> DEFINE R == [ts : 0..MaxTs, due : SecondProofs!Time]
<1>4. ASSUME NEW i \in DOMAIN received2 PROVE received2[i].ts \in 0..MaxTs
  <2> HIDE DEF R
  <2>1. received2 \in Seq(R)
    BY <1>1 DEF R
  <2>2. received2[i] \in R
    BY <1>3, <2>1, ElementType
  <2> QED BY <2>2 DEF R
<1> QED BY <1>1, <1>2, <1>3, <1>4

LEMMA FirstKeeps ==
  ASSUME CInv, [Next]_vars, First PROVE Phases' /\ Reads'
<1>1. /\ UNCHANGED <<received2, pc2, initialized2, nextEnd2, phase2, stopped2>>
      /\ pc # "closed"
  BY DEF First, secondVars, windowVars2
<1>2. Phases'
  BY <1>1 DEF CInv, Phases
<1>3. Len(received2') <= Len(out')
  BY <1>1, ReceivedType2, OutGrows DEF CInv, Reads
<1>4. ASSUME NEW i \in DOMAIN received2 PROVE Stamp(out'[i]) = Stamp(out[i])
  <2>1. i \in 1..Len(out)
    BY ReceivedType2 DEF CInv, Reads
  <2> QED BY <2>1, ReceivedType2, OutGrows
<1>5. Reads'
  BY <1>1, <1>3, <1>4 DEF CInv, Reads, Stamp
<1> QED BY <1>2, <1>5

LEMMA ReadKeeps ==
  ASSUME CInv, ReadEvent PROVE Phases' /\ Reads'
<1> DEFINE n == Len(received2) + 1
           r == [ts |-> Stamp(out[n]), due |-> nextEnd2']
<1>1. /\ UNCHANGED <<out, pc, phase2, stopped2, pc2>> /\ phase2 = "loop" /\ pc2 = "idle"
      /\ received2' = Append(received2, r) /\ n <= Len(out)
      /\ initialized2' = TRUE
      /\ nextEnd2' = IF initialized2 THEN nextEnd2 ELSE Advance2
  BY ReceivedType2 DEF ReadEvent, Second!ReceiveEvent, allVars, vars
<1>2. nextEnd2' = Advance2
  BY <1>1 DEF CInv, Reads
<1>3. Phases'
  BY <1>1 DEF CInv, Phases
<1> HIDE DEF r
<1>4. /\ Len(received2') = n
      /\ \A i \in DOMAIN received2' : \/ i \in DOMAIN received2 /\ received2'[i] = received2[i]
                                      \/ i = n /\ received2'[i] = r
  BY <1>1, ReceivedType2
<1>5. r.ts = Stamp(out[n]) /\ r.due = Advance2
  BY <1>2 DEF r
<1> HIDE DEF n
<1>6. ASSUME NEW i \in DOMAIN received2'
      PROVE  received2'[i].ts = Stamp(out[i]) /\ received2'[i].due = Advance2
  BY <1>4, <1>5 DEF CInv, Reads
<1>7. \A i \in DOMAIN received2' : received2'[i].ts = Stamp(out'[i])
  BY <1>1, <1>6
<1>8. Reads'
  BY <1>1, <1>2, <1>4, <1>6, <1>7 DEF Reads, Stamp
<1> QED BY <1>3, <1>8

LEMMA PhaseKeeps ==
  ASSUME CInv, ReadEnd \/ Stopped \/ CloseSecond \/ ChainDone \/ UNCHANGED chainVars
  PROVE  Phases' /\ Reads'
<1>1. UNCHANGED <<out, pc, received2, initialized2, nextEnd2>>
  BY DEF ReadEnd, Stopped, CloseSecond, ChainDone, chainVars, secondVars, windowVars2, allVars,
     vars, Second!Close
<1>2. Reads'
  <2>1. pc2' = "idle" => pc2 = "idle"
    BY DEF ReadEnd, Stopped, CloseSecond, ChainDone, chainVars, secondVars, windowVars2,
       Second!Close
  <2> QED BY <1>1, <2>1 DEF CInv, Reads, Stamp
<1>3. CASE ReadEnd \/ Stopped
  BY <1>1, <1>2, <1>3 DEF CInv, Phases, ReadEnd, Stopped, windowVars2
<1>4. CASE CloseSecond
  BY <1>1, <1>2, <1>4 DEF CInv, Phases, CloseSecond, Second!Close
<1>5. CASE ChainDone \/ UNCHANGED chainVars
  BY <1>1, <1>2, <1>5 DEF CInv, Phases, ChainDone, chainVars, secondVars, windowVars2
<1> QED BY <1>2, <1>3, <1>4, <1>5

LEMMA FlushKeeps ==
  ASSUME CInv, FlushSecond PROVE Phases' /\ Reads'
<1>1. /\ UNCHANGED <<out, pc, received2, initialized2, phase2, stopped2>>
      /\ pc2 = "flushing" /\ pc2' \in {"flushing", "closed"}
  BY DEF CInv, Phases, FlushSecond, Second!Loop, Second!FireWindow, Second!FinishWatermark,
     Second!FlushWindow, Second!FinishClose, allVars, vars
<1> QED BY <1>1 DEF CInv, Phases, Reads, Stamp

LEMMA ChainStart == ChainInit => CInv
<1> SUFFICES ASSUME ChainInit PROVE CInv
  OBVIOUS
<1>1. AllInv /\ SecondInv
  BY PipelineStart, SecondStart DEF ChainInit
<1>2. received2 = << >> /\ out = << >> /\ pc2 = "idle" /\ initialized2 = FALSE
  BY DEF ChainInit, Second!Init, PipelineInit, Init
<1>3. phase2 = "loop" /\ stopped2 = FALSE
  BY DEF ChainInit
<1>4. Len(received2) = 0 /\ Len(out) = 0 /\ DOMAIN received2 = {}
  BY <1>2
<1>5. Phases
  BY <1>2, <1>3 DEF Phases
<1>6. Reads
  BY <1>2, <1>4 DEF Reads
<1> QED BY <1>1, <1>5, <1>6 DEF CInv

LEMMA ChainStep ==
  ASSUME NoOverflow, Second!NoOverflow, CInv, [ChainNext]_chainVars
  PROVE  CInv'
<1>1. AllInv'
  BY FirstStep, PipelineStep DEF CInv
<1>2. SecondInv'
  BY SecondMoves, SecondStep DEF CInv
<1>3. CASE First
  <2>1. [Next]_vars
    <3>1. SrcInv'
      BY <1>1 DEF AllInv
    <3> QED BY <1>3, <3>1, WindowStep DEF First, CInv, AllInv
  <2> QED BY <1>1, <1>2, <1>3, <2>1, FirstKeeps DEF CInv
<1>4. CASE ReadEvent
  BY <1>1, <1>2, <1>4, ReadKeeps DEF CInv
<1>5. CASE ReadEnd \/ Stopped \/ CloseSecond \/ ChainDone \/ UNCHANGED chainVars
  BY <1>1, <1>2, <1>5, PhaseKeeps DEF CInv
<1>6. CASE FlushSecond
  BY <1>1, <1>2, <1>6, FlushKeeps DEF CInv
<1> QED BY <1>3, <1>4, <1>5, <1>6 DEF ChainNext

LEMMA ChainInvariance ==
  ASSUME NoOverflow, Second!NoOverflow PROVE ChainSpec => []CInv
  BY ChainStart, ChainStep, PTL DEF ChainSpec

-----------------------------------------------------------------------------
\* In the chain the first pipeline is the pipeline alone, and its second
\* window a window operator alone: what is shown of them holds here.
THEOREM PipelineInChain == ChainSpec => PipelineSpec
<1>1. ChainInit => PipelineInit
  BY DEF ChainInit
<1> QED BY <1>1, FirstStep, PTL DEF ChainSpec, PipelineSpec

THEOREM SecondInChain ==
  ASSUME NoOverflow, Second!NoOverflow PROVE ChainSpec => Second!Spec
<1>1. ChainInit => Second!Init
  BY DEF ChainInit
<1>2. CInv /\ [ChainNext]_chainVars => [Second!Next]_(Second!vars)
  BY SecondMoves, SameStep DEF Second!vars, windowVars2
<1> QED BY <1>1, <1>2, ChainInvariance, PTL DEF ChainSpec, Second!Spec

\* Type correctness of both pipelines.
THEOREM ChainTypeCorrect ==
  ASSUME NoOverflow, Second!NoOverflow PROVE ChainSpec => []ChainTypeOK
<1>1. AllInv => PipelineTypeOK
  BY DEF AllInv, IInv, SrcInv, PInv, HistoriesMatch, PipelineTypeOK
<1>2. SecondInv => Second!TypeOK
  BY SameProperties DEF SecondInv, SecondProofs!IInv
<1>3. CInv => ChainTypeOK
  BY <1>1, <1>2 DEF CInv, Phases, Reads, ChainTypeOK
<1> QED BY ChainInvariance, <1>3, PTL

\* What a window sends through its channel is in time order, however late
\* the events of its stream were.
THEOREM ChannelInOrder ==
  ASSUME NoOverflow, Second!NoOverflow PROVE ChainSpec => []StampsInOrder
<1>1. CInv => StampsInOrder
  BY StampsNeverFall DEF CInv, AllInv
<1> QED BY ChainInvariance, <1>1, PTL

\* The second window, when it is closed, has emitted the windows of what it
\* has read: none of it was late, since it got no watermark.
LEMMA SecondIsBatch ==
  ASSUME Second!NoOverflow, CInv, pc2 = "closed"
  PROVE  out2 = SecondProofs!BatchOf(SecondProofs!Times(received2))
<1>1. SecondProofs!NoOverflow
  BY SameStep
<1>2. ASSUME NEW i \in DOMAIN received2, NEW end \in SecondProofs!EndsCovering(received2[i].ts)
      PROVE  received2[i].due <= end
  <2>1. received2[i].ts \in 0..MaxTs /\ received2[i].due = Advance2
    BY ReceivedType2 DEF CInv, Reads
  <2>2. /\ Advance2 \in Nat \ {0} /\ Size2 \in Nat /\ MaxTs \in Nat
        /\ end \in received2[i].ts + 1..received2[i].ts + Size2 /\ end % Advance2 = 0
    BY ChainAssumption, StreamAssumption DEF SecondProofs!EndsCovering
  <2>3. end \in Nat /\ 0 < end /\ 0 % Advance2 = 0
    BY <2>1, <2>2
  <2>4. ~ (end < 0 + Advance2)
    BY <2>2, <2>3, NothingBetween
  <2> QED BY <2>1, <2>2, <2>3, <2>4
<1>3. SecondProofs!NoneLate
  BY <1>2 DEF SecondProofs!NoneLate
<1> QED
  BY <1>1, <1>3, SecondAssumptions, SecondProofs!OutIsBatch
  DEF SecondProofs!OutIsBatch, CInv, SecondInv

\* What it has read are the first of the results sent to it.
LEMMA ReadInOrder ==
  ASSUME CInv
  PROVE  LET p == SecondProofs!Times(received2)
             q == Stamps(out)
             m == Len(received2)
         IN  /\ p \in Seq(0..MaxTs) /\ q \in Seq(0..MaxTs)
             /\ Len(p) = m /\ Len(q) = Len(out) /\ m <= Len(q)
             /\ \A i \in 1..m : p[i] = q[i] /\ p[i] = received2[i].ts
             /\ \A i, j \in 1..Len(q) : i < j => q[i] <= q[j]
<1> DEFINE p == SecondProofs!Times(received2)
           q == Stamps(out)
           m == Len(received2)
<1>1. /\ m \in Nat /\ DOMAIN received2 = 1..m /\ Len(out) \in Nat /\ m <= Len(out)
      /\ DOMAIN out = 1..Len(out)
  BY ReceivedType2 DEF CInv, Reads, IInv, TypeOK
<1>2. \A i \in 1..m : received2[i].ts \in 0..MaxTs
  BY ReceivedType2
<1>3. p = [i \in 1..m |-> received2[i].ts]
  BY <1>1 DEF SecondProofs!Times
<1>4. q = [i \in 1..Len(out) |-> Stamp(out[i])]
  BY <1>1 DEF Stamps
<1>5. p \in Seq(0..MaxTs) /\ Len(p) = m
  BY <1>1, <1>2, <1>3
<1>6. q \in Seq(0..MaxTs) /\ Len(q) = Len(out)
  BY <1>1, <1>4, LastEvent, ReceivedType2
<1>7. \A i \in 1..m : p[i] = q[i] /\ p[i] = received2[i].ts
  BY <1>1, <1>3, <1>4 DEF CInv, Reads
<1>8. \A i, j \in 1..Len(q) : i < j => q[i] <= q[j]
  BY <1>1, <1>4, <1>6, StampsNeverFall, ReceivedType2 DEF StampsInOrder
<1> QED BY <1>1, <1>5, <1>6, <1>7, <1>8

\* With no event later than allowed and no stop of the second pipeline, the
\* two pipelines compute what two batch computations in a row would.
THEOREM TwoStagesAreBatch ==
  ASSUME NoOverflow, Second!NoOverflow PROVE ChainSpec => []TwoStageBatch
<1>1. ASSUME CInv, pc2 = "closed", ~ stopped2, \A i \in DOMAIN onTime : onTime[i]
      PROVE  out2 = Second!BatchOf(Stamps(BatchOf(Times(received))))
  <2>1. pc = "closed" /\ Len(received2) = Len(out)
    BY <1>1 DEF CInv, Phases
  <2>2. out = BatchOf(Times(received))
    BY <1>1, <2>1, AllOnTime, OutIsBatch DEF CInv, AllInv
  <2> DEFINE p == SecondProofs!Times(received2)
             q == Stamps(out)
  <2>3. p \in Seq(0..MaxTs) /\ q \in Seq(0..MaxTs) /\ Len(p) = Len(q)
        /\ \A i \in 1..Len(p) : p[i] = q[i]
    BY <1>1, <2>1, ReadInOrder
  <2> HIDE DEF p, q
  <2>4. p = q
    BY <2>3
  <2>5. out2 = SecondProofs!BatchOf(p)
    BY <1>1, SecondIsBatch DEF p
  <2> QED BY <2>2, <2>4, <2>5, SameProperties DEF q
<1>2. CInv => TwoStageBatch
  BY <1>1 DEF TwoStageBatch
<1> QED BY ChainInvariance, <1>2, PTL

\* A stop costs the second window no more than the end of its output.
THEOREM StopLosesTheEnd ==
  ASSUME NoOverflow, Second!NoOverflow PROVE ChainSpec => []StopKeepsPrefix
<1>1. ASSUME CInv, pc2 = "closed", received2 # << >>
      PROVE  Until(out2, Last(received2).ts)
               = Until(Second!BatchOf(Stamps(out)), Last(received2).ts)
  <2> DEFINE p == SecondProofs!Times(received2)
             q == Stamps(out)
             m == Len(received2)
             b == SecondProofs!BatchOf(p)
             c == SecondProofs!BatchOf(q)
  <2>1. m \in 1..m
    BY <1>1, ReceivedType2, EmptySeq
  <2>2. SecondProofs!PrefixInOrder(p, q, m) /\ q[m] = Last(received2).ts
    BY <1>1, <2>1, ReadInOrder DEF SecondProofs!PrefixInOrder, Last
  <2>3. out2 = b /\ Second!BatchOf(q) = c
    BY <1>1, SecondIsBatch, SameProperties
  <2> HIDE DEF p, q, m, b, c
  <2>4. ASSUME NEW k
        PROVE  /\ (k \in DOMAIN b /\ b[k].end <= q[m]) <=> (k \in DOMAIN c /\ c[k].end <= q[m])
               /\ (k \in DOMAIN b /\ b[k].end <= q[m]) => b[k] = c[k]
    BY <2>2, SecondAssumptions, SecondProofs!BatchOfPrefix
    DEF SecondProofs!BatchOfPrefix, b, c
  <2>5. {k \in DOMAIN b : b[k].end <= q[m]} = {k \in DOMAIN c : c[k].end <= q[m]}
    BY <2>4
  <2>6. Until(b, q[m]) = Until(c, q[m])
    BY <2>4, <2>5 DEF Until
  <2> QED BY <2>2, <2>3, <2>6 DEF q
<1>2. CInv => StopKeepsPrefix
  BY <1>1 DEF StopKeepsPrefix
<1> QED BY ChainInvariance, <1>2, PTL
=============================================================================
