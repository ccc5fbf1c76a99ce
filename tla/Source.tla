------------------------------- MODULE Source -------------------------------
(***************************************************************************)
(* SourcePhysicalOperator (src/operators/physical/                         *)
(* source_physical_operator.h): each execute() takes one event from the    *)
(* user's function, sends it downstream and, after every Interval events,  *)
(* sends the watermark max_ts - Lateness if it is above the last one sent. *)
(* close() sends a last watermark for the events since.                    *)
(*                                                                         *)
(* execute() takes two steps, the event and the watermark, because what is *)
(* downstream runs to its end inside the first next_->execute() before the *)
(* second one is called.                                                   *)
(***************************************************************************)
EXTENDS Stream, Sequences

CONSTANTS
  Lateness,   \* allowed_lateness_
  Interval    \* watermark_interval_

ASSUME SourceAssumption == Lateness \in Nat /\ Interval \in Nat

VARIABLES
  done,       \* done_
  maxTs,      \* max_ts_
  since,      \* events_since_watermark_
  lastWm,     \* last_watermark_ts_
  wmEmitted,  \* watermark_emitted_
  srcPc,      \* between two calls ("ready"), in execute() with the event
              \* already sent ("forwarded"), or after close() ("closed")
  taken,      \* history: the times of the events taken, in order
  marks       \* history: the watermarks sent, each with the number of
              \* events sent before it

srcVars == <<done, maxTs, since, lastWm, wmEmitted, srcPc, taken, marks>>

SrcInit ==
  /\ done = FALSE
  /\ maxTs = 0
  /\ since = 0
  /\ lastWm = 0
  /\ wmEmitted = FALSE
  /\ srcPc = "ready"
  /\ taken = << >>
  /\ marks = << >>

-----------------------------------------------------------------------------
(* Faulty variants, one plausible mistake each.                            *)

\* emit_watermark() without the test against the last watermark.
EmitsAlways == maxTs >= Lateness

\* emit_watermark() without the test against the lateness.
EmitsUnguarded == ~ wmEmitted \/ maxTs - Lateness > lastWm

\* Whether emit_watermark() sends one.
EmitsWatermark ==
  /\ maxTs >= Lateness
  /\ ~ wmEmitted \/ maxTs - Lateness > lastWm

\* The watermark without the allowed lateness.
SendTooHigh ==
  /\ lastWm' = maxTs
  /\ wmEmitted' = TRUE
  /\ marks' = Append(marks, [ts |-> lastWm', after |-> Len(taken)])

\* emit_watermark(), when it sends one.
Send ==
  /\ lastWm' = maxTs - Lateness
  /\ wmEmitted' = TRUE
  /\ marks' = Append(marks, [ts |-> lastWm', after |-> Len(taken)])

\* emit_watermark().
EmitWatermark ==
  \/ EmitsWatermark /\ Send
  \/ ~ EmitsWatermark /\ UNCHANGED <<lastWm, wmEmitted, marks>>

\* execute(), first part: the event is taken and sent downstream.  The
\* operator itself does not look at done_.
TakeEvent(t) ==
  /\ srcPc = "ready"
  /\ Len(taken) < MaxEvents
  /\ maxTs' = IF maxTs < t THEN t ELSE maxTs
  /\ taken' = Append(taken, t)
  /\ srcPc' = "forwarded"
  /\ UNCHANGED <<done, since, lastWm, wmEmitted, marks>>

\* Whether the event just sent completes an interval.
IntervalReached == since + 1 >= Interval

\* execute(), second part, between two watermarks.
CountEvent ==
  /\ srcPc = "forwarded"
  /\ ~ IntervalReached
  /\ since' = since + 1
  /\ srcPc' = "ready"
  /\ UNCHANGED <<done, maxTs, lastWm, wmEmitted, taken, marks>>

\* execute(), second part, at the end of an interval.
EndInterval ==
  /\ srcPc = "forwarded"
  /\ IntervalReached
  /\ EmitWatermark
  /\ since' = 0
  /\ srcPc' = "ready"
  /\ UNCHANGED <<done, maxTs, taken>>

\* execute() when the function returns nullopt.
EndOfStream ==
  /\ srcPc = "ready"
  /\ done' = TRUE
  /\ UNCHANGED <<maxTs, since, lastWm, wmEmitted, srcPc, taken, marks>>

\* close() that sends nothing.
CloseSourceSilently ==
  /\ srcPc = "ready"
  /\ srcPc' = "closed"
  /\ UNCHANGED <<done, maxTs, since, lastWm, wmEmitted, taken, marks>>

\* close(), after the end of the stream or after a stop.
CloseSource ==
  /\ srcPc = "ready"
  /\ IF since > 0 THEN EmitWatermark ELSE UNCHANGED <<lastWm, wmEmitted, marks>>
  /\ srcPc' = "closed"
  /\ UNCHANGED <<done, maxTs, since, taken>>

\* After close() the operator is called no more.
SrcTerminated == srcPc = "closed" /\ UNCHANGED srcVars

SrcNext ==
  \/ \E t \in 0..MaxTs : TakeEvent(t)
  \/ CountEvent
  \/ EndInterval
  \/ EndOfStream
  \/ CloseSource
  \/ SrcTerminated

SrcSpec == SrcInit /\ [][SrcNext]_srcVars

-----------------------------------------------------------------------------
\* Type correctness: in particular the subtraction of the lateness never
\* runs below zero, where a u64 would wrap to a watermark in the far future.
SrcTypeOK ==
  /\ done \in BOOLEAN /\ wmEmitted \in BOOLEAN
  /\ maxTs \in 0..MaxTs /\ lastWm \in 0..MaxTs
  /\ since \in 0..MaxEvents
  /\ srcPc \in {"ready", "forwarded", "closed"}
  /\ taken \in Seq(0..MaxTs) /\ Len(taken) <= MaxEvents
  /\ marks \in Seq([ts : 0..MaxTs, after : 0..MaxEvents])

\* The watermarks sent are strictly increasing, however disordered the
\* events are.
WatermarksIncrease ==
  \A k, l \in 1..Len(marks) : k < l => marks[k].ts < marks[l].ts

\* A watermark is a promise about the past it was computed from: it trails
\* the latest event sent before it by exactly the allowed lateness, so an
\* event that is late by no more than that is never behind it.
WatermarkTrails ==
  \A k \in 1..Len(marks) :
    /\ \A i \in 1..marks[k].after : taken[i] <= marks[k].ts + Lateness
    /\ \E i \in 1..marks[k].after : taken[i] = marks[k].ts + Lateness

\* Watermarks are not held back: between two calls, every event but those of
\* the unfinished interval is reflected in the last watermark, an interval
\* is never longer than Interval, and after close() no event is left out.
Reflected(i) ==
  taken[i] >= Lateness => wmEmitted /\ taken[i] - Lateness <= lastWm

WatermarkFresh ==
  /\ srcPc = "ready" =>
       /\ since = 0 \/ since < Interval
       /\ \A i \in 1..Len(taken) - since : Reflected(i)
  /\ srcPc = "closed" => \A i \in 1..Len(taken) : Reflected(i)
=============================================================================
