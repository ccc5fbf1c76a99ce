-------------------------- MODULE EventTimePipeline --------------------------
(***************************************************************************)
(* One pipeline Source -> Filter -> TimeWindow -> Sink run by one thread   *)
(* (src/engine/pipeline.h): run() executes the source until its stream     *)
(* ends or until another thread calls stop(), and run(count) a number of   *)
(* times, whatever the source says; then the operators are closed from the *)
(* root to the sink.  The filter                                           *)
(* (filter_physical_operator.h) drops any event and passes every           *)
(* watermark; the sink (sink_physical_operator.h) collects the windows     *)
(* (the variable out).  setup(), open() and terminate() do nothing in all  *)
(* of these operators.                                                     *)
(***************************************************************************)
EXTENDS TimeWindow, Source

VARIABLES
  counted, \* whether the pipeline runs in run(count)
  phase,   \* where run() is: in its loop, before Source::close(), before
           \* TimeWindow::close(), or past the last call of close()
  onTime   \* history, per event the window received: whether it trailed
           \* the latest event before it by no more than the allowed lateness

allVars == <<vars, srcVars, counted, phase, onTime>>

PipelineInit ==
  /\ Init /\ SrcInit
  /\ counted \in BOOLEAN
  /\ phase = "loop" /\ onTime = << >>

-----------------------------------------------------------------------------
\* Filter::execute() on an event that passes the predicate.
Forward(t) ==
  /\ ReceiveEvent(t)
  /\ onTime' = Append(onTime, t + Lateness >= maxTs)

\* Filter::execute() on an event that does not.
Drop == UNCHANGED <<vars, onTime>>

\* What downstream does with the watermark the source sends, if it sends
\* one: the window ignores watermarks before its first event.
PassWatermark ==
  IF marks' # marks /\ initialized
  THEN ReceiveWatermark(lastWm')
  ELSE UNCHANGED vars

\* The call made by the loop of run(), as long as what is downstream has
\* returned: the source takes an event.
RunEvent(t) ==
  /\ phase = "loop" /\ pc = "idle"
  /\ TakeEvent(t)
  /\ Forward(t) \/ Drop
  /\ UNCHANGED <<counted, phase>>

\* The rest of the call: the source counts the event and sends a watermark.
RunWatermark ==
  /\ phase = "loop" /\ pc = "idle"
  /\ CountEvent \/ EndInterval
  /\ PassWatermark
  /\ UNCHANGED <<counted, phase, onTime>>

\* The call that finds the end of the stream: run() leaves the loop,
\* run(count) goes on, and the function may be called again.
RunEnd ==
  /\ phase = "loop" /\ pc = "idle"
  /\ EndOfStream
  /\ phase' = IF counted THEN phase ELSE "closeSource"
  /\ UNCHANGED <<vars, counted, onTime>>

\* The loop ends between two calls: stop() has cleared running_, or the
\* calls of run(count), any number, have been made.
RunStopped ==
  /\ phase = "loop" /\ pc = "idle" /\ srcPc = "ready"
  /\ phase' = "closeSource"
  /\ UNCHANGED <<vars, srcVars, counted, onTime>>

\* walk(close), at the source.
WalkCloseSource ==
  /\ phase = "closeSource" /\ pc = "idle"
  /\ CloseSource
  /\ PassWatermark
  /\ phase' = "closeWindow"
  /\ UNCHANGED <<counted, onTime>>

\* walk(close), at the window; close() of the filter does nothing.
WalkCloseWindow ==
  /\ phase = "closeWindow"
  /\ Close
  /\ phase' = "done"
  /\ UNCHANGED <<srcVars, counted, onTime>>

\* The loops of the window operator, within one of the calls above.
RunWindow == Loop /\ UNCHANGED <<srcVars, counted, phase, onTime>>

RunDone == pc = "closed" /\ UNCHANGED allVars

Closing == WalkCloseSource \/ WalkCloseWindow \/ RunWindow

PipelineNext ==
  \/ \E t \in 0..MaxTs : RunEvent(t)
  \/ RunWatermark
  \/ RunEnd
  \/ RunStopped
  \/ Closing
  \/ RunDone

PipelineSpec == PipelineInit /\ [][PipelineNext]_allVars

-----------------------------------------------------------------------------
\* Type correctness of the composition.
PipelineTypeOK ==
  /\ TypeOK /\ SrcTypeOK
  /\ counted \in BOOLEAN
  /\ phase \in {"loop", "closeSource", "closeWindow", "done"}
  /\ onTime \in Seq(BOOLEAN) /\ Len(onTime) = Len(received)
  /\ Len(received) <= Len(taken)

\* The point of watermarks: an event that is late by no more than the
\* allowed lateness is in every window that covers it when the pipeline has
\* closed, wherever the watermarks fell and whether the stream ended or the
\* pipeline was stopped.
OnTimeComplete ==
  pc = "closed" =>
    \A i \in DOMAIN received : onTime[i] =>
      \A end \in EndsCovering(received[i].ts) :
        \E k \in 1..Len(out) :
          /\ out[k].end = end
          /\ [id |-> i, ts |-> received[i].ts] \in ToSet(out[k].events)

\* When no event is later than allowed, the stream of windows is the one a
\* batch computation over the events that passed the filter would give.
StreamingEqualsBatch ==
  (pc = "closed" /\ \A i \in DOMAIN onTime : onTime[i]) => out = BatchOf(Times(received))
=============================================================================
