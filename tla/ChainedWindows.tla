--------------------------- MODULE ChainedWindows ---------------------------
(***************************************************************************)
(* Two pipelines that ExecutionGraph::build() makes of a source, a time    *)
(* window, a second time window and a sink: the first window sends its     *)
(* results to an InputChannel, and the second pipeline, on the thread of   *)
(* another slot, begins with a ChannelSource that reads them.  The channel *)
(* is the closable queue module InputChannel shows it to be: it holds what *)
(* the first window has emitted (out) and the second has not yet received, *)
(* and is closed when the first window is.                                 *)
(*                                                                         *)
(* A window does not pass watermarks on, and a channel carries events      *)
(* only: the second window fires nothing before close().                   *)
(***************************************************************************)
EXTENDS EventTimePipeline

CONSTANTS
  Size2,      \* spec_.size of the second window
  Advance2    \* spec_.advance of the second window

\* As WindowAssumption, for the second window.
ASSUME ChainAssumption ==
  /\ Size2 \in Nat /\ Advance2 \in Nat \ {0}
  /\ Size2 <= MaxU64 /\ Advance2 <= MaxU64

VARIABLES
  buffer2, nextEnd2, initialized2, pc2, wm2, out2, received2,
            \* the second window, as the variables of TimeWindow
  phase2,   \* where its pipeline's run() is: in its loop, before close(),
            \* or past the last call of close()
  stopped2  \* history: whether stop() ended that loop

\* An event is in at most Size windows.
Second == INSTANCE TimeWindow WITH
  Size <- Size2, Advance <- Advance2, MaxEvents <- MaxEvents * Size,
  buffer <- buffer2, nextEnd <- nextEnd2, initialized <- initialized2,
  pc <- pc2, wm <- wm2, out <- out2, received <- received2

windowVars2 == <<buffer2, nextEnd2, initialized2, pc2, wm2, out2, received2>>
secondVars == <<windowVars2, phase2, stopped2>>
chainVars == <<allVars, secondVars>>

ChainInit ==
  /\ PipelineInit /\ ~ counted
  /\ Second!Init
  /\ phase2 = "loop" /\ stopped2 = FALSE

-----------------------------------------------------------------------------
\* The time of the event the user's function makes of a window: that of the
\* last event, as in main.cpp.  (The function of time_window_test.cpp gives
\* every result the time 0; all that goes through a channel is then equally
\* old.)
Stamp(window) == Last(window.events).ts

\* The times of the events written to the channel so far.
Stamps(windows) == [k \in DOMAIN windows |-> Stamp(windows[k])]

\* The first pipeline, on its thread.
First == PipelineNext /\ pc # "closed" /\ UNCHANGED secondVars

\* A read() of the channel that leaves the event at its front.
ReadEventKeeping ==
  /\ phase2 = "loop" /\ pc2 = "idle"
  /\ out # << >>
  /\ Second!ReceiveEvent(Stamp(Head(out)))
  /\ UNCHANGED <<allVars, phase2, stopped2>>

\* ChannelSource::execute(), which hands the next event to the window.
ReadEvent ==
  /\ phase2 = "loop" /\ pc2 = "idle"
  /\ Len(received2) < Len(out)
  /\ Second!ReceiveEvent(Stamp(out[Len(received2) + 1]))
  /\ UNCHANGED <<allVars, phase2, stopped2>>

\* An end of the channel that is noticed when it is closed, not when it is
\* empty as well.
ReadEndEarly ==
  /\ phase2 = "loop" /\ pc2 = "idle"
  /\ pc = "closed"
  /\ phase2' = "closing"
  /\ UNCHANGED <<allVars, windowVars2, stopped2>>

\* ChannelSource::execute() when the channel is closed and empty.
ReadEnd ==
  /\ phase2 = "loop" /\ pc2 = "idle"
  /\ pc = "closed" /\ Len(received2) = Len(out)
  /\ phase2' = "closing"
  /\ UNCHANGED <<allVars, windowVars2, stopped2>>

\* The loop ends between two calls: SlotManager::stop_all() has joined the
\* first pipeline's thread before it stops the second.
Stopped ==
  /\ phase2 = "loop" /\ pc2 = "idle"
  /\ pc = "closed"
  /\ phase2' = "closing" /\ stopped2' = TRUE
  /\ UNCHANGED <<allVars, windowVars2>>

\* walk(close), at the second window.
CloseSecond ==
  /\ phase2 = "closing"
  /\ Second!Close
  /\ phase2' = "done"
  /\ UNCHANGED <<allVars, stopped2>>

\* The loop of its close().
FlushSecond == Second!Loop /\ UNCHANGED <<allVars, phase2, stopped2>>

ChainDone == pc = "closed" /\ pc2 = "closed" /\ UNCHANGED chainVars

ChainNext ==
  \/ First
  \/ ReadEvent \/ ReadEnd \/ Stopped \/ CloseSecond \/ FlushSecond
  \/ ChainDone

ChainSpec == ChainInit /\ [][ChainNext]_chainVars

-----------------------------------------------------------------------------
\* Type correctness of both pipelines.
ChainTypeOK ==
  /\ PipelineTypeOK /\ Second!TypeOK
  /\ phase2 \in {"loop", "closing", "done"} /\ stopped2 \in BOOLEAN
  /\ Len(received2) <= Len(out)

\* What goes through the channel is in time order, however late the events
\* of the stream were: the second window has no late events, and loses
\* nothing by getting no watermarks.
StampsInOrder ==
  \A k, l \in DOMAIN out : k < l => Stamp(out[k]) <= Stamp(out[l])

\* The windows that end no later than t, at their places in the sequence.
Until(windows, t) ==
  [k \in {j \in DOMAIN windows : windows[j].end <= t} |-> windows[k]]

\* A stop costs the second window no more than the end of its output: up to
\* the last time it has read, its windows are those of the whole stream of
\* results.
StopKeepsPrefix ==
  pc2 = "closed" /\ received2 # << >> =>
    Until(out2, Last(received2).ts)
      = Until(Second!BatchOf(Stamps(out)), Last(received2).ts)

\* Without a stop of the second pipeline, and with no event later than
\* allowed, the two pipelines together compute what two batch computations
\* in a row would.
TwoStageBatch ==
  (pc2 = "closed" /\ ~ stopped2 /\ \A i \in DOMAIN onTime : onTime[i]) =>
    out2 = Second!BatchOf(Stamps(BatchOf(Times(received))))
=============================================================================
