----------------------------- MODULE TimeWindow -----------------------------
(***************************************************************************)
(* TimeWindowPhysicalOperator (src/operators/physical/                     *)
(* time_window_physical_operator.h): events go into an EventBuffer; a      *)
(* watermark fires, in order, every window [end - Size, end) whose end it  *)
(* has reached; close() flushes what is left.  The ends of the windows are *)
(* the multiples of Advance.                                               *)
(*                                                                         *)
(* The two loops of the operator, in on_watermark() and in close(), take   *)
(* one step per iteration, so that a loop that never ends is a behaviour   *)
(* of the model.  next_window_end_ is a u64 and wraps at MaxU64.           *)
(***************************************************************************)
EXTENDS EventBufferOps, Stream

CONSTANTS
  Size,       \* spec_.size: the length of a window
  Advance,    \* spec_.advance: the distance between two window ends
  MaxU64      \* the largest value of a u64

\* WindowSpec does not rule out Advance = 0 (window_spec.h); with it both
\* loops run forever, so it is a precondition of everything shown here.
ASSUME WindowAssumption ==
  /\ Size \in Nat /\ Advance \in Nat \ {0}
  /\ MaxU64 \in Nat /\ MaxTs <= MaxU64
  /\ Size <= MaxU64 /\ Advance <= MaxU64

VARIABLES
  buffer,       \* buffer_
  nextEnd,      \* next_window_end_
  initialized,  \* window_initialized_
  pc,           \* where the operator's thread is: between two calls
                \* ("idle"), in the loop of on_watermark ("firing") or of
                \* close ("flushing"), or done ("closed")
  wm,           \* the argument of the last on_watermark
  out,          \* the windows handed to emit() so far, in order
  received      \* history: each event's time, and the first window still
                \* to be fired ("due") when it had arrived

vars == <<buffer, nextEnd, initialized, pc, wm, out, received>>

Time == 0..MaxU64
Event == [id : 1..MaxEvents, ts : 0..MaxTs]
Window == [start : Time, end : Time, events : Seq(Event)]

-----------------------------------------------------------------------------
\* u64 addition.
Plus(a, b) == (a + b) % (MaxU64 + 1)

(* Faulty variants, one plausible mistake each.                            *)

\* The subtraction without its guard.
StartUnguarded(end) == end - Size

-----------------------------------------------------------------------------
\* The start of the window that ends at end; also the time before which
\* events are of no more use once that window is the next to fire.
StartOf(end) == IF end > Size THEN end - Size ELSE 0

Init ==
  /\ buffer = << >>
  /\ nextEnd = 0
  /\ initialized = FALSE
  /\ pc = "idle"
  /\ wm = 0
  /\ out = << >>
  /\ received = << >>

\* The arrival number stands for the payload of the event.
NewEvent(t) == [id |-> Len(received) + 1, ts |-> t]

\* The window grid restarted by every event.
ReceiveEventReset(t) ==
  /\ pc = "idle"
  /\ Len(received) < MaxEvents
  /\ buffer' = Inserted(buffer, NewEvent(t))
  /\ initialized' = TRUE
  /\ nextEnd' = Advance
  /\ received' = Append(received, [ts |-> t, due |-> nextEnd'])
  /\ UNCHANGED <<pc, wm, out>>

\* execute() on an event.
ReceiveEvent(t) ==
  /\ pc = "idle"
  /\ Len(received) < MaxEvents
  /\ buffer' = Inserted(buffer, NewEvent(t))
  /\ initialized' = TRUE
  /\ nextEnd' = IF initialized THEN nextEnd ELSE Advance
  /\ received' = Append(received, [ts |-> t, due |-> nextEnd'])
  /\ UNCHANGED <<pc, wm, out>>

\* execute() on a watermark: ignored before the first event.
ReceiveWatermark(w) ==
  /\ pc = "idle"
  /\ initialized
  /\ wm' = w
  /\ pc' = "firing"
  /\ UNCHANGED <<buffer, nextEnd, initialized, out, received>>

\* func_ and emit(), for a window that holds an event.
Emit(start, end) ==
  LET events == Queried(buffer, start, end)
  IN  out' = IF events = << >> THEN out
             ELSE Append(out, [start |-> start, end |-> end, events |-> events])

\* One iteration of the loop of on_watermark.
FireWindow ==
  /\ pc = "firing"
  /\ nextEnd <= wm
  /\ Emit(StartOf(nextEnd), nextEnd)
  /\ nextEnd' = Plus(nextEnd, Advance)
  /\ UNCHANGED <<buffer, initialized, pc, wm, received>>

\* The end of on_watermark, cleaning up too far: the events of the windows
\* that overlap the fired ones are gone.
FinishWatermarkGreedy ==
  /\ pc = "firing"
  /\ nextEnd > wm
  /\ buffer' = CleanedBefore(buffer, nextEnd)
  /\ pc' = "idle"
  /\ UNCHANGED <<nextEnd, initialized, wm, out, received>>

\* The end of on_watermark.
FinishWatermark ==
  /\ pc = "firing"
  /\ nextEnd > wm
  /\ buffer' = CleanedBefore(buffer, StartOf(nextEnd))
  /\ pc' = "idle"
  /\ UNCHANGED <<nextEnd, initialized, wm, out, received>>

\* close() is entered.
Close ==
  /\ pc = "idle"
  /\ pc' = "flushing"
  /\ UNCHANGED <<buffer, nextEnd, initialized, wm, out, received>>

\* One iteration of the loop of close() that only goes on to the next window
\* when this one held an event.
FlushWindowStuck ==
  /\ pc = "flushing"
  /\ initialized
  /\ buffer # << >>
  /\ Emit(StartOf(nextEnd), nextEnd)
  /\ nextEnd' = IF Queried(buffer, StartOf(nextEnd), nextEnd) = << >>
                THEN nextEnd ELSE Plus(nextEnd, Advance)
  /\ buffer' = CleanedBefore(buffer, StartOf(nextEnd'))
  /\ UNCHANGED <<initialized, pc, wm, received>>

\* One iteration of the loop of close().
FlushWindow ==
  /\ pc = "flushing"
  /\ initialized
  /\ buffer # << >>
  /\ Emit(StartOf(nextEnd), nextEnd)
  /\ nextEnd' = Plus(nextEnd, Advance)
  /\ buffer' = CleanedBefore(buffer, StartOf(nextEnd'))
  /\ UNCHANGED <<initialized, pc, wm, received>>

\* close() that flushes one window only: an "if" in place of the "while".
FinishCloseEarly ==
  /\ pc = "flushing"
  /\ pc' = "closed"
  /\ UNCHANGED <<buffer, nextEnd, initialized, wm, out, received>>

\* The end of close(); the output channel, if any, is closed here.
FinishClose ==
  /\ pc = "flushing"
  /\ ~ initialized \/ buffer = << >>
  /\ pc' = "closed"
  /\ UNCHANGED <<buffer, nextEnd, initialized, wm, out, received>>

\* After close() the operator is called no more.
Terminated == pc = "closed" /\ UNCHANGED vars

Loop == FireWindow \/ FinishWatermark \/ FlushWindow \/ FinishClose

Next ==
  \/ \E t \in 0..MaxTs : ReceiveEvent(t) \/ ReceiveWatermark(t)
  \/ Close
  \/ Loop
  \/ Terminated

Spec == Init /\ [][Next]_vars

\* The thread that entered a loop keeps running it.
FairSpec == Spec /\ WF_vars(Loop)

-----------------------------------------------------------------------------
\* The sum of the largest values next_window_end_ is computed from stays in
\* the range of a u64: a condition on the data the properties below need,
\* and which the code does not check (see the run time_window_wrap).
NoOverflow == MaxTs + Size + 2 * Advance <= MaxU64

\* Type correctness: every stored time is a u64 and the buffer and the
\* emitted windows hold received events.
TypeOK ==
  /\ buffer \in Seq(Event)
  /\ nextEnd \in Time
  /\ initialized \in BOOLEAN
  /\ pc \in {"idle", "firing", "flushing", "closed"}
  /\ wm \in 0..MaxTs
  /\ out \in Seq(Window)
  /\ received \in Seq([ts : 0..MaxTs, due : Time])
  /\ Len(received) <= MaxEvents

\* The events that belong to the window [start, end): those in its range
\* that had arrived when it fired.
Belonging(start, end) ==
  {[id |-> i, ts |-> received[i].ts] :
     i \in {j \in DOMAIN received : /\ start <= received[j].ts
                                    /\ received[j].ts < end
                                    /\ received[j].due <= end}}

\* Every emitted window holds exactly the events in its range that had
\* arrived by the time it fired, in time order: no clean-up (of an earlier
\* window, by a watermark or by close) ever took an event away from a later
\* window that overlaps it.  func_ is never applied to an empty window.
WindowsExact ==
  \A k \in 1..Len(out) :
    /\ IsListing(out[k].events, Belonging(out[k].start, out[k].end))
    /\ out[k].events # << >>

\* Windows come out one after the other in time, each end once: neither a
\* repeated or decreasing watermark nor the flush emits a window again.
WindowsInOrder ==
  \A k, l \in 1..Len(out) : k < l => out[k].end < out[l].end

\* The ends of the windows an event falls into, on the grid of the operator.
EndsCovering(t) == {end \in t + 1..t + Size : end % Advance = 0}

\* The windows of a whole stream, given by the times of its events in the
\* order of their arrival, computed at once.
Times(s) == [i \in DOMAIN s |-> s[i].ts]

BatchEvents(times, end) ==
  {[id |-> i, ts |-> times[i]] :
     i \in {j \in DOMAIN times : StartOf(end) <= times[j] /\ times[j] < end}}

BatchWindow(times, end) ==
  [start |-> StartOf(end), end |-> end,
   events |-> Sorted(BatchEvents(times, end), Precedes)]

BatchEnds(times) == UNION {EndsCovering(times[i]) : i \in DOMAIN times}

BatchOf(times) ==
  LET ends == Ascending(BatchEnds(times))
  IN  [k \in DOMAIN ends |-> BatchWindow(times, ends[k])]

\* No window is skipped: an event is emitted in each window that covers it
\* and was not yet due when it arrived, as soon as the operator is past the
\* end of the window, and in all of them once it is closed.
NoWindowSkipped ==
  \A i \in DOMAIN received : \A end \in EndsCovering(received[i].ts) :
    (received[i].due <= end /\ (end < nextEnd \/ pc = "closed")) =>
      \E k \in 1..Len(out) :
        out[k].end = end /\ [id |-> i, ts |-> received[i].ts] \in ToSet(out[k].events)

\* Every call returns: the loops of on_watermark and close end, which is what
\* "advance past any remaining events to avoid infinite loop" in close()
\* stands for.
CallsReturn == (pc \in {"firing", "flushing"}) ~> (pc \in {"idle", "closed"})

\* Why the loops end: every step of a call ends it or moves the next end up by
\* a whole advance, within a bound that no watermark and no event raises;
\* in particular it never wraps, which is what "guard against overflow" in
\* the loop of on_watermark stands for.
StepProgresses ==
  pc \in {"firing", "flushing"} =>
    \/ pc' \in {"idle", "closed"}
    \/ nextEnd' = nextEnd + Advance /\ nextEnd' <= MaxTs + Size + 2 * Advance

LoopsProgress == [][StepProgresses]_vars
=============================================================================
