---------------------------- MODULE CountWindow ----------------------------
(***************************************************************************)
(* CountWindowPhysicalOperator (src/operators/physical/                    *)
(* count_window_physical_operator.h): events are collected until there are *)
(* Size of them, handed to the window function, and the oldest Advance of  *)
(* them are dropped.  close() sends what is left as a last, shorter window *)
(* if the operator ends its pipeline, that is, if it has an output         *)
(* channel.  Events are numbered by arrival.                               *)
(***************************************************************************)
EXTENDS Integers, Sequences

CONSTANTS
  MaxSpec,     \* the largest size and advance of a window
  MaxEvents    \* bound of the model: how many events arrive

ASSUME CountWindowAssumption == MaxSpec \in Nat \ {0} /\ MaxEvents \in Nat

VARIABLES
  spec,         \* spec_, and whether output_channel_ is set
  buffer,       \* buffer_
  out,          \* the windows sent, in order: the vectors given to func_
  closed,       \* whether close() was called; it closes the output channel
  arrived       \* history: how many events arrived

vars == <<spec, buffer, out, closed, arrived>>

Size == spec.size
Advance == spec.advance
HasChannel == spec.channel

\* Any window specification; WindowSpec does not rule out zeros, with which
\* the operator would never slide or never fire.
Specs == [size : 1..MaxSpec, advance : 1..MaxSpec, channel : BOOLEAN]

Init ==
  /\ spec \in Specs
  /\ buffer = << >> /\ out = << >> /\ closed = FALSE /\ arrived = 0

-----------------------------------------------------------------------------
\* A slide that drops one event too many.
SlideOneMore(s) ==
  IF Advance >= Len(s) THEN << >> ELSE SubSeq(s, Advance + 2, Len(s))

\* A slide that always empties the buffer.
SlideAll(s) == << >>

\* The end of fire_and_slide(): what stays of a full buffer.
Slide(s) ==
  IF Advance >= Len(s) THEN << >> ELSE SubSeq(s, Advance + 1, Len(s))

\* execute() on an event that does not complete a window.
Collect ==
  /\ ~ closed /\ arrived < MaxEvents
  /\ Len(buffer) + 1 # Size
  /\ arrived' = arrived + 1
  /\ buffer' = Append(buffer, arrived + 1)
  /\ UNCHANGED <<spec, out, closed>>

\* execute() on an event that completes one, with no slide at the end.
FireNoSlide ==
  /\ ~ closed /\ arrived < MaxEvents
  /\ Len(buffer) + 1 = Size
  /\ arrived' = arrived + 1
  /\ buffer' = Append(buffer, arrived + 1)
  /\ out' = Append(out, buffer')
  /\ UNCHANGED <<spec, closed>>

\* execute() on an event that completes one.
Fire ==
  /\ ~ closed /\ arrived < MaxEvents
  /\ Len(buffer) + 1 = Size
  /\ arrived' = arrived + 1
  /\ LET window == Append(buffer, arrived + 1)
     IN  /\ out' = Append(out, window)
         /\ buffer' = Slide(window)
  /\ UNCHANGED <<spec, closed>>

\* close() that forgets the events of the unfinished window.
CloseDropping ==
  /\ ~ closed
  /\ closed' = TRUE
  /\ UNCHANGED <<spec, buffer, out, arrived>>

\* close(); the buffer itself is left as it is.
Close ==
  /\ ~ closed
  /\ out' = IF HasChannel /\ buffer # << >> THEN Append(out, buffer) ELSE out
  /\ closed' = TRUE
  /\ UNCHANGED <<spec, buffer, arrived>>

Terminated == closed /\ UNCHANGED vars

Next == Collect \/ Fire \/ Close \/ Terminated

Spec == Init /\ [][Next]_vars

-----------------------------------------------------------------------------
\* Type correctness: between two calls the buffer is short of a window.
TypeOK ==
  /\ spec \in Specs
  /\ buffer \in Seq(1..MaxEvents) /\ Len(buffer) < Size
  /\ out \in Seq(Seq(1..MaxEvents))
  /\ closed \in BOOLEAN
  /\ arrived \in 0..MaxEvents

\* The distance between the starts of two windows.  An advance beyond the
\* size does not skip events: fire_and_slide() clears the buffer and the
\* next event starts a window.
Stride == IF Advance < Size THEN Advance ELSE Size

\* The events number from .. to, in order.
Run(from, to) == [i \in 1..to - from + 1 |-> from + i - 1]

\* However the stream is cut by calls, the windows are the ones of a batch
\* computation: the k-th starts Stride events after the one before it and
\* holds Size consecutive events, or fewer if it is the last one, sent by
\* close().
WindowsAreSlices ==
  \A k \in 1..Len(out) :
    LET start == (k - 1) * Stride + 1
    IN  \/ out[k] = Run(start, start + Size - 1)
        \/ closed /\ HasChannel /\ k = Len(out) /\ out[k] = Run(start, arrived)

\* No window is held back: each comes out with the event that completes it.
NoWindowHeldBack ==
  \A k \in 1..MaxEvents :
    (k - 1) * Stride + Size <= arrived => k <= Len(out)

\* No event is lost: every event has been in a window or waits for one, and
\* with an output channel all of them were in a window after close().
Emitted == UNION {{out[k][i] : i \in 1..Len(out[k])} : k \in 1..Len(out)}
Pending == {buffer[i] : i \in 1..Len(buffer)}

NoEventLost ==
  /\ 1..arrived = Emitted \cup Pending
  /\ closed /\ HasChannel => Emitted = 1..arrived
=============================================================================
