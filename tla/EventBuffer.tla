---------------------------- MODULE EventBuffer ----------------------------
(***************************************************************************)
(* The class EventBuffer (src/runtime/event_buffer.h) under every sequence *)
(* of its calls.  Events arrive in any time order, ties included; range    *)
(* calls have start <= end, as every call site of the repository does.     *)
(***************************************************************************)
EXTENDS EventBufferOps

CONSTANTS
  MaxTs,      \* the latest event time
  MaxEvents   \* bound of the model: how many events are inserted

ASSUME EventBufferAssumption == MaxTs \in Nat /\ MaxEvents \in Nat

VARIABLES
  events,     \* events_, the vector
  arrived,    \* how many events were inserted (history)
  answer      \* the vector the last call returned, empty for void calls

vars == <<events, arrived, answer>>

Event == [id : 1..MaxEvents, ts : 0..MaxTs]

Init ==
  /\ events = << >>
  /\ arrived = 0
  /\ answer = << >>

Insert(t) ==
  /\ arrived < MaxEvents
  /\ events' = Inserted(events, [id |-> arrived + 1, ts |-> t])
  /\ arrived' = arrived + 1
  /\ answer' = << >>

Query(start, end) ==
  /\ answer' = Queried(events, start, end)
  /\ UNCHANGED <<events, arrived>>

Extract(start, end) ==
  /\ answer' = Queried(events, start, end)
  /\ events' = Extracted(events, start, end)
  /\ UNCHANGED arrived

CleanupBefore(t) ==
  /\ events' = CleanedBefore(events, t)
  /\ answer' = << >>
  /\ UNCHANGED arrived

Next ==
  \/ \E t \in 0..MaxTs : Insert(t)
  \/ \E start \in 0..MaxTs + 1 : \E end \in start..MaxTs + 1 :
       Query(start, end) \/ Extract(start, end)
  \/ \E t \in 0..MaxTs + 1 : CleanupBefore(t)

Spec == Init /\ [][Next]_vars

-----------------------------------------------------------------------------
\* Type correctness: the buffer and the answers hold events that arrived,
\* and the buffer never holds more of them than were inserted.
TypeOK ==
  /\ arrived \in 0..MaxEvents
  /\ events \in Seq(Event)
  /\ answer \in Seq(Event)
  /\ Len(events) <= arrived
  /\ \A i \in 1..Len(events) : events[i].id <= arrived

\* Whatever the calls, the vector stays sorted by time (the precondition of
\* every later binary search) and each insert lands before the earlier
\* arrivals with its timestamp, so ties come out latest arrival first.
AlwaysOrdered == Ordered(events)

\* The vector and its binary searches implement the set of EventSet: no
\* event is lost, kept twice or returned outside its range, and answers are
\* in order.
Abstract == INSTANCE EventSet WITH contents <- ToSet(events)
ImplementsEventSet == Abstract!Spec
=============================================================================
