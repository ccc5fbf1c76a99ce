--------------------------- MODULE EventBufferOps ---------------------------
(***************************************************************************)
(* The operations of EventBuffer (src/runtime/event_buffer.h) as operators *)
(* on the vector events_.  An event is a record with its event time "ts"   *)
(* and its arrival number "id", which stands for the payload: two events   *)
(* of one stream never have the same id.                                   *)
(*                                                                         *)
(* Every operation locates its positions with std::ranges::lower_bound on  *)
(* the timestamps.  On a sorted vector that is the first position whose    *)
(* element is not less than the key; LowerBound below is defined this way  *)
(* and the invariants of EventBuffer establish that the vector is sorted   *)
(* whenever it is called.                                                  *)
(***************************************************************************)
EXTENDS Integers, Sequences, FiniteSetsExt, SequencesExt, Sorting

-----------------------------------------------------------------------------
(* Faulty variants, one plausible mistake each; used only to show that the *)
(* properties notice it.                                                   *)

\* std::ranges::upper_bound in place of lower_bound.
UpperBound(s, t) ==
  Min({k \in 0..Len(s) : k = Len(s) \/ s[k + 1].ts > t})

-----------------------------------------------------------------------------
\* lower_bound: how many elements stand before the first one with ts >= t.
LowerBound(s, t) ==
  Min({k \in 0..Len(s) : k = Len(s) \/ s[k + 1].ts >= t})

\* The vector elements with positions lo+1 .. hi: the iterator range [lo, hi).
Slice(s, lo, hi) == SubSeq(s, lo + 1, hi)

\* A query that takes the end of its range for inclusive.
QueriedInclusive(s, start, end) ==
  Slice(s, LowerBound(s, start), LowerBound(s, end + 1))

\* An erase with the two iterators exchanged: the range is kept twice.
ExtractedSwapped(s, start, end) ==
  Slice(s, 0, LowerBound(s, end)) \o Slice(s, LowerBound(s, start), Len(s))

-----------------------------------------------------------------------------
\* insert: in front of the first element that is not earlier, hence in
\* front of the events that arrived before with the same timestamp.
Inserted(s, e) == InsertAt(s, LowerBound(s, e.ts) + 1, e)

\* query: a copy of the events with start <= ts < end.
Queried(s, start, end) == Slice(s, LowerBound(s, start), LowerBound(s, end))

\* extract: what stays in the buffer (what it returns is Queried).
Extracted(s, start, end) ==
  Slice(s, 0, LowerBound(s, start)) \o Slice(s, LowerBound(s, end), Len(s))

\* cleanup_before: erases the events with ts < t.
CleanedBefore(s, t) == Slice(s, LowerBound(s, t), Len(s))

-----------------------------------------------------------------------------
\* The order the buffer keeps: by time and, within a timestamp, the latest
\* arrival first.
Precedes(e, f) == e.ts < f.ts \/ (e.ts = f.ts /\ e.id > f.id)

Ordered(s) == \A i, j \in 1..Len(s) : i < j => Precedes(s[i], s[j])

\* The weaker order lower_bound relies on.
SortedByTime(s) == \A i, j \in 1..Len(s) : i < j => s[i].ts <= s[j].ts

\* The events of a set with start <= ts < end.
InRange(S, start, end) == {e \in S : start <= e.ts /\ e.ts < end}

\* s lists the set S, each element once, in the buffer's order.
IsListing(s, S) == ToSet(s) = S /\ Ordered(s)
=============================================================================
