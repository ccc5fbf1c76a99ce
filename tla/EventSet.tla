------------------------------ MODULE EventSet ------------------------------
(***************************************************************************)
(* What EventBuffer promises: a set of timestamped events that can be      *)
(* added to, read or drained by half-open time range, and cut off below a  *)
(* time.  The answer to a range operation lists exactly the events of the  *)
(* range in the buffer's order.  There are no positions and no searches.   *)
(***************************************************************************)
EXTENDS EventBufferOps

CONSTANTS
  MaxTs,      \* the latest event time
  MaxEvents   \* bound of the model: how many events arrive

VARIABLES
  contents,   \* the set of events held
  arrived,    \* how many events arrived so far
  answer      \* what the last range operation returned

vars == <<contents, arrived, answer>>

Init == contents = {} /\ arrived = 0 /\ answer = << >>

Insert ==
  \E t \in 0..MaxTs :
    /\ arrived < MaxEvents
    /\ arrived' = arrived + 1
    /\ contents' = contents \cup {[id |-> arrived + 1, ts |-> t]}
    /\ answer' = << >>

Query ==
  \E start \in 0..MaxTs + 1 : \E end \in start..MaxTs + 1 :
    /\ IsListing(answer', InRange(contents, start, end))
    /\ UNCHANGED <<contents, arrived>>

Extract ==
  \E start \in 0..MaxTs + 1 : \E end \in start..MaxTs + 1 :
    /\ IsListing(answer', InRange(contents, start, end))
    /\ contents' = contents \ InRange(contents, start, end)
    /\ UNCHANGED arrived

CleanupBefore ==
  \E t \in 0..MaxTs + 1 :
    /\ contents' = {e \in contents : e.ts >= t}
    /\ answer' = << >>
    /\ UNCHANGED arrived

Next == Insert \/ Query \/ Extract \/ CleanupBefore

Spec == Init /\ [][Next]_vars
=============================================================================
