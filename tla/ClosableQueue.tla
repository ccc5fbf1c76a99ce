--------------------------- MODULE ClosableQueue ---------------------------
(***************************************************************************)
(* What an InputChannel promises its two sides: a first-in first-out queue *)
(* that can be closed.  Every element put is taken by one reader, in the   *)
(* order of the puts, and a reader is told that the stream has ended only  *)
(* when the queue is closed and everything in it has been taken.           *)
(* Elements are numbered in the order in which they are put.               *)
(***************************************************************************)
EXTENDS Integers, Sequences

CONSTANTS
  Readers,    \* the threads that take elements
  MaxWrites   \* bound of the model: how many elements are put

VARIABLES
  contents,   \* the elements put and not yet taken, oldest first
  shut,       \* whether the queue has been closed
  delivered,  \* the elements taken so far, in order
  told        \* the readers that were told of the end

vars == <<contents, shut, delivered, told>>

Init == contents = << >> /\ shut = FALSE /\ delivered = << >> /\ told = {}

Put ==
  /\ ~ shut
  /\ Len(delivered) + Len(contents) < MaxWrites
  /\ contents' = Append(contents, Len(delivered) + Len(contents) + 1)
  /\ UNCHANGED <<shut, delivered, told>>

Take(r) ==
  /\ r \notin told
  /\ contents # << >>
  /\ delivered' = Append(delivered, Head(contents))
  /\ contents' = Tail(contents)
  /\ UNCHANGED <<shut, told>>

Shut ==
  /\ ~ shut
  /\ shut' = TRUE
  /\ UNCHANGED <<contents, delivered, told>>

TellEnd(r) ==
  /\ shut /\ contents = << >>
  /\ told' = told \cup {r}
  /\ UNCHANGED <<contents, shut, delivered>>

Next == Put \/ Shut \/ \E r \in Readers : Take(r) \/ TellEnd(r)

Spec == Init /\ [][Next]_vars
=============================================================================
