------------------------------- MODULE Stream -------------------------------
(***************************************************************************)
(* What the modules about one stream of events share: the range of event   *)
(* times and the bound on the number of events.                            *)
(***************************************************************************)
EXTENDS Integers

CONSTANTS
  MaxTs,      \* the latest event time
  MaxEvents   \* bound of the model: how many events the stream has

ASSUME StreamAssumption == MaxTs \in Nat /\ MaxEvents \in Nat
=============================================================================
