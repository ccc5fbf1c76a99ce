---------------------------- MODULE MCSlotEngine ----------------------------
(* Pipelines connected by channels, as ExecutionGraph::build cuts a graph. *)
EXTENDS SlotEngine, TLC

\* A chain of three pipelines.
Chain == 1 :> 2 @@ 2 :> 3 @@ 3 :> 0

\* A pipeline on its own.
Single == 1 :> 0
=============================================================================
