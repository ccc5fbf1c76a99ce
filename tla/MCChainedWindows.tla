-------------------------- MODULE MCChainedWindows --------------------------
(* Sliding windows into a second sliding window.                           *)
EXTENDS ChainedWindows

ASSUME MCNoOverflow == NoOverflow /\ Second!NoOverflow
=============================================================================
