---------------------------- MODULE MCTimeWindow ----------------------------
(* Sliding windows, an event falls into one or two, on a stream whose      *)
(* times stay clear of the u64 range.                                      *)
EXTENDS TimeWindow

ASSUME MCNoOverflow == NoOverflow
=============================================================================
