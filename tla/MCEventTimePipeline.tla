------------------------ MODULE MCEventTimePipeline ------------------------
(* Sliding windows, one unit of allowed lateness, a watermark every second *)
(* event: late, on-time and dropped events around every watermark.         *)
EXTENDS EventTimePipeline

ASSUME MCNoOverflow == NoOverflow
=============================================================================
