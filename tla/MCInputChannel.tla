--------------------------- MODULE MCInputChannel ---------------------------
(* Two readers compete, so that notify_one and notify_all differ; the one- *)
(* reader use of the repository is the case where one of them stays out.   *)
EXTENDS InputChannel, TLC

CONSTANTS r1, r2, w, free

MCReaders == {r1, r2}
=============================================================================
