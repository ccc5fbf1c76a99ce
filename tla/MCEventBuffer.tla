--------------------------- MODULE MCEventBuffer ---------------------------
(* Four events over three timestamps: every pattern of ties and disorder.  *)
EXTENDS EventBuffer

MCMaxTs == 2
MCMaxEvents == 4
=============================================================================
