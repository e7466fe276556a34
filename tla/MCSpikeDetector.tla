--------------------------- MODULE MCSpikeDetector ---------------------------
(***************************************************************************)
(* Two pages of which one may be hot, one worker.                          *)
(***************************************************************************)
EXTENDS SpikeDetector
=============================================================================
