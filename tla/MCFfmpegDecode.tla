--------------------------- MODULE MCFfmpegDecode ---------------------------
(***************************************************************************)
(* Instances of FfmpegDecode for TLC.                                      *)
(***************************************************************************)
EXTENDS FfmpegDecode, TLC

CONSTANTS w1, w2, A, B
=============================================================================
