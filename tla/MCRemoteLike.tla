---------------------------- MODULE MCRemoteLike ----------------------------
(***************************************************************************)
(* Instances of RemoteLike for TLC.                                        *)
(***************************************************************************)
EXTENDS RemoteLike, TLC

CONSTANTS q1, q2, t1, t2
=============================================================================
