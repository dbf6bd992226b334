------------------------- MODULE MCNodeSupervisor -------------------------
(***************************************************************************)
(* Instances of NodeSupervisor for TLC.                                    *)
(***************************************************************************)
EXTENDS NodeSupervisor, TLC

CONSTANTS i1, i2, o1, o2, o3, p1, p2
=============================================================================
