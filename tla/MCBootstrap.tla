---------------------------- MODULE MCBootstrap ----------------------------
(***************************************************************************)
(* A small instance of Bootstrap for TLC: one bootstrap node under two     *)
(* addresses, one of which need not work, and a peer on the LAN.           *)
(***************************************************************************)
EXTENDS Bootstrap

CONSTANT b1

OneNode == [a \in Addrs |-> b1]
=============================================================================
