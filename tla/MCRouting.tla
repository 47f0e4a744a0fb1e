----------------------------- MODULE MCRouting -----------------------------
(* Routing on one node with two peers.                                     *)
EXTENDS Routing

AllAllowed == Peer \X Prefix
=============================================================================
