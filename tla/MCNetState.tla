---------------------------- MODULE MCNetState ----------------------------
(* NetState on small hosts.                                                *)
EXTENDS NetState, TLC

TxSymmetry == Permutations(Tx) \cup Permutations(Peer)
=============================================================================
