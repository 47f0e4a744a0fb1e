--------------------------- MODULE MCNegotiation ---------------------------
(* Negotiation between two nodes.                                          *)
EXTENDS Negotiation
=============================================================================
