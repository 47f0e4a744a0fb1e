------------------------------ MODULE MCRelays ------------------------------
(* Two relays, of which one does not push.                                 *)
EXTENDS Relays

(* Each event has a position of its own.                                   *)
Positions == [e \in Event |-> e]
=============================================================================
