----------------------------- MODULE MCSessions -----------------------------
(* Sessions of one node with two peers.                                    *)
EXTENDS Sessions

CONSTANTS p1, p2

Granted == [actions |-> {"session"}, ips |-> Prefix, revoked |-> FALSE]
Revoked == [Granted EXCEPT !.revoked = TRUE]
Team    == [members |-> Peer, actions |-> {"session"}, ips |-> Prefix]

(* Both peers granted; or the first in a group only, the second in the     *)
(* group and revoked, and the base port where the first one's port is what *)
(* the second one's is otherwise.                                          *)
Configs == {
    [grants |-> [p \in Peer |-> Granted], groups |-> <<>>, base |-> 2],
    [grants |-> [p \in Peer |-> IF p = p1 THEN None ELSE Revoked], groups |-> <<Team>>, base |-> 1]}

Names   == [p \in Peer |-> p]
Offsets == [p \in Peer |-> IF p = p1 THEN 1 ELSE 0]
=============================================================================
