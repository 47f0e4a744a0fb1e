--------------------------- MODULE MCConnectivity ---------------------------
(* A node with a private interface address and two observers that see      *)
(* different mappings of it; a peer whose two host candidates share        *)
(* an address and differ in the port, one of them dead, and whose          *)
(* datagrams may come from a third.                                        *)
EXTENDS Connectivity

CONSTANTS lan, map1, map2, dead, live, other, loop

Ips == [a \in Addr |-> IF a \in {dead, live} THEN "peer" ELSE a]

Mappings == <<map1, map2>>

Wire(id, type, addr) == [id |-> id, type |-> type, addr |-> addr]

PeerOffers ==
    { <<Wire(1, "host", dead), Wire(2, "host", live)>>,
      <<Wire(1, "host", loop), Wire(2, "relay", live)>>,
      <<Wire(1, "srflx", live), Wire(2, "srflx", other)>> }

(* What reaches the peer at live may be answered from elsewhere.           *)
PeerSources == [a \in PeerAddr |-> IF a = live THEN {live, other} ELSE {a}]
=============================================================================
