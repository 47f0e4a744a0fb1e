------------------------------- MODULE Tunnel -------------------------------
(***************************************************************************)
(* What a session promises, without how it is negotiated: two nodes agree  *)
(* on a session and on each other's keys, each configures its host with    *)
(* what it agreed on, and an end takes the tunnel for established only     *)
(* when the other end has configured its side of the same session.  Keys   *)
(* serve one session.  Either end may leave at any time, and may leave an  *)
(* interface behind.  Module Negotiation implements this.                  *)
(***************************************************************************)
CONSTANTS Node, Id, None

VARIABLES
    end,   \* what each node has agreed on: the session, its key, its peer's
    host,  \* the keys of the interface on each host
    up,    \* the nodes whose tunnel is established
    made   \* history: every interface ever configured, with its session

vars == <<end, host, up, made>>

Agreement == [sess : Id, key : Id, peer : Id]

Init ==
    /\ end = [n \in Node |-> None] /\ host = [n \in Node |-> None]
    /\ up = {} /\ made = {}

Mirror(a) == [sess |-> a.sess, key |-> a.peer, peer |-> a.key]

(* A key that no interface was ever made with, and in one session two      *)
(* nodes name each other's.                                                *)
Agree(n) ==
    LET a == end'[n]
    IN  /\ end[n] = None /\ a \in Agreement
        /\ \A t \in made : t.key # a.key
        /\ \A p \in Node \ {n} : end[p] # None => (end[p].sess = a.sess => end[p] = Mirror(a))
        /\ end' = [end EXCEPT ![n] = a]
        /\ UNCHANGED <<host, up, made>>

Configure(n) ==
    /\ end[n] # None /\ n \notin up
    /\ host' = [host EXCEPT ![n] = [key |-> end[n].key, peer |-> end[n].peer]]
    /\ made' = made \cup {end[n]}
    /\ UNCHANGED <<end, up>>

Establish(n) ==
    /\ end[n] # None /\ n \notin up
    /\ end[n] \in made /\ Mirror(end[n]) \in made
    /\ up' = up \cup {n}
    /\ UNCHANGED <<end, host, made>>

(* The session is over for n, which takes its interface down or leaves it. *)
Leave(n) ==
    /\ end' = [end EXCEPT ![n] = None] /\ up' = up \ {n}
    /\ host' \in {host, [host EXCEPT ![n] = None]}
    /\ UNCHANGED made

Next == \E n \in Node : Agree(n) \/ Configure(n) \/ Establish(n) \/ Leave(n)

Spec == Init /\ [][Next]_vars
=============================================================================
