------------------------------- MODULE Policy -------------------------------
(***************************************************************************)
(* Local authorization: what the operator's configuration permits a peer   *)
(* (internal/policy) and which peers the service holds sessions with       *)
(* (cmd/nostmesh/session.go).  A configuration is a record: grants, each   *)
(* for one peer; groups, in the order that is their precedence; and base,  *)
(* the listen port that peers' ports are derived from.                     *)
(***************************************************************************)
EXTENDS Naturals, Sequences

CONSTANTS
    Peer,    \* identities
    Prefix,  \* what a tunnel may carry
    None     \* no grant, no claim, no session, no interface

Action == {"session", "route", "transit"}

(* Allowlist.Add refuses a grant without actions.                          *)
Grant == [actions : SUBSET Action \ {{}}, ips : SUBSET Prefix, revoked : BOOLEAN]
Group == [members : SUBSET Peer, actions : SUBSET Action, ips : SUBSET Prefix]

IsConfig(c) ==
    /\ DOMAIN c = {"grants", "groups", "base"}
    /\ c.grants \in [Peer -> Grant \cup {None}]
    /\ c.groups \in Seq(Group)
    /\ c.base \in Nat

Deny(reason)        == [outcome |-> "deny", reason |-> reason, ips |-> {}]
Allow(reason, ips)  == [outcome |-> "allow", reason |-> reason, ips |-> ips]

DecideFromRule(rule, action, reason) ==
    CASE action \notin rule.actions -> Deny("action_not_permitted")
      [] action \in rule.actions /\ rule.ips = {} /\ action = "session" -> Deny("nothing_routed")
      [] OTHER -> Allow(reason, rule.ips)

DecideFromGrant(grant, action) ==
    IF grant.revoked THEN Deny("revoked")
    ELSE DecideFromRule(grant, action, "allowed_by_rule")

DecideFromGroup(group, action) == DecideFromRule(group, action, "allowed_by_group")

(* The groups that name a peer, the first of which answers for it.         *)
Naming(c, peer) == SelectSeq(c.groups, LAMBDA g : peer \in g.members)

(* Allowlist.Decide: a rule for the peer comes before any group's, be it   *)
(* wider or narrower.                                                      *)
Decide(c, peer, action) ==
    CASE c.grants[peer] # None -> DecideFromGrant(c.grants[peer], action)
      [] c.grants[peer] = None /\ Naming(c, peer) # <<>> ->
            DecideFromGroup(Head(Naming(c, peer)), action)
      [] OTHER -> Deny("no_rule")

Allowed(decision) == decision.outcome = "allow"

(* Allowlist.Check, which the driver asks: it knows of grants only.        *)
Check(c, peer, action) ==
    c.grants[peer] # None /\ ~c.grants[peer].revoked /\ action \in c.grants[peer].actions

(* sessionPeers, which the service asks.                                   *)
SessionPeers(c) == {p \in Peer : Allowed(Decide(c, p, "session"))}
=============================================================================
