------------------------------- MODULE Routing -------------------------------
(***************************************************************************)
(* Announced routes on one node: the routing table all sessions share      *)
(* (internal/domain/routes.go), the router that admits offers to it        *)
(* (internal/policy/routing.go), the handler that applies its decisions to *)
(* the kernel (cmd/nostmesh/routes.go) and the part of each session's hold *)
(* loop that drives it (internal/orchestrator/driver.go).                  *)
(*                                                                         *)
(* A session has one peer and one interface, named by that peer.  The      *)
(* handler's lock covers a call into the router, not the kernel changes    *)
(* that follow it: those of two sessions interleave.                       *)
(***************************************************************************)
EXTENDS Naturals, FiniteSets

CONSTANTS
    Peer,        \* peers, as numbers: their public keys' order
    Prefix,      \* destinations, each inside what policy lets a tunnel carry
    Martian,     \* the ones that nothing could route
    Allowed,     \* the pairs <<peer, prefix>> that policy permits
    Metric,      \* metrics
    None,        \* no offer, no selection, no route
    Validity,    \* defaultAnnouncementValidity
    Hysteresis,  \* routeHysteresis
    MaxTime,     \* bound on the clock
    MaxHeld,     \* maxHeldPerType
    Reconnects,  \* a peer whose session ended may have another
    ApplyFails   \* a transaction or a removal may fail

ASSUME RoutingAssumption ==
    /\ Peer \subseteq Nat /\ Metric \subseteq Nat /\ None \notin Peer
    /\ Martian \subseteq Prefix
    /\ Allowed \subseteq Peer \X Prefix
    /\ Validity \in Nat \ {0} /\ Hysteresis \in Nat /\ MaxTime \in Nat /\ MaxHeld \in Nat
    /\ Reconnects \in BOOLEAN /\ ApplyFails \in BOOLEAN

VARIABLES
    now,       \* the clock
    loop,      \* where each session's hold loop stands
    pending,   \* the route messages each driver has kept
    offers,    \* RouteTable.offers
    selected,  \* RouteTable.selected
    install,   \* what is left for each loop to install,
    remove,    \* ... and to remove
    kernel,    \* the interface each destination is routed through
    since      \* history: when each selection last changed hands

vars == <<now, loop, pending, offers, selected, install, remove, kernel, since>>
-----------------------------------------------------------------------------
Time == 0..MaxTime

(* RouteAnnounce and RouteWithdraw.  An announcement's version is the time *)
(* it was built at, which its validity is counted from.                    *)
Announcement == [kind : {"announce"}, from : Peer, dests : SUBSET Prefix \ {{}},
                 version : Time, metric : Metric]
Withdrawal   == [kind : {"withdraw"}, from : Peer, dests : SUBSET Prefix \ {{}}]

Route == [version : Time, metric : Metric]

Selection == [provider : Peer, at : Time]

ASSUME NoneAssumption == None \notin Route \cup Selection

TypeOK ==
    /\ now \in Time
    /\ loop \in [Peer -> {"none", "hold", "apply", "released", "gone"}]
    /\ pending \in [Peer -> SUBSET (Announcement \cup Withdrawal)]
    /\ offers \in [Prefix -> [Peer -> Route \cup {None}]]
    /\ selected \in [Prefix -> Selection \cup {None}]
    /\ install \in [Peer -> SUBSET Prefix]
    /\ remove \in [Peer -> SUBSET Prefix]
    /\ kernel \in [Prefix -> Peer \cup {None}]
    /\ since \in [Prefix -> Time]

Init ==
    /\ now = 0
    /\ loop = [p \in Peer |-> "none"]
    /\ pending = [p \in Peer |-> {}]
    /\ offers = [d \in Prefix |-> [p \in Peer |-> None]]
    /\ selected = [d \in Prefix |-> None]
    /\ install = [p \in Peer |-> {}]
    /\ remove = [p \in Peer |-> {}]
    /\ kernel = [d \in Prefix |-> None]
    /\ since = [d \in Prefix |-> 0]

tableVars == <<offers, selected, since>>
applyVars == <<install, remove, kernel>>
-----------------------------------------------------------------------------
Tick ==
    /\ now < MaxTime /\ now' = now + 1
    /\ UNCHANGED <<loop, pending, tableVars, applyVars>>

OfKind(ms, kind) == {m \in ms : m.kind = kind}

(* Advertise and advertiseRoutes, at the peer: what p may have published   *)
(* by now.  Versions are times, so no two announcements share one.         *)
Published(p) ==
    {ms \in SUBSET {m \in Announcement \cup Withdrawal :
                      m.from = p /\ (m.kind = "announce" => m.version <= now)} :
        \A m, n \in OfKind(ms, "announce") : m.version = n.version => m = n}

(* A session is established.  Its driver kept the route messages that the  *)
(* relays, which may replay old ones, delivered while it negotiated; the   *)
(* hold loop reads no others.                                              *)
Establish(p) ==
    /\ loop[p] = "none"
    /\ loop' = [loop EXCEPT ![p] = "hold"]
    /\ \E ms \in Published(p) :
        /\ \A kind \in {"announce", "withdraw"} : Cardinality(OfKind(ms, kind)) <= MaxHeld
        /\ pending' = [pending EXCEPT ![p] = ms]
    /\ UNCHANGED <<now, tableVars, applyVars>>
-----------------------------------------------------------------------------
(* What the node must not let an announcement capture: nothing calls       *)
(* Router.LocalNetwork, so it stays as it was built.                       *)
LocalNetwork == {}

AdmitRoute(d) == d \notin Martian \cup LocalNetwork

DecideRoute(p, d) == <<p, d>> \in Allowed

(* RouteTable.Offer: only a newer version replaces what is held.           *)
Newer(d, p, m) == offers[d][p] = None \/ m.version > offers[d][p].version

(* One announcement that was kept, through Router.Announce.                *)
Announce(p, m) ==
    /\ loop[p] = "hold" /\ m \in OfKind(pending[p], "announce")
    /\ pending' = [pending EXCEPT ![p] = @ \ {m}]
    /\ offers' = [d \in Prefix |->
          IF d \in m.dests /\ AdmitRoute(d) /\ DecideRoute(p, d) /\ Newer(d, p, m)
          THEN [offers[d] EXCEPT ![p] = [version |-> m.version, metric |-> m.metric]]
          ELSE offers[d]]
    /\ UNCHANGED <<now, loop, selected, since, applyVars>>

(* One withdrawal that was kept: they follow the announcements, whatever   *)
(* the order they came in.  The selection stays for Select to find.        *)
Withdraw(p, m) ==
    /\ loop[p] = "hold" /\ OfKind(pending[p], "announce") = {}
    /\ m \in OfKind(pending[p], "withdraw")
    /\ pending' = [pending EXCEPT ![p] = @ \ {m}]
    /\ offers' = [d \in Prefix |->
          IF d \in m.dests THEN [offers[d] EXCEPT ![p] = None] ELSE offers[d]]
    /\ UNCHANGED <<now, loop, selected, since, applyVars>>
-----------------------------------------------------------------------------
(* Route.IsExpired                                                         *)
Live(o) == o # None /\ now < o.version + Validity

(* RouteTable.Expire                                                       *)
Expired == [d \in Prefix |-> [p \in Peer |-> IF Live(offers[d][p]) THEN offers[d][p] ELSE None]]

Offering(off, d) == {p \in Peer : off[d][p] # None}

BetterThan(a, p, b, q) == a.metric < b.metric \/ (a.metric = b.metric /\ p < q)

BestFor(off, d) ==
    CHOOSE p \in Offering(off, d) :
        \A q \in Offering(off, d) \ {p} : BetterThan(off[d][p], p, off[d][q], q)

\* Mutant: the window is not looked at.
NeverHolds(sel) == FALSE

Holds(sel) == now - sel.at < Hysteresis

\* Mutant: a provider that is gone is protected like any other.
KeepsInWindow(off, d) ==
    /\ selected[d] # None
    /\ BestFor(off, d) = selected[d].provider \/ Holds(selected[d])

(* RouteTable.Select keeps a selection that is still the best, or that is  *)
(* still offered and too young to lose.                                    *)
Keeps(off, d) ==
    /\ selected[d] # None
    /\ \/ BestFor(off, d) = selected[d].provider
       \/ off[d][selected[d].provider] # None /\ Holds(selected[d])

\* Mutant: a selection that is confirmed starts its window anew.
SelectRefreshed(off) ==
    [d \in Prefix |->
        CASE Offering(off, d) = {} -> None
          [] Offering(off, d) # {} /\ Keeps(off, d) -> [selected[d] EXCEPT !.at = now]
          [] OTHER -> [provider |-> BestFor(off, d), at |-> now]]

\* Mutant: a zero selection is stored where the entry should be deleted.
SelectZero(off) ==
    [d \in Prefix |->
        CASE Offering(off, d) = {} -> [provider |-> None, at |-> now]
          [] Offering(off, d) # {} /\ Keeps(off, d) -> selected[d]
          [] OTHER -> [provider |-> BestFor(off, d), at |-> now]]

(* RouteTable.Select                                                       *)
Select(off) ==
    [d \in Prefix |->
        CASE Offering(off, d) = {} -> None
          [] Offering(off, d) # {} /\ Keeps(off, d) -> selected[d]
          [] OTHER -> [provider |-> BestFor(off, d), at |-> now]]

Provider(sel) == IF sel = None THEN None ELSE sel.provider

(* The locked part of apply: Router.Reconcile, over every session's offers.*)
(* The changes are this loop's to make, on its own interface.              *)
Reconcile(p) ==
    LET sel   == Select(Expired)
        moved == {d \in Prefix : Provider(sel[d]) # Provider(selected[d])}
        gone  == {d \in moved : sel[d] = None}
    IN  /\ loop[p] = "hold" /\ pending[p] = {}
        /\ offers' = Expired /\ selected' = sel
        /\ since' = [d \in Prefix |-> IF d \in moved THEN now ELSE since[d]]
        /\ install' = [install EXCEPT ![p] = moved \ gone]
        /\ remove' = [remove EXCEPT ![p] = gone]
        /\ loop' = [loop EXCEPT ![p] = IF moved = {} THEN "hold" ELSE "apply"]
        /\ UNCHANGED <<now, pending, kernel>>

(* RemoveRoute, one destination at a time; an error is only logged.        *)
RemoveRoute(p) ==
    /\ loop[p] = "apply"
    /\ \E d \in remove[p] :
        /\ remove' = [remove EXCEPT ![p] = @ \ {d}]
        /\ \/ kernel' = [kernel EXCEPT ![d] = IF @ = p THEN None ELSE @]
           \/ ApplyFails /\ UNCHANGED kernel
    /\ UNCHANGED <<now, loop, pending, tableVars, install>>

(* PlanRoutes and Apply, a transaction of module NetState: all or nothing. *)
(* The kernel has one route to a destination and answers that it exists to *)
(* a second, whatever its interface; AddRoute takes that for success.      *)
InstallRoutes(p) ==
    /\ loop[p] = "apply" /\ remove[p] = {}
    /\ loop' = [loop EXCEPT ![p] = "hold"]
    /\ install' = [install EXCEPT ![p] = {}]
    /\ \/ kernel' = [d \in Prefix |->
              IF d \in install[p] /\ kernel[d] = None THEN p ELSE kernel[d]]
       \/ ApplyFails /\ UNCHANGED kernel
    /\ UNCHANGED <<now, pending, tableVars, remove>>
-----------------------------------------------------------------------------
(* Hold has ended, and Driver.Release begins: Router.Disconnect.           *)
Release(p) ==
    /\ loop[p] = "hold"
    /\ loop' = [loop EXCEPT ![p] = "released"]
    /\ pending' = [pending EXCEPT ![p] = {}]
    /\ offers' = [d \in Prefix |-> [offers[d] EXCEPT ![p] = None]]
    /\ UNCHANGED <<now, selected, since, applyVars>>

(* Then the interface goes, and takes its routes with it.  If it cannot be *)
(* removed it stays, with its port, and there is no other session.         *)
RemoveInterface(p) ==
    /\ loop[p] = "released"
    /\ \/ /\ loop' = [loop EXCEPT ![p] = IF Reconnects THEN "none" ELSE "gone"]
          /\ kernel' = [d \in Prefix |-> IF kernel[d] = p THEN None ELSE kernel[d]]
       \/ /\ ApplyFails /\ UNCHANGED kernel
          /\ loop' = [loop EXCEPT ![p] = "gone"]
    /\ UNCHANGED <<now, pending, tableVars, install, remove>>

HoldStep(p) ==
    \/ \E m \in pending[p] : Announce(p, m) \/ Withdraw(p, m)
    \/ Reconcile(p) \/ RemoveRoute(p) \/ InstallRoutes(p) \/ RemoveInterface(p)

Next ==
    \/ Tick
    \/ \E p \in Peer :
        Establish(p) \/ HoldStep(p) \/ Release(p)

Spec == Init /\ [][Next]_vars
-----------------------------------------------------------------------------
SelectsLive ==
    (\E p \in Peer : Reconcile(p)) =>
        \A d \in Prefix : selected'[d] # None => Live(offers[d][selected'[d].provider])

(* No black hole in the table: an evaluation leaves no destination with a  *)
(* provider that has withdrawn, left or lapsed (RouteTable.Select).        *)
SelectionLive == [][SelectsLive]_vars

MovesRightly ==
    \A d \in Prefix :
        LET old == Provider(selected[d]) new == Provider(selected'[d]) IN
        old # None /\ new # old /\ Live(offers[d][old]) =>
            /\ new # None /\ now - since[d] >= Hysteresis
            /\ \/ offers[d][new].metric < offers[d][old].metric
               \/ offers[d][new].metric = offers[d][old].metric /\ new < old

(* No flapping: a destination leaves a provider that still offers it only  *)
(* for a strictly better one, and only once the provider has had it for    *)
(* the whole window, counted from when it was given it (Select, holds).    *)
(* docs/adr/NM-25 asks for a margin besides the window; any difference     *)
(* will do here, as it does in betterThan.                                 *)
NoFlap == [][MovesRightly]_vars

SelectsBest ==
    (\E p \in Peer : Reconcile(p)) =>
        \A d \in Prefix, q \in Peer :
            selected'[d] # None /\ Live(offers[d][q]) /\ now - since'[d] >= Hysteresis =>
                LET o == offers[d][selected'[d].provider] IN
                \/ o.metric < offers[d][q].metric
                \/ o.metric = offers[d][q].metric /\ selected'[d].provider <= q

(* The best provider wins in the end: after an evaluation another one has  *)
(* a destination only while its window lasts, however often the selection  *)
(* was confirmed in the meantime (Select, betterThan).  This is the code's *)
(* rule: under the one of docs/adr/NM-25, by which a new route has to win  *)
(* by a margin, a provider could keep what another offers a little better. *)
BestWins == [][SelectsBest]_vars

(* Nothing is being applied and an evaluation would change nothing.        *)
Settled ==
    /\ \A p \in Peer : loop[p] \notin {"apply", "released"} /\ pending[p] = {}
    /\ offers = Expired /\ selected = Select(offers)

(* What the table reports as installed is in the kernel, through the       *)
(* interface of the peer that provides it (Installed).                     *)
InstalledIsRouted ==
    Settled => \A d \in Prefix :
        selected[d] # None /\ Offering(offers, d) # {} => kernel[d] = selected[d].provider
-----------------------------------------------------------------------------
(* The strengthening under which the action properties are provable: a     *)
(* selection's own time is when its destination last changed hands.        *)
AtIsSince == \A d \in Prefix : selected[d] # None => selected[d].at = since[d]

RoutingInv == TypeOK /\ AtIsSince
=============================================================================
