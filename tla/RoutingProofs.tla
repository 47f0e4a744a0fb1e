---------------------------- MODULE RoutingProofs ----------------------------
(* The routing table never sends a destination to a provider that is gone, *)
(* never leaves one early and gets to the best one, for every set of       *)
(* peers, destinations, metrics and every length of the windows.           *)
EXTENDS Routing, WellFoundedInduction, TLAPS

(* A set of natural numbers has a least one.                               *)
LEMMA LeastNatural ==
    ASSUME NEW T \in SUBSET Nat, T # {}
    PROVE  \E x \in T : \A y \in T : x <= y
<1> DEFINE R == OpToRel(<, Nat)
<1>1. IsWellFoundedOn(R, Nat)
    BY NatLessThanWellFounded
<1>2. \A x, y \in Nat : x < y => <<x, y>> \in R
    BY DEF OpToRel
<1> HIDE DEF R
<1>3. PICK x \in T : \A y \in T : ~(<<y, x>> \in R)
    BY <1>1, WFMin
<1>4. \A y \in T : ~(y < x)
    BY <1>2, <1>3
<1> QED BY <1>3, <1>4

(* An offer that is in the table is a route.                               *)
LEMMA ExpiredType ==
    ASSUME TypeOK
    PROVE  /\ Expired \in [Prefix -> [Peer -> Route \cup {None}]]
           /\ \A d \in Prefix, p \in Peer :
                /\ Expired[d][p] # None <=> Live(offers[d][p])
                /\ Expired[d][p] # None => Expired[d][p] = offers[d][p] /\ offers[d][p] \in Route
<1>1. \A d \in Prefix, p \in Peer : offers[d][p] \in Route \cup {None}
    BY DEF TypeOK
<1>2. \A d \in Prefix, p \in Peer : Live(offers[d][p]) => offers[d][p] # None
    BY DEF Live
<1>3. \A d \in Prefix, p \in Peer :
        Expired[d][p] = IF Live(offers[d][p]) THEN offers[d][p] ELSE None
    BY DEF Expired
<1>4. Expired \in [Prefix -> [Peer -> Route \cup {None}]]
    BY <1>1 DEF Expired
<1> QED BY <1>1, <1>2, <1>3, <1>4

(* BestFor chooses one: of those with the least metric, the least peer.    *)
LEMMA BestExists ==
    ASSUME NEW off \in [Prefix -> [Peer -> Route \cup {None}]], NEW d \in Prefix,
           Offering(off, d) # {}
    PROVE  /\ BestFor(off, d) \in Offering(off, d)
           /\ \A q \in Offering(off, d) \ {BestFor(off, d)} :
                BetterThan(off[d][BestFor(off, d)], BestFor(off, d), off[d][q], q)
<1> DEFINE S == Offering(off, d)
           M == {off[d][p].metric : p \in S}
<1>1. S \subseteq Peer /\ \A p \in S : off[d][p] \in Route
    BY DEF Offering
<1>2. \A p \in S : off[d][p].metric \in Nat
    BY <1>1, RoutingAssumption DEF Route
<1>3. PICK m \in M : \A n \in M : m <= n
  <2>1. M \in SUBSET Nat /\ M # {}
    BY <1>2
  <2> HIDE DEF M
  <2> QED BY <2>1, LeastNatural
<1> DEFINE B == {p \in S : off[d][p].metric = m}
<1>4. PICK b \in B : \A q \in B : b <= q
  <2>1. B \in SUBSET Nat /\ B # {}
    BY <1>1, <1>3, RoutingAssumption
  <2> HIDE DEF B
  <2> QED BY <2>1, LeastNatural
<1>5. \A q \in S \ {b} : BetterThan(off[d][b], b, off[d][q], q)
  <2> SUFFICES ASSUME NEW q \in S, q # b
               PROVE  \/ off[d][b].metric < off[d][q].metric
                      \/ off[d][b].metric = off[d][q].metric /\ b < q
    BY DEF BetterThan
  <2>1. m <= off[d][q].metric /\ off[d][b].metric = m
    BY <1>3, <1>4
  <2>2. off[d][q].metric = m => b <= q
    BY <1>4
  <2>3. b \in Nat /\ q \in Nat /\ m \in Nat /\ off[d][q].metric \in Nat
    BY <1>1, <1>2, <1>3, <1>4, RoutingAssumption
  <2> DEFINE x == off[d][q].metric
  <2>4. m < x \/ (m = x /\ b < q)
    <3> HIDE DEF x, B, M, S
    <3>1. m <= x /\ (x = m => b <= q) /\ b \in Nat /\ q \in Nat /\ m \in Nat /\ x \in Nat
      BY <2>1, <2>2, <2>3 DEF x
    <3> QED BY <3>1
  <2> QED BY <2>1, <2>4
<1> DEFINE Best(p) == \A q \in S \ {p} : BetterThan(off[d][p], p, off[d][q], q)
<1>6. \E p \in S : Best(p)
    BY <1>4, <1>5
<1>7. BestFor(off, d) = CHOOSE p \in S : Best(p)
    BY DEF BestFor
<1> HIDE DEF S, Best
<1>8. BestFor(off, d) \in S /\ Best(BestFor(off, d))
    BY <1>6, <1>7
<1> QED BY <1>8 DEF S, Best

(* What an evaluation makes of one destination.                            *)
LEMMA SelectOne ==
    ASSUME RoutingInv, NEW d \in Prefix
    PROVE  LET s == Select(Expired)[d] IN
           \/ /\ \A p \in Peer : ~Live(offers[d][p])
              /\ s = None
           \/ /\ selected[d] # None /\ s = selected[d] /\ selected[d] \in Selection
              /\ Live(offers[d][s.provider])
              /\ \/ s.provider = BestFor(Expired, d)
                 \/ now - since[d] < Hysteresis
           \/ /\ s # None /\ s \in Selection /\ s.at = now /\ s.provider = BestFor(Expired, d)
              /\ selected[d] # None =>
                    /\ s.provider # selected[d].provider
                    /\ ~Live(offers[d][selected[d].provider]) \/ now - since[d] >= Hysteresis
<1> DEFINE s == Select(Expired)[d]
           b == BestFor(Expired, d)
<1>a. TypeOK /\ AtIsSince
    BY DEF RoutingInv
<1>b. s = CASE Offering(Expired, d) = {} -> None
            [] Offering(Expired, d) # {} /\ Keeps(Expired, d) -> selected[d]
            [] OTHER -> [provider |-> b, at |-> now]
    BY DEF Select
<1>c. \A p \in Peer : p \in Offering(Expired, d) <=> Live(offers[d][p])
    BY <1>a, ExpiredType DEF Offering
<1>d. selected[d] # None => selected[d] \in Selection /\ selected[d].provider \in Peer
    BY <1>a DEF TypeOK, Selection
<1>e. now \in Nat /\ since[d] \in Nat /\ Hysteresis \in Nat
    BY <1>a, RoutingAssumption DEF TypeOK, Time
<1> HIDE DEF s, b
<1>1. CASE Offering(Expired, d) = {}
    BY <1>1, <1>b, <1>c DEF s
<1>2. CASE Offering(Expired, d) # {} /\ Keeps(Expired, d)
  <2>1. s = selected[d] /\ selected[d] # None
    BY <1>2, <1>b DEF Keeps
  <2>2. b \in Offering(Expired, d)
    BY <1>2, <1>a, ExpiredType, BestExists DEF b
  <2>3. b = s.provider \/ (Expired[d][s.provider] # None /\ now - since[d] < Hysteresis)
    BY <1>2, <1>a, <2>1 DEF Keeps, Holds, AtIsSince, b
  <2>4. Live(offers[d][s.provider])
    BY <1>a, <1>c, <1>d, <2>1, <2>2, <2>3, ExpiredType
  <2> QED BY <1>d, <2>1, <2>3, <2>4 DEF s, b
<1>3. CASE Offering(Expired, d) # {} /\ ~Keeps(Expired, d)
  <2>1. s = [provider |-> b, at |-> now]
    BY <1>3, <1>b
  <2>2. b \in Peer
    BY <1>3, <1>a, ExpiredType, BestExists DEF b, Offering
  <2>3. s \in Selection /\ s.at = now /\ s.provider = b
    BY <1>a, <2>1, <2>2 DEF Selection, TypeOK
  <2>4. s # None
    BY <2>3, NoneAssumption
  <2>5. selected[d] # None =>
          /\ b # selected[d].provider
          /\ Expired[d][selected[d].provider] = None \/ ~(now - since[d] < Hysteresis)
    BY <1>3, <1>a DEF Keeps, Holds, AtIsSince, b
  <2>6. selected[d] # None =>
          ~Live(offers[d][selected[d].provider]) \/ now - since[d] >= Hysteresis
    BY <1>a, <1>d, <1>e, <2>5, ExpiredType
  <2> QED BY <2>3, <2>4, <2>5, <2>6 DEF s, b
<1> QED BY <1>1, <1>2, <1>3

(* The specification starts with an empty table.                           *)
LEMMA InitEstablishes == Init => RoutingInv
<1> SUFFICES ASSUME Init PROVE RoutingInv
    OBVIOUS
<1>1. TypeOK
    BY RoutingAssumption DEF Init, TypeOK, Time
<1>2. AtIsSince
    BY DEF Init, AtIsSince
<1> QED BY <1>1, <1>2 DEF RoutingInv

(* An evaluation: a destination that changes hands starts a new window.    *)
LEMMA ReconcileKeeps ==
    ASSUME RoutingInv, NEW p \in Peer, Reconcile(p)
    PROVE  RoutingInv'
<1> DEFINE sel == Select(Expired)
           moved == {d \in Prefix : Provider(sel[d]) # Provider(selected[d])}
           gone  == {d \in moved : sel[d] = None}
<1>a. TypeOK
    BY DEF RoutingInv
<1>b. /\ offers' = Expired /\ selected' = sel
      /\ since' = [d \in Prefix |-> IF d \in moved THEN now ELSE since[d]]
      /\ install' = [install EXCEPT ![p] = moved \ gone]
      /\ remove' = [remove EXCEPT ![p] = gone]
      /\ loop' = [loop EXCEPT ![p] = IF moved = {} THEN "hold" ELSE "apply"]
      /\ UNCHANGED <<now, pending, kernel>>
    BY DEF Reconcile
<1>c. moved \subseteq Prefix /\ gone \subseteq Prefix
    OBVIOUS
<1>1. selected' \in [Prefix -> Selection \cup {None}]
  <2>1. \A d \in Prefix : sel[d] \in Selection \cup {None}
    BY SelectOne
  <2>2. sel = [d \in Prefix |-> sel[d]]
    BY DEF Select
  <2> HIDE DEF sel
  <2> QED BY <1>b, <2>1, <2>2
<1>2. AtIsSince'
  <2> SUFFICES ASSUME NEW d \in Prefix, sel[d] # None
               PROVE  sel[d].at = since'[d]
    BY <1>b DEF AtIsSince
  <2>1. CASE sel[d] = selected[d]
    <3>1. d \notin moved
      BY <2>1
    <3> QED BY <1>b, <2>1, <3>1 DEF AtIsSince, RoutingInv
  <2>2. CASE sel[d] # selected[d]
    <3>1. /\ sel[d].at = now /\ sel[d] \in Selection
          /\ selected[d] # None => sel[d].provider # selected[d].provider
      BY <2>2, SelectOne
    <3>2. sel[d].provider # None
      BY <3>1, RoutingAssumption DEF Selection
    <3>3. d \in moved
      <4>1. Provider(sel[d]) = sel[d].provider
        BY DEF Provider
      <4>2. Provider(selected[d]) # sel[d].provider
        BY <3>1, <3>2 DEF Provider
      <4> HIDE DEF sel
      <4> QED BY <4>1, <4>2
    <3> HIDE DEF sel, moved
    <3> QED BY <1>b, <3>1, <3>3
  <2> QED BY <2>1, <2>2
<1>3. TypeOK'
  <2>1. offers' \in [Prefix -> [Peer -> Route \cup {None}]]
    BY <1>a, <1>b, ExpiredType
  <2>2. since' \in [Prefix -> Time]
    BY <1>a, <1>b DEF TypeOK
  <2>3. install' \in [Peer -> SUBSET Prefix] /\ remove' \in [Peer -> SUBSET Prefix]
    <3> HIDE DEF moved, gone
    <3> QED BY <1>a, <1>b, <1>c DEF TypeOK
  <2>4. loop' \in [Peer -> {"none", "hold", "apply", "released", "gone"}]
    <3> HIDE DEF moved
    <3> QED BY <1>a, <1>b DEF TypeOK
  <2>5. now' \in Time /\ kernel' = kernel /\ pending' = pending
    BY <1>a, <1>b DEF TypeOK
  <2> HIDE DEF moved, gone, sel
  <2> QED BY <1>a, <1>1, <2>1, <2>2, <2>3, <2>4, <2>5 DEF TypeOK
<1> QED BY <1>2, <1>3 DEF RoutingInv

(* Every step of the specification.                                        *)
LEMMA NextKeeps == RoutingInv /\ [Next]_vars => RoutingInv'
<1> SUFFICES ASSUME RoutingInv, [Next]_vars PROVE RoutingInv'
    OBVIOUS
<1> USE DEF tableVars, applyVars
<1>a. TypeOK /\ AtIsSince
    BY DEF RoutingInv
<1>b. ASSUME UNCHANGED <<selected, since>>, TypeOK' PROVE RoutingInv'
    BY <1>a, <1>b DEF RoutingInv, AtIsSince
<1>1. CASE Tick
  <2>1. now' \in Time
    BY <1>1, <1>a, RoutingAssumption DEF Tick, TypeOK, Time
  <2> QED BY <1>1, <1>a, <1>b, <2>1 DEF Tick, TypeOK
<1>2. ASSUME NEW p \in Peer, Establish(p) PROVE RoutingInv'
  <2>1. pending' \in [Peer -> SUBSET (Announcement \cup Withdrawal)]
    <3>1. PICK ms \in Published(p) : pending' = [pending EXCEPT ![p] = ms]
      BY <1>2 DEF Establish
    <3>2. ms \subseteq Announcement \cup Withdrawal
      BY DEF Published
    <3> QED BY <1>a, <3>1, <3>2 DEF TypeOK
  <2>2. loop' \in [Peer -> {"none", "hold", "apply", "released", "gone"}]
    BY <1>2, <1>a DEF Establish, TypeOK
  <2> QED BY <1>2, <1>a, <1>b, <2>1, <2>2 DEF Establish, TypeOK
<1>3. ASSUME NEW p \in Peer, NEW m \in pending[p], Announce(p, m) PROVE RoutingInv'
  <2>1. m \in Announcement
    BY <1>3, <1>a DEF Announce, OfKind, TypeOK, Announcement, Withdrawal
  <2>2. [version |-> m.version, metric |-> m.metric] \in Route
    BY <2>1 DEF Announcement, Route
  <2>3. offers' \in [Prefix -> [Peer -> Route \cup {None}]]
    <3> DEFINE r == [version |-> m.version, metric |-> m.metric]
    <3>1. offers' = [d \in Prefix |->
            IF d \in m.dests /\ AdmitRoute(d) /\ DecideRoute(p, d) /\ Newer(d, p, m)
            THEN [offers[d] EXCEPT ![p] = r] ELSE offers[d]]
      BY <1>3 DEF Announce
    <3> HIDE DEF r
    <3>2. r \in Route
      BY <2>2 DEF r
    <3>3. \A d \in Prefix : /\ offers[d] \in [Peer -> Route \cup {None}]
                            /\ [offers[d] EXCEPT ![p] = r] \in [Peer -> Route \cup {None}]
      BY <1>a, <3>2 DEF TypeOK
    <3> QED BY <3>1, <3>3
  <2>4. pending' \in [Peer -> SUBSET (Announcement \cup Withdrawal)]
    BY <1>3, <1>a DEF Announce, TypeOK
  <2> QED BY <1>3, <1>a, <1>b, <2>3, <2>4 DEF Announce, TypeOK
<1>4. ASSUME NEW p \in Peer, NEW m \in pending[p], Withdraw(p, m) PROVE RoutingInv'
  <2>1. offers' \in [Prefix -> [Peer -> Route \cup {None}]]
    <3>1. offers' = [d \in Prefix |->
            IF d \in m.dests THEN [offers[d] EXCEPT ![p] = None] ELSE offers[d]]
      BY <1>4 DEF Withdraw
    <3>2. \A d \in Prefix : /\ offers[d] \in [Peer -> Route \cup {None}]
                            /\ [offers[d] EXCEPT ![p] = None] \in [Peer -> Route \cup {None}]
      BY <1>a DEF TypeOK
    <3> QED BY <3>1, <3>2
  <2>2. pending' \in [Peer -> SUBSET (Announcement \cup Withdrawal)]
    BY <1>4, <1>a DEF Withdraw, TypeOK
  <2> QED BY <1>4, <1>a, <1>b, <2>1, <2>2 DEF Withdraw, TypeOK
<1>5. ASSUME NEW p \in Peer, Reconcile(p) PROVE RoutingInv'
    BY <1>5, ReconcileKeeps
<1>6. ASSUME NEW p \in Peer, RemoveRoute(p) PROVE RoutingInv'
  <2>1. remove' \in [Peer -> SUBSET Prefix] /\ kernel' \in [Prefix -> Peer \cup {None}]
    BY <1>6, <1>a DEF RemoveRoute, TypeOK
  <2> QED BY <1>6, <1>a, <1>b, <2>1 DEF RemoveRoute, TypeOK
<1>7. ASSUME NEW p \in Peer, InstallRoutes(p) PROVE RoutingInv'
  <2>1. /\ install' \in [Peer -> SUBSET Prefix] /\ kernel' \in [Prefix -> Peer \cup {None}]
        /\ loop' \in [Peer -> {"none", "hold", "apply", "released", "gone"}]
    BY <1>7, <1>a DEF InstallRoutes, TypeOK
  <2> QED BY <1>7, <1>a, <1>b, <2>1 DEF InstallRoutes, TypeOK
<1>8. ASSUME NEW p \in Peer, Release(p) PROVE RoutingInv'
  <2>1. offers' \in [Prefix -> [Peer -> Route \cup {None}]]
    <3>1. offers' = [d \in Prefix |-> [offers[d] EXCEPT ![p] = None]]
      BY <1>8 DEF Release
    <3>2. \A d \in Prefix : [offers[d] EXCEPT ![p] = None] \in [Peer -> Route \cup {None}]
      BY <1>a DEF TypeOK
    <3> QED BY <3>1, <3>2
  <2>2. /\ pending' \in [Peer -> SUBSET (Announcement \cup Withdrawal)]
        /\ loop' \in [Peer -> {"none", "hold", "apply", "released", "gone"}]
    BY <1>8, <1>a DEF Release, TypeOK
  <2> QED BY <1>8, <1>a, <1>b, <2>1, <2>2 DEF Release, TypeOK
<1>9. ASSUME NEW p \in Peer, RemoveInterface(p) PROVE RoutingInv'
  <2>1. /\ kernel' \in [Prefix -> Peer \cup {None}]
        /\ loop' \in [Peer -> {"none", "hold", "apply", "released", "gone"}]
    BY <1>9, <1>a DEF RemoveInterface, TypeOK
  <2> QED BY <1>9, <1>a, <1>b, <2>1 DEF RemoveInterface, TypeOK
<1>10. CASE UNCHANGED vars
    BY <1>10, <1>a, <1>b DEF vars, TypeOK
<1> QED BY <1>1, <1>2, <1>3, <1>4, <1>5, <1>6, <1>7, <1>8, <1>9, <1>10 DEF Next, HoldStep

(* The invariant holds in every state of every behaviour.                  *)
LEMMA RoutingHolds == Spec => []RoutingInv
BY InitEstablishes, NextKeeps, PTL DEF Spec

(* The table, what is pending, and what the loops have still to do stay    *)
(* within their types; with it every use of BestFor finds a best offer.    *)
THEOREM TypeCorrect == Spec => []TypeOK
<1>1. RoutingInv => TypeOK
    BY DEF RoutingInv
<1> QED BY <1>1, RoutingHolds, PTL

(* An evaluation leaves no destination with a provider that has withdrawn, *)
(* left or lapsed, whichever session's loop evaluates and whatever the     *)
(* others changed since: Select looks at the offers Expire has left.       *)
THEOREM NoBlackHole == Spec => SelectionLive
<1>1. RoutingInv /\ [Next]_vars => [SelectsLive]_vars
  <2> SUFFICES ASSUME RoutingInv, NEW p \in Peer, Reconcile(p), NEW d \in Prefix,
                      selected'[d] # None
               PROVE  Live(offers[d][selected'[d].provider])
    BY DEF SelectsLive
  <2>1. selected' = Select(Expired)
    BY DEF Reconcile
  <2>2. \A q \in Peer : q \in Offering(Expired, d) <=> Live(offers[d][q])
    BY ExpiredType DEF Offering, RoutingInv
  <2>3. (\E q \in Peer : Live(offers[d][q])) => BestFor(Expired, d) \in Offering(Expired, d)
    BY <2>2, ExpiredType, BestExists DEF RoutingInv
  <2>4. selected'[d].provider = BestFor(Expired, d) =>
          (BestFor(Expired, d) \in Peer => Live(offers[d][selected'[d].provider]))
    <3>1. Offering(Expired, d) \subseteq Peer
      BY DEF Offering
    <3>2. CASE \E q \in Peer : Live(offers[d][q])
      BY <2>2, <2>3, <3>1, <3>2
    <3>3. CASE \A q \in Peer : ~Live(offers[d][q])
      <4>1. Select(Expired)[d] = None
        BY <2>2, <3>1, <3>3 DEF Select
      <4> QED BY <2>1, <4>1
    <3> QED BY <3>2, <3>3
  <2> QED BY <2>1, <2>4, SelectOne DEF Selection
<1> QED BY <1>1, RoutingHolds, PTL DEF Spec, SelectionLive

(* The best of the live offers beats every other live one.                 *)
LEMMA BestBeats ==
    ASSUME RoutingInv, NEW d \in Prefix, NEW q \in Peer, Live(offers[d][q])
    PROVE  LET b == BestFor(Expired, d) IN
           /\ b \in Peer /\ Live(offers[d][b])
           /\ q # b => BetterThan(offers[d][b], b, offers[d][q], q)
<1> DEFINE b == BestFor(Expired, d)
<1>1. TypeOK
    BY DEF RoutingInv
<1>2. q \in Offering(Expired, d)
    BY <1>1, ExpiredType DEF Offering
<1>3. /\ b \in Offering(Expired, d)
      /\ \A r \in Offering(Expired, d) \ {b} : BetterThan(Expired[d][b], b, Expired[d][r], r)
    BY <1>1, <1>2, ExpiredType, BestExists
<1>4. b \in Peer /\ Expired[d][b] = offers[d][b] /\ Live(offers[d][b])
    BY <1>1, <1>3, ExpiredType DEF Offering
<1>5. Expired[d][q] = offers[d][q]
    BY <1>1, <1>2, ExpiredType DEF Offering
<1> HIDE DEF b
<1> QED BY <1>2, <1>3, <1>4, <1>5 DEF b

(* A destination leaves a provider that still offers it only for a         *)
(* strictly better one, and only when the provider has had it for the      *)
(* whole window: confirming a selection, another session's evaluation or a *)
(* reannouncement neither shortens nor restarts it.                        *)
THEOREM WindowKept == Spec => NoFlap
<1>1. RoutingInv /\ [Next]_vars => [MovesRightly]_vars
  <2> SUFFICES ASSUME RoutingInv, Next PROVE MovesRightly
    OBVIOUS
  <2>1. CASE UNCHANGED selected
    BY <2>1 DEF MovesRightly
  <2>2. ASSUME NEW p \in Peer, Reconcile(p) PROVE MovesRightly
    <3> SUFFICES ASSUME NEW d \in Prefix,
                        Provider(selected[d]) # None,
                        Provider(selected'[d]) # Provider(selected[d]),
                        Live(offers[d][Provider(selected[d])])
                 PROVE  LET old == Provider(selected[d]) new == Provider(selected'[d]) IN
                        /\ new # None /\ now - since[d] >= Hysteresis
                        /\ \/ offers[d][new].metric < offers[d][old].metric
                           \/ offers[d][new].metric = offers[d][old].metric /\ new < old
      BY DEF MovesRightly
    <3> DEFINE s == Select(Expired)[d]
    <3>1. selected'[d] = s
      BY <2>2 DEF Reconcile
    <3>2. selected[d] # None /\ Provider(selected[d]) = selected[d].provider
      BY DEF Provider
    <3>3. selected[d].provider \in Peer
      BY <3>2 DEF RoutingInv, TypeOK, Selection
    <3>4. /\ s # None /\ s \in Selection /\ s.provider = BestFor(Expired, d)
          /\ s.provider # selected[d].provider /\ now - since[d] >= Hysteresis
      BY <3>1, <3>2, <3>3, SelectOne
    <3>5. Provider(s) = s.provider /\ s.provider # None
      BY <3>4, RoutingAssumption DEF Provider, Selection
    <3>6. BetterThan(offers[d][s.provider], s.provider,
                     offers[d][selected[d].provider], selected[d].provider)
      BY <3>2, <3>3, <3>4, BestBeats
    <3> HIDE DEF s
    <3> QED BY <3>1, <3>2, <3>4, <3>5, <3>6 DEF BetterThan
  <2> QED BY <2>1, <2>2 DEF Next, HoldStep, Tick, Establish, Announce, Withdraw, RemoveRoute,
             InstallRoutes, Release, RemoveInterface, tableVars
<1> QED BY <1>1, RoutingHolds, PTL DEF Spec, NoFlap

(* After an evaluation another provider than the best has a destination    *)
(* only while its window lasts: the window delays the best one and never   *)
(* keeps it out.                                                           *)
THEOREM BestGetsIt == Spec => BestWins
<1>1. RoutingInv /\ [Next]_vars => [SelectsBest]_vars
  <2> SUFFICES ASSUME RoutingInv, NEW p \in Peer, Reconcile(p), NEW d \in Prefix, NEW q \in Peer,
                      selected'[d] # None, Live(offers[d][q]), now - since'[d] >= Hysteresis
               PROVE  LET o == offers[d][selected'[d].provider] IN
                      \/ o.metric < offers[d][q].metric
                      \/ o.metric = offers[d][q].metric /\ selected'[d].provider <= q
    BY DEF SelectsBest
  <2> DEFINE s == Select(Expired)[d]
  <2>1. selected'[d] = s /\ s # None
    BY DEF Reconcile
  <2>2. s = selected[d] => since'[d] = since[d]
    BY DEF Reconcile
  <2>3. s.provider = BestFor(Expired, d)
    <3>1. now \in Nat /\ since[d] \in Nat /\ Hysteresis \in Nat
      BY RoutingAssumption DEF RoutingInv, TypeOK, Time
    <3>2. s = selected[d] => ~(now - since[d] < Hysteresis)
      <4> HIDE DEF s
      <4> QED BY <2>2, <3>1
    <3> QED BY <2>1, <3>2, SelectOne
  <2>4. /\ s.provider \in Peer
        /\ q # s.provider => BetterThan(offers[d][s.provider], s.provider, offers[d][q], q)
    BY <2>3, BestBeats
  <2>5. q \in Nat /\ s.provider \in Nat
    BY <2>4, RoutingAssumption
  <2> HIDE DEF s
  <2>6. CASE q = s.provider
    BY <2>1, <2>5, <2>6
  <2>7. CASE q # s.provider
    BY <2>1, <2>4, <2>5, <2>7 DEF BetterThan
  <2> QED BY <2>6, <2>7
<1> QED BY <1>1, RoutingHolds, PTL DEF Spec, BestWins
-----------------------------------------------------------------------------
(* Policy permits a peer to announce a destination.                        *)
Permits(p, d) == <<p, d>> \in Allowed /\ d \notin Martian

(* What policy does not permit a peer to announce, or nothing may route,   *)
(* is in no offer, no selection, no work of a loop and no kernel route.    *)
(* The kernel's route may go through the interface of another peer than    *)
(* the one policy permits: of the kernel only the destination is said.     *)
OnlyPermitted ==
    /\ \A d \in Prefix, p \in Peer : offers[d][p] # None => Permits(p, d)
    /\ \A d \in Prefix : selected[d] # None => Permits(selected[d].provider, d)
    /\ \A p \in Peer, d \in Prefix : d \in install[p] => \E q \in Peer : Permits(q, d)
    /\ \A d \in Prefix : kernel[d] # None => \E q \in Peer : Permits(q, d)

(* An evaluation selects among the offers, and installs what it selects.   *)
LEMMA ReconcilePermits ==
    ASSUME RoutingInv, OnlyPermitted, NEW p \in Peer, Reconcile(p)
    PROVE  OnlyPermitted'
<1> DEFINE sel == Select(Expired)
           moved == {d \in Prefix : Provider(sel[d]) # Provider(selected[d])}
           gone  == {d \in moved : sel[d] = None}
<1>a. TypeOK
    BY DEF RoutingInv
<1>b. /\ offers' = Expired /\ selected' = sel /\ kernel' = kernel
      /\ install' = [install EXCEPT ![p] = moved \ gone]
    BY DEF Reconcile
<1>1. \A d \in Prefix, q \in Peer : Expired[d][q] # None => Permits(q, d)
    BY <1>a, ExpiredType DEF OnlyPermitted
<1>2. ASSUME NEW d \in Prefix, sel[d] # None
      PROVE  sel[d].provider \in Peer /\ Permits(sel[d].provider, d)
  <2>1. CASE sel[d] = selected[d]
    BY <1>2, <1>a, <2>1 DEF OnlyPermitted, TypeOK, Selection
  <2>2. CASE sel[d] # selected[d]
    <3>1. sel[d].provider = BestFor(Expired, d)
      BY <1>2, <2>2, SelectOne
    <3>2. Offering(Expired, d) # {}
      BY <1>2 DEF Select
    <3>3. BestFor(Expired, d) \in Offering(Expired, d)
      BY <1>a, <3>2, ExpiredType, BestExists
    <3> QED BY <1>1, <3>1, <3>3 DEF Offering
  <2> QED BY <2>1, <2>2
<1>3. \A d \in Prefix : d \in moved \ gone => \E q \in Peer : Permits(q, d)
  <2> SUFFICES ASSUME NEW d \in Prefix, d \in moved \ gone PROVE \E q \in Peer : Permits(q, d)
    OBVIOUS
  <2>1. sel[d] # None
    OBVIOUS
  <2> QED BY <1>2, <2>1
<1> HIDE DEF sel, moved, gone
<1>4. \A q \in Peer, d \in Prefix : d \in install'[q] => \E x \in Peer : Permits(x, d)
    BY <1>a, <1>b, <1>3 DEF TypeOK, OnlyPermitted
<1>5. \A d \in Prefix : kernel'[d] # None => \E q \in Peer : Permits(q, d)
    BY <1>b DEF OnlyPermitted
<1> QED BY <1>b, <1>1, <1>2, <1>4, <1>5 DEF OnlyPermitted

(* Every step admits only what policy permits.                             *)
LEMMA NextPermits ==
    ASSUME RoutingInv, OnlyPermitted, [Next]_vars
    PROVE  OnlyPermitted'
<1> USE DEF tableVars, applyVars
<1>a. TypeOK
    BY DEF RoutingInv
<1>b. ASSUME \A d \in Prefix, p \in Peer : offers'[d][p] # None => Permits(p, d),
             UNCHANGED <<selected, applyVars>>
      PROVE  OnlyPermitted'
    BY <1>b DEF OnlyPermitted
<1>c. ASSUME UNCHANGED <<offers, selected>>,
             \A q \in Peer, d \in Prefix : d \in install'[q] => d \in install[q],
             \A d \in Prefix : kernel'[d] # None =>
                kernel[d] # None \/ \E q \in Peer : d \in install[q]
      PROVE  OnlyPermitted'
    BY <1>c DEF OnlyPermitted
<1>1. CASE Tick
    BY <1>1, <1>b DEF Tick, OnlyPermitted
<1>2. ASSUME NEW p \in Peer, Establish(p) PROVE OnlyPermitted'
    BY <1>2, <1>b DEF Establish, OnlyPermitted
<1>3. ASSUME NEW p \in Peer, NEW m \in pending[p], Announce(p, m) PROVE OnlyPermitted'
  <2> DEFINE r == [version |-> m.version, metric |-> m.metric]
  <2>1. /\ offers' = [d \in Prefix |->
            IF d \in m.dests /\ AdmitRoute(d) /\ DecideRoute(p, d) /\ Newer(d, p, m)
            THEN [offers[d] EXCEPT ![p] = r] ELSE offers[d]]
        /\ UNCHANGED <<selected, applyVars>>
    BY <1>3 DEF Announce
  <2> HIDE DEF r
  <2>2. ASSUME NEW d \in Prefix, NEW q \in Peer, offers'[d][q] # None PROVE Permits(q, d)
    <3>1. CASE offers'[d][q] = offers[d][q]
      BY <2>2, <3>1 DEF OnlyPermitted
    <3>2. CASE offers'[d][q] # offers[d][q]
      <4>1. AdmitRoute(d) /\ DecideRoute(p, d) /\ offers'[d] = [offers[d] EXCEPT ![p] = r]
        BY <2>1, <3>2
      <4>2. q = p
        BY <1>a, <3>2, <4>1 DEF TypeOK
      <4> QED BY <4>1, <4>2 DEF AdmitRoute, DecideRoute, LocalNetwork, Permits
    <3> QED BY <3>1, <3>2
  <2> QED BY <1>b, <2>1, <2>2
<1>4. ASSUME NEW p \in Peer, NEW m \in pending[p], Withdraw(p, m) PROVE OnlyPermitted'
  <2>1. \A d \in Prefix, q \in Peer : offers'[d][q] # None => offers'[d][q] = offers[d][q]
    BY <1>4, <1>a DEF Withdraw, TypeOK
  <2> QED BY <1>4, <1>b, <2>1 DEF Withdraw, OnlyPermitted
<1>5. ASSUME NEW p \in Peer, Reconcile(p) PROVE OnlyPermitted'
    BY <1>5, ReconcilePermits
<1>6. ASSUME NEW p \in Peer, RemoveRoute(p) PROVE OnlyPermitted'
  <2>1. \A d \in Prefix : kernel'[d] # None => kernel[d] # None
    BY <1>6, <1>a DEF RemoveRoute, TypeOK
  <2> QED BY <1>6, <1>c, <2>1 DEF RemoveRoute
<1>7. ASSUME NEW p \in Peer, InstallRoutes(p) PROVE OnlyPermitted'
  <2>1. \A d \in Prefix : kernel'[d] # None => kernel[d] # None \/ d \in install[p]
    BY <1>7, <1>a DEF InstallRoutes, TypeOK
  <2>2. \A q \in Peer, d \in Prefix : d \in install'[q] => d \in install[q]
    BY <1>7, <1>a DEF InstallRoutes, TypeOK
  <2> QED BY <1>7, <1>c, <2>1, <2>2 DEF InstallRoutes
<1>8. ASSUME NEW p \in Peer, Release(p) PROVE OnlyPermitted'
  <2>1. \A d \in Prefix, q \in Peer : offers'[d][q] # None => offers'[d][q] = offers[d][q]
    BY <1>8, <1>a DEF Release, TypeOK
  <2> QED BY <1>8, <1>b, <2>1 DEF Release, OnlyPermitted
<1>9. ASSUME NEW p \in Peer, RemoveInterface(p) PROVE OnlyPermitted'
  <2>1. \A d \in Prefix : kernel'[d] # None => kernel[d] # None
    BY <1>9, <1>a DEF RemoveInterface, TypeOK
  <2> QED BY <1>9, <1>c, <2>1 DEF RemoveInterface
<1>10. CASE UNCHANGED vars
    BY <1>10, <1>b DEF vars, OnlyPermitted
<1> QED BY <1>1, <1>2, <1>3, <1>4, <1>5, <1>6, <1>7, <1>8, <1>9, <1>10 DEF Next, HoldStep

(* No announcement, in whatever order announcements, withdrawals and the   *)
(* evaluations of other sessions come, brings a destination into the table *)
(* or the kernel that policy permits nobody (Router.Announce, apply).      *)
THEOREM NothingUnpermitted == Spec => []OnlyPermitted
<1>1. Init => OnlyPermitted
    BY DEF Init, OnlyPermitted
<1>2. RoutingInv /\ OnlyPermitted /\ [Next]_vars => OnlyPermitted'
    BY NextPermits
<1> QED BY <1>1, <1>2, RoutingHolds, PTL DEF Spec
=============================================================================
