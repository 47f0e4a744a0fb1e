------------------------- MODULE ConnectivityProofs -------------------------
(* An attempt that looks for a path, for all addresses, observers, offers  *)
(* of the peer's, limits and orders in which datagrams come: a nominated   *)
(* path was proven, a late proof counts, nobody gives up early and the     *)
(* engine keeps to its limits.                                             *)
EXTENDS Connectivity, FiniteSetTheorems, WellFoundedInduction, TLAPS

(* A set of natural numbers has a least one.                               *)
LEMMA LeastNumber ==
    ASSUME NEW T \in SUBSET Nat, T # {}
    PROVE  \E x \in T : \A y \in T : x <= y
<1> DEFINE R == OpToRel(<, Nat)
<1>1. IsWellFoundedOn(R, Nat)
    BY NatLessThanWellFounded
<1>2. \A x, y \in Nat : x < y => <<x, y>> \in R
    BY DEF OpToRel
<1> HIDE DEF R
<1>3. PICK x \in T : \A y \in T : ~(<<y, x>> \in R)
    BY <1>1, WFMin
<1>4. \A y \in T : ~(y < x)
    BY <1>2, <1>3
<1> QED BY <1>3, <1>4

(* What is left of a sequence when its head is taken.                      *)
LEMMA TailFacts ==
    ASSUME NEW S, NEW s \in Seq(S), s # <<>>
    PROVE  /\ Head(s) \in S /\ Tail(s) \in Seq(S)
           /\ Len(s) \in Nat \ {0} /\ Len(Tail(s)) = Len(s) - 1
           /\ Head(s) = s[1]
           /\ \A i \in 1..Len(Tail(s)) : i + 1 \in 1..Len(s) /\ Tail(s)[i] = s[i + 1]
OBVIOUS

(* What a sequence is when something is put at its end.                    *)
LEMMA AppendFacts ==
    ASSUME NEW S, NEW s \in Seq(S), NEW e \in S
    PROVE  /\ Append(s, e) \in Seq(S)
           /\ Len(s) \in Nat /\ Len(Append(s, e)) = Len(s) + 1
           /\ Append(s, e)[Len(s) + 1] = e
           /\ \A i \in 1..Len(s) : Append(s, e)[i] = s[i]
OBVIOUS
-----------------------------------------------------------------------------
(* What a set of candidates becomes when others are added: those it had    *)
(* stay as they were, and the others are new.                              *)
Extended(old, new) ==
    /\ DOMAIN old \subseteq DOMAIN new
    /\ \A i \in DOMAIN old : new[i] = old[i]
    /\ \A i \in DOMAIN new \ DOMAIN old : new[i].status = "unverified"

Record == [kind : Kind, addr : Addr \ Unsafe, status : Status, attempts : 0..MaxAttempts]

(* The engine keeps its limits when a candidate is offered (AddCandidate). *)
LEMMA AddCandidateKeeps ==
    ASSUME NEW cs, Candidates(cs), NEW id \in Id, NEW kind \in Kind, NEW addr \in Addr
    PROVE  /\ Candidates(AddCandidate(cs, id, kind, addr))
           /\ Extended(cs, AddCandidate(cs, id, kind, addr))
<1> DEFINE new == [i \in DOMAIN cs \cup {id} |-> IF i = id THEN Candidate(kind, addr) ELSE cs[i]]
           Admitted == /\ Safe(addr) /\ id \notin DOMAIN cs
                       /\ Cardinality(DOMAIN cs) < MaxCandidates
                       /\ RequiresThirdParty(kind) => Cardinality(ThirdParty(cs)) < MaxThirdParty
<1>1. CASE ~Admitted
  <2>1. AddCandidate(cs, id, kind, addr) = cs
    BY <1>1 DEF AddCandidate
  <2> QED BY <2>1 DEF Extended
<1>2. CASE Admitted
  <2>1. AddCandidate(cs, id, kind, addr) = new
    BY <1>2 DEF AddCandidate
  <2>2. MaxCandidates \in Nat /\ MaxThirdParty \in Nat /\ MaxAttempts \in Nat
    BY ConnectivityAssumption
  <2>3. /\ DOMAIN cs \subseteq Id /\ IsFiniteSet(DOMAIN cs) /\ cs \in [DOMAIN cs -> Record]
        /\ Cardinality(DOMAIN cs) <= MaxCandidates /\ Cardinality(ThirdParty(cs)) <= MaxThirdParty
    BY DEF Candidates, Record
  <2>4. Candidate(kind, addr) \in Record /\ Candidate(kind, addr).status = "unverified"
        /\ Candidate(kind, addr).kind = kind
    BY <1>2, <2>2 DEF Candidate, Record, Status, Safe
  <2>5. /\ DOMAIN new = DOMAIN cs \cup {id}
        /\ new[id] = Candidate(kind, addr) /\ \A i \in DOMAIN cs : new[i] = cs[i]
    BY <1>2
  <2>6. new \in [DOMAIN new -> Record]
    BY <2>3, <2>4, <2>5
  <2>7. IsFiniteSet(DOMAIN new) /\ Cardinality(DOMAIN new) = Cardinality(DOMAIN cs) + 1
    BY <1>2, <2>3, <2>5, FS_AddElement
  <2>8. Cardinality(DOMAIN cs) \in Nat
    BY <2>3, FS_CardinalityType
  <2>9. Cardinality(DOMAIN new) <= MaxCandidates
    BY <1>2, <2>2, <2>7, <2>8
  <2>10. IsFiniteSet(ThirdParty(cs)) /\ id \notin ThirdParty(cs)
    BY <1>2, <2>3, FS_Subset DEF ThirdParty
  <2>11. Cardinality(ThirdParty(cs)) \in Nat
    BY <2>10, FS_CardinalityType
  <2>12. Cardinality(ThirdParty(new)) <= MaxThirdParty
    <3>1. CASE RequiresThirdParty(kind)
      <4>1. ThirdParty(new) = ThirdParty(cs) \cup {id}
        BY <2>4, <2>5, <3>1 DEF ThirdParty
      <4>2. Cardinality(ThirdParty(new)) = Cardinality(ThirdParty(cs)) + 1
        BY <2>10, <4>1, FS_AddElement
      <4> QED BY <1>2, <2>2, <2>11, <3>1, <4>2
    <3>2. CASE ~RequiresThirdParty(kind)
      <4>1. ThirdParty(new) = ThirdParty(cs)
        BY <2>4, <2>5, <3>2 DEF ThirdParty
      <4> QED BY <2>3, <4>1
    <3> QED BY <3>1, <3>2
  <2>13. DOMAIN new \subseteq Id
    BY <2>3, <2>5
  <2>14. Extended(cs, new)
    BY <2>4, <2>5 DEF Extended
  <2> HIDE DEF new
  <2>15. Candidates(new)
    BY <2>6, <2>7, <2>9, <2>12, <2>13 DEF Candidates, Record
  <2> QED BY <2>1, <2>14, <2>15
<1> QED BY <1>1, <1>2

(* What extends an extension extends what that extended.                   *)
LEMMA ExtendedTrans ==
    ASSUME NEW a, NEW b, NEW c, Extended(a, b), Extended(b, c)
    PROVE  Extended(a, c)
BY DEF Extended

(* The same for what the peer offers, whatever its type (toConnectivity).  *)
LEMMA AddWireKeeps ==
    ASSUME NEW cs, Candidates(cs), NEW offer \in Offers, NEW k \in 1..Len(offer)
    PROVE  Candidates(AddWire(cs, offer[k])) /\ Extended(cs, AddWire(cs, offer[k]))
<1>1. offer[k].addr \in Addr
    BY ConnectivityAssumption
<1>2. <<"wire", offer[k].id>> \in Id
    BY DEF Id, WireIds
<1>3. CASE offer[k].type \in CandidateKinds
  <2>1. offer[k].type \in Kind
    BY <1>3 DEF CandidateKinds, Kind
  <2>2. AddWire(cs, offer[k]) = AddCandidate(cs, <<"wire", offer[k].id>>, offer[k].type, offer[k].addr)
    BY <1>3 DEF AddWire
  <2> QED BY <1>1, <1>2, <2>1, <2>2, AddCandidateKeeps
<1>4. CASE offer[k].type \notin CandidateKinds
    BY <1>4 DEF AddWire, Extended
<1> QED BY <1>3, <1>4

(* The loop of consumePeerCandidates, as far as its n-th step.             *)
IsLoop(f, cs, offer, n) ==
    f = [k \in 0..n |-> IF k = 0 THEN cs ELSE AddWire(f[k - 1], offer[k])]

(* It runs for as many steps as there are candidates.                      *)
LEMMA LoopExists ==
    ASSUME NEW cs, NEW offer, NEW n \in Nat
    PROVE  \E f : IsLoop(f, cs, offer, n)
<1> DEFINE T == {m \in Nat : ~\E f : IsLoop(f, cs, offer, m)}
<1> SUFFICES ASSUME T # {} PROVE FALSE
    OBVIOUS
<1>1. PICK m \in T : \A y \in T : m <= y
  <2>1. T \in SUBSET Nat
    OBVIOUS
  <2> HIDE DEF T
  <2> QED BY <2>1, LeastNumber
<1>2. m \in Nat /\ ~\E f : IsLoop(f, cs, offer, m)
    OBVIOUS
<1>3. CASE m = 0
  <2>1. IsLoop([k \in 0..0 |-> cs], cs, offer, 0)
    BY DEF IsLoop
  <2> QED BY <1>2, <1>3, <2>1
<1>4. CASE m # 0
  <2>1. m - 1 \in Nat /\ m - 1 \notin T
    BY <1>1, <1>2, <1>4
  <2>2. PICK f : IsLoop(f, cs, offer, m - 1)
    BY <2>1
  <2> DEFINE g == [k \in 0..m |-> IF k = m THEN AddWire(f[m - 1], offer[m]) ELSE f[k]]
  <2>3. f = [k \in 0..(m - 1) |-> IF k = 0 THEN cs ELSE AddWire(f[k - 1], offer[k])]
    BY <2>2 DEF IsLoop
  <2>4. \A k \in 0..(m - 1) : g[k] = f[k]
    BY <1>2
  <2>5. ASSUME NEW k \in 0..m
        PROVE  g[k] = IF k = 0 THEN cs ELSE AddWire(g[k - 1], offer[k])
    <3>1. CASE k = m
      <4>1. g[k] = AddWire(f[m - 1], offer[m]) /\ k # 0
        BY <1>4, <3>1
      <4>2. g[k - 1] = f[m - 1]
        BY <1>2, <1>4, <2>4, <3>1
      <4> HIDE DEF g
      <4> QED BY <3>1, <4>1, <4>2
    <3>2. CASE k # m
      <4>1. k \in 0..(m - 1) /\ (k # 0 => k - 1 \in 0..(m - 1))
        BY <1>2, <3>2
      <4>2. g[k] = f[k] /\ (k # 0 => g[k - 1] = f[k - 1])
        BY <2>4, <4>1
      <4> HIDE DEF g
      <4>3. f[k] = IF k = 0 THEN cs ELSE AddWire(f[k - 1], offer[k])
        BY <2>3, <4>1
      <4> QED BY <4>2, <4>3
    <3> QED BY <3>1, <3>2
  <2>6. g = [k \in 0..m |-> g[k]]
    OBVIOUS
  <2> HIDE DEF g
  <2>7. IsLoop(g, cs, offer, m)
    BY <2>5, <2>6 DEF IsLoop
  <2> QED BY <1>2, <2>7
<1> QED BY <1>3, <1>4

(* What the loop ends with is what its last step gives.                    *)
LEMMA AddAllIsLoop ==
    ASSUME NEW cs, NEW offer \in Offers
    PROVE  \E f : IsLoop(f, cs, offer, Len(offer)) /\ AddAll(cs, offer) = f[Len(offer)]
<1>a. Len(offer) \in Nat
    BY ConnectivityAssumption
<1>b. PICK loop : IsLoop(loop, cs, offer, Len(offer))
    BY <1>a, LoopExists
<1>c. loop = [k \in 0..Len(offer) |-> IF k = 0 THEN cs ELSE AddWire(loop[k - 1], offer[k])]
    BY <1>b DEF IsLoop
<1> DEFINE f == CHOOSE g : g = [k \in 0..Len(offer) |-> IF k = 0 THEN cs ELSE AddWire(g[k - 1], offer[k])]
<1>1. \E g : g = [k \in 0..Len(offer) |-> IF k = 0 THEN cs ELSE AddWire(g[k - 1], offer[k])]
    BY <1>c, Zenon
<1>2. f = [k \in 0..Len(offer) |-> IF k = 0 THEN cs ELSE AddWire(f[k - 1], offer[k])]
    BY <1>1
<1>3. AddAll(cs, offer) = f[Len(offer)]
    BY DEF AddAll
<1> HIDE DEF f
<1> QED BY <1>2, <1>3 DEF IsLoop

(* Whatever the peer offers, the engine keeps to its limits                *)
(* (consumePeerCandidates).                                                *)
LEMMA AddAllKeeps ==
    ASSUME NEW cs, Candidates(cs), NEW offer \in Offers
    PROVE  Candidates(AddAll(cs, offer)) /\ Extended(cs, AddAll(cs, offer))
<1>1. PICK f : IsLoop(f, cs, offer, Len(offer)) /\ AddAll(cs, offer) = f[Len(offer)]
    BY AddAllIsLoop
<1>2. Len(offer) \in Nat
    BY ConnectivityAssumption
<1>3. \A k \in 0..Len(offer) : f[k] = IF k = 0 THEN cs ELSE AddWire(f[k - 1], offer[k])
    BY <1>1 DEF IsLoop
<1> DEFINE T == {k \in 0..Len(offer) : ~(Candidates(f[k]) /\ Extended(cs, f[k]))}
<1>4. ASSUME T # {} PROVE FALSE
  <2>1. PICK k \in T : \A y \in T : k <= y
    <3>1. T \in SUBSET Nat
      BY <1>2
    <3> HIDE DEF T
    <3> QED BY <1>4, <3>1, LeastNumber
  <2>2. k \in 0..Len(offer) /\ ~(Candidates(f[k]) /\ Extended(cs, f[k]))
    OBVIOUS
  <2>3. k # 0
    <3>1. f[0] = cs
      BY <1>2, <1>3
    <3>2. Extended(cs, cs)
      BY DEF Extended
    <3> QED BY <2>2, <3>1, <3>2
  <2>4. k - 1 \in 0..Len(offer) /\ k - 1 \notin T /\ k \in 1..Len(offer)
    BY <1>2, <2>1, <2>2, <2>3
  <2>5. Candidates(f[k - 1]) /\ Extended(cs, f[k - 1])
    BY <2>4
  <2>6. f[k] = AddWire(f[k - 1], offer[k])
    BY <1>3, <2>2, <2>3
  <2>7. Candidates(f[k]) /\ Extended(f[k - 1], f[k])
    BY <2>4, <2>5, <2>6, AddWireKeeps
  <2> QED BY <2>2, <2>5, <2>7, ExtendedTrans
<1>5. Candidates(f[Len(offer)]) /\ Extended(cs, f[Len(offer)])
    BY <1>2, <1>4
<1> QED BY <1>1, <1>5
-----------------------------------------------------------------------------
(* The attempt starts with nothing gathered and nothing probed.            *)
LEMMA InitEstablishes == Init => ConnectivityInv
<1> SUFFICES ASSUME Init PROVE ConnectivityInv
    OBVIOUS
<1> USE DEF Init
<1>1. IsFiniteSet({}) /\ Cardinality({}) = 0
    BY FS_EmptySet
<1>2. DOMAIN cands = {} /\ ThirdParty(cands) = {}
    BY DEF ThirdParty
<1>3. cands \in [DOMAIN cands -> Record]
  <2>1. <<>> \in Seq(Record)
    OBVIOUS
  <2>2. <<>> \in [1..Len(<<>>) -> Record] /\ 1..Len(<<>>) = {}
    BY <2>1
  <2> QED BY <1>2, <2>2
<1>a. MaxCandidates \in Nat /\ MaxThirdParty \in Nat /\ Len(Servers) \in Nat /\ MaxUnasked \in Nat
      /\ Kept \in Nat /\ Buffer \in Nat
    BY ConnectivityAssumption
<1>4. Candidates(cands)
  <2>1. DOMAIN cands \subseteq Id /\ IsFiniteSet(DOMAIN cands)
    BY <1>1, <1>2
  <2>2. Cardinality(DOMAIN cands) <= MaxCandidates /\ Cardinality(ThirdParty(cands)) <= MaxThirdParty
    <3> HIDE DEF Init
    <3> QED BY <1>1, <1>2, <1>a
  <2> QED BY <1>3, <2>1, <2>2 DEF Candidates, Record
<1>5. TypeOK
  <2>1. kept \in Seq(Datagram) /\ Len(kept) <= Kept /\ queue \in Seq(Datagram) /\ Len(queue) <= Buffer
    BY <1>a
  <2>2. srv \in 1..Len(Servers) + 1 /\ unasked \in 0..MaxUnasked
    BY <1>a
  <2> QED BY <1>4, <2>1, <2>2 DEF TypeOK
<1>6. NothingProbed /\ QueryIsOne
    BY <1>2 DEF NothingProbed, QueryIsOne
<1>7. StunSound /\ ResponsesSent
    BY DEF StunSound, Datagrams, ResponsesSent
<1>8. AnswersSound /\ ValidIsNominated /\ NominatedIsProven /\ ExhaustedIsTried /\ ObservedIsAsked
    BY <1>2 DEF AnswersSound, ValidIsNominated, NominatedIsProven, ExhaustedIsTried, ObservedIsAsked
<1> QED BY <1>5, <1>6, <1>7, <1>8 DEF ConnectivityInv

(* What leaves the engine and what the peer sent alone leaves what is      *)
(* known of them.                                                          *)
LEMMA EngineAlone ==
    ASSUME ConnectivityInv, UNCHANGED <<engineVars, answers>>
    PROVE  AnswersSound' /\ ValidIsNominated' /\ NominatedIsProven'
BY DEF ConnectivityInv, AnswersSound, ValidIsNominated, NominatedIsProven, engineVars

(* What leaves the wire alone leaves what is known of it.                  *)
LEMMA WireAlone ==
    ASSUME ConnectivityInv, UNCHANGED wireVars
    PROVE  StunSound' /\ ResponsesSent'
BY DEF ConnectivityInv, StunSound, Datagrams, ResponsesSent, Sent, wireVars

(* What leaves a candidate's answers where they are, and takes datagrams   *)
(* from the net only, is sound.                                            *)
LEMMA NetShrinks ==
    ASSUME ConnectivityInv, net' \subseteq net, UNCHANGED answers
    PROVE  /\ StunSound'
           /\ \A d : Sent(d)' <=> Sent(d)
           /\ \A d \in net' : Sent(d)'
BY DEF ConnectivityInv, StunSound, Datagrams, ResponsesSent, Sent

(* The attempt gathers: the engine has nothing yet.                        *)
LEMMA GatheringPreserves ==
    ASSUME ConnectivityInv,
           \/ \E up \in SUBSET Interface : Gather(up)
           \/ Observe \/ ObserveTimeout \/ GatherDone \/ PublishCandidates \/ CandidatesTimeout
    PROVE  ConnectivityInv'
<1> USE DEF engineVars, wireVars, timeVars, gatherVars
<1>0. TypeOK /\ NothingProbed /\ QueryIsOne /\ ObservedIsAsked /\ Len(Servers) \in Nat
    BY ConnectivityAssumption DEF ConnectivityInv
<1>1. UNCHANGED <<engineVars, wireVars, timeVars>> /\ DOMAIN cands = {} /\ nominated = None
    BY <1>0 DEF NothingProbed, Gather, Observe, ObserveTimeout, GatherDone, PublishCandidates,
                CandidatesTimeout
<1> DEFINE Gathered == /\ pc' \in {"observe", "awaitStun", "publish", "candidates", "failed"}
                       /\ local' \subseteq Addr
                       /\ srv' \in 1..Len(Servers) + 1 /\ asked' \subseteq 1..Len(Servers)
                       /\ found' \in [1..Len(Servers) -> Addr \cup {None}]
                       /\ QueryIsOne' /\ ObservedIsAsked'
<1>2. Gathered
  <2> USE DEF TypeOK, QueryIsOne, ObservedIsAsked
  <2>1. ASSUME NEW up \in SUBSET Interface, Gather(up) PROVE Gathered
    <3>1. Hosts(up) \subseteq Addr /\ Statics \subseteq Addr
      BY ConnectivityAssumption DEF Hosts, Statics
    <3> QED BY <1>0, <2>1, <3>1 DEF Gather
  <2>2. CASE Observe
    <3>1. srv \in 1..Len(Servers) /\ srv + 1 \in 1..Len(Servers) + 1
      BY <1>0, <2>2 DEF Observe
    <3>2. UNCHANGED <<local, found>> /\ pc' \in {"awaitStun", "observe"}
      BY <2>2 DEF Observe
    <3>3. \/ srv' = srv /\ asked' = asked \cup {srv}
          \/ srv' = srv + 1 /\ asked' = asked /\ pc' = "observe"
      BY <2>2 DEF Observe
    <3>4. srv' \in 1..Len(Servers) + 1 /\ (pc' = "awaitStun" => srv' <= Len(Servers))
      BY <1>0, <3>1, <3>3
    <3>5. asked' \subseteq 1..Len(Servers)
      BY <1>0, <3>1, <3>3
    <3>6. ObservedIsAsked' /\ local' \subseteq Addr /\ found' \in [1..Len(Servers) -> Addr \cup {None}]
      BY <1>0, <3>2
    <3> QED BY <3>2, <3>4, <3>5, <3>6
  <2>3. CASE ObserveTimeout
    BY <1>0, <2>3 DEF ObserveTimeout
  <2>4. CASE GatherDone
    BY <1>0, <2>4 DEF GatherDone
  <2>5. CASE PublishCandidates
    <3>1. found' = [i \in 1..Len(Servers) |-> None]
      BY <1>0, <2>5 DEF PublishCandidates
    <3> QED BY <1>0, <2>5, <3>1 DEF PublishCandidates
  <2>6. CASE CandidatesTimeout
    BY <1>0, <2>6 DEF CandidatesTimeout
  <2> HIDE DEF Gathered
  <2> QED BY <2>1, <2>2, <2>3, <2>4, <2>5, <2>6
<1>3. TypeOK'
    BY <1>0, <1>1, <1>2 DEF TypeOK
<1>4. NothingProbed' /\ ExhaustedIsTried'
    BY <1>1 DEF NothingProbed, ExhaustedIsTried
<1>5. StunSound' /\ ResponsesSent'
    BY <1>1, WireAlone
<1>6. AnswersSound' /\ ValidIsNominated' /\ NominatedIsProven'
    BY <1>1, EngineAlone
<1> QED BY <1>2, <1>3, <1>4, <1>5, <1>6 DEF ConnectivityInv

(* A datagram that comes while the attempt observes.                       *)
LEMMA ObservingPreserves ==
    ASSUME ConnectivityInv, NEW d \in net, ReceiveSTUN(d) \/ DispatchProbe(d)
    PROVE  ConnectivityInv'
<1> USE DEF engineVars, wireVars, timeVars, gatherVars
<1>0. TypeOK /\ NothingProbed /\ QueryIsOne /\ ObservedIsAsked /\ StunSound /\ ResponsesSent
    BY DEF ConnectivityInv
<1>a. Len(Servers) \in Nat /\ Mapping \in [1..Len(Servers) -> Addr] /\ None \notin Addr /\ Kept \in Nat
    BY ConnectivityAssumption
<1>1. UNCHANGED <<engineVars, timeVars, local, asked, queue, answers, unasked>>
      /\ pc = "awaitStun" /\ net' = net \ {d}
    BY DEF ReceiveSTUN, DispatchProbe
<1>2. DOMAIN cands = {} /\ nominated = None
    BY <1>0, <1>1 DEF NothingProbed
<1>3. d \in Datagram
    BY <1>0 DEF TypeOK
<1>4. CASE ReceiveSTUN(d)
  <2>1. d.kind = "stun" /\ kept' = kept
    BY <1>4 DEF ReceiveSTUN, Datagrams
  <2>2. d.txn \in 1..Len(Servers) /\ d.addr \in Addr
    BY <1>3, <2>1 DEF Datagram
  <2>3. d.addr = Mapping[d.txn]
    BY <1>0, <2>1 DEF StunSound, Datagrams
  <2>4. /\ (found' = found \/ (d.txn = srv /\ found' = [found EXCEPT ![srv] = d.addr]))
        /\ (srv' = srv /\ pc' = pc) \/ (srv' = srv + 1 /\ pc' = "observe")
    BY <1>4 DEF ReceiveSTUN, Answers
  <2>5. found' \in [1..Len(Servers) -> Addr \cup {None}] /\ ObservedIsAsked'
    BY <1>0, <2>2, <2>3, <2>4 DEF TypeOK, ObservedIsAsked
  <2>6. srv \in 1..Len(Servers)
    BY <1>0, <1>1, <1>a DEF TypeOK, QueryIsOne
  <2>7. srv' \in 1..Len(Servers) + 1 /\ QueryIsOne' /\ pc' \in {"observe", "awaitStun"}
    BY <1>1, <1>a, <2>4, <2>6 DEF QueryIsOne
  <2>8. TypeOK'
    BY <1>0, <1>1, <2>1, <2>5, <2>7 DEF TypeOK
  <2>9. StunSound' /\ ResponsesSent'
    BY <1>0, <1>1, <2>1, NetShrinks DEF ResponsesSent
  <2>10. NothingProbed' /\ ExhaustedIsTried'
    BY <1>1, <1>2, <2>7 DEF NothingProbed, ExhaustedIsTried
  <2>11. AnswersSound' /\ ValidIsNominated' /\ NominatedIsProven'
    BY <1>1, EngineAlone
  <2> QED BY <2>5, <2>7, <2>8, <2>9, <2>10, <2>11 DEF ConnectivityInv
<1>5. CASE DispatchProbe(d)
  <2>1. UNCHANGED <<pc, srv, found>> /\ kept' = IF Len(kept) < Kept THEN Append(kept, d) ELSE kept
    BY <1>5 DEF DispatchProbe
  <2>2. kept \in Seq(Datagram) /\ Len(kept) <= Kept
    BY <1>0 DEF TypeOK
  <2>3. /\ Append(kept, d) \in Seq(Datagram) /\ Len(kept) \in Nat /\ Len(Append(kept, d)) = Len(kept) + 1
        /\ Append(kept, d)[Len(kept) + 1] = d /\ \A i \in 1..Len(kept) : Append(kept, d)[i] = kept[i]
    BY <1>3, <2>2, AppendFacts
  <2>4. kept' \in Seq(Datagram) /\ Len(kept') <= Kept
    BY <1>a, <2>1, <2>2, <2>3
  <2>5. TypeOK'
    BY <1>0, <1>1, <2>1, <2>4 DEF TypeOK
  <2>6. StunSound' /\ (\A x : Sent(x)' <=> Sent(x)) /\ \A x \in net' : Sent(x)'
    BY <1>1, NetShrinks
  <2>7. Sent(d) /\ \A i \in 1..Len(kept) : Sent(kept[i])
    BY <1>0 DEF ResponsesSent
  <2>8. \A i \in 1..Len(kept') : Sent(kept'[i])
    BY <2>1, <2>3, <2>7
  <2>9. \A i \in 1..Len(kept') : Sent(kept[i])'
    BY <1>1, <2>8 DEF Sent
  <2>10. ResponsesSent'
    BY <1>0, <1>1, <2>6, <2>9 DEF ResponsesSent
  <2>11. NothingProbed' /\ ExhaustedIsTried' /\ QueryIsOne' /\ ObservedIsAsked'
    BY <1>0, <1>1, <1>2, <2>1 DEF NothingProbed, ExhaustedIsTried, QueryIsOne, ObservedIsAsked
  <2>12. AnswersSound' /\ ValidIsNominated' /\ NominatedIsProven'
    BY <1>1, EngineAlone
  <2> QED BY <2>5, <2>6, <2>10, <2>11, <2>12 DEF ConnectivityInv
<1> QED BY <1>4, <1>5

(* The peer's candidates come: those the engine admits are new to it.      *)
LEMMA ConsumingPreserves ==
    ASSUME ConnectivityInv, NEW offer \in Offers, ConsumePeerCandidates(offer)
    PROVE  ConnectivityInv'
<1> USE DEF engineVars, wireVars, timeVars, gatherVars
<1>0. TypeOK /\ NothingProbed /\ AnswersSound /\ NominatedIsProven /\ ObservedIsAsked
    BY DEF ConnectivityInv
<1>1. /\ pc = "candidates" /\ cands' = AddAll(cands, offer)
      /\ pc' = IF DOMAIN cands' = {} THEN "failed" ELSE "loop"
      /\ UNCHANGED <<gatherVars, nominated, outstanding, wireVars, timeVars>>
    BY DEF ConsumePeerCandidates
<1>2. DOMAIN cands = {} /\ nominated = None
    BY <1>0, <1>1 DEF NothingProbed
<1>3. Candidates(cands')
    BY <1>0, <1>1, AddAllKeeps DEF TypeOK
<1>4. \A i \in DOMAIN cands' : cands'[i].status = "unverified"
  <2>1. Extended(cands, AddAll(cands, offer))
    BY <1>0, AddAllKeeps DEF TypeOK
  <2>2. Extended(cands, cands')
    BY <1>1, <2>1
  <2> QED BY <1>2, <2>2 DEF Extended
<1>5. answers = {} /\ outstanding = {}
    BY <1>0, <1>2 DEF AnswersSound, TypeOK
<1>6. TypeOK'
    BY <1>0, <1>1, <1>2, <1>3, <1>5 DEF TypeOK
<1>7. StunSound' /\ ResponsesSent'
    BY <1>1, WireAlone
<1>8. NothingProbed' /\ QueryIsOne' /\ ExhaustedIsTried' /\ ObservedIsAsked'
    BY <1>0, <1>1 DEF NothingProbed, QueryIsOne, ExhaustedIsTried, ObservedIsAsked
<1>9. AnswersSound' /\ ValidIsNominated' /\ NominatedIsProven'
    BY <1>1, <1>2, <1>4, <1>5 DEF AnswersSound, ValidIsNominated, NominatedIsProven
<1> QED BY <1>6, <1>7, <1>8, <1>9 DEF ConnectivityInv

(* What records something of candidates keeps the engine's limits, if it   *)
(* leaves their kinds.                                                     *)
LEMMA RecordingKeeps ==
    ASSUME NEW cs, Candidates(cs), NEW new \in [DOMAIN cs -> Record],
           \A i \in DOMAIN cs : new[i].kind = cs[i].kind
    PROVE  Candidates(new)
<1>1. DOMAIN new = DOMAIN cs
    OBVIOUS
<1>2. ThirdParty(new) = ThirdParty(cs)
    BY <1>1 DEF ThirdParty
<1> QED BY <1>1, <1>2 DEF Candidates, Record

(* The ways Run ends, and a wait without an answer.                        *)
LEMMA EndingPreserves ==
    ASSUME ConnectivityInv, Return \/ AwaitTimeout
    PROVE  ConnectivityInv'
<1> USE DEF engineVars, wireVars, timeVars, gatherVars
<1>0. TypeOK /\ ValidIsNominated /\ ObservedIsAsked
    BY DEF ConnectivityInv
<1>1. UNCHANGED <<gatherVars, engineVars, wireVars, timeVars>> /\ pc' \in {"loop", "done", "failed"}
    BY DEF Return, AwaitTimeout
<1>2. TypeOK'
    BY <1>0, <1>1 DEF TypeOK
<1>3. StunSound' /\ ResponsesSent' /\ AnswersSound' /\ ValidIsNominated' /\ NominatedIsProven'
    BY <1>1, WireAlone, EngineAlone
<1>4. NothingProbed' /\ QueryIsOne' /\ ObservedIsAsked'
    BY <1>0, <1>1 DEF NothingProbed, QueryIsOne, ObservedIsAsked
<1>5. ExhaustedIsTried'
  <2> SUFFICES ASSUME pc' = "failed", ~late, ~ended, NEW id \in DOMAIN cands
               PROVE  cands[id].attempts = MaxAttempts
    BY <1>1 DEF ExhaustedIsTried
  <2>1. nominated = None /\ (CanProbes = {} \/ Probable({}))
    BY DEF Return, AwaitTimeout
  <2>2. CanProbes = {}
    BY <2>1 DEF Probable
  <2>3. ~CanProbe(id) /\ cands[id].status # "valid"
    BY <1>0, <2>1, <2>2 DEF CanProbes, ValidIsNominated
  <2>4. ~(cands[id].attempts < MaxAttempts)
    BY <2>3 DEF CanProbe
  <2>5. cands[id].attempts \in 0..MaxAttempts /\ MaxAttempts \in Nat
    BY <1>0, ConnectivityAssumption DEF TypeOK, Candidates
  <2> QED BY <2>4, <2>5
<1> QED BY <1>2, <1>3, <1>4, <1>5 DEF ConnectivityInv

(* A round of challenges.                                                  *)
LEMMA ProbingPreserves ==
    ASSUME ConnectivityInv, NEW ids \in SUBSET DOMAIN cands, NEW lost \in SUBSET ids,
           ProbeRound(ids, lost)
    PROVE  ConnectivityInv'
<1> USE DEF wireVars, timeVars, gatherVars
<1>0. TypeOK /\ AnswersSound /\ ValidIsNominated /\ ObservedIsAsked /\ MaxAttempts \in Nat
    BY ConnectivityAssumption DEF ConnectivityInv
<1>1. /\ UNCHANGED <<gatherVars, nominated, wireVars, timeVars>> /\ pc' = "wait"
      /\ nominated = None /\ ids \subseteq CanProbes /\ outstanding' = Outstand(ids \ lost)
      /\ cands' = [id \in DOMAIN cands |->
            CASE id \in lost       -> RecordFailure(RecordAttempt(cands[id]))
              [] id \in ids \ lost -> RecordAttempt(cands[id])
              [] OTHER             -> cands[id]]
    BY DEF ProbeRound, Probable
<1>2. cands \in [DOMAIN cands -> Record]
    BY <1>0 DEF TypeOK, Candidates, Record
<1>3. \A id \in ids : cands[id].attempts + 1 \in 1..MaxAttempts
  <2>1. \A id \in ids : cands[id].attempts < MaxAttempts /\ cands[id].attempts \in 0..MaxAttempts
    BY <1>1, <1>2 DEF CanProbes, CanProbe, Record
  <2> QED BY <1>0, <2>1
<1>4. ASSUME NEW id \in DOMAIN cands
      PROVE  /\ cands'[id] \in Record /\ cands'[id].kind = cands[id].kind
             /\ cands'[id].addr = cands[id].addr /\ cands'[id].status # "valid"
  <2> DEFINE c == cands[id]
  <2>1. c \in Record /\ c.status # "valid"
    BY <1>0, <1>1, <1>2 DEF ValidIsNominated
  <2>2. ASSUME id \in ids
        PROVE  /\ RecordAttempt(c) \in Record /\ RecordAttempt(c).kind = c.kind
               /\ RecordAttempt(c).addr = c.addr /\ RecordAttempt(c).status = "probing"
    <3>1. c.attempts + 1 \in 0..MaxAttempts
      BY <1>0, <1>3, <2>2
    <3> QED BY <2>1, <3>1 DEF RecordAttempt, Record, Status
  <2>3. ASSUME NEW b \in Record
        PROVE  /\ RecordFailure(b) \in Record /\ RecordFailure(b).kind = b.kind
               /\ RecordFailure(b).addr = b.addr /\ RecordFailure(b).status # "valid"
    BY DEF RecordFailure, Record, Status
  <2>4. cands'[id] = CASE id \in lost       -> RecordFailure(RecordAttempt(c))
                       [] id \in ids \ lost -> RecordAttempt(c)
                       [] OTHER             -> c
    BY <1>1
  <2> HIDE DEF c
  <2>5. CASE id \in lost
    <3>1. cands'[id] = RecordFailure(RecordAttempt(c))
      BY <2>4, <2>5
    <3> QED BY <2>2, <2>3, <2>5, <3>1 DEF c
  <2>6. CASE id \in ids \ lost
    <3>1. cands'[id] = RecordAttempt(c)
      BY <2>4, <2>6
    <3> QED BY <2>2, <2>6, <3>1 DEF c
  <2>7. CASE id \notin ids
    <3>1. cands'[id] = c
      BY <2>4, <2>7
    <3> QED BY <2>1, <3>1 DEF c
  <2> QED BY <2>5, <2>6, <2>7
<1>5. DOMAIN cands' = DOMAIN cands /\ cands' \in [DOMAIN cands -> Record]
    BY <1>1, <1>4
<1>6. Candidates(cands')
    BY <1>0, <1>4, <1>5, RecordingKeeps DEF TypeOK
<1>7. outstanding \subseteq outstanding' /\ outstanding' \subseteq (DOMAIN cands) \X (1..MaxAttempts)
    BY <1>0, <1>1, <1>3 DEF Outstand, TypeOK
<1>8. TypeOK'
    BY <1>0, <1>1, <1>5, <1>6, <1>7 DEF TypeOK
<1>9. StunSound' /\ ResponsesSent'
    BY <1>1, WireAlone
<1>10. NothingProbed' /\ QueryIsOne' /\ ExhaustedIsTried' /\ ObservedIsAsked'
    BY <1>0, <1>1 DEF NothingProbed, QueryIsOne, ExhaustedIsTried, ObservedIsAsked
<1>11. AnswersSound'
    BY <1>0, <1>1, <1>4, <1>5, <1>7, ZenonT(60) DEF AnswersSound
<1>12. ValidIsNominated' /\ NominatedIsProven'
    BY <1>1, <1>4, <1>5 DEF ValidIsNominated, NominatedIsProven
<1> QED BY <1>8, <1>9, <1>10, <1>11, <1>12 DEF ConnectivityInv

(* A datagram is read from the socket, or what was kept of it.             *)
LEMMA ReceivingPreserves ==
    ASSUME ConnectivityInv, Receive
    PROVE  ConnectivityInv'
<1> USE DEF engineVars, timeVars, gatherVars
<1>0. TypeOK /\ NothingProbed /\ QueryIsOne /\ ExhaustedIsTried /\ ObservedIsAsked /\ ResponsesSent
    BY DEF ConnectivityInv
<1>a. Kept \in Nat /\ Buffer \in Nat
    BY ConnectivityAssumption
<1>1. /\ UNCHANGED <<pc, gatherVars, engineVars, answers, unasked, timeVars>> /\ Len(queue) < Buffer
      /\ pc \in {"loop", "wait"}
    BY DEF Receive
<1>2. /\ kept \in Seq(Datagram) /\ Len(kept) <= Kept /\ Len(kept) \in Nat
      /\ queue \in Seq(Datagram) /\ Len(queue) <= Buffer /\ Len(queue) \in Nat
      /\ net \subseteq Datagram
    BY <1>0 DEF TypeOK
<1>3. ASSUME NEW d \in Datagram, Sent(d), queue' = Append(queue, d)
      PROVE  /\ queue' \in Seq(Datagram) /\ Len(queue') <= Buffer
             /\ \A i \in 1..Len(queue') : Sent(queue'[i])
  <2>1. /\ queue' \in Seq(Datagram) /\ Len(queue') = Len(queue) + 1
        /\ queue'[Len(queue) + 1] = d /\ \A i \in 1..Len(queue) : queue'[i] = queue[i]
    BY <1>2, <1>3, AppendFacts
  <2>2. \A i \in 1..Len(queue) : Sent(queue[i])
    BY <1>0 DEF ResponsesSent
  <2>3. Len(queue') <= Buffer
    BY <1>1, <1>2, <1>a, <2>1
  <2>4. ASSUME NEW i \in 1..Len(queue') PROVE Sent(queue'[i])
    BY <1>2, <1>3, <2>1, <2>2
  <2> QED BY <2>1, <2>3, <2>4
<1> DEFINE Received == /\ net' \subseteq net
                       /\ kept' \in Seq(Datagram) /\ Len(kept') <= Kept
                       /\ \A i \in 1..Len(kept') : Sent(kept'[i])
                       /\ queue' \in Seq(Datagram) /\ Len(queue') <= Buffer
                       /\ \A i \in 1..Len(queue') : Sent(queue'[i])
<1>4. ASSUME kept # <<>> PROVE Received
  <2>1. queue' = Append(queue, Head(kept)) /\ kept' = Tail(kept) /\ net' = net
    BY <1>4 DEF Receive
  <2>2. /\ Head(kept) \in Datagram /\ kept' \in Seq(Datagram) /\ Len(kept') = Len(kept) - 1
        /\ Len(kept) \in Nat \ {0} /\ Head(kept) = kept[1]
        /\ \A i \in 1..Len(kept') : i + 1 \in 1..Len(kept) /\ kept'[i] = kept[i + 1]
    BY <1>2, <1>4, <2>1, TailFacts
  <2>3. \A i \in 1..Len(kept) : Sent(kept[i])
    BY <1>0 DEF ResponsesSent
  <2>4. 1 \in 1..Len(kept)
    BY <2>2
  <2>5. Sent(Head(kept)) /\ \A i \in 1..Len(kept') : Sent(kept'[i])
    BY <2>2, <2>3, <2>4
  <2>6. Len(kept') <= Kept
    BY <1>2, <1>a, <2>2
  <2>7. queue' \in Seq(Datagram) /\ Len(queue') <= Buffer /\ \A i \in 1..Len(queue') : Sent(queue'[i])
    BY <1>3, <2>1, <2>2, <2>5
  <2> QED BY <2>1, <2>2, <2>5, <2>6, <2>7
<1>5. ASSUME kept = <<>> PROVE Received
  <2>1. PICK d \in net : net' = net \ {d} /\ (queue' = queue \/ queue' = Append(queue, d)) /\ kept' = kept
    BY <1>5 DEF Receive
  <2>2. d \in Datagram /\ Sent(d)
    BY <1>0, <1>2 DEF ResponsesSent
  <2>3. /\ \A i \in 1..Len(queue) : Sent(queue[i])
        /\ \A i \in 1..Len(kept) : Sent(kept[i])
    BY <1>0 DEF ResponsesSent
  <2>4. queue' \in Seq(Datagram) /\ Len(queue') <= Buffer /\ \A i \in 1..Len(queue') : Sent(queue'[i])
    BY <1>2, <1>3, <2>1, <2>2, <2>3
  <2> QED BY <1>2, <2>1, <2>3, <2>4
<1> HIDE DEF Received
<1>6. Received
    BY <1>4, <1>5
<1>7. TypeOK'
    BY <1>0, <1>1, <1>6 DEF TypeOK, Received
<1>8. StunSound' /\ \A d \in net' : Sent(d)'
    BY <1>1, <1>6, NetShrinks DEF Received
<1>9. (\A i \in 1..Len(kept') : Sent(kept[i])') /\ \A i \in 1..Len(queue') : Sent(queue[i])'
    BY <1>1, <1>6 DEF Received, Sent
<1>10. NothingProbed' /\ QueryIsOne' /\ ExhaustedIsTried' /\ ObservedIsAsked'
    BY <1>0, <1>1 DEF NothingProbed, QueryIsOne, ExhaustedIsTried, ObservedIsAsked
<1>11. AnswersSound' /\ ValidIsNominated' /\ NominatedIsProven'
    BY <1>1, EngineAlone
<1> QED BY <1>7, <1>8, <1>9, <1>10, <1>11 DEF ConnectivityInv, ResponsesSent

(* A response that verifies proves the path it came over, and one that     *)
(* comes over the path it was asked for verifies, or a path was nominated  *)
(* before.                                                                 *)
LEMMA VerifiedIsProof ==
    ASSUME ConnectivityInv, queue # <<>>
    PROVE  /\ Verifies(Head(queue)) =>
                /\ Head(queue).nonce \in outstanding /\ Head(queue).nonce[1] \in DOMAIN cands
                /\ \E x \in answers : x.to = cands[Head(queue).nonce[1]].addr /\ x.from = x.to
           /\ \A x \in answers :
                /\ x.from = x.to
                /\ Head(queue) = [kind |-> "response", nonce |-> x.nonce, from |-> x.from]
                => Verifies(Head(queue)) \/ nominated # None
<1> DEFINE d == Head(queue)
<1>1. d = queue[1] /\ 1 \in 1..Len(queue)
    BY TailFacts DEF ConnectivityInv, TypeOK
<1>2. Sent(d)
    BY <1>1 DEF ConnectivityInv, ResponsesSent
<1>3. AnswersSound
    BY DEF ConnectivityInv
<1> HIDE DEF d
<1>4. ASSUME Verifies(d)
      PROVE  /\ d.nonce \in outstanding /\ d.nonce[1] \in DOMAIN cands
             /\ \E x \in answers : x.to = cands[d.nonce[1]].addr /\ x.from = x.to
  <2>1. d.kind = "response" /\ d.nonce \in outstanding /\ d.nonce[1] \in DOMAIN cands
        /\ cands[d.nonce[1]].addr = d.from
    BY <1>4 DEF Verifies, AddressMatches
  <2>2. PICK x \in answers : x.nonce = d.nonce /\ x.from = d.from
    BY <1>2, <2>1 DEF Sent
  <2>3. x.to = cands[d.nonce[1]].addr
    BY <1>3, <2>2 DEF AnswersSound
  <2> QED BY <2>1, <2>2, <2>3
<1>5. ASSUME NEW x \in answers, x.from = x.to, nominated = None,
             d = [kind |-> "response", nonce |-> x.nonce, from |-> x.from]
      PROVE  Verifies(d)
  <2>1. d.kind = "response" /\ d.nonce = x.nonce /\ d.from = x.to
    BY <1>5
  <2>2. x.nonce[1] \in DOMAIN cands /\ x.to = cands[x.nonce[1]].addr /\ x.nonce \in outstanding
    BY <1>3, <1>5 DEF AnswersSound
  <2> QED BY <2>1, <2>2 DEF Verifies, AddressMatches
<1> QED BY <1>4, <1>5 DEF d

(* What handleArrival does with the first arrival, whatever it is.         *)
LEMMA HandlingPreserves ==
    ASSUME ConnectivityInv, HandleArrival
    PROVE  ConnectivityInv'
<1> USE DEF timeVars, gatherVars
<1> DEFINE d == Head(queue)
<1>0. /\ TypeOK /\ AnswersSound /\ ValidIsNominated /\ NominatedIsProven /\ ObservedIsAsked
      /\ ResponsesSent
    BY DEF ConnectivityInv
<1>a. Buffer \in Nat
    BY ConnectivityAssumption
<1>1. /\ queue # <<>> /\ queue' = Tail(queue) /\ pc' = "loop"
      /\ UNCHANGED <<gatherVars, net, kept, answers, unasked, timeVars>>
    BY DEF HandleArrival
<1>2. queue \in Seq(Datagram) /\ Len(queue) <= Buffer
    BY <1>0 DEF TypeOK
<1>3. /\ d \in Datagram /\ queue' \in Seq(Datagram) /\ Len(queue') = Len(queue) - 1
      /\ Len(queue) \in Nat
      /\ \A i \in 1..Len(queue') : i + 1 \in 1..Len(queue) /\ queue'[i] = queue[i + 1]
    BY <1>1, <1>2, TailFacts
<1>4. Len(queue') <= Buffer
    BY <1>2, <1>3, <1>a
<1>5. StunSound' /\ (\A x : Sent(x)' <=> Sent(x)) /\ \A x \in net' : Sent(x)'
    BY <1>1, NetShrinks
<1>6. ResponsesSent'
  <2>1. /\ \A i \in 1..Len(queue) : Sent(queue[i])
        /\ \A i \in 1..Len(kept) : Sent(kept[i])
    BY <1>0 DEF ResponsesSent
  <2>2. \A i \in 1..Len(queue') : Sent(queue'[i])
    BY <1>3, <2>1
  <2>3. \A i \in 1..Len(queue') : Sent(queue[i])'
    BY <1>1, <2>2 DEF Sent
  <2>4. \A i \in 1..Len(kept') : Sent(kept[i])'
    BY <1>1, <2>1 DEF Sent
  <2> QED BY <1>5, <2>3, <2>4 DEF ResponsesSent
<1>7. NothingProbed' /\ QueryIsOne' /\ ExhaustedIsTried' /\ ObservedIsAsked'
    BY <1>0, <1>1 DEF NothingProbed, QueryIsOne, ExhaustedIsTried, ObservedIsAsked
<1> DEFINE EngineSound == /\ Candidates(cands') /\ nominated' \in DOMAIN cands' \cup {None}
                          /\ outstanding' \subseteq (DOMAIN cands') \X (1..MaxAttempts)
                          /\ AnswersSound' /\ ValidIsNominated' /\ NominatedIsProven'
<1>8. ASSUME d.kind = "challenge", cands' = Learn(d.from), UNCHANGED <<nominated, outstanding>>
      PROVE  EngineSound
  <2>1. d.from \in Addr
    BY <1>3, <1>8 DEF Datagram
  <2>2. Candidates(cands)
    BY <1>0 DEF TypeOK
  <2>3. <<"prflx", d.from>> \in Id /\ "prflx" \in Kind
    BY <2>1 DEF Id, Kind
  <2>4. Candidates(cands') /\ Extended(cands, cands')
    <3>1. CASE cands' = cands
      BY <2>2, <3>1 DEF Extended
    <3>2. CASE cands' = AddCandidate(cands, <<"prflx", d.from>>, "prflx", d.from)
      BY <2>1, <2>2, <2>3, <3>2, AddCandidateKeeps
    <3> QED BY <1>8, <3>1, <3>2 DEF Learn
  <2>5. DOMAIN cands \subseteq DOMAIN cands' /\ \A i \in DOMAIN cands : cands'[i] = cands[i]
    BY <2>4 DEF Extended
  <2>6. nominated' \in DOMAIN cands' \cup {None} /\ outstanding' \subseteq (DOMAIN cands') \X (1..MaxAttempts)
    BY <1>0, <1>8, <2>5 DEF TypeOK
  <2>7. AnswersSound'
    BY <1>0, <1>1, <1>8, <2>5 DEF AnswersSound
  <2>8. ValidIsNominated'
    BY <1>0, <1>8, <2>4 DEF ValidIsNominated, Extended
  <2>9. NominatedIsProven'
    BY <1>0, <1>1, <1>8, <2>5 DEF NominatedIsProven, TypeOK
  <2> QED BY <2>4, <2>6, <2>7, <2>8, <2>9
<1>9. ASSUME Verifies(d), cands' = [cands EXCEPT ![d.nonce[1]].status = "valid"],
             nominated' = IF nominated = None THEN d.nonce[1] ELSE nominated,
             outstanding' = outstanding \ {d.nonce}
      PROVE  EngineSound
  <2> DEFINE id == d.nonce[1]
  <2>1. id \in DOMAIN cands /\ \E x \in answers : x.to = cands[id].addr /\ x.from = x.to
    BY <1>1, <1>9, VerifiedIsProof
  <2>2. Candidates(cands) /\ cands \in [DOMAIN cands -> Record] /\ DOMAIN cands \subseteq Id
    BY <1>0 DEF TypeOK, Candidates, Record
  <2>3. id # None
    BY <2>1, <2>2, NoneAssumption
  <2>4. nominated' # None /\ nominated' \in DOMAIN cands
    BY <1>0, <1>9, <2>1, <2>3 DEF TypeOK
  <2>5. cands' = [cands EXCEPT ![id] = [@ EXCEPT !.status = "valid"]]
    BY <1>9
  <2> HIDE DEF id
  <2>6. ASSUME NEW i \in DOMAIN cands
        PROVE  cands'[i] \in Record /\ cands'[i].kind = cands[i].kind /\ cands'[i].addr = cands[i].addr
    <3>1. [cands[i] EXCEPT !.status = "valid"] \in Record
          /\ [cands[i] EXCEPT !.status = "valid"].kind = cands[i].kind
          /\ [cands[i] EXCEPT !.status = "valid"].addr = cands[i].addr
      BY <2>2 DEF Record, Status
    <3>2. cands'[i] = IF i = id THEN [cands[i] EXCEPT !.status = "valid"] ELSE cands[i]
      BY <2>2, <2>5
    <3> QED BY <2>2, <3>1, <3>2
  <2>7. DOMAIN cands' = DOMAIN cands /\ cands' \in [DOMAIN cands -> Record]
    BY <2>2, <2>5, <2>6
  <2>8. Candidates(cands')
    BY <2>2, <2>6, <2>7, RecordingKeeps
  <2>9. outstanding' \subseteq (DOMAIN cands') \X (1..MaxAttempts)
    BY <1>0, <1>9, <2>7 DEF TypeOK
  <2>10. AnswersSound'
    BY <1>0, <1>1, <2>4, <2>6, <2>7 DEF AnswersSound
  <2>11. ValidIsNominated'
    BY <2>4 DEF ValidIsNominated
  <2>12. NominatedIsProven'
    <3>1. CASE nominated = None
      <4>1. nominated' = id
        BY <1>9, <3>1 DEF id
      <4>2. cands'[nominated'].addr = cands[id].addr
        BY <2>1, <2>6, <4>1
      <4> QED BY <1>1, <2>1, <4>2 DEF NominatedIsProven
    <3>2. CASE nominated # None
      <4>1. nominated' = nominated /\ nominated \in DOMAIN cands
        BY <1>0, <1>9, <3>2 DEF TypeOK
      <4> QED BY <1>0, <1>1, <2>6, <3>2, <4>1 DEF NominatedIsProven
    <3> QED BY <3>1, <3>2
  <2> QED BY <2>4, <2>7, <2>8, <2>9, <2>10, <2>11, <2>12
<1>10. ASSUME UNCHANGED engineVars PROVE EngineSound
  <2>1. AnswersSound' /\ ValidIsNominated' /\ NominatedIsProven'
    BY <1>1, <1>10, EngineAlone
  <2> QED BY <1>0, <1>10, <2>1 DEF TypeOK, engineVars
<1> HIDE DEF EngineSound
<1>11. EngineSound
    BY <1>8, <1>9, <1>10 DEF HandleArrival
<1>12. TypeOK'
    BY <1>0, <1>1, <1>3, <1>4, <1>11 DEF TypeOK, EngineSound
<1> QED BY <1>5, <1>6, <1>7, <1>11, <1>12 DEF ConnectivityInv, EngineSound

(* What comes from outside joins the net as what it is.                    *)
LEMMA SendingPreserves ==
    ASSUME ConnectivityInv, NEW d \in Datagram, net' = net \cup {d},
           answers \subseteq answers', answers' \subseteq [nonce : Nonce, to : Addr, from : Addr],
           Sent(d)', d.kind = "stun" => d.addr = Mapping[d.txn],
           AnswersSound', asked' \subseteq asked, unasked' \in 0..MaxUnasked,
           UNCHANGED <<pc, local, srv, found, engineVars, kept, queue, timeVars>>
    PROVE  ConnectivityInv'
<1> USE DEF engineVars, timeVars
<1>0. /\ TypeOK /\ NothingProbed /\ QueryIsOne /\ StunSound /\ ResponsesSent /\ ValidIsNominated
      /\ NominatedIsProven /\ ExhaustedIsTried /\ ObservedIsAsked
    BY DEF ConnectivityInv
<1>1. TypeOK'
    BY <1>0 DEF TypeOK
<1>2. NothingProbed' /\ QueryIsOne' /\ ExhaustedIsTried' /\ ObservedIsAsked' /\ ValidIsNominated'
    BY <1>0 DEF NothingProbed, QueryIsOne, ExhaustedIsTried, ObservedIsAsked, ValidIsNominated
<1>3. StunSound'
    BY <1>0 DEF StunSound, Datagrams
<1>4. \A x : Sent(x) => Sent(x)'
    BY DEF Sent
<1>5. ResponsesSent'
  <2>1. \A x \in net' : Sent(x)'
    BY <1>0, <1>4 DEF ResponsesSent
  <2>2. (\A i \in 1..Len(kept) : Sent(kept[i])') /\ \A i \in 1..Len(queue) : Sent(queue[i])'
    BY <1>0 DEF ResponsesSent, Sent
  <2> QED BY <2>1, <2>2 DEF ResponsesSent
<1>6. NominatedIsProven'
    BY <1>0 DEF NominatedIsProven
<1> QED BY <1>1, <1>2, <1>3, <1>5, <1>6 DEF ConnectivityInv

(* An observer answers a query it was sent.                                *)
LEMMA ObserverPreserves ==
    ASSUME ConnectivityInv, NEW i \in asked, ServerAnswers(i)
    PROVE  ConnectivityInv'
<1> DEFINE d == [kind |-> "stun", txn |-> i, addr |-> Mapping[i]]
<1>1. TypeOK /\ AnswersSound
    BY DEF ConnectivityInv
<1>2. i \in 1..Len(Servers) /\ Mapping[i] \in Addr
    BY <1>1, ConnectivityAssumption DEF TypeOK
<1>3. /\ net' = net \cup {d} /\ asked' = asked \ {i}
      /\ UNCHANGED <<pc, local, srv, found, engineVars, kept, queue, answers, unasked, timeVars>>
    BY DEF ServerAnswers
<1>4. d \in Datagram /\ d.kind = "stun" /\ d.addr = Mapping[d.txn]
    BY <1>2 DEF Datagram
<1> HIDE DEF d
<1>5. Sent(d)'
    BY <1>4 DEF Sent
<1>6. AnswersSound'
    BY <1>3, EngineAlone
<1>7. answers' \subseteq [nonce : Nonce, to : Addr, from : Addr] /\ unasked' \in 0..MaxUnasked
    BY <1>1, <1>3 DEF TypeOK
<1> QED BY <1>3, <1>4, <1>5, <1>6, <1>7, SendingPreserves

(* The peer answers a challenge.                                           *)
LEMMA PeerPreserves ==
    ASSUME ConnectivityInv, NEW o \in outstanding, NEW from \in Addr, PeerAnswers(o, from)
    PROVE  ConnectivityInv'
<1> DEFINE d == [kind |-> "response", nonce |-> o, from |-> from]
           x == [nonce |-> o, to |-> cands[o[1]].addr, from |-> from]
<1>1. TypeOK /\ AnswersSound
    BY DEF ConnectivityInv
<1>2. o \in (DOMAIN cands) \X (1..MaxAttempts) /\ o \in Nonce /\ o[1] \in DOMAIN cands
    BY <1>1 DEF TypeOK, Candidates, Nonce
<1>3. cands[o[1]].addr \in Addr
    BY <1>1, <1>2 DEF TypeOK, Candidates
<1>4. /\ net' = net \cup {d} /\ answers' = answers \cup {x}
      /\ UNCHANGED <<pc, gatherVars, engineVars, kept, queue, unasked, timeVars>>
    BY DEF PeerAnswers
<1>5. d \in Datagram /\ d.kind = "response" /\ d.nonce = o /\ d.from = from
    BY <1>2 DEF Datagram
<1>6. x \in [nonce : Nonce, to : Addr, from : Addr] /\ x.nonce = o /\ x.from = from
      /\ x.to = cands[o[1]].addr
    BY <1>2, <1>3
<1> HIDE DEF d, x
<1>7. Sent(d)'
    BY <1>4, <1>5, <1>6 DEF Sent
<1>8. AnswersSound'
    BY <1>1, <1>2, <1>4, <1>6 DEF AnswersSound, engineVars
<1>9. answers \subseteq answers' /\ answers' \subseteq [nonce : Nonce, to : Addr, from : Addr]
    BY <1>1, <1>4, <1>6 DEF TypeOK
<1>10. unasked' \in 0..MaxUnasked
    BY <1>1, <1>4 DEF TypeOK
<1> QED BY <1>4, <1>5, <1>7, <1>8, <1>9, <1>10, SendingPreserves DEF gatherVars

(* Something comes that answers nothing.                                   *)
LEMMA UnaskedPreserves ==
    ASSUME ConnectivityInv, NEW kind \in {"challenge", "noise"}, NEW from \in PeerAddr,
           Unasked(kind, from)
    PROVE  ConnectivityInv'
<1> DEFINE d == [kind |-> kind, from |-> from]
<1>1. TypeOK /\ AnswersSound
    BY DEF ConnectivityInv
<1>2. from \in Addr /\ MaxUnasked \in Nat
    BY ConnectivityAssumption
<1>3. /\ net' = net \cup {d} /\ unasked < MaxUnasked /\ unasked' = unasked + 1
      /\ UNCHANGED <<pc, gatherVars, engineVars, kept, queue, answers, timeVars>>
    BY DEF Unasked
<1>4. d \in Datagram /\ d.kind \notin {"stun", "response"}
    BY <1>2 DEF Datagram
<1> HIDE DEF d
<1>5. Sent(d)'
    BY <1>4 DEF Sent
<1>6. AnswersSound'
    BY <1>3, EngineAlone
<1>7. answers' \subseteq [nonce : Nonce, to : Addr, from : Addr]
    BY <1>1, <1>3 DEF TypeOK
<1>8. unasked' \in 0..MaxUnasked
    BY <1>1, <1>2, <1>3 DEF TypeOK
<1> QED BY <1>3, <1>4, <1>5, <1>6, <1>7, <1>8, SendingPreserves DEF gatherVars

(* Time passes, and only while the attempt lasts.                          *)
LEMMA TimePreserves ==
    ASSUME ConnectivityInv, TimePasses \/ UNCHANGED vars
    PROVE  ConnectivityInv'
<1>0. /\ TypeOK /\ NothingProbed /\ QueryIsOne /\ ExhaustedIsTried /\ ObservedIsAsked
    BY DEF ConnectivityInv
<1>1. /\ UNCHANGED <<pc, gatherVars, engineVars, wireVars>>
      /\ late' \in BOOLEAN /\ ended' \in BOOLEAN
      /\ pc = "failed" => UNCHANGED timeVars
    BY <1>0 DEF TimePasses, vars, timeVars, Over, TypeOK
<1> USE DEF gatherVars, engineVars, wireVars, timeVars
<1>2. TypeOK'
    BY <1>0, <1>1 DEF TypeOK
<1>3. StunSound' /\ ResponsesSent' /\ AnswersSound' /\ ValidIsNominated' /\ NominatedIsProven'
    BY <1>1, WireAlone, EngineAlone
<1>4. NothingProbed' /\ QueryIsOne' /\ ObservedIsAsked'
    BY <1>0, <1>1 DEF NothingProbed, QueryIsOne, ObservedIsAsked
<1>5. ExhaustedIsTried'
    BY <1>0, <1>1 DEF ExhaustedIsTried
<1> QED BY <1>2, <1>3, <1>4, <1>5 DEF ConnectivityInv

(* Every step keeps the invariant.                                         *)
LEMMA NextPreserves == ConnectivityInv /\ [Next]_vars => ConnectivityInv'
<1> SUFFICES ASSUME ConnectivityInv, [Next]_vars PROVE ConnectivityInv'
    OBVIOUS
<1>1. CASE Steps
  <2>1. CASE (\E up \in SUBSET Interface : Gather(up)) \/ Observe \/ ObserveTimeout \/ GatherDone
             \/ PublishCandidates \/ CandidatesTimeout
    BY <2>1, GatheringPreserves
  <2>2. CASE Return \/ AwaitTimeout
    BY <2>2, EndingPreserves
  <2>3. CASE HandleArrival
    BY <2>3, HandlingPreserves
  <2>4. CASE \E ids \in SUBSET DOMAIN cands : \E lost \in SUBSET ids : ProbeRound(ids, lost)
    BY <2>4, ProbingPreserves
  <2> QED BY <1>1, <2>1, <2>2, <2>3, <2>4 DEF Steps
<1>2. CASE Receive
    BY <1>2, ReceivingPreserves
<1>3. CASE TimePasses \/ UNCHANGED vars
    BY <1>3, TimePreserves
<1>4. CASE \E d \in net : ReceiveSTUN(d) \/ DispatchProbe(d)
    BY <1>4, ObservingPreserves
<1>5. CASE \E offer \in Offers : ConsumePeerCandidates(offer)
    BY <1>5, ConsumingPreserves
<1>6. CASE \E i \in asked : ServerAnswers(i)
    BY <1>6, ObserverPreserves
<1>7. CASE \E o \in outstanding, from \in Addr : PeerAnswers(o, from)
    BY <1>7, PeerPreserves
<1>8. CASE \E kind \in {"challenge", "noise"}, from \in PeerAddr : Unasked(kind, from)
    BY <1>8, UnaskedPreserves
<1> QED BY <1>1, <1>2, <1>3, <1>4, <1>5, <1>6, <1>7, <1>8 DEF Next

(* The attempt always has what its checks rely on (Engine, Checker).       *)
THEOREM Invariant == Spec => []ConnectivityInv
BY InitEstablishes, NextPreserves, PTL DEF Spec

(* The engine admits no more candidates than it may, of those others       *)
(* suggest in particular, and none at an unsafe address, however long the  *)
(* peer's offer; the queues keep their capacities (AddCandidate, Learn).   *)
THEOREM TypeCorrect == Spec => []TypeOK
<1>1. ConnectivityInv => TypeOK
    BY DEF ConnectivityInv
<1> QED BY <1>1, Invariant, PTL

(* A nominated path was proven by an answer from the address that was      *)
(* probed (verifyResponse, RecordSuccess).                                 *)
THEOREM NominatedWasProven == Spec => []NominatedIsProven
<1>1. ConnectivityInv => NominatedIsProven
    BY DEF ConnectivityInv
<1> QED BY <1>1, Invariant, PTL

(* An attempt that fails in time has sent every candidate all its          *)
(* challenges (Probable, IsExhausted).                                     *)
THEOREM ExhaustedWasTried == Spec => []ExhaustedIsTried
<1>1. ConnectivityInv => ExhaustedIsTried
    BY DEF ConnectivityInv
<1> QED BY <1>1, Invariant, PTL

(* An observer is quoted with what it saw (parseSTUNResponse, drain).      *)
THEOREM ObservedWasAsked == Spec => []ObservedIsAsked
<1>1. ConnectivityInv => ObservedIsAsked
    BY DEF ConnectivityInv
<1> QED BY <1>1, Invariant, PTL

(* Only handleArrival takes a datagram from the queue.                     *)
LEMMA TakenIsHandled ==
    ASSUME TypeOK, [Next]_vars, queue # <<>>, queue' = Tail(queue)
    PROVE  HandleArrival
<1>1. queue \in Seq(Datagram) /\ net \subseteq Datagram /\ kept \in Seq(Datagram)
    BY DEF TypeOK
<1>2. Len(queue) \in Nat \ {0} /\ Len(queue') = Len(queue) - 1
    BY <1>1, TailFacts
<1>3. queue' # queue
  <2> SUFFICES ASSUME queue' = queue PROVE FALSE
    OBVIOUS
  <2>1. Len(queue') = Len(queue)
    BY Zenon
  <2> QED BY <1>2, <2>1
<1>4. ~Receive
  <2>1. ASSUME NEW d \in Datagram PROVE queue' # Append(queue, d)
    <3> SUFFICES ASSUME queue' = Append(queue, d) PROVE FALSE
      OBVIOUS
    <3>1. Len(Append(queue, d)) = Len(queue) + 1
      BY <1>1, AppendFacts
    <3>2. Len(queue') = Len(Append(queue, d))
      BY Zenon
    <3> QED BY <1>2, <3>1, <3>2
  <2>2. kept # <<>> => Head(kept) \in Datagram
    BY <1>1, TailFacts
  <2> QED BY <1>1, <1>3, <2>1, <2>2 DEF Receive
<1>5. ~UNCHANGED vars
    BY <1>3 DEF vars, wireVars
<1>6. CASE Steps
    BY <1>3, <1>6 DEF Steps, Gather, Observe, ObserveTimeout, GatherDone, PublishCandidates,
                      CandidatesTimeout, Return, AwaitTimeout, ProbeRound, wireVars
<1>7. ~\E d \in net : ReceiveSTUN(d) \/ DispatchProbe(d)
    BY <1>3 DEF ReceiveSTUN, DispatchProbe
<1>8. ~TimePasses /\ ~\E offer \in Offers : ConsumePeerCandidates(offer)
    BY <1>3 DEF TimePasses, ConsumePeerCandidates, wireVars
<1>9. /\ ~\E i \in asked : ServerAnswers(i)
      /\ ~\E o \in outstanding, from \in Addr : PeerAnswers(o, from)
      /\ ~\E kind \in {"challenge", "noise"}, from \in PeerAddr : Unasked(kind, from)
    BY <1>3 DEF ServerAnswers, PeerAnswers, Unasked
<1> QED BY <1>4, <1>5, <1>6, <1>7, <1>8, <1>9 DEF Next

(* An answer to any challenge of the run counts when it is read, also when *)
(* later rounds have sent their own (outstanding, handleArrival).          *)
THEOREM LateProofIsTaken == Spec => LateProofCounts
<1>1. ASSUME ConnectivityInv, [Next]_vars PROVE TakesProof
  <2> SUFFICES ASSUME NEW x \in answers, x.from = x.to, queue # <<>>, queue' = Tail(queue),
                      Head(queue) = [kind |-> "response", nonce |-> x.nonce, from |-> x.from]
               PROVE  nominated' # None
    BY DEF TakesProof
  <2>1. HandleArrival /\ TypeOK
    BY <1>1, TakenIsHandled DEF ConnectivityInv
  <2>a. ConnectivityInv
    BY <1>1
  <2>b. /\ Verifies(Head(queue)) => Head(queue).nonce[1] \in DOMAIN cands
        /\ \A y \in answers :
             /\ y.from = y.to
             /\ Head(queue) = [kind |-> "response", nonce |-> y.nonce, from |-> y.from]
             => Verifies(Head(queue)) \/ nominated # None
    BY <2>a, VerifiedIsProof
  <2>2. Verifies(Head(queue)) \/ nominated # None
    BY <2>b
  <2>3. Verifies(Head(queue)) => Head(queue).nonce[1] # None
    <3>1. DOMAIN cands \subseteq Id
      BY <2>1 DEF TypeOK, Candidates
    <3> QED BY <2>b, <3>1, NoneAssumption
  <2>4. Head(queue).kind # "challenge"
    OBVIOUS
  <2> QED BY <2>1, <2>2, <2>3, <2>4 DEF HandleArrival, engineVars
<1>2. ConnectivityInv /\ [Next]_vars => [TakesProof]_vars
    BY <1>1
<1> QED BY <1>2, Invariant, PTL DEF Spec, LateProofCounts
-----------------------------------------------------------------------------
(* The challenges a run has counted, by candidate and attempt, and all it  *)
(* may ever count.                                                         *)
Tried == {x \in (DOMAIN cands) \X (1..MaxAttempts) : x[2] <= cands[x[1]].attempts}

Budget == MaxCandidates * MaxAttempts

(* A challenge that is outstanding was counted.                            *)
OutstandingIsTried == outstanding \subseteq Tried

(* A challenge is sent under a nonce that none before it had: what was     *)
(* counted stays counted, and what is newly outstanding was not (newNonce, *)
(* RecordAttempt).  It is why a response tells which challenge it answers. *)
NoncesAreNew ==
    [][/\ Tried \subseteq Tried'
       /\ \A o \in outstanding' : o \in outstanding \/ o \notin Tried]_vars

(* The most steps an attempt may still take by itself: two for an observer *)
(* it has not asked, two for a round of challenges, and those that lead    *)
(* from one part to the next.                                              *)
RunLeft ==
    LET toAsk == Len(Servers) + 1 - srv
        unspent  == Budget - Cardinality(Tried)
    IN  CASE pc = "gather"     -> 2 * Budget + 6 + 2 * Len(Servers)
          [] pc = "observe"    -> 2 * Budget + 5 + 2 * toAsk
          [] pc = "awaitStun"  -> 2 * Budget + 4 + 2 * toAsk
          [] pc = "publish"    -> 2 * Budget + 3
          [] pc = "candidates" -> 2 * Budget + 2
          [] pc = "wait"       -> 2 * unspent + 2
          [] pc = "loop"       -> 2 * unspent + 1
          [] OTHER             -> 0

(* Every step of the attempt's own leaves it fewer to take, and nothing    *)
(* the network, the observers or the peer do gives it more, though what    *)
(* the peer sends adds candidates: what RunEnds rests on besides fairness. *)
RunCountsDown == [][(Steps => RunLeft' < RunLeft) /\ RunLeft' <= RunLeft]_vars

(* What a step may do to the candidates the engine has.                    *)
Grown(old, new) ==
    /\ DOMAIN old \subseteq DOMAIN new
    /\ \A i \in DOMAIN old : new[i].attempts >= old[i].attempts

(* A round counts one attempt for each candidate it probes.                *)
LEMMA RoundCounts ==
    ASSUME TypeOK, NEW ids \in SUBSET DOMAIN cands, NEW lost \in SUBSET ids, ProbeRound(ids, lost)
    PROVE  /\ DOMAIN cands' = DOMAIN cands
           /\ \A i \in DOMAIN cands :
                 cands'[i].attempts = IF i \in ids THEN cands[i].attempts + 1 ELSE cands[i].attempts
<1>1. /\ cands' = [id \in DOMAIN cands |->
            CASE id \in lost       -> RecordFailure(RecordAttempt(cands[id]))
              [] id \in ids \ lost -> RecordAttempt(cands[id])
              [] OTHER             -> cands[id]]
    BY DEF ProbeRound
<1>2. \A i \in DOMAIN cands : cands[i] \in Record
    BY DEF TypeOK, Candidates, Record
<1>3. ASSUME NEW i \in DOMAIN cands
      PROVE  cands'[i].attempts = IF i \in ids THEN cands[i].attempts + 1 ELSE cands[i].attempts
  <2> DEFINE c == cands[i]
             b == RecordAttempt(c)
  <2>1. b.attempts = c.attempts + 1 /\ RecordFailure(b).attempts = b.attempts
    <3>a. c.attempts + 1 \in Nat
      <4>1. MaxAttempts \in Nat /\ c.attempts \in 0..MaxAttempts
        BY <1>2, ConnectivityAssumption DEF Record
      <4> QED BY <4>1
    <3>1. b.attempts = c.attempts + 1
      BY <1>2 DEF RecordAttempt, Record
    <3>2. b \in [kind : Kind, addr : Addr \ Unsafe, status : Status, attempts : Nat]
      BY <1>2, <3>a DEF RecordAttempt, Record, Status
    <3> HIDE DEF b
    <3>3. RecordFailure(b).attempts = b.attempts
      BY <3>2 DEF RecordFailure
    <3> QED BY <3>1, <3>3
  <2>2. cands'[i] = CASE i \in lost       -> RecordFailure(b)
                      [] i \in ids \ lost -> b
                      [] OTHER            -> c
    BY <1>1
  <2> HIDE DEF b
  <2>3. CASE i \in lost
    BY <2>1, <2>2, <2>3
  <2>4. CASE i \in ids \ lost
    BY <2>1, <2>2, <2>4
  <2>5. CASE i \notin ids
    BY <2>2, <2>5
  <2> QED BY <2>3, <2>4, <2>5
<1> QED BY <1>1, <1>3

(* No step forgets a candidate or takes back an attempt.                   *)
LEMMA AttemptsOnlyGrow ==
    ASSUME ConnectivityInv, [Next]_vars
    PROVE  Grown(cands, cands')
<1>a. /\ TypeOK /\ Candidates(cands) /\ MaxAttempts \in Nat
      /\ \A i \in DOMAIN cands : cands[i] \in Record /\ cands[i].attempts \in Nat
  <2>1. TypeOK /\ Candidates(cands) /\ MaxAttempts \in Nat
    BY ConnectivityAssumption DEF ConnectivityInv, TypeOK
  <2>2. \A i \in DOMAIN cands : cands[i] \in Record
    BY <2>1 DEF Candidates, Record
  <2>3. \A r \in Record : r.attempts \in Nat
    BY <2>1 DEF Record
  <2> QED BY <2>1, <2>2, <2>3
<1>b. ASSUME Extended(cands, cands') PROVE Grown(cands, cands')
    BY <1>a, <1>b DEF Extended, Grown
<1>c. ASSUME cands' = cands PROVE Grown(cands, cands')
    BY <1>a, <1>c DEF Grown
<1>1. ASSUME NEW ids \in SUBSET DOMAIN cands, NEW lost \in SUBSET ids, ProbeRound(ids, lost)
      PROVE  Grown(cands, cands')
    BY <1>1, <1>a, RoundCounts DEF Grown
<1>2. ASSUME HandleArrival PROVE Grown(cands, cands')
  <2> DEFINE d == Head(queue)
  <2>1. queue # <<>> /\ d \in Datagram
    BY <1>2, <1>a, TailFacts DEF HandleArrival, TypeOK
  <2>2. CASE d.kind = "challenge" /\ cands' = Learn(d.from)
    <3>1. d.from \in Addr /\ <<"prflx", d.from>> \in Id /\ "prflx" \in Kind
      BY <2>1, <2>2 DEF Datagram, Id, Kind
    <3>2. CASE cands' = cands
      BY <3>2, <1>c
    <3>3. CASE cands' = AddCandidate(cands, <<"prflx", d.from>>, "prflx", d.from)
      BY <1>a, <1>b, <3>1, <3>3, AddCandidateKeeps
    <3> QED BY <2>2, <3>2, <3>3 DEF Learn
  <2>3. CASE Verifies(d) /\ cands' = [cands EXCEPT ![d.nonce[1]].status = "valid"]
    <3> DEFINE id == d.nonce[1]
    <3>1. cands' = [cands EXCEPT ![id] = [@ EXCEPT !.status = "valid"]] /\ DOMAIN cands' = DOMAIN cands
      BY <2>3
    <3> HIDE DEF id
    <3>2. ASSUME NEW i \in DOMAIN cands PROVE cands'[i].attempts = cands[i].attempts
      <4>1. cands'[i] = IF i = id THEN [cands[i] EXCEPT !.status = "valid"] ELSE cands[i]
        BY <3>1
      <4>2. [cands[i] EXCEPT !.status = "valid"].attempts = cands[i].attempts
        BY <1>a DEF Record
      <4> QED BY <4>1, <4>2
    <3> QED BY <1>a, <3>1, <3>2 DEF Grown
  <2>4. CASE UNCHANGED engineVars
    BY <2>4, <1>c DEF engineVars
  <2> QED BY <1>2, <2>2, <2>3, <2>4 DEF HandleArrival
<1>3. ASSUME NEW offer \in Offers, ConsumePeerCandidates(offer) PROVE Grown(cands, cands')
    BY <1>3, <1>a, <1>b, AddAllKeeps DEF ConsumePeerCandidates
<1>4. CASE Steps
  <2>1. CASE \/ \E up \in SUBSET Interface : Gather(up)
             \/ Observe \/ ObserveTimeout \/ GatherDone \/ PublishCandidates \/ CandidatesTimeout
             \/ Return \/ AwaitTimeout
    <3>1. cands' = cands
      BY <2>1 DEF Gather, Observe, ObserveTimeout, GatherDone, PublishCandidates,
                  CandidatesTimeout, Return, AwaitTimeout, engineVars
    <3> QED BY <1>c, <3>1
  <2> QED BY <1>1, <1>2, <1>4, <2>1 DEF Steps
<1>5. CASE \/ Receive \/ TimePasses \/ (\E d \in net : ReceiveSTUN(d) \/ DispatchProbe(d))
           \/ (\E i \in asked : ServerAnswers(i))
           \/ (\E o \in outstanding, from \in Addr : PeerAnswers(o, from))
           \/ (\E kind \in {"challenge", "noise"}, from \in PeerAddr : Unasked(kind, from))
           \/ UNCHANGED vars
  <2>1. cands' = cands
    BY <1>5 DEF Receive, TimePasses, ReceiveSTUN, DispatchProbe, ServerAnswers, PeerAnswers,
                Unasked, engineVars, vars
  <2> QED BY <1>c, <2>1
<1> QED BY <1>3, <1>4, <1>5 DEF Next

(* What may be tried is bounded by the engine's limits.                    *)
LEMMA TriedBounded ==
    ASSUME TypeOK
    PROVE  /\ Budget \in Nat /\ IsFiniteSet(Tried)
           /\ Cardinality(Tried) \in Nat /\ Cardinality(Tried) <= Budget
<1> DEFINE S == DOMAIN cands
           A == 1..MaxAttempts
<1>1. MaxCandidates \in Nat /\ MaxAttempts \in Nat \ {0}
    BY ConnectivityAssumption
<1>2. IsFiniteSet(S) /\ Cardinality(S) \in Nat /\ Cardinality(S) <= MaxCandidates
    BY FS_CardinalityType DEF TypeOK, Candidates
<1>3. IsFiniteSet(A) /\ Cardinality(A) = MaxAttempts
  <2>1. 1 \in Int /\ MaxAttempts \in Int /\ ~(1 > MaxAttempts) /\ MaxAttempts - 1 + 1 = MaxAttempts
    BY <1>1
  <2> QED BY <2>1, FS_Interval
<1>4. IsFiniteSet(S \X A) /\ Cardinality(S \X A) = Cardinality(S) * MaxAttempts
    BY <1>2, <1>3, FS_Product
<1>5. Tried \in SUBSET (S \X A)
    BY DEF Tried
<1> HIDE DEF S, A
<1>6. IsFiniteSet(Tried) /\ Cardinality(Tried) <= Cardinality(S) * MaxAttempts
    BY <1>4, <1>5, FS_Subset
<1>7. Cardinality(Tried) \in Nat
    BY <1>6, FS_CardinalityType
<1>8. ASSUME NEW a \in Nat, NEW b \in Nat, NEW c \in Nat, a <= b PROVE a * c <= b * c /\ a * c \in Nat
    BY <1>8
<1>9. /\ Cardinality(S) * MaxAttempts <= MaxCandidates * MaxAttempts
      /\ MaxCandidates * MaxAttempts \in Nat /\ Cardinality(S) * MaxAttempts \in Nat
    BY <1>1, <1>2, <1>8
<1>10. \A x, y, z \in Nat : x <= y /\ y <= z => x <= z
    OBVIOUS
<1> QED BY <1>6, <1>7, <1>9, <1>10 DEF Budget

(* What was tried stays tried, and a round adds to it.                     *)
LEMMA TriedGrows ==
    ASSUME ConnectivityInv, [Next]_vars
    PROVE  /\ Tried \subseteq Tried'
           /\ Cardinality(Tried) <= Cardinality(Tried')
<1>a. ConnectivityInv' /\ TypeOK /\ TypeOK'
    BY NextPreserves DEF ConnectivityInv
<1>1. Grown(cands, cands')
    BY AttemptsOnlyGrow
<1>2. /\ MaxAttempts \in Nat
      /\ \A i \in DOMAIN cands : cands[i].attempts \in 0..MaxAttempts
      /\ \A i \in DOMAIN cands' : cands'[i].attempts \in 0..MaxAttempts
    BY <1>a, ConnectivityAssumption DEF TypeOK, Candidates
<1>3. ASSUME NEW x \in Tried PROVE x \in Tried'
  <2>1. /\ x \in (DOMAIN cands) \X (1..MaxAttempts)
        /\ x[1] \in DOMAIN cands /\ x[2] \in 1..MaxAttempts /\ x[2] <= cands[x[1]].attempts
    BY DEF Tried
  <2>2. x[1] \in DOMAIN cands' /\ cands'[x[1]].attempts >= cands[x[1]].attempts
    BY <1>1, <2>1 DEF Grown
  <2>3. x[2] <= cands'[x[1]].attempts
    BY <1>2, <2>1, <2>2
  <2>4. x \in (DOMAIN cands') \X (1..MaxAttempts)
    BY <2>1, <2>2
  <2> QED BY <2>3, <2>4 DEF Tried
<1>4. IsFiniteSet(Tried')
  <2>1. (TypeOK => IsFiniteSet(Tried))'
    BY TriedBounded, PTL
  <2> QED BY <1>a, <2>1
<1> QED BY <1>3, <1>4, FS_Subset

(* A round tries what was not tried.                                       *)
LEMMA RoundTries ==
    ASSUME ConnectivityInv, NEW ids \in SUBSET DOMAIN cands, NEW lost \in SUBSET ids,
           ProbeRound(ids, lost)
    PROVE  /\ \A id \in ids : <<id, cands[id].attempts + 1>> \in Tried' \ Tried
           /\ Cardinality(Tried) < Cardinality(Tried')
<1>a. [Next]_vars
    BY DEF Next, Steps
<1>b. ConnectivityInv' /\ TypeOK /\ TypeOK'
    BY <1>a, NextPreserves DEF ConnectivityInv
<1>1. /\ DOMAIN cands' = DOMAIN cands
      /\ \A i \in ids : cands'[i].attempts = cands[i].attempts + 1
    BY <1>b, RoundCounts
<1>2. /\ \A i \in DOMAIN cands : cands[i].attempts \in 0..MaxAttempts
      /\ \A i \in DOMAIN cands' : cands'[i].attempts \in 0..MaxAttempts
      /\ MaxAttempts \in Nat
    BY <1>b, ConnectivityAssumption DEF TypeOK, Candidates
<1>3. ASSUME NEW id \in ids PROVE <<id, cands[id].attempts + 1>> \in Tried' \ Tried
  <2> DEFINE n == cands[id].attempts + 1
             x == <<id, n>>
  <2>1. id \in DOMAIN cands /\ n \in 1..MaxAttempts /\ n <= cands'[id].attempts
        /\ ~(n <= cands[id].attempts)
    BY <1>1, <1>2
  <2> HIDE DEF n
  <2>2. x \in (DOMAIN cands') \X (1..MaxAttempts) /\ x[1] = id /\ x[2] = n
    BY <1>1, <2>1
  <2> HIDE DEF x
  <2>3. x \in Tried'
    BY <2>1, <2>2 DEF Tried
  <2>4. x \notin Tried
    BY <2>1, <2>2 DEF Tried
  <2> QED BY <2>3, <2>4 DEF x, n
<1>4. Tried \subseteq Tried' /\ Tried # Tried'
  <2>1. PICK id \in ids : TRUE
    BY DEF ProbeRound
  <2> QED BY <1>3, <1>a, <2>1, TriedGrows
<1>5. IsFiniteSet(Tried')
  <2>1. (TypeOK => IsFiniteSet(Tried))'
    BY TriedBounded, PTL
  <2> QED BY <1>b, <2>1
<1>6. /\ Cardinality(Tried) <= Cardinality(Tried') /\ Cardinality(Tried') # Cardinality(Tried)
    BY <1>4, <1>5, FS_Subset
<1>7. Cardinality(Tried) \in Nat /\ Cardinality(Tried') \in Nat
    BY <1>b, <1>5, TriedBounded, FS_CardinalityType
<1> QED BY <1>3, <1>6, <1>7

(* Only a round makes a challenge outstanding.                             *)
LEMMA OutstandingGrows ==
    ASSUME ConnectivityInv, [Next]_vars, NEW o \in outstanding', o \notin outstanding
    PROVE  o \in Tried' \ Tried
<1>1. PICK ids \in SUBSET DOMAIN cands : \E lost \in SUBSET ids : ProbeRound(ids, lost)
  <2>1. outstanding' # outstanding
    OBVIOUS
  <2>2. ~HandleArrival
    BY DEF HandleArrival, engineVars
  <2>3. CASE Steps
    BY <2>1, <2>2, <2>3 DEF Steps, Gather, Observe, ObserveTimeout, GatherDone,
        PublishCandidates, CandidatesTimeout, Return, AwaitTimeout, engineVars
  <2>4. ~Receive /\ ~TimePasses /\ ~UNCHANGED vars
    BY <2>1 DEF Receive, TimePasses, engineVars, vars
  <2>5. ~\E d \in net : ReceiveSTUN(d) \/ DispatchProbe(d)
    BY <2>1 DEF ReceiveSTUN, DispatchProbe, engineVars
  <2>6. ~\E offer \in Offers : ConsumePeerCandidates(offer)
    BY <2>1 DEF ConsumePeerCandidates
  <2>7. /\ ~\E i \in asked : ServerAnswers(i)
        /\ ~\E x \in outstanding, from \in Addr : PeerAnswers(x, from)
        /\ ~\E kind \in {"challenge", "noise"}, from \in PeerAddr : Unasked(kind, from)
    BY <2>1 DEF ServerAnswers, PeerAnswers, Unasked, engineVars
  <2> QED BY <2>3, <2>4, <2>5, <2>6, <2>7 DEF Next
<1>2. PICK lost \in SUBSET ids : ProbeRound(ids, lost)
    BY <1>1
<1>3. PICK id \in ids : o = <<id, cands[id].attempts + 1>>
    BY <1>2 DEF ProbeRound, Outstand
<1> QED BY <1>2, <1>3, RoundTries

(* Candidate and attempt tell the challenges of a run apart, as the code's *)
(* random nonces do (newNonce): one that is sent was not counted before,   *)
(* and what is counted stays so, though candidates are added while the run *)
(* lasts and the sending of some challenges fails (RecordAttempt).         *)
THEOREM ChallengesAreFresh == Spec => NoncesAreNew
<1> DEFINE New == /\ Tried \subseteq Tried'
                  /\ \A o \in outstanding' : o \in outstanding \/ o \notin Tried
<1>1. ConnectivityInv /\ [Next]_vars => [New]_vars
    BY TriedGrows, OutstandingGrows
<1> HIDE DEF New
<1>2. Spec => [][New]_vars
    BY <1>1, Invariant, PTL DEF Spec
<1> QED BY <1>2 DEF New, NoncesAreNew

(* A run never sends more challenges than MaxCandidates times MaxAttempts: *)
(* each that is outstanding was counted, and no more are ever counted,     *)
(* whatever the peer suggests meanwhile (RecordAttempt, AddCandidate).     *)
THEOREM ChallengesAreBounded == Spec => [](OutstandingIsTried /\ Cardinality(Tried) <= Budget)
<1>1. Init => OutstandingIsTried
    BY DEF Init, OutstandingIsTried
<1>2. ConnectivityInv /\ [Next]_vars /\ OutstandingIsTried => OutstandingIsTried'
    BY TriedGrows, OutstandingGrows DEF OutstandingIsTried
<1>3. ConnectivityInv => Cardinality(Tried) <= Budget
    BY TriedBounded DEF ConnectivityInv
<1> QED BY <1>1, <1>2, <1>3, Invariant, PTL DEF Spec

(* A step of the attempt's own, or of the network's, as to what is left.   *)
LEMMA StepCountsDown ==
    ASSUME ConnectivityInv, Next
    PROVE  (Steps => RunLeft' < RunLeft) /\ RunLeft' <= RunLeft
<1> DEFINE n == Len(Servers)
           B == Budget
           a == B - Cardinality(Tried)
           b == B - Cardinality(Tried')
           Of(p, s, u) ==
              CASE p = "gather"     -> 2 * B + 6 + 2 * n
                [] p = "observe"    -> 2 * B + 5 + 2 * (n + 1 - s)
                [] p = "awaitStun"  -> 2 * B + 4 + 2 * (n + 1 - s)
                [] p = "publish"    -> 2 * B + 3
                [] p = "candidates" -> 2 * B + 2
                [] p = "wait"       -> 2 * u + 2
                [] p = "loop"       -> 2 * u + 1
                [] OTHER            -> 0
<1>a. ConnectivityInv' /\ TypeOK /\ TypeOK'
    BY NextPreserves DEF ConnectivityInv
<1>1. /\ n \in Nat /\ B \in Nat /\ a \in 0..B /\ b \in 0..B /\ b <= a
      /\ srv \in 1..n + 1 /\ srv' \in 1..n + 1
  <2>1. n \in Nat /\ srv \in 1..n + 1 /\ srv' \in 1..n + 1
    BY <1>a, ConnectivityAssumption DEF TypeOK
  <2>2. B \in Nat /\ Cardinality(Tried) \in Nat /\ Cardinality(Tried) <= B
    BY <1>a, TriedBounded
  <2>3. Cardinality(Tried') \in Nat /\ Cardinality(Tried') <= B
    <3>1. (TypeOK => Cardinality(Tried) \in Nat /\ Cardinality(Tried) <= Budget)'
      BY TriedBounded, PTL
    <3> QED BY <1>a, <3>1 DEF Budget
  <2>4. Cardinality(Tried) <= Cardinality(Tried')
    BY TriedGrows
  <2> QED BY <2>1, <2>2, <2>3, <2>4
<1>2. RunLeft = Of(pc, srv, a) /\ RunLeft' = Of(pc', srv', b)
    BY DEF RunLeft, Budget
<1> DEFINE Way(from, to) == pc = from /\ pc' = to
           Falls == \/ Way("gather", "publish") \/ Way("gather", "observe")
                    \/ Way("observe", "awaitStun") /\ srv' = srv
                    \/ Way("observe", "observe") /\ srv' = srv + 1
                    \/ Way("awaitStun", "observe") /\ srv' = srv + 1
                    \/ Way("observe", "publish")
                    \/ pc = "publish" /\ pc' \in {"candidates", "failed"}
                    \/ pc = "candidates" /\ pc' \in {"loop", "failed"}
                    \/ pc = "loop" /\ pc' \in {"done", "failed"}
                    \/ Way("loop", "wait") /\ b < a
                    \/ Way("wait", "loop")
           Stays == UNCHANGED <<pc, srv>>
<1>3. Steps => Falls
  <2>1. ASSUME NEW up \in SUBSET Interface, Gather(up) PROVE Falls
    BY <2>1 DEF Gather
  <2>2. CASE Observe \/ ObserveTimeout \/ GatherDone
    BY <2>2 DEF Observe, ObserveTimeout, GatherDone
  <2>3. CASE PublishCandidates \/ CandidatesTimeout \/ Return \/ HandleArrival \/ AwaitTimeout
    BY <2>3 DEF PublishCandidates, CandidatesTimeout, Return, HandleArrival, AwaitTimeout
  <2>4. ASSUME NEW ids \in SUBSET DOMAIN cands, NEW lost \in SUBSET ids, ProbeRound(ids, lost)
        PROVE  Falls
    <3>1. Cardinality(Tried) < Cardinality(Tried') /\ Way("loop", "wait")
      BY <2>4, RoundTries DEF ProbeRound
    <3>2. Cardinality(Tried) \in Nat /\ B \in Nat
      BY <1>a, TriedBounded
    <3>3. Cardinality(Tried') \in Nat
      <4>1. (TypeOK => Cardinality(Tried) \in Nat)'
        BY TriedBounded, PTL
      <4> QED BY <1>a, <4>1
    <3>4. b < a
      BY <3>1, <3>2, <3>3
    <3> QED BY <3>1, <3>4
  <2> QED BY <2>1, <2>2, <2>3, <2>4 DEF Steps
<1>4. Falls \/ Stays
  <2>1. ASSUME NEW d \in net, ReceiveSTUN(d) PROVE Falls \/ Stays
    BY <2>1 DEF ReceiveSTUN
  <2>2. ASSUME NEW offer \in Offers, ConsumePeerCandidates(offer) PROVE Falls
    BY <2>2 DEF ConsumePeerCandidates
  <2>3. CASE \/ Receive \/ TimePasses \/ (\E d \in net : DispatchProbe(d))
             \/ (\E i \in asked : ServerAnswers(i))
             \/ (\E o \in outstanding, from \in Addr : PeerAnswers(o, from))
             \/ (\E kind \in {"challenge", "noise"}, from \in PeerAddr : Unasked(kind, from))
    BY <2>3 DEF Receive, TimePasses, DispatchProbe, ServerAnswers, PeerAnswers, Unasked,
                gatherVars
  <2> QED BY <1>3, <2>1, <2>2, <2>3 DEF Next
<1> HIDE DEF n, B, a, b
<1>5. Falls => Of(pc', srv', b) < Of(pc, srv, a)
  <2>1. CASE pc \in {"gather", "observe", "awaitStun"}
    BY <1>1, <2>1
  <2>2. CASE pc \notin {"gather", "observe", "awaitStun"}
    BY <1>1, <2>2
  <2> QED BY <2>1, <2>2
<1>6. Stays => Of(pc', srv', b) <= Of(pc, srv, a)
    BY <1>1
<1>7. Of(pc', srv', b) \in Int /\ Of(pc, srv, a) \in Int
    BY <1>1
<1> HIDE DEF Falls, Stays, Of
<1> QED BY <1>2, <1>3, <1>4, <1>5, <1>6, <1>7

(* Finding a path takes a number of steps that the observers and the       *)
(* budget of challenges bound, whatever is lost, late or sent besides:     *)
(* with the weak fairness of the attempt's goroutine, this is why RunEnds  *)
(* holds without the clock.  The publication among its steps may not come. *)
THEOREM RunSpendsItsBudget == Spec => RunCountsDown /\ [](RunLeft \in Nat)
<1> DEFINE Down == (Steps => RunLeft' < RunLeft) /\ RunLeft' <= RunLeft
<1>1. ConnectivityInv /\ [Next]_vars => [Down]_vars
    BY StepCountsDown
<1> HIDE DEF Down
<1>2. Spec => [][Down]_vars
    BY <1>1, Invariant, PTL DEF Spec
<1>3. ConnectivityInv => RunLeft \in Nat
  <2> SUFFICES ASSUME ConnectivityInv PROVE RunLeft \in Nat
    OBVIOUS
  <2>1. TypeOK
    BY DEF ConnectivityInv
  <2>2. Len(Servers) \in Nat /\ srv \in 1..Len(Servers) + 1
    BY <2>1, ConnectivityAssumption DEF TypeOK
  <2>3. Budget \in Nat /\ Cardinality(Tried) \in Nat /\ Cardinality(Tried) <= Budget
    BY <2>1, TriedBounded
  <2> DEFINE toAsk   == Len(Servers) + 1 - srv
             unspent == Budget - Cardinality(Tried)
  <2>4. toAsk \in Nat /\ unspent \in Nat
    BY <2>2, <2>3
  <2>5. RunLeft \in {2 * Budget + 6 + 2 * Len(Servers), 2 * Budget + 5 + 2 * toAsk,
                    2 * Budget + 4 + 2 * toAsk, 2 * Budget + 3, 2 * Budget + 2,
                    2 * unspent + 2, 2 * unspent + 1, 0}
    BY DEF RunLeft
  <2> HIDE DEF toAsk, unspent
  <2> QED BY <2>2, <2>3, <2>4, <2>5
<1>4. Spec => [](RunLeft \in Nat)
    BY <1>3, Invariant, PTL
<1> QED BY <1>2, <1>4 DEF Down, RunCountsDown
=============================================================================
